--------------------------- MODULE GatewayLeases ----------------------------
(***************************************************************************)
(* The caller of the supervisor: the gateway (gateway/app.py), which       *)
(* acquires a lease for each job and returns it in a finally clause.  The  *)
(* supervisor is the module Supervisor, its arrivals, releases and resets  *)
(* now driven by the gateway.                                              *)
(***************************************************************************)
EXTENDS Supervisor

CONSTANTS
  AnswersMayBeLate, \* an acquire may outlast the gateway's 600 s timeout
  ReleasesMayFail,  \* a release may fail as often as the gateway retries it
  GatewayMayRestart

ASSUME CallersAssumption ==
  {AnswersMayBeLate, ReleasesMayFail, GatewayMayRestart} \subseteq BOOLEAN

VARIABLES
  client,  \* where the caller of each acquire is; "dead" when its process ended
  gateway  \* "up", or "starting" until its startup hook has reset the leases
gatewayVars == <<client, gateway>>
allVars == <<vars, gatewayVars>>

GatewayInit ==
  /\ Init
  /\ client = [r \in Acquires |-> "idle"]
  /\ gateway = "up"

Move(r, state) == client' = [client EXCEPT ![r] = state] /\ UNCHANGED gateway

-----------------------------------------------------------------------------
(* A job: acquire_service, the work, release_service                       *)

\* Mutant of Serving: the startup hook runs in the background.
ServingAlways == TRUE

\* The gateway serves once its startup hook has run.
Serving == gateway = "up"

Call(r) ==
  /\ client[r] = "idle"
  /\ Serving
  /\ ~Busy
  /\ Arrive(r)
  /\ Move(r, "acquiring")

\* The supervisor's answer: the lease, or an error after which the gateway
\* releases the lease_id once, in case the grant was not heard of.
Answer(r) ==
  /\ client[r] = "acquiring"
  /\ \/ task[r] = "held" /\ Move(r, "working")
     \/ task[r] = "failed" /\ Move(r, "aborting")
  /\ UNCHANGED vars

\* httpx gives up on the acquire; the supervisor's handler is not cancelled.
GiveUp(r) ==
  /\ AnswersMayBeLate
  /\ client[r] = "acquiring"
  /\ task[r] # "failed"
  /\ Move(r, "aborting")
  /\ UNCHANGED vars

\* The backend has answered, or failed: the finally clause releases.
Finish(r) ==
  /\ client[r] = "working"
  /\ Move(r, "releasing")
  /\ UNCHANGED vars

ReturnLease(r) ==
  /\ client[r] \in {"releasing", "retrying", "aborting"}
  /\ ~Busy
  /\ Release(r)
  /\ Move(r, "gone")

\* A failed release is retried in the background for a minute; the release
\* after a failed acquire is tried once.
ReleaseFails(r) ==
  /\ ReleasesMayFail
  /\ \/ client[r] = "releasing" /\ Move(r, "retrying")
     \/ client[r] \in {"retrying", "aborting"} /\ Move(r, "gone")
  /\ UNCHANGED vars

\* The release takes effect but its answer is lost, or the cleanup of a stream
\* is cancelled while it waits for it: the release is sent again.
ReleaseUnheard(r) ==
  /\ ReleasesMayFail
  /\ client[r] \in {"releasing", "retrying"}
  /\ ~Busy
  /\ Release(r)
  /\ Move(r, "retrying")

-----------------------------------------------------------------------------
(* Restarts                                                                *)

\* The gateway process ends with its jobs; its calls run on in the supervisor.
GatewayRestart ==
  /\ GatewayMayRestart
  /\ lease_epoch < MaxEpoch  \* bounded with the resets
  /\ gateway = "up"
  /\ gateway' = "starting"
  /\ client' = [r \in Acquires |-> IF client[r] \in {"idle", "gone"} THEN client[r] ELSE "dead"]
  /\ UNCHANGED vars

\* reset_stale_leases, before the gateway serves its first request.
GatewayStarts ==
  /\ gateway = "starting"
  /\ ~Busy
  /\ ResetLeases
  /\ gateway' = "up"
  /\ UNCHANGED client

\* A restarting supervisor breaks the connections it has not answered.
SupervisorRestart ==
  /\ Restart
  /\ client' = [r \in Acquires |-> IF client[r] = "acquiring" THEN "aborting" ELSE client[r]]
  /\ UNCHANGED gateway

-----------------------------------------------------------------------------
\* The steps the supervisor takes by itself.
Unprompted ==
  \/ \E r \in Requests : (Inside(r) \/ ~Busy) /\ Handler(r)
  \/ ~Busy /\ \/ \E r \in Requests \ Acquires : Arrive(r)
              \/ \E s \in Services : IdleTask(s)
              \/ ResetSchedules
  \/ Background

GatewayNext ==
  \/ \E r \in Acquires :
       \/ Call(r) \/ Answer(r) \/ GiveUp(r) \/ Finish(r)
       \/ ReturnLease(r) \/ ReleaseFails(r) \/ ReleaseUnheard(r)
  \/ GatewayRestart \/ GatewayStarts \/ SupervisorRestart
  \/ Unprompted /\ UNCHANGED gatewayVars

GatewaySpec == GatewayInit /\ [][GatewayNext]_allVars

\* As in Supervisor; the callers go on with what they are doing, and a backend
\* answers or fails.
GatewayFairness ==
  /\ ServerFairness
  /\ \A r \in Acquires :
       WF_allVars(Answer(r)) /\ WF_allVars(Finish(r)) /\ WF_allVars(ReturnLease(r))
  /\ WF_allVars(GatewayStarts)

FairGatewaySpec == GatewaySpec /\ GatewayFairness

-----------------------------------------------------------------------------
(* Properties                                                              *)

\* A job is on a worker only under its lease: no reset, restart, or release of
\* a call that was abandoned takes the lease from under it.
WorkingHoldsLease == \A r \in Acquires : client[r] = "working" => r \in active_leases

\* The leases nobody is going to return.
Orphans == {r \in active_leases : client[r] \in {"gone", "dead"}}

\* Once a gateway serves, no lease of the process before it remains or is
\* granted, although its acquires may still be running in the supervisor.
NoLeaseOfTheDead == gateway = "up" => \A r \in active_leases : client[r] # "dead"

\* Every job that asks for a worker is over at last, its lease returned; only a
\* lease that was lost can keep it waiting.
JobsEnd ==
  \A r \in Acquires :
    client[r] = "acquiring" ~>
      (client[r] \in {"gone", "dead"} /\ r \notin active_leases) \/ Orphans # {}

\* No lease is lost at all: "this idempotent release prevents a persistent
\* orphaned lease" (gateway/app.py).
NoOrphans == gateway = "up" => Orphans = {}
=============================================================================
