--------------------------- MODULE GatewayRequests ---------------------------
(***************************************************************************)
(* A request that the gateway forwards to a backend: its job               *)
(* (create_job, finish_job), its lease, the backend's answer in one piece  *)
(* (forward_buffered) or as a stream whose cleanup may itself be           *)
(* cancelled (forward_streaming), and the event by which it is screened    *)
(* after its response (attach_screening_task), which goes to the module    *)
(* EvalQueue.  What the supervisor does with the leases is in              *)
(* GatewayLeases.                                                          *)
(***************************************************************************)
EXTENDS EvalQueue

CONSTANTS
  Requests,          \* the requests, and ids of their events
  VoiceTurns,        \* ids of the events of finished voice turns
  TurnEvents         \* what such an event may say

ASSUME RequestsAssumption == Events = Requests \cup VoiceTurns

VARIABLES
  request,      \* of each request
  active_jobs,  \* ACTIVE_JOBS, by request
  job_history,  \* JOB_HISTORY: how many entries each request has in it
  turns         \* the voice turns that are over and whose event is to be posted
requestVars == <<request, active_jobs, job_history, turns>>
allVars == <<queueVars, requestVars>>

\* "stream" is how the answer is asked for, "http" the status of the response,
\* "bytes" what is known of its length, "lease" whether the lease is held, "cleanup"
\* how far each of the two attempts of a stream's cleanup is, the first one "pending"
\* in a generator that was dropped, "released" its flag, "lost" whether nobody ever
\* read the stream.
NewRequest == [at |-> "none", stream |-> FALSE, http |-> "none", bytes |-> "unknown",
               identified |-> FALSE, lease |-> FALSE,
               cleanup |-> [n \in {1, 2} |-> "no"], released |-> FALSE, lost |-> FALSE]

RequestsInit ==
  /\ QueueInit
  /\ request = [q \in Requests |-> NewRequest]
  /\ active_jobs = {} /\ job_history = [q \in Requests |-> 0] /\ turns = VoiceTurns

At(q, at) == request[q].at = at
Becomes(q, record) == request' = [request EXCEPT ![q] = record]
jobs == <<active_jobs, job_history>>

CreateJob(q) == active_jobs' = active_jobs \cup {q} /\ UNCHANGED job_history
\* finish_job
FinishJob(q) ==
  /\ active_jobs' = active_jobs \ {q}
  /\ job_history' = [job_history EXCEPT ![q] = @ + 1]

-----------------------------------------------------------------------------
(* chat, responses, transcribe, speech                                     *)

\* The body, the invocation or its model is refused; only an invocation that was
\* made is screened.
Refuses(q, screened) ==
  /\ At(q, "none")
  /\ Becomes(q, [request[q] EXCEPT !.at = IF screened THEN "answered" ELSE "over",
                                   !.http = "4xx", !.bytes = "some"])
  /\ UNCHANGED <<jobs, turns>>

Forwards(q, stream) ==
  /\ At(q, "none")
  /\ CreateJob(q)
  /\ Becomes(q, [request[q] EXCEPT !.at = "acquiring", !.stream = stream, !.identified = TRUE])
  /\ UNCHANGED turns

\* acquire_service_for_request
Acquires(q) ==
  /\ At(q, "acquiring")
  /\ Becomes(q, [request[q] EXCEPT !.at = "forwarding", !.lease = TRUE])
  /\ UNCHANGED <<jobs, turns>>

-----------------------------------------------------------------------------
(* forward_buffered                                                        *)

\* No lease, or no answer from the backend: the except clause.
BufferedFails(q) ==
  /\ ~request[q].stream /\ request[q].at \in {"acquiring", "forwarding"}
  /\ FinishJob(q)
  /\ Becomes(q, [request[q] EXCEPT !.at = IF request[q].lease THEN "releasing" ELSE "answered",
                                   !.http = "5xx", !.bytes = "some"])
  /\ UNCHANGED turns

BufferedAnswers(q, http, bytes) ==
  /\ ~request[q].stream /\ At(q, "forwarding")
  /\ FinishJob(q)
  /\ Becomes(q, [request[q] EXCEPT !.at = "releasing", !.http = http, !.bytes = bytes])
  /\ UNCHANGED turns

\* The finally clause.
BufferedReleases(q) ==
  /\ ~request[q].stream /\ At(q, "releasing")
  /\ Becomes(q, [request[q] EXCEPT !.at = "answered", !.lease = FALSE])
  /\ UNCHANGED <<jobs, turns>>

-----------------------------------------------------------------------------
(* forward_streaming                                                       *)

\* Setting the stream up fails: its cleanup runs in the except clause.
StreamFails(q) ==
  /\ request[q].stream /\ request[q].at \in {"acquiring", "forwarding"}
  /\ Becomes(q, [request[q] EXCEPT !.at = "failing", !.http = "5xx", !.bytes = "some",
                                   !.cleanup[1] = "closing"])
  /\ UNCHANGED <<jobs, turns>>

StreamOpens(q, http) ==
  /\ request[q].stream /\ At(q, "forwarding")
  /\ Becomes(q, [request[q] EXCEPT !.at = "opened", !.http = http])
  /\ UNCHANGED <<jobs, turns>>

\* The iterator is begun, or the client is gone before that.
StreamBegins(q) ==
  /\ At(q, "opened")
  /\ Becomes(q, [request[q] EXCEPT !.at = "streaming"])
  /\ UNCHANGED <<jobs, turns>>

StreamLost(q) ==
  /\ At(q, "opened")
  /\ Becomes(q, [request[q] EXCEPT !.at = "answered", !.lost = TRUE])
  /\ UNCHANGED <<jobs, turns>>

\* The backend ends or breaks the stream, or the client is found disconnected:
\* the finally clause of the iterator.
StreamEnds(q) ==
  /\ At(q, "streaming")
  /\ Becomes(q, [request[q] EXCEPT !.at = "cleaning", !.cleanup[1] = "closing"])
  /\ UNCHANGED <<jobs, turns>>

\* The response is cancelled while it sends a chunk, its generator being suspended
\* at the yield: it is over, and the generator will be finalised by a task of its own.
StreamAbandoned(q) ==
  /\ At(q, "streaming")
  /\ Becomes(q, [request[q] EXCEPT !.at = "answered", !.cleanup[1] = "pending"])
  /\ UNCHANGED <<jobs, turns>>

GeneratorFinalised(q) ==
  /\ request[q].cleanup[1] = "pending"
  /\ Becomes(q, [request[q] EXCEPT !.cleanup[1] = "closing"])
  /\ UNCHANGED <<jobs, turns>>

\* Mutant of LockFree: an attempt that is cancelled keeps the lock.
LockFreeNever(q, n) == n = 2 => request[q].cleanup[1] = "no"
\* cleanup_lock: leaving the first attempt, cancelled or not, gives it back.
LockFree(q, n) == n = 2 => request[q].cleanup[1] = "done"

Cleans(q, n, step) == request[q].cleanup[n] = step /\ LockFree(q, n)

\* The steps of cleanup, under its lock, whether or not the response is over by
\* then: an attempt that finds it done returns.
CleanupReturns(q, n) ==
  /\ Cleans(q, n, "closing") /\ request[q].released
  /\ Becomes(q, [request[q] EXCEPT !.cleanup[n] = "done"])
  /\ UNCHANGED <<jobs, turns>>

\* Mutant of MarkedBy: the flag is set before the work is done.
MarkedByAll(step) == TRUE
\* released is set after the job was finished.
MarkedBy(step) == step = "finished"

\* upstream.aclose and client.aclose
CleanupCloses(q, n) ==
  /\ Cleans(q, n, "closing") /\ ~request[q].released
  /\ Becomes(q, [request[q] EXCEPT !.cleanup[n] = "releasing", !.released = MarkedBy("closed")])
  /\ UNCHANGED <<jobs, turns>>

CleanupReleases(q, n) ==
  /\ Cleans(q, n, "releasing")
  /\ active_jobs' = active_jobs \ {q}
  /\ job_history' = IF q \in active_jobs THEN [job_history EXCEPT ![q] = @ + 1] ELSE job_history
  /\ Becomes(q, [request[q] EXCEPT !.cleanup[n] = "done", !.lease = FALSE,
                                   !.released = MarkedBy("finished") \/ @])
  /\ UNCHANGED turns

\* The task of the response is cancelled at an await of its cleanup: a second
\* attempt is a task of its own.  A release that was sent may have been served.
CleanupCancelled(q, served) ==
  /\ At(q, "cleaning") /\ request[q].cleanup[1] \in {"closing", "releasing"}
  /\ served => request[q].cleanup[1] = "releasing"
  /\ Becomes(q, [request[q] EXCEPT !.cleanup = [n \in {1, 2} |-> IF n = 1 THEN "done" ELSE "closing"],
                                   !.lease = @ /\ ~served])
  /\ UNCHANGED <<jobs, turns>>

\* Cancelled while it closes the upstream, cleanup goes on in its finally clause,
\* and the second attempt follows all the same.
CleanupInterrupted(q) ==
  /\ At(q, "cleaning") /\ request[q].cleanup[1] = "closing"
  /\ Becomes(q, [request[q] EXCEPT !.cleanup[1] = "releasing", !.cleanup[2] = "closing"])
  /\ UNCHANGED <<jobs, turns>>

\* The response is cancelled again, at the shield: it is over, and the second
\* attempt, which nobody cancels, goes on behind it.
ShieldCancelled(q) ==
  /\ At(q, "cleaning")
  /\ request[q].cleanup[1] = "done" /\ request[q].cleanup[2] # "no"
  /\ Becomes(q, [request[q] EXCEPT !.at = "answered"])
  /\ UNCHANGED <<jobs, turns>>

CleanedUp(q) ==
  /\ request[q].at \in {"failing", "cleaning"}
  /\ \A n \in {1, 2} : request[q].cleanup[n] \in {"no", "done"}
  /\ Becomes(q, [request[q] EXCEPT !.at = "answered"])
  /\ UNCHANGED <<jobs, turns>>

-----------------------------------------------------------------------------
(* Screening                                                               *)

EventOf(q, isSlow) == [http |-> request[q].http, bytes |-> request[q].bytes,
                       identified |-> request[q].identified, slow |-> isSlow]

\* The task behind the response posts the event once; it may be lost.
Reports(q, stored, isSlow) ==
  /\ At(q, "answered")
  /\ Becomes(q, [request[q] EXCEPT !.at = "over"])
  /\ IF stored THEN SaveScreening(q, EvaluateInvocation(EventOf(q, isSlow)))
               ELSE UNCHANGED queueVars
  /\ UNCHANGED <<jobs, turns>>

\* report_voice_evaluation hands the event of a turn on.
ReportsTurn(t, event, stored) ==
  /\ t \in turns
  /\ turns' = turns \ {t}
  /\ IF stored THEN SaveScreening(t, EvaluateVoiceTurn(event)) ELSE UNCHANGED queueVars
  /\ UNCHANGED <<request, jobs>>

-----------------------------------------------------------------------------
CleanupStep(q, n) == CleanupReturns(q, n) \/ CleanupCloses(q, n) \/ CleanupReleases(q, n)

Forwarding(q) ==
  \/ Acquires(q) \/ \E stream \in BOOLEAN : Forwards(q, stream)
  \/ BufferedFails(q) \/ BufferedReleases(q)
  \/ \E http \in {"2xx", "3xx", "4xx", "5xx"} :
       \/ \E bytes \in {"zero", "some"} : BufferedAnswers(q, http, bytes)
       \/ StreamOpens(q, http)
  \/ StreamFails(q) \/ StreamBegins(q) \/ StreamEnds(q) \/ CleanedUp(q)
  \/ GeneratorFinalised(q) \/ \E n \in {1, 2} : CleanupStep(q, n)

RequestStep(q) ==
  \/ Forwarding(q) \/ StreamLost(q) \/ StreamAbandoned(q)
  \/ CleanupInterrupted(q) \/ ShieldCancelled(q)
  \/ \E b \in BOOLEAN : Refuses(q, b) \/ CleanupCancelled(q, b)

ScreeningStep ==
  \/ \E q \in Requests, stored, isSlow \in BOOLEAN : Reports(q, stored, isSlow)
  \/ \E t \in turns, event \in TurnEvents, stored \in BOOLEAN : ReportsTurn(t, event, stored)

RequestsNext ==
  \/ \E q \in Requests : RequestStep(q) /\ UNCHANGED queueVars
  \/ ScreeningStep
  \/ QueueStep /\ UNCHANGED requestVars

\* Workers look for work again and again and end what they do; time passes.
QueueFairness ==
  /\ \A w \in Workers : WF_allVars(ClaimNext(w) /\ UNCHANGED requestVars)
                       /\ WF_allVars(Ends(w) /\ UNCHANGED requestVars)
  /\ \A e \in Events : WF_allVars(ClaimForgotten(e) /\ UNCHANGED requestVars)

\* The event loop runs on what is left of a cleanup and finalises dropped generators;
\* nothing else of a request is sure to happen.
CleanupFairness ==
  \A q \in Requests :
    /\ WF_allVars(GeneratorFinalised(q) /\ UNCHANGED queueVars)
    /\ \A n \in {1, 2} : WF_allVars(CleanupStep(q, n) /\ UNCHANGED queueVars)

FairRequestsSpec ==
  RequestsInit /\ [][RequestsNext]_allVars /\ QueueFairness /\ CleanupFairness

-----------------------------------------------------------------------------
(* Properties                                                              *)

Answered(q) == request[q].at \in {"answered", "over"} /\ ~request[q].lost
CleanedBehind(q) == \E n \in {1, 2} : request[q].cleanup[n] \in {"pending", "closing", "releasing"}
KeepsNothing(q) == q \notin active_jobs /\ ~request[q].lease

\* The response to a request may be over before its job and its lease are, when it is
\* cancelled at the shield or at a yield; but then an attempt that nobody cancels is
\* still to come, and an attempt that returns at once finds everything done.  No job
\* is finished twice, and none that was begun is missing.  Streams that nobody began
\* to read are left out (gateway/app.py, cleanup and iterator of forward_streaming).
RequestsSettled ==
  \A q \in Requests :
    /\ job_history[q] <= 1
    /\ Answered(q) =>
         /\ KeepsNothing(q) \/ (CleanedBehind(q) /\ ~request[q].released)
         /\ job_history[q] = 0
              => q \in active_jobs \/ (request[q].http = "4xx" /\ ~request[q].identified)

\* What outlives a response ends all the same, wherever the response was cancelled
\* and however far the attempt cancelled with it had come.
CleanupsEnd == \A q \in Requests : Answered(q) ~> KeepsNothing(q)
=============================================================================
