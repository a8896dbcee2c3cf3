------------------------ MODULE GatewayRequestsProofs ------------------------
(***************************************************************************)
(* For any events and workers, any number of slow or stopped workers and   *)
(* any number of requests: no failure is dropped, no late result is        *)
(* stored, and what an answered request still holds is being cleaned up.   *)
(***************************************************************************)
EXTENDS GatewayRequests, TLAPS

-----------------------------------------------------------------------------
(* The queue                                                               *)

Statuses == {"none", "queued", "claimed", "completed", "error"}
Orders == {0} \cup {Cardinality(S) + 1 : S \in SUBSET Events}
RowType == [status : Statuses, order : Orders, by : Workers \cup {"nobody"}, claims : Nat,
            result : Nat, stale : BOOLEAN]

QueueTypeOK ==
  /\ screening \in [Events -> {"none", "pass", "warn", "fail"}]
  /\ escalation \in [Events -> RowType]
  /\ evaluating \in [Workers -> {Idle} \cup [event : Events, claim : Nat \ {0}]]

\* A worker knows the number of its claim; who holds the row has the last one.
ClaimInv ==
  \A w \in Workers, e \in Events :
    evaluating[w] # Idle /\ evaluating[w].event = e =>
      /\ evaluating[w].claim <= escalation[e].claims
      /\ Holds(w, e) => evaluating[w].claim = escalation[e].claims

QueueInv == QueueTypeOK /\ ClaimInv /\ FailuresEscalated /\ ResultByClaimant

-----------------------------------------------------------------------------
(* The requests                                                            *)

Steps == {"no", "pending", "closing", "releasing", "done"}
RequestType ==
  [at : {"none", "acquiring", "forwarding", "releasing", "opened", "streaming", "failing",
         "cleaning", "answered", "over"},
   stream : BOOLEAN, http : {"none", "2xx", "3xx", "4xx", "5xx"},
   bytes : {"unknown", "zero", "some"}, identified : BOOLEAN, lease : BOOLEAN,
   cleanup : [{1, 2} -> Steps], released : BOOLEAN, lost : BOOLEAN]

NoCleanup(r) == ~r.released /\ r.cleanup = [n \in {1, 2} |-> "no"]

\* A cleanup that has begun or will: the job is active or in the history, the flag
\* says the truth, and it is set once no attempt is left.
Cleaned(r, isActive, entries) ==
  /\ r.cleanup[1] # "no"
  /\ entries = IF isActive THEN 0 ELSE 1
  /\ r.released => ~isActive /\ ~r.lease
  /\ r.cleanup[1] = "done" /\ r.cleanup[2] = "no" => r.released
  /\ r.cleanup[2] = "done" => r.released

\* What the record of a request says of its job, which is active or not and has
\* so many entries in the history.
Settled(r, isActive, entries) ==
  /\ r.at \notin {"failing", "cleaning", "answered", "over"} => NoCleanup(r)
  /\ r.at = "none" => ~isActive /\ entries = 0 /\ ~r.lease /\ ~r.identified
  /\ r.at \in {"acquiring", "forwarding", "opened", "streaming"} => isActive /\ entries = 0
  /\ r.at = "acquiring" => ~r.lease
  /\ r.at = "releasing" => ~isActive /\ entries = 1
  /\ r.at \in {"failing", "cleaning"} => Cleaned(r, isActive, entries)
  /\ r.at \in {"answered", "over"} =>
       \/ r.lost /\ entries <= 1 /\ NoCleanup(r)
       \/ Cleaned(r, isActive, entries)
       \/ /\ ~isActive /\ ~r.lease /\ NoCleanup(r)
          /\ entries = 1 \/ (entries = 0 /\ r.http = "4xx" /\ ~r.identified)

RequestInv ==
  /\ request \in [Requests -> RequestType]
  /\ active_jobs \subseteq Requests /\ turns \subseteq VoiceTurns
  /\ job_history \in [Requests -> Nat]
  /\ \A q \in Requests : Settled(request[q], q \in active_jobs, job_history[q])

-----------------------------------------------------------------------------
(* The rules                                                               *)

\* A verdict that fails an event gives a reason to look deeper.
Sound(verdict) ==
  /\ verdict.status \in {"pass", "warn", "fail"}
  /\ verdict.status = "fail" => verdict.reasons # {}

LEMMA InvocationSound == ASSUME NEW event PROVE Sound(EvaluateInvocation(event))
  BY DEF Sound, EvaluateInvocation, Status, If

LEMMA TurnSound == ASSUME NEW event PROVE Sound(EvaluateVoiceTurn(event))
  BY DEF Sound, EvaluateVoiceTurn, VoiceReasons, VoiceFailures, VoiceLatency, Status, If

-----------------------------------------------------------------------------
(* The queue                                                               *)

LEMMA SaveInv ==
  ASSUME QueueInv, NEW e \in Events, NEW verdict, Sound(verdict), SaveScreening(e, verdict)
  PROVE  QueueInv'
<1> USE DEF QueueInv, QueueTypeOK, RowType, Statuses
<1>1. CASE screening[e] # "none"
  BY <1>1 DEF SaveScreening, queueVars, ClaimInv, Holds, FailuresEscalated, ResultByClaimant, Final
<1>2. CASE screening[e] = "none"
  <2>1. Cardinality(Rows) + 1 \in Orders
    BY DEF Rows, Orders
  <2>2. QueueTypeOK'
    BY <1>2, <2>1 DEF SaveScreening, Sound
  <2>3. FailuresEscalated'
    BY <1>2 DEF SaveScreening, Sound, FailuresEscalated
  <2>4. ClaimInv'
    BY <1>2 DEF SaveScreening, ClaimInv, Holds
  <2>5. ResultByClaimant'
    BY <1>2 DEF SaveScreening, ResultByClaimant, Final
  <2> QED
    BY <2>2, <2>3, <2>4, <2>5
<1> QED
  BY <1>1, <1>2

LEMMA RequeuedInv ==
  ASSUME QueueInv
  PROVE  /\ Requeued \in [Events -> RowType]
         /\ \A e \in Events :
              /\ Requeued[e].claims = escalation[e].claims
              /\ Requeued[e].result = escalation[e].result
              /\ escalation[e].status # "none" => Requeued[e].status # "none"
              /\ Requeued[e].status = "claimed" => Requeued[e] = escalation[e]
              /\ Requeued[e].status \in {"completed", "error"} => Requeued[e] = escalation[e]
<1>1. ASSUME NEW e \in Events
      PROVE  LET row == IF escalation[e].status = "claimed" /\ escalation[e].stale
                          THEN [escalation[e] EXCEPT !.status = "queued", !.by = "nobody",
                                                     !.stale = FALSE]
                          ELSE escalation[e]
             IN  /\ row \in RowType /\ Requeued[e] = row
                 /\ row.claims = escalation[e].claims /\ row.result = escalation[e].result
                 /\ escalation[e].status # "none" => row.status # "none"
                 /\ row.status = "claimed" => row = escalation[e]
                 /\ row.status \in {"completed", "error"} => row = escalation[e]
  <2>1. escalation[e] \in RowType /\ "queued" \in Statuses
    BY DEF QueueInv, QueueTypeOK, Statuses
  <2> QED
    BY <2>1 DEF RowType, Requeued
<1>2. Requeued = [e \in Events |-> Requeued[e]]
  BY DEF Requeued
<1> QED
  BY <1>1, <1>2

LEMMA ClaimStep ==
  ASSUME QueueInv, NEW w \in Workers, ClaimNext(w)
  PROVE  QueueInv'
<1> USE DEF QueueInv, QueueTypeOK
<1>1. PICK e \in Events :
        /\ Requeued[e].status = "queued"
        /\ escalation' = [Requeued EXCEPT ![e].status = "claimed", ![e].by = w,
                                          ![e].claims = Requeued[e].claims + 1]
        /\ evaluating' = [evaluating EXCEPT ![w] = [event |-> e,
                                                     claim |-> escalation[e].claims + 1]]
        /\ screening' = screening
  BY DEF ClaimNext
<1>2. /\ Requeued \in [Events -> RowType]
      /\ Requeued[e] \in RowType /\ escalation[e].claims \in Nat
  BY RequeuedInv DEF RowType
<1>3. escalation'[e] = [Requeued[e] EXCEPT !.status = "claimed", !.by = w,
                                           !.claims = escalation[e].claims + 1]
  BY <1>1, <1>2, RequeuedInv
<1>4. \A f \in Events \ {e} : escalation'[f] = Requeued[f]
  BY <1>1, <1>2
<1>5. escalation' \in [Events -> RowType]
  BY <1>1, <1>2, <1>3, <1>4 DEF RowType, Statuses
<1>6. evaluating' \in [Workers -> {Idle} \cup [event : Events, claim : Nat \ {0}]]
  BY <1>1, <1>2
<1>7. FailuresEscalated'
  BY <1>1, <1>2, <1>3, <1>4, RequeuedInv DEF FailuresEscalated, RowType
<1>8. ResultByClaimant'
  BY <1>1, <1>2, <1>3, <1>4, RequeuedInv DEF ResultByClaimant, Final, RowType
<1>9. ClaimInv'
  BY <1>1, <1>2, <1>3, <1>4, RequeuedInv DEF ClaimInv, Holds, RowType, Idle
<1> QED
  BY <1>1, <1>5, <1>6, <1>7, <1>8, <1>9

LEMMA LeavesStep ==
  ASSUME QueueInv, NEW w \in Workers, NEW status \in {"completed", "error", "queued"},
         Leaves(w, status)
  PROVE  QueueInv'
<1> USE DEF QueueInv, QueueTypeOK
<1> DEFINE e == evaluating[w].event
<1>1. /\ evaluating[w] \in [event : Events, claim : Nat \ {0}]
      /\ e \in Events /\ escalation[e] \in RowType
  BY DEF Leaves
<1>2. /\ screening' = screening
      /\ evaluating' = [evaluating EXCEPT ![w] = Idle]
  BY DEF Leaves
<1>3. CASE ~Holds(w, e)
  <2>1. escalation' = escalation
    BY <1>3 DEF Leaves
  <2> QED
    BY <1>2, <2>1 DEF ClaimInv, Holds, FailuresEscalated, ResultByClaimant, Final
<1>4. CASE Holds(w, e)
  <2>1. \A f \in Events \ {e} : escalation'[f] = escalation[f]
    BY <1>1, <1>4 DEF Leaves
  <2>2. /\ escalation'[e] \in RowType
        /\ escalation'[e].status = status
        /\ escalation'[e].claims = escalation[e].claims
        /\ status # "queued" => escalation'[e].result = evaluating[w].claim
    BY <1>1, <1>4 DEF Leaves, RowType, Statuses
  <2>3. escalation' \in [Events -> RowType]
    BY <1>1, <1>4, <2>1, <2>2 DEF Leaves
  <2>4. evaluating[w].claim = escalation[e].claims
    BY <1>1, <1>4 DEF ClaimInv, Idle
  <2>5. FailuresEscalated'
    BY <1>2, <2>1, <2>2 DEF FailuresEscalated
  <2>6. ResultByClaimant'
    BY <2>1, <2>2, <2>4 DEF ResultByClaimant, Final
  <2>7. ClaimInv'
    BY <1>1, <1>2, <2>1, <2>2 DEF ClaimInv, Holds
  <2> QED
    BY <1>2, <2>3, <2>5, <2>6, <2>7
<1> QED
  BY <1>3, <1>4

LEMMA DiesStep ==
  ASSUME QueueInv, NEW w \in Workers, WorkerDies(w)
  PROVE  QueueInv'
  BY DEF QueueInv, QueueTypeOK, WorkerDies, ClaimInv, Holds, FailuresEscalated, ResultByClaimant,
         Final

LEMMA ExpiresStep ==
  ASSUME QueueInv, NEW e \in Events, ClaimExpires(e)
  PROVE  QueueInv'
<1> USE DEF QueueInv, QueueTypeOK
<1>1. /\ screening' = screening /\ evaluating' = evaluating
      /\ escalation' = [escalation EXCEPT ![e].stale = TRUE]
  BY DEF ClaimExpires
<1>2. escalation' \in [Events -> RowType]
  BY <1>1 DEF RowType
<1>3. \A f \in Events :
        /\ escalation'[f].status = escalation[f].status
        /\ escalation'[f].by = escalation[f].by
        /\ escalation'[f].claims = escalation[f].claims
        /\ escalation'[f].result = escalation[f].result
  BY <1>1 DEF RowType
<1> QED
  BY <1>1, <1>2, <1>3 DEF ClaimInv, Holds, FailuresEscalated, ResultByClaimant, Final

LEMMA QueueStepInv == QueueInv /\ QueueStep => QueueInv'
<1> SUFFICES ASSUME QueueInv, QueueStep PROVE QueueInv'
  OBVIOUS
<1>1. ASSUME NEW w \in Workers, ClaimNext(w) PROVE QueueInv'
  BY <1>1, ClaimStep
<1>2. ASSUME NEW w \in Workers,
             CompleteEscalation(w) \/ FailEscalation(w) \/ ReleaseEscalation(w)
      PROVE  QueueInv'
  BY <1>2, LeavesStep DEF CompleteEscalation, FailEscalation, ReleaseEscalation
<1>3. ASSUME NEW w \in Workers, WorkerDies(w) PROVE QueueInv'
  BY <1>3, DiesStep
<1>4. ASSUME NEW e \in Events, ClaimExpires(e) PROVE QueueInv'
  BY <1>4, ExpiresStep
<1> QED
  BY <1>1, <1>2, <1>3, <1>4 DEF QueueStep


-----------------------------------------------------------------------------
(* The requests                                                            *)

\* A step touches the job of one request at most.
Touches(q) ==
  /\ \E r : request' = [request EXCEPT ![q] = r]
  /\ active_jobs' \in {active_jobs, active_jobs \cup {q}, active_jobs \ {q}}
  /\ job_history' \in {job_history, [job_history EXCEPT ![q] = job_history[q] + 1]}
  /\ turns' = turns

LEMMA OneRequest ==
  ASSUME RequestInv, NEW q \in Requests, Touches(q), request'[q] \in RequestType,
         Settled(request'[q], q \in active_jobs', job_history'[q])
  PROVE  RequestInv'
<1>1. request' \in [Requests -> RequestType]
  BY DEF RequestInv, Touches
<1>2. /\ active_jobs' \subseteq Requests /\ turns' \subseteq VoiceTurns
      /\ job_history' \in [Requests -> Nat]
  BY DEF RequestInv, Touches
<1>3. \A p \in Requests \ {q} :
        /\ request'[p] = request[p] /\ job_history'[p] = job_history[p]
        /\ p \in active_jobs' <=> p \in active_jobs
  BY DEF RequestInv, Touches
<1>4. ASSUME NEW p \in Requests
      PROVE  Settled(request'[p], p \in active_jobs', job_history'[p])
  <2>1. CASE p = q
    BY <2>1
  <2>2. CASE p # q
    <3>1. Settled(request[p], p \in active_jobs, job_history[p])
      BY DEF RequestInv
    <3> QED
      BY <1>3, <2>2, <3>1 DEF Settled
  <2> QED
    BY <2>1, <2>2
<1> QED
  BY <1>1, <1>2, <1>4 DEF RequestInv

LEMMA BufferedStep ==
  ASSUME RequestInv, NEW q \in Requests,
         \/ Refuses(q, TRUE) \/ Refuses(q, FALSE) \/ Acquires(q)
         \/ \E stream \in BOOLEAN : Forwards(q, stream)
         \/ BufferedFails(q) \/ BufferedReleases(q)
         \/ \E http \in {"2xx", "3xx", "4xx", "5xx"}, bytes \in {"zero", "some"} :
              BufferedAnswers(q, http, bytes)
  PROVE  RequestInv'
<1> USE DEF At, Becomes, jobs, CreateJob, FinishJob
<1>0. /\ request[q] \in RequestType /\ job_history[q] \in Nat
      /\ request \in [Requests -> RequestType] /\ job_history \in [Requests -> Nat]
      /\ Settled(request[q], q \in active_jobs, job_history[q])
  BY DEF RequestInv
<1>1. ASSUME NEW b \in BOOLEAN, Refuses(q, b) PROVE RequestInv'
  <2>1. Touches(q)
    BY <1>1 DEF Refuses, Touches
  <2>2. request'[q] \in RequestType
    BY <1>0, <1>1 DEF Refuses, RequestType
  <2>3. Settled(request'[q], q \in active_jobs', job_history'[q])
    BY <1>0, <1>1 DEF Refuses, RequestType, Settled, Cleaned, NoCleanup
  <2> QED
    BY <2>1, <2>2, <2>3, OneRequest
<1>2. ASSUME NEW stream \in BOOLEAN, Forwards(q, stream) PROVE RequestInv'
  <2>1. Touches(q)
    BY <1>2 DEF Forwards, Touches
  <2>2. request'[q] \in RequestType
    BY <1>0, <1>2 DEF Forwards, RequestType
  <2>3. Settled(request'[q], q \in active_jobs', job_history'[q])
    BY <1>0, <1>2 DEF Forwards, RequestType, Settled, Cleaned, NoCleanup
  <2> QED
    BY <2>1, <2>2, <2>3, OneRequest
<1>3. CASE Acquires(q)
  <2>1. Touches(q)
    BY <1>3 DEF Acquires, Touches
  <2>2. request'[q] \in RequestType
    BY <1>0, <1>3 DEF Acquires, RequestType
  <2>3. Settled(request'[q], q \in active_jobs', job_history'[q])
    BY <1>0, <1>3 DEF Acquires, RequestType, Settled, Cleaned, NoCleanup
  <2> QED
    BY <2>1, <2>2, <2>3, OneRequest
<1>4. CASE BufferedFails(q)
  <2>1. Touches(q)
    BY <1>4 DEF BufferedFails, Touches
  <2>2. request'[q] \in RequestType
    BY <1>0, <1>4 DEF BufferedFails, RequestType
  <2>3. Settled(request'[q], q \in active_jobs', job_history'[q])
    BY <1>0, <1>4 DEF BufferedFails, RequestType, Settled, Cleaned, NoCleanup
  <2> QED
    BY <2>1, <2>2, <2>3, OneRequest
<1>5. ASSUME NEW http \in {"2xx", "3xx", "4xx", "5xx"}, NEW bytes \in {"zero", "some"},
             BufferedAnswers(q, http, bytes)
      PROVE  RequestInv'
  <2>1. Touches(q)
    BY <1>5 DEF BufferedAnswers, Touches
  <2>2. request'[q] \in RequestType
    BY <1>0, <1>5 DEF BufferedAnswers, RequestType
  <2>3. Settled(request'[q], q \in active_jobs', job_history'[q])
    BY <1>0, <1>5 DEF BufferedAnswers, RequestType, Settled, Cleaned, NoCleanup
  <2> QED
    BY <2>1, <2>2, <2>3, OneRequest
<1>6. CASE BufferedReleases(q)
  <2>1. Touches(q)
    BY <1>6 DEF BufferedReleases, Touches
  <2>2. request'[q] \in RequestType
    BY <1>0, <1>6 DEF BufferedReleases, RequestType
  <2>3. Settled(request'[q], q \in active_jobs', job_history'[q])
    BY <1>0, <1>6 DEF BufferedReleases, RequestType, Settled, Cleaned, NoCleanup
  <2> QED
    BY <2>1, <2>2, <2>3, OneRequest
<1> QED
  BY <1>1, <1>2, <1>3, <1>4, <1>5, <1>6

LEMMA StreamStep ==
  ASSUME RequestInv, NEW q \in Requests,
         \/ StreamFails(q) \/ \E http \in {"2xx", "3xx", "4xx", "5xx"} : StreamOpens(q, http)
         \/ StreamBegins(q) \/ StreamLost(q) \/ StreamEnds(q) \/ StreamAbandoned(q)
  PROVE  RequestInv'
<1> USE DEF At, Becomes, jobs
<1>0. /\ request[q] \in RequestType /\ job_history[q] \in Nat
      /\ request \in [Requests -> RequestType] /\ job_history \in [Requests -> Nat]
      /\ Settled(request[q], q \in active_jobs, job_history[q])
  BY DEF RequestInv
<1>1. CASE StreamFails(q)
  <2>1. Touches(q)
    BY <1>1 DEF StreamFails, Touches
  <2>2. request'[q] \in RequestType
    BY <1>0, <1>1 DEF StreamFails, RequestType, Steps
  <2>3. Settled(request'[q], q \in active_jobs', job_history'[q])
    BY <1>0, <1>1 DEF StreamFails, RequestType, Steps, Settled, Cleaned, NoCleanup
  <2> QED
    BY <2>1, <2>2, <2>3, OneRequest
<1>2. ASSUME NEW http \in {"2xx", "3xx", "4xx", "5xx"}, StreamOpens(q, http) PROVE RequestInv'
  <2>1. Touches(q)
    BY <1>2 DEF StreamOpens, Touches
  <2>2. request'[q] \in RequestType
    BY <1>0, <1>2 DEF StreamOpens, RequestType, Steps
  <2>3. Settled(request'[q], q \in active_jobs', job_history'[q])
    BY <1>0, <1>2 DEF StreamOpens, RequestType, Steps, Settled, Cleaned, NoCleanup
  <2> QED
    BY <2>1, <2>2, <2>3, OneRequest
<1>3. CASE StreamBegins(q)
  <2>1. Touches(q)
    BY <1>3 DEF StreamBegins, Touches
  <2>2. request'[q] \in RequestType
    BY <1>0, <1>3 DEF StreamBegins, RequestType, Steps
  <2>3. Settled(request'[q], q \in active_jobs', job_history'[q])
    BY <1>0, <1>3 DEF StreamBegins, RequestType, Steps, Settled, Cleaned, NoCleanup
  <2> QED
    BY <2>1, <2>2, <2>3, OneRequest
<1>4. CASE StreamLost(q)
  <2>1. Touches(q)
    BY <1>4 DEF StreamLost, Touches
  <2>2. request'[q] \in RequestType
    BY <1>0, <1>4 DEF StreamLost, RequestType, Steps
  <2>3. Settled(request'[q], q \in active_jobs', job_history'[q])
    BY <1>0, <1>4 DEF StreamLost, RequestType, Steps, Settled, Cleaned, NoCleanup
  <2> QED
    BY <2>1, <2>2, <2>3, OneRequest
<1>5. CASE StreamEnds(q)
  <2>1. Touches(q)
    BY <1>5 DEF StreamEnds, Touches
  <2>2. request'[q] \in RequestType
    BY <1>0, <1>5 DEF StreamEnds, RequestType, Steps
  <2>3. Settled(request'[q], q \in active_jobs', job_history'[q])
    BY <1>0, <1>5 DEF StreamEnds, RequestType, Steps, Settled, Cleaned, NoCleanup
  <2> QED
    BY <2>1, <2>2, <2>3, OneRequest
<1>6. CASE StreamAbandoned(q)
  <2>1. Touches(q)
    BY <1>6 DEF StreamAbandoned, Touches
  <2>2. request'[q] \in RequestType
    BY <1>0, <1>6 DEF StreamAbandoned, RequestType, Steps
  <2>3. Settled(request'[q], q \in active_jobs', job_history'[q])
    BY <1>0, <1>6 DEF StreamAbandoned, RequestType, Steps, Settled, Cleaned, NoCleanup
  <2> QED
    BY <2>1, <2>2, <2>3, OneRequest
<1> QED
  BY <1>1, <1>2, <1>3, <1>4, <1>5, <1>6

LEMMA CleanupStepInv ==
  ASSUME RequestInv, NEW q \in Requests, NEW n \in {1, 2},
         CleanupStep(q, n)
  PROVE  RequestInv'
<1> USE DEF At, Becomes, jobs, Cleans, LockFree, MarkedBy
<1>0. /\ request[q] \in RequestType /\ job_history[q] \in Nat
      /\ request \in [Requests -> RequestType] /\ job_history \in [Requests -> Nat]
      /\ Settled(request[q], q \in active_jobs, job_history[q])
  BY DEF RequestInv
<1>1. CASE CleanupReturns(q, n)
  <2>1. Touches(q)
    BY <1>1 DEF CleanupReturns, Touches
  <2>2. request'[q] \in RequestType
    BY <1>0, <1>1 DEF CleanupReturns, RequestType, Steps
  <2>3. Settled(request'[q], q \in active_jobs', job_history'[q])
    BY <1>0, <1>1 DEF CleanupReturns, RequestType, Steps, Settled, Cleaned, NoCleanup
  <2> QED
    BY <2>1, <2>2, <2>3, OneRequest
<1>2. CASE CleanupCloses(q, n)
  <2>1. Touches(q)
    BY <1>2 DEF CleanupCloses, Touches
  <2>2. request'[q] \in RequestType
    BY <1>0, <1>2 DEF CleanupCloses, RequestType, Steps
  <2>3. Settled(request'[q], q \in active_jobs', job_history'[q])
    BY <1>0, <1>2 DEF CleanupCloses, RequestType, Steps, Settled, Cleaned, NoCleanup
  <2> QED
    BY <2>1, <2>2, <2>3, OneRequest
<1>3. CASE CleanupReleases(q, n)
  <2>1. Touches(q)
    BY <1>3 DEF CleanupReleases, Touches
  <2>2. request'[q] \in RequestType
    BY <1>0, <1>3 DEF CleanupReleases, RequestType, Steps
  <2>3. Settled(request'[q], q \in active_jobs', job_history'[q])
    <3>1. request[q].cleanup[n] = "releasing"
      BY <1>3 DEF CleanupReleases
    <3>2. Cleaned(request[q], q \in active_jobs, job_history[q])
      BY <1>0, <3>1 DEF Settled, NoCleanup
    <3>3. /\ request'[q].at = request[q].at /\ request[q].at # "none"
          /\ request[q].at \in {"failing", "cleaning", "answered", "over"}
          /\ ~request'[q].lease /\ request'[q].released
          /\ request'[q].cleanup = [request[q].cleanup EXCEPT ![n] = "done"]
      BY <1>0, <1>3, <3>1 DEF CleanupReleases, RequestType, Settled, NoCleanup
    <3>4. request'[q].cleanup[1] # "no"
      BY <1>0, <3>2, <3>3 DEF RequestType, Cleaned
    <3>5. q \notin active_jobs' /\ job_history'[q] = 1
      BY <1>0, <1>3, <3>2 DEF CleanupReleases, Cleaned
    <3>6. Cleaned(request'[q], q \in active_jobs', job_history'[q])
      BY <3>3, <3>4, <3>5 DEF Cleaned
    <3> QED
      BY <3>3, <3>6 DEF Settled
  <2> QED
    BY <2>1, <2>2, <2>3, OneRequest
<1> QED
  BY <1>1, <1>2, <1>3 DEF CleanupStep

LEMMA CancelledStep ==
  ASSUME RequestInv, NEW q \in Requests,
         \/ \E served \in BOOLEAN : CleanupCancelled(q, served)
         \/ CleanupInterrupted(q) \/ CleanedUp(q)
         \/ GeneratorFinalised(q) \/ ShieldCancelled(q)
  PROVE  RequestInv'
<1> USE DEF At, Becomes, jobs
<1>0. /\ request[q] \in RequestType /\ job_history[q] \in Nat
      /\ request \in [Requests -> RequestType] /\ job_history \in [Requests -> Nat]
      /\ Settled(request[q], q \in active_jobs, job_history[q])
  BY DEF RequestInv
<1>1. ASSUME NEW served \in BOOLEAN, CleanupCancelled(q, served) PROVE RequestInv'
  <2>1. Touches(q)
    BY <1>1 DEF CleanupCancelled, Touches
  <2>2. request'[q] \in RequestType
    BY <1>0, <1>1 DEF CleanupCancelled, RequestType, Steps
  <2>3. Settled(request'[q], q \in active_jobs', job_history'[q])
    <3>1. /\ request[q].at = "cleaning" /\ request'[q].at = "cleaning"
          /\ request'[q].released = request[q].released
          /\ request'[q].cleanup = [n \in {1, 2} |-> IF n = 1 THEN "done" ELSE "closing"]
          /\ active_jobs' = active_jobs /\ job_history' = job_history
      BY <1>0, <1>1 DEF CleanupCancelled, RequestType
    <3>2. ~request[q].lease => ~request'[q].lease
      BY <1>0, <1>1 DEF CleanupCancelled, RequestType
    <3>3. request'[q].cleanup[1] = "done" /\ request'[q].cleanup[2] = "closing"
      BY <3>1
    <3> QED
      BY <1>0, <3>1, <3>2, <3>3 DEF Settled, Cleaned
  <2> QED
    BY <2>1, <2>2, <2>3, OneRequest
<1>2. CASE CleanupInterrupted(q)
  <2>1. Touches(q)
    BY <1>2 DEF CleanupInterrupted, Touches
  <2>2. request'[q] \in RequestType
    BY <1>0, <1>2 DEF CleanupInterrupted, RequestType, Steps
  <2>3. Settled(request'[q], q \in active_jobs', job_history'[q])
    BY <1>0, <1>2 DEF CleanupInterrupted, RequestType, Steps, Settled, Cleaned, NoCleanup
  <2> QED
    BY <2>1, <2>2, <2>3, OneRequest
<1>3. CASE CleanedUp(q)
  <2>1. Touches(q)
    BY <1>3 DEF CleanedUp, Touches
  <2>2. request'[q] \in RequestType
    BY <1>0, <1>3 DEF CleanedUp, RequestType, Steps
  <2>3. Settled(request'[q], q \in active_jobs', job_history'[q])
    BY <1>0, <1>3 DEF CleanedUp, RequestType, Steps, Settled, Cleaned, NoCleanup
  <2> QED
    BY <2>1, <2>2, <2>3, OneRequest
<1>4. CASE GeneratorFinalised(q)
  <2>1. Touches(q)
    BY <1>4 DEF GeneratorFinalised, Touches
  <2>2. request'[q] \in RequestType
    BY <1>0, <1>4 DEF GeneratorFinalised, RequestType, Steps
  <2>3. Settled(request'[q], q \in active_jobs', job_history'[q])
    BY <1>0, <1>4 DEF GeneratorFinalised, RequestType, Steps, Settled, Cleaned, NoCleanup
  <2> QED
    BY <2>1, <2>2, <2>3, OneRequest
<1>5. CASE ShieldCancelled(q)
  <2>1. Touches(q)
    BY <1>5 DEF ShieldCancelled, Touches
  <2>2. request'[q] \in RequestType
    BY <1>0, <1>5 DEF ShieldCancelled, RequestType, Steps
  <2>3. Settled(request'[q], q \in active_jobs', job_history'[q])
    BY <1>0, <1>5 DEF ShieldCancelled, RequestType, Steps, Settled, Cleaned, NoCleanup
  <2> QED
    BY <2>1, <2>2, <2>3, OneRequest
<1> QED
  BY <1>1, <1>2, <1>3, <1>4, <1>5

-----------------------------------------------------------------------------
(* The specification                                                       *)

IInv == QueueInv /\ RequestInv

LEMMA RequestInvKept == ASSUME RequestInv, UNCHANGED requestVars PROVE RequestInv'
  BY DEF RequestInv, requestVars

LEMMA QueueInvKept == ASSUME QueueInv, UNCHANGED queueVars PROVE QueueInv'
  BY DEF QueueInv, QueueTypeOK, ClaimInv, Holds, FailuresEscalated, ResultByClaimant, Final,
         queueVars

LEMMA InitInv == RequestsInit => IInv
<1> SUFFICES ASSUME RequestsInit PROVE IInv
  OBVIOUS
<1>1. QueueInv
  BY DEF RequestsInit, QueueInit, QueueInv, QueueTypeOK, RowType, Statuses, Orders, NoRow, Idle,
         ClaimInv, Holds, FailuresEscalated, ResultByClaimant, Final
<1>2. RequestInv
  BY DEF RequestsInit, RequestInv, RequestType, Steps, NewRequest, Settled, NoCleanup
<1> QED
  BY <1>1, <1>2 DEF IInv

LEMMA RequestStepInv ==
  ASSUME RequestInv, NEW q \in Requests, RequestStep(q)
  PROVE  RequestInv'
<1>1. CASE Forwarding(q)
  BY <1>1, BufferedStep, StreamStep, CleanupStepInv, CancelledStep DEF Forwarding
<1>2. CASE ~Forwarding(q)
  BY <1>2, BufferedStep, StreamStep, CancelledStep DEF RequestStep
<1> QED
  BY <1>1, <1>2

LEMMA ReportsStep ==
  ASSUME IInv, NEW q \in Requests, NEW stored \in BOOLEAN, NEW isSlow \in BOOLEAN,
         Reports(q, stored, isSlow)
  PROVE  IInv'
<1>1. QueueInv'
  <2>1. CASE stored
    BY <2>1, RequestsAssumption, InvocationSound, SaveInv DEF IInv, Reports
  <2>2. CASE ~stored
    BY <2>2, QueueInvKept DEF IInv, Reports
  <2> QED
    BY <2>1, <2>2
<1>2. RequestInv'
  <2> USE DEF IInv, At, Becomes, jobs
  <2>1. Touches(q)
    BY DEF Reports, Touches
  <2>2. /\ request[q] \in RequestType
        /\ Settled(request[q], q \in active_jobs, job_history[q])
    BY DEF RequestInv
  <2>3. /\ request'[q] = [request[q] EXCEPT !.at = "over"] /\ request[q].at = "answered"
        /\ active_jobs' = active_jobs /\ job_history' = job_history
    BY DEF Reports, RequestInv
  <2>4. request'[q] \in RequestType
    BY <2>2, <2>3 DEF RequestType
  <2>5. Settled(request'[q], q \in active_jobs', job_history'[q])
    BY <2>2, <2>3 DEF RequestType, Settled, Cleaned, NoCleanup
  <2> QED
    BY <2>1, <2>4, <2>5, OneRequest
<1> QED
  BY <1>1, <1>2 DEF IInv

LEMMA ReportsTurnStep ==
  ASSUME IInv, NEW t \in turns, NEW event \in TurnEvents, NEW stored \in BOOLEAN,
         ReportsTurn(t, event, stored)
  PROVE  IInv'
<1>1. t \in Events
  BY RequestsAssumption DEF IInv, RequestInv
<1>2. QueueInv'
  <2>1. CASE stored
    BY <1>1, <2>1, TurnSound, SaveInv DEF IInv, ReportsTurn
  <2>2. CASE ~stored
    BY <2>2, QueueInvKept DEF IInv, ReportsTurn
  <2> QED
    BY <2>1, <2>2
<1>3. RequestInv'
  BY DEF IInv, RequestInv, ReportsTurn, jobs
<1> QED
  BY <1>2, <1>3 DEF IInv

LEMMA NextInv == IInv /\ [RequestsNext]_allVars => IInv'
<1> SUFFICES ASSUME IInv, [RequestsNext]_allVars PROVE IInv'
  OBVIOUS
<1>1. ASSUME NEW q \in Requests, RequestStep(q), UNCHANGED queueVars PROVE IInv'
  BY <1>1, RequestStepInv, QueueInvKept DEF IInv
<1>2. CASE ScreeningStep
  BY <1>2, ReportsStep, ReportsTurnStep DEF ScreeningStep
<1>3. CASE QueueStep /\ UNCHANGED requestVars
  BY <1>3, QueueStepInv, RequestInvKept DEF IInv
<1>4. CASE UNCHANGED allVars
  BY <1>4, QueueInvKept, RequestInvKept DEF IInv, allVars
<1> QED
  BY <1>1, <1>2, <1>3, <1>4 DEF RequestsNext

\* The queue's rows, claims and workers and the requests' records are related at
\* every moment as this module says.
THEOREM Invariance == FairRequestsSpec => []IInv
  BY InitInv, NextInv, PTL DEF FairRequestsSpec

\* No failed screening goes without an escalation, whatever is posted how often
\* and whatever becomes of the workers (store.py, save_screening).
THEOREM FailuresEscalatedHolds == FairRequestsSpec => []FailuresEscalated
<1>1. IInv => FailuresEscalated
  BY DEF IInv, QueueInv
<1> QED
  BY <1>1, Invariance, PTL

\* The stored result is that of the last claim: a worker whose claim expired
\* cannot store its own (store.py, claim_next_escalation, complete_escalation).
THEOREM ResultByClaimantHolds == FairRequestsSpec => []ResultByClaimant
<1>1. IInv => ResultByClaimant
  BY DEF IInv, QueueInv
<1> QED
  BY <1>1, Invariance, PTL

\* However a stream and its cleanup are cancelled, a request that is answered holds
\* its lease or its job only while an attempt that nobody cancels is still to come,
\* and no job is finished twice (gateway/app.py, cleanup of forward_streaming).
THEOREM RequestsSettledHolds == FairRequestsSpec => []RequestsSettled
<1>1. ASSUME IInv PROVE RequestsSettled
  <2> SUFFICES ASSUME NEW q \in Requests
               PROVE  /\ job_history[q] <= 1
                      /\ Answered(q) =>
                           /\ KeepsNothing(q) \/ (CleanedBehind(q) /\ ~request[q].released)
                           /\ job_history[q] = 0
                                => \/ q \in active_jobs
                                   \/ request[q].http = "4xx" /\ ~request[q].identified
    BY DEF RequestsSettled
  <2>1. /\ request[q] \in RequestType
        /\ Settled(request[q], q \in active_jobs, job_history[q])
    BY <1>1 DEF IInv, RequestInv
  <2>2. job_history[q] <= 1
    BY <2>1 DEF Settled, Cleaned, RequestType
  <2>3. ASSUME Answered(q), Cleaned(request[q], q \in active_jobs, job_history[q])
        PROVE  /\ KeepsNothing(q) \/ (CleanedBehind(q) /\ ~request[q].released)
               /\ job_history[q] = 0 => q \in active_jobs
    <3>1. request[q].released => KeepsNothing(q)
      BY <2>3 DEF Cleaned, KeepsNothing
    <3>2. ~request[q].released => CleanedBehind(q)
      BY <2>1, <2>3 DEF Cleaned, CleanedBehind, RequestType, Steps
    <3> QED
      BY <2>3, <3>1, <3>2 DEF Cleaned
  <2>4. CASE ~Cleaned(request[q], q \in active_jobs, job_history[q])
    BY <2>1, <2>2, <2>4 DEF Answered, Settled, KeepsNothing
  <2> QED
    BY <2>2, <2>3, <2>4
<1> QED
  BY <1>1, Invariance, PTL

=============================================================================
