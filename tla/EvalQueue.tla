----------------------------- MODULE EvalQueue ------------------------------
(***************************************************************************)
(* The evaluation router: every reported event is screened by fixed rules  *)
(* (screening.py, voice_eval.py), a screening with a reason to look deeper *)
(* is stored with an escalation (EvaluationStore.save_screening), and      *)
(* workers claim the escalations, under a claim that expires               *)
(* (claim_next_escalation, DeepEvalWorker.run_once).  Every operation of   *)
(* the store is one SQLite transaction; the workers are processes of their *)
(* own and may be cancelled or killed between two of them.                 *)
(***************************************************************************)
EXTENDS Naturals, FiniteSets

CONSTANTS
  Events,       \* ids of the events that are reported
  Workers,      \* ids of the deep evaluation workers
  MaxSlow,      \* how often a claim expires under a worker that is evaluating
  MaxStops      \* how often a worker is cancelled or killed while evaluating

ASSUME QueueAssumption == MaxSlow \in Nat /\ MaxStops \in Nat

VARIABLES
  screening,    \* of each event: the status of its screening, or "none"
  escalation,   \* of each event: the row of its escalation
  evaluating,   \* of each worker: what run_once is evaluating
  slow, stops   \* how often each of the bounded things has happened
queueVars == <<screening, escalation, evaluating, slow, stops>>

\* "order" stands for created_at; "claims" counts the claims of the row, "result"
\* is the claim its result was computed under, "stale" that the claim has expired.
NoRow == [status |-> "none", order |-> 0, by |-> "nobody", claims |-> 0, result |-> 0,
          stale |-> FALSE]
Idle == [event |-> "none", claim |-> 0]

QueueInit ==
  /\ screening = [e \in Events |-> "none"] /\ escalation = [e \in Events |-> NoRow]
  /\ evaluating = [w \in Workers |-> Idle]
  /\ slow = 0 /\ stops = 0

-----------------------------------------------------------------------------
(* The rules                                                               *)

If(condition, name) == IF condition THEN {name} ELSE {}

Status(failures, warnings) ==
  IF failures # {} THEN "fail" ELSE IF warnings # {} THEN "warn" ELSE "pass"

\* evaluate_invocation of an event: its class of http status, whether its response
\* has bytes ("unknown" for a stream), names its model and provider, and is slow.
EvaluateInvocation(event) ==
  LET empty == event.bytes = "zero" /\ event.http = "2xx"
      nameless == event.http \in {"1xx", "2xx", "3xx"} /\ ~event.identified
      failures == If(event.http = "5xx", "http_server_error") \cup If(empty, "empty_response")
                  \cup If(nameless, "missing_model_provider_identity")
      warnings == If(event.http = "4xx", "http_client_error")
                  \cup If(event.http = "3xx", "http_redirect")
                  \cup If(event.slow, "abnormal_latency")
  IN  [status |-> Status(failures, warnings),
       reasons |-> failures \cup If(event.slow, "abnormal_latency")]

VoiceFailures(event) ==
  If(event.type = "failed", "voice_turn_failed")
  \cup If(~event.input, "missing_voice_input_audio")
  \cup If(event.type = "completed" /\ ~event.output, "missing_voice_output_audio")
  \cup If(~event.integrity, "voice_audio_integrity_failure")
  \cup If(event.interrupted /\ ~event.truncated, "barge_in_truncation_missing")

VoiceLatency(event) ==
  If(event.slow, "voice_turn_latency") \cup If(event.slowFirst, "voice_first_audio_latency")

VoiceReasons(event) == VoiceFailures(event) \cup VoiceLatency(event)

\* evaluate_voice_turn
EvaluateVoiceTurn(event) ==
  [status |-> Status(VoiceFailures(event),
                     VoiceLatency(event) \cup If(event.type = "empty", "empty_transcription")),
   reasons |-> VoiceReasons(event)]

-----------------------------------------------------------------------------
(* The store                                                               *)

Rows == {e \in Events : escalation[e].status # "none"}
Final(e) == escalation[e].status \in {"completed", "error"}

\* save_screening: an event that was stored before is left as it was.
SaveScreening(e, verdict) ==
  IF screening[e] # "none" THEN UNCHANGED queueVars ELSE
    /\ screening' = [screening EXCEPT ![e] = verdict.status]
    /\ escalation' = IF verdict.reasons = {} THEN escalation
                     ELSE [escalation EXCEPT ![e].status = "queued",
                                             ![e].order = Cardinality(Rows) + 1]
    /\ UNCHANGED <<evaluating, slow, stops>>

\* Mutant of Requeued: an expired claim stays where it is.
RequeuedNone == escalation
Requeued ==
  [e \in Events |-> IF escalation[e].status = "claimed" /\ escalation[e].stale
                      THEN [escalation[e] EXCEPT !.status = "queued", !.by = "nobody",
                                                 !.stale = FALSE]
                      ELSE escalation[e]]

\* claim_next_escalation: what expired is queued again, the oldest is claimed.
ClaimNext(w) ==
  LET queued == {e \in Events : Requeued[e].status = "queued"}
  IN  /\ evaluating[w] = Idle /\ queued # {}
      /\ \E e \in queued :
           /\ \A f \in queued : Requeued[e].order <= Requeued[f].order
           /\ escalation' = [Requeued EXCEPT ![e].status = "claimed", ![e].by = w,
                                             ![e].claims = @ + 1]
           /\ evaluating' = [evaluating EXCEPT ![w] = [event |-> e,
                                                        claim |-> escalation[e].claims + 1]]
      /\ UNCHANGED <<screening, slow, stops>>

\* Mutant of Holds: whoever has it claimed.
HoldsAny(w, e) == escalation[e].status = "claimed"
\* The WHERE clause of complete, fail and release.
Holds(w, e) == escalation[e].status = "claimed" /\ escalation[e].by = w

\* The worker leaves its escalation with the given status; when it holds it no
\* longer, that raises ValueError, which changes nothing.
Leaves(w, status) ==
  LET e == evaluating[w].event
  IN  /\ evaluating[w] # Idle
      /\ evaluating' = [evaluating EXCEPT ![w] = Idle]
      /\ escalation' = IF ~Holds(w, e) THEN escalation
                       ELSE [escalation EXCEPT
                              ![e].status = status, ![e].stale = FALSE,
                              ![e].by = IF status = "queued" THEN "nobody" ELSE @,
                              ![e].result = IF status = "queued" THEN @ ELSE evaluating[w].claim]
      /\ UNCHANGED screening

-----------------------------------------------------------------------------
(* The workers                                                             *)

\* The evaluator returns, or a client of the HTTP interface reports its result.
CompleteEscalation(w) == Leaves(w, "completed") /\ UNCHANGED <<slow, stops>>

\* It raises, returns what is no result, or takes longer than the worker waits.
FailEscalation(w) == Leaves(w, "error") /\ UNCHANGED <<slow, stops>>

\* run_once is cancelled ...
ReleaseEscalation(w) ==
  /\ stops < MaxStops /\ stops' = stops + 1
  /\ Leaves(w, "queued")
  /\ UNCHANGED slow

\* ... or its process is killed, or the answer to a claim over HTTP is lost.
WorkerDies(w) ==
  /\ stops < MaxStops /\ stops' = stops + 1
  /\ evaluating[w] # Idle
  /\ evaluating' = [evaluating EXCEPT ![w] = Idle]
  /\ UNCHANGED <<screening, escalation, slow>>

Attended(e) ==
  \E w \in Workers : evaluating[w] = [event |-> e, claim |-> escalation[e].claims]

\* claim_ttl_seconds have gone by.
ClaimExpires(e) ==
  /\ escalation[e].status = "claimed" /\ ~escalation[e].stale
  /\ escalation' = [escalation EXCEPT ![e].stale = TRUE]
  /\ IF Attended(e) THEN slow < MaxSlow /\ slow' = slow + 1 ELSE slow' = slow
  /\ UNCHANGED <<screening, evaluating, stops>>

QueueStep ==
  \/ \E w \in Workers : \/ ClaimNext(w) \/ CompleteEscalation(w) \/ FailEscalation(w)
                        \/ ReleaseEscalation(w) \/ WorkerDies(w)
  \/ \E e \in Events : ClaimExpires(e)

Ends(w) == CompleteEscalation(w) \/ FailEscalation(w)
\* The claim of a worker that is gone.
ClaimForgotten(e) == ~Attended(e) /\ ClaimExpires(e)

-----------------------------------------------------------------------------
(* Properties                                                              *)

\* Whatever fails a screening gets an escalation with it, and keeps it however
\* often the event is posted again (store.py, save_screening; the rules append to
\* two lists).
FailuresEscalated == \A e \in Events : screening[e] = "fail" => escalation[e].status # "none"

\* A stored result is the one computed under the last claim: never of a worker
\* whose claim expired and was taken by another (store.py, claim_next_escalation
\* and complete_escalation).
ResultByClaimant ==
  \A e \in Events : Final(e) => escalation[e].result = escalation[e].claims

\* Every escalation gets its result or its error, whatever becomes of the workers
\* that claim it.
EscalationsEnd == \A e \in Events : escalation[e].status = "queued" ~> Final(e)
=============================================================================
