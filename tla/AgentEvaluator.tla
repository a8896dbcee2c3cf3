--------------------------- MODULE AgentEvaluator ----------------------------
(***************************************************************************)
(* The sealed evaluator of Agent Lab's candidates (agent_eval/).  A        *)
(* controller keeps the evaluations in SQLite and executes them in one     *)
(* thread; a runner in a container without network takes jobs from a       *)
(* directory of the exchange volume, runs the candidate on each case of    *)
(* the suite, and leaves a result there.  The candidate reaches the model  *)
(* only by files that the executing thread answers, within a budget.       *)
(* The verdict compares the cases with a sealed reference and is signed.   *)
(*                                                                         *)
(* Handlers run in threads of their own: each read, locked region and      *)
(* write of the store is a step.  A restart of the controller loses its    *)
(* memory, never the store or the exchange; the runner lives on.           *)
(***************************************************************************)
EXTENDS Naturals, Sequences, FiniteSets

CONSTANTS
  Cases,        \* the cases of the sealed suite
  Ids,          \* the runs whose candidates are evaluated
  Base,         \* the commit a candidate is built on
  OldReferences, \* the references that may be on disk at first
  MaxEvals, MaxCallTokens, MaxDisturbances, \* bounds of an instance
  MaxProposals, \* case.max_iterations: how often a candidate asks the model
  MaxCalls,     \* the 100 model requests of an evaluation
  Budget        \* token_budget

ASSUME EvaluatorAssumption ==
  /\ MaxEvals \in Nat \ {0} /\ MaxCallTokens \in Nat \ {0}
  /\ MaxDisturbances \in Nat /\ MaxProposals \in Nat \ {0} /\ MaxCalls \in Nat /\ Budget \in Nat

VARIABLES
  rows,       \* EvaluationStore, in the order of creation
  refs,       \* refs/agent-lab/candidates/<run>: the candidate commit of a run
  reference,  \* the sealed reference on disk
  evalActive, \* _active
  evalCancel, \* the evaluations whose cancel event is set
  evalQueue,  \* the work of the executor
  exec,       \* the executing thread
  canceller,  \* a cancel handler after its read, and after its lock
  jobs,       \* runner/requests
  results,    \* runner/results
  mail,       \* model/requests and model/results of an evaluation, per case
  runner,     \* what the runner is doing
  disturbances \* how often the operator or a restart interfered
evaluatorVars == <<rows, refs, reference, evalActive, evalCancel, evalQueue, exec,
                   canceller, jobs, results, mail, runner, disturbances>>

Evals == 1..MaxEvals
None == "none"
NoReference == [base |-> None, cases |-> <<>>, ev |-> 0]
\* A reference whose file was truncated and not yet written.
Corrupt == [NoReference EXCEPT !.base = "corrupt"]
NoResult == [cases |-> <<>>, critical |-> FALSE]

\* Mutant of Inflight: an evaluation that is being prepared is forgotten.
InflightNotPreparing == {"queued", "running", "cancelling"}
Inflight == {"queued", "preparing", "running", "cancelling"}
Terminal == {"passed", "failed", "cancelled", "error"}

NoVerdict == [status |-> None]
Idle == [at |-> "idle", ev |-> 0, todo |-> {}, tokens |-> 0, calls |-> 0, verdict |-> NoVerdict]
RunnerIdle == [at |-> "idle", ev |-> 0, case |-> None, asked |-> 0, cases |-> <<>>, critical |-> TRUE]
NoCancel == [at |-> "idle", ev |-> 0, saw |-> None]
NoMail == [c \in Cases |-> "none"]

EvaluatorInit ==
  /\ rows = <<>>
  /\ refs = [i \in Ids |-> None]
  /\ reference \in OldReferences
  /\ evalActive = {} /\ evalCancel = {} /\ evalQueue = <<>>
  /\ exec = Idle
  /\ canceller = NoCancel
  /\ jobs = {}
  /\ results = [e \in Evals |-> NoResult]
  /\ mail = [e \in Evals |-> NoMail]
  /\ runner = RunnerIdle
  /\ disturbances = 0

\* What an instance bounds: the cancellations, restarts, seals and commits of others.
Disturbs == disturbances < MaxDisturbances /\ disturbances' = disturbances + 1

Created == DOMAIN rows
RowStatus(e, status) == rows' = [rows EXCEPT ![e].status = status]
ExecAt(at) == exec.at = at
ExecGoes(at) == exec' = [exec EXCEPT !.at = at]

-----------------------------------------------------------------------------
(* Creating and cancelling an evaluation                                   *)

\* create up to its row: the candidate ref must be the commit asked for.
Inserts(run, commit) ==
  /\ Len(rows) < MaxEvals
  /\ refs[run] = commit
  /\ rows' = Append(rows, [status |-> "queued", run |-> run, commit |-> commit, base |-> Base,
                           verdict |-> NoVerdict])

\* The rest of create: _active, the cancel event and the executor.
Submits(e) ==
  /\ evalActive' = evalActive \cup {e}
  /\ evalQueue' = Append(evalQueue, e)

\* cancel reads the row before it takes the lock.
CancelReads(e) ==
  /\ canceller = NoCancel
  /\ Disturbs
  /\ canceller' = [at |-> "read", ev |-> e, saw |-> rows[e].status]
  /\ UNCHANGED <<rows, refs, reference, evalActive, evalCancel, evalQueue, exec,
                 jobs, results, mail, runner>>

Cancellable(e) == e \in evalActive

\* Under the lock an active evaluation is cancelled by its event.
CancelLocks ==
  LET e == canceller.ev IN
  /\ canceller.at = "read"
  /\ IF Cancellable(e)
       THEN evalCancel' = evalCancel \cup {e} /\ RowStatus(e, "cancelling")
       ELSE UNCHANGED <<evalCancel, rows>>
  /\ canceller' = IF ~Cancellable(e) /\ canceller.saw = "queued"
                    THEN [canceller EXCEPT !.at = "dropping"] ELSE NoCancel
  /\ UNCHANGED <<refs, reference, evalActive, evalQueue, exec, jobs, results, mail,
                 runner, disturbances>>

\* One that was queued when it was read, and not active, is cancelled at once,
\* when the lock is free again.
CancelWrites ==
  /\ canceller.at = "dropping"
  /\ RowStatus(canceller.ev, "cancelled")
  /\ canceller' = NoCancel
  /\ UNCHANGED <<refs, reference, evalActive, evalCancel, evalQueue, exec, jobs, results, mail,
                 runner, disturbances>>

-----------------------------------------------------------------------------
(* The executing thread: _execute                                          *)

ExecutorTakes ==
  /\ ExecAt("idle") /\ evalQueue # <<>>
  /\ exec' = [Idle EXCEPT !.at = "exporting", !.ev = Head(evalQueue)]
  /\ evalQueue' = Tail(evalQueue)
  /\ RowStatus(Head(evalQueue), "preparing")
  /\ UNCHANGED <<refs, reference, evalActive, evalCancel, canceller, jobs, results, mail,
                 runner, disturbances>>

\* The candidate is exported and the job is put in the runner's directory.
Exports ==
  /\ ExecAt("exporting")
  /\ refs[rows[exec.ev].run] = rows[exec.ev].commit
  /\ jobs' = jobs \cup {exec.ev}
  /\ ExecGoes("starting")
  /\ UNCHANGED <<rows, refs, reference, evalActive, evalCancel, evalQueue, canceller,
                 results, mail, runner, disturbances>>

Fails ==
  /\ RowStatus(exec.ev, "error")
  /\ ExecGoes("leaving")

\* git or the file system fails.
ExportFails ==
  /\ ExecAt("exporting")
  /\ Fails
  /\ UNCHANGED <<refs, reference, evalActive, evalCancel, evalQueue, canceller, jobs,
                 results, mail, runner, disturbances>>

StartsRunning ==
  /\ ExecAt("starting")
  /\ RowStatus(exec.ev, "running")
  /\ ExecGoes("polling")
  /\ UNCHANGED <<refs, reference, evalActive, evalCancel, evalQueue, canceller, jobs,
                 results, mail, runner, disturbances>>

Pending(e) == {c \in Cases : mail[e][c] = "asked"}

\* The top of the loop: the deadline, the cancel event, the requests to answer.
Polls ==
  /\ ExecAt("polling")
  /\ IF exec.ev \in evalCancel
       THEN RowStatus(exec.ev, "cancelled") /\ ExecGoes("leaving")
       ELSE rows' = rows /\ exec' = [exec EXCEPT !.at = "serving", !.todo = Pending(exec.ev)]
  /\ UNCHANGED <<refs, reference, evalActive, evalCancel, evalQueue, canceller, jobs,
                 results, mail, runner, disturbances>>

DeadlinePasses ==
  /\ ExecAt("polling")
  /\ Fails
  /\ UNCHANGED <<refs, reference, evalActive, evalCancel, evalQueue, canceller, jobs,
                 results, mail, runner, disturbances>>

\* Mutant of MayCall: only the number of requests is limited.
MayCallBeyond == exec.calls < MaxCalls
MayCall == exec.calls < MaxCalls /\ exec.tokens < Budget

Answers(c, text) == mail' = [mail EXCEPT ![exec.ev][c] = text]

\* A request is refused, or its call fails.
ModelRefuses(c) ==
  /\ ExecAt("serving") /\ c \in exec.todo
  /\ Answers(c, "error")
  /\ exec' = [exec EXCEPT !.todo = @ \ {c}]
  /\ UNCHANGED <<rows, refs, reference, evalActive, evalCancel, evalQueue, canceller,
                 jobs, results, runner, disturbances>>

\* _model_call: the gateway answers; what goes beyond the budget is withheld.
ModelAnswers(c, tokens) ==
  /\ ExecAt("serving") /\ c \in exec.todo /\ MayCall
  /\ exec' = [exec EXCEPT !.todo = @ \ {c}, !.tokens = @ + tokens, !.calls = @ + 1]
  /\ Answers(c, IF exec.tokens + tokens > Budget THEN "error" ELSE "content")
  /\ UNCHANGED <<rows, refs, reference, evalActive, evalCancel, evalQueue, canceller,
                 jobs, results, runner, disturbances>>

LooksForResult ==
  /\ ExecAt("serving") /\ exec.todo = {}
  /\ ExecGoes(IF results[exec.ev] # NoResult THEN "deciding" ELSE "polling")
  /\ UNCHANGED <<rows, refs, reference, evalActive, evalCancel, evalQueue, canceller,
                 jobs, results, mail, runner, disturbances>>

\* _compare_to_reference
PassedIn(cases) == {c \in DOMAIN cases : cases[c] = "passed"}
Compared(sealed, cases) ==
  LET compatible == sealed # NoReference /\ DOMAIN sealed.cases = DOMAIN cases
      regressions == IF compatible THEN PassedIn(sealed.cases) \ PassedIn(cases) ELSE {}
  IN  [compatible |-> compatible, regressions |-> regressions,
       meets |-> /\ compatible /\ regressions = {}
                 /\ Cardinality(PassedIn(cases)) >= Cardinality(PassedIn(sealed.cases))]

\* Mutant of ReferenceFor: a reference of another base is compared with.
ReferenceForAnyBase(e) == reference
ReferenceFor(e) == IF reference.base = rows[e].base THEN reference ELSE NoReference

\* The verdict that is signed and stored with the row.
Verdict(e, payload) ==
  LET comparison == Compared(ReferenceFor(e), payload.cases)
      critical == payload.critical /\ exec.tokens <= Budget
  IN  [status |-> IF payload.cases # <<>> /\ critical /\ comparison.meets
                    THEN "passed" ELSE "failed",
       critical |-> critical, tokens |-> exec.tokens, cases |-> payload.cases,
       comparison |-> comparison, reference |-> ReferenceFor(e)]

\* The reference is loaded and the attestation signed.
Decides ==
  /\ ExecAt("deciding")
  /\ IF reference = Corrupt
       THEN Fails
       ELSE /\ exec' = [exec EXCEPT !.at = "recording",
                                   !.verdict = Verdict(exec.ev, results[exec.ev])]
            /\ rows' = rows
  /\ UNCHANGED <<refs, reference, evalActive, evalCancel, evalQueue, canceller, jobs,
                 results, mail, runner, disturbances>>

\* The row is updated with the status, the result and the attestation.
Records ==
  /\ ExecAt("recording")
  /\ rows' = [rows EXCEPT ![exec.ev].status = exec.verdict.status,
                          ![exec.ev].verdict = exec.verdict]
  /\ ExecGoes("leaving")
  /\ UNCHANGED <<refs, reference, evalActive, evalCancel, evalQueue, canceller, jobs,
                 results, mail, runner, disturbances>>

\* Mutant of StillActive: nobody takes the evaluation off _active.
StillActiveAll == evalActive
StillActive == evalActive \ {exec.ev}

\* The finally clause; what lies in the exchange is of no use any more.
Leaves ==
  /\ ExecAt("leaving")
  /\ evalActive' = StillActive
  /\ evalCancel' = evalCancel \ {exec.ev}
  /\ results' = [results EXCEPT ![exec.ev] = NoResult]
  /\ mail' = [mail EXCEPT ![exec.ev] = NoMail]
  /\ exec' = Idle
  /\ UNCHANGED <<rows, refs, reference, evalQueue, canceller, jobs, runner, disturbances>>

-----------------------------------------------------------------------------
(* The sealed reference                                                    *)

MayBecomeReference(e) ==
  /\ rows[e].status \in {"passed", "failed"}
  /\ rows[e].commit = rows[e].base
  /\ rows[e].verdict # NoVerdict /\ rows[e].verdict.critical
  /\ rows[e].verdict.cases # <<>>

\* set_reference opens the file, which empties it, and then writes it.
OpensReference(e) == MayBecomeReference(e) /\ reference' = Corrupt
WritesReference(e) ==
  reference' = [base |-> rows[e].base, cases |-> rows[e].verdict.cases, ev |-> e]

\* latest_passing_for_run: the newest passed row whose attestation verifies.
PassingOf(run) ==
  {e \in Created : rows[e].run = run /\ rows[e].status = "passed" /\ rows[e].verdict # NoVerdict}
LatestPassing(run) ==
  IF PassingOf(run) = {} THEN 0
  ELSE CHOOSE e \in PassingOf(run) : \A f \in PassingOf(run) : f <= e

-----------------------------------------------------------------------------
(* The runner: daemon, process_job and run_case                            *)

RunnerTakes(e) ==
  /\ runner.at = "idle" /\ e \in jobs
  /\ runner' = [RunnerIdle EXCEPT !.at = "cases", !.ev = e]
  /\ UNCHANGED <<rows, refs, reference, evalActive, evalCancel, evalQueue, exec, canceller,
                 jobs, results, mail, disturbances>>

\* The next case, whose order is not told apart.
StartsCase(c) ==
  /\ runner.at = "cases" /\ c \notin DOMAIN runner.cases
  /\ runner' = [runner EXCEPT !.at = "candidate", !.case = c]
  /\ UNCHANGED <<rows, refs, reference, evalActive, evalCancel, evalQueue, exec, canceller,
                 jobs, results, mail, disturbances>>

\* The candidate asks the model for a patch, once per iteration of its run: an
\* error, or a patch that did not help, may be followed by another request
\* (QueueModelClient.propose_patch waits for an answer).  Nobody answers for an
\* evaluation that is over: what is asked for it is left out.
AsksModel ==
  /\ runner.at = "candidate" /\ exec.ev = runner.ev
  /\ runner.asked < MaxProposals
  /\ mail[runner.ev][runner.case] # "asked"
  /\ mail' = [mail EXCEPT ![runner.ev][runner.case] = "asked"]
  /\ runner' = [runner EXCEPT !.asked = @ + 1]
  /\ UNCHANGED <<rows, refs, reference, evalActive, evalCancel, evalQueue, exec, canceller,
                 jobs, results, disturbances>>

\* An answer is only of use to the candidate that waits for it.
CaseDone(status, critical) ==
  /\ mail' = [mail EXCEPT ![runner.ev][runner.case] = IF @ = "asked" THEN @ ELSE "none"]
  /\ runner' = [runner EXCEPT !.at = "cases", !.case = None, !.asked = 0,
                            !.cases = [c \in DOMAIN @ \cup {runner.case} |->
                                         IF c = runner.case THEN status ELSE @[c]],
                            !.critical = @ /\ critical]

\* The candidate was given a patch, its own run passed, and so did the oracles
\* over public tests and sources that are the same as before.
CasePasses ==
  /\ runner.at = "candidate" /\ mail[runner.ev][runner.case] = "content"
  /\ CaseDone("passed", TRUE)
  /\ UNCHANGED <<rows, refs, reference, evalActive, evalCancel, evalQueue, exec, canceller,
                 jobs, results, disturbances>>

\* It failed, was killed at its timeout, or changed what it must not change.
CaseFails(critical) ==
  /\ runner.at = "candidate"
  /\ CaseDone("failed", critical)
  /\ UNCHANGED <<rows, refs, reference, evalActive, evalCancel, evalQueue, exec, canceller,
                 jobs, results, disturbances>>

\* The result is put in place and the request is removed.  Nobody reads the
\* result of an evaluation that is over: it is left out.
Publishes(payload) ==
  /\ results' = IF exec.ev = runner.ev THEN [results EXCEPT ![runner.ev] = payload] ELSE results
  /\ jobs' = jobs \ {runner.ev}
  /\ runner' = RunnerIdle
  /\ UNCHANGED <<rows, refs, reference, evalActive, evalCancel, evalQueue, exec, canceller,
                 mail, disturbances>>

RunnerPublishes ==
  /\ runner.at = "cases" /\ DOMAIN runner.cases = Cases
  /\ Publishes([cases |-> runner.cases, critical |-> runner.critical])

\* A job that raises is answered without cases and without critical checks.
RunnerGivesUp ==
  /\ runner.at = "cases"
  /\ Publishes([cases |-> <<>>, critical |-> TRUE])

-----------------------------------------------------------------------------
(* A restart of the controller, and its steps                              *)

\* recover_inflight writes the rows; the threads are gone.
EvaluatorRestarts ==
  /\ Disturbs
  /\ rows' = [e \in Created |-> IF rows[e].status \in Inflight
                                THEN [rows[e] EXCEPT !.status = "error"] ELSE rows[e]]
  /\ evalActive' = {} /\ evalCancel' = {} /\ evalQueue' = <<>>
  /\ results' = [e \in Evals |-> NoResult]
  /\ exec' = Idle
  /\ canceller' = NoCancel
  /\ UNCHANGED <<refs, reference, jobs, mail, runner>>

ExecutorStep ==
  \/ ExecutorTakes \/ Exports \/ ExportFails \/ StartsRunning
  \/ Polls \/ DeadlinePasses \/ LooksForResult
  \/ \E c \in Cases : ModelRefuses(c) \/ \E t \in 1..MaxCallTokens : ModelAnswers(c, t)
  \/ Decides \/ Records \/ Leaves

RunnerStep ==
  \/ \E e \in jobs : RunnerTakes(e)
  \/ \E c \in Cases : StartsCase(c)
  \/ AsksModel
  \/ CasePasses
  \/ \E critical \in BOOLEAN : CaseFails(critical)
  \/ RunnerPublishes \/ RunnerGivesUp

CancelStep == (\E e \in Created : CancelReads(e)) \/ CancelLocks \/ CancelWrites

EvaluatorStep == ExecutorStep \/ RunnerStep \/ CancelStep

-----------------------------------------------------------------------------
(* What the evaluator promises                                             *)

\* A passed row tells the truth: its candidate met every critical check within
\* the token budget, and passed every case that a reference for the same base
\* had passed; what the evaluator counts of its answers to a candidate that asks
\* again and again goes beyond the budget by less than one call.  (agent_eval/controller.py _execute: the loop,
\* the comparison, the attestation and the row are steps of their own.)
PassedMeetsReference ==
  \A e \in Created :
    LET row == rows[e] IN
    row.verdict # NoVerdict =>
      /\ row.verdict.tokens < Budget + MaxCallTokens
      /\ row.status = "passed" =>
           /\ row.verdict.status = "passed" /\ row.verdict.critical
           /\ row.verdict.tokens <= Budget
           /\ row.verdict.reference.base = row.base
           /\ PassedIn(row.verdict.reference.cases) \subseteq PassedIn(row.verdict.cases)

\* An evaluation that the executor has begun or will begin leaves _active,
\* whatever the candidate, the model, the runner or a restart does: the one
\* thread of the executor is never lost to it.
EvaluationsEnd == \A e \in Evals : e \in evalActive ~> e \notin evalActive
=============================================================================
