----------------------------- MODULE AgentRuns ------------------------------
(***************************************************************************)
(* The Agent Lab controller (agent_lab/controller.py): coding runs kept in *)
(* SQLite, executed by a pool of threads, and operated by HTTP handlers    *)
(* that run in threads of their own.  A handler reads a run, takes _lock   *)
(* for _active and _cancel_events, and writes the run back with            *)
(* unconditional updates, so that every read, lock and write is a step.    *)
(* The worker of a run (agent_lab/worker/graph.py) edits a private         *)
(* worktree until a harness passes, and its result is saved as a candidate *)
(* commit (agent_lab/worktrees.py).                                        *)
(*                                                                         *)
(* A worktree is known by the version of what git sees of it, 1 as the     *)
(* base is checked out.  A patch makes the next version, unless it         *)
(* replaces a text by itself or makes only files that .gitignore covers:   *)
(* the harness runs with those files too, but git does not save them, and  *)
(* they are not part of a version.  A commit is the version it holds; 0 is *)
(* no version.                                                             *)
(*                                                                         *)
(* SQLite itself does not fail.  A start whose row cannot be written would *)
(* leave its run in _active, and an execution whose last row cannot be     *)
(* written would leave it in flight, both until the next restart.          *)
(***************************************************************************)
EXTENDS Naturals, Sequences, FiniteSets

CONSTANTS
  Runs,
  Calls,         \* [id -> [kind, run]]: what the operators ask for
  Workers,       \* the threads of the executor
  MaxIterations, \* task.budget.max_iterations
  MaxRestarts    \* bound of an instance

Kinds == {"create", "create_and_start", "start", "cancel", "cleanup"}

ASSUME RunsAssumption == "none" \notin Runs
ASSUME CallsAssumption ==
  \A c \in DOMAIN Calls : Calls[c].kind \in Kinds /\ Calls[c].run \in Runs
ASSUME BoundsAssumption == MaxIterations \in Nat \ {0} /\ MaxRestarts \in Nat

VARIABLES
  runs,     \* RunStore: the row of each run
  ref,      \* refs/agent-lab/candidates/<run>
  tree,     \* the version in the worktree of each run
  worktree, \* the runs whose worktree exists
  active,   \* _active
  event,    \* the runs whose cancel event is set
  lock,     \* who holds _lock over a write of the store
  queue,    \* the work queue of the executor
  call,     \* [at, saw]: where a handler is, and the run's status it read
  worker,   \* what each thread of the executor is doing
  restarts
store == <<runs, ref, tree, worktree>>
memory == <<active, event, queue>>
vars == <<store, memory, lock, call, worker, restarts>>

None == "none"
NoResult == [candidate |-> 0, tested |-> 0, holdout |-> "none"]
NewRun == [status |-> "none", workspace |-> FALSE, strict |-> FALSE, result |-> NoResult]
NewJob == [at |-> "begin", run |-> None, iteration |-> 0, tested |-> 0, holdout |-> "none",
           error |-> FALSE, candidate |-> 0]
NoJob == [NewJob EXCEPT !.at = "idle"]

Init ==
  /\ runs = [r \in Runs |-> NewRun]
  /\ ref = [r \in Runs |-> 0]
  /\ tree = [r \in Runs |-> 1]
  /\ worktree = {}
  /\ active = {} /\ event = {} /\ queue = <<>>
  /\ lock = None
  /\ call = [c \in DOMAIN Calls |-> [at |-> "idle", saw |-> "none"]]
  /\ worker = [w \in Workers |-> NoJob]
  /\ restarts = 0

Writes(r, status) == runs' = [runs EXCEPT ![r].status = status]

-----------------------------------------------------------------------------
(* The handlers                                                            *)

Of(c, kinds) == Calls[c].kind \in kinds
At(c, state) == call[c].at = state
Goto(c, state) ==
  call' = [call EXCEPT ![c] = [at |-> state, saw |-> IF state = "done" THEN "none" ELSE @.saw]]
\* The handler goes on, or refuses.
GotoIf(c, condition, state) == Goto(c, IF condition THEN state ELSE "done")

\* store.create_run; the caller knows the id of the run when create returns.
Creates(c, r) ==
  /\ Of(c, {"create", "create_and_start"}) /\ At(c, "idle")
  /\ runs[r].status = "none"
  /\ \E strict \in BOOLEAN :
       runs' = [runs EXCEPT ![r] = [NewRun EXCEPT !.status = "preparing", !.strict = strict]]
  /\ Goto(c, "creating")
  /\ UNCHANGED <<ref, tree, worktree, memory, lock, worker, restarts>>

CreateReturns(c, r) ==
  /\ At(c, "creating")
  /\ \/ /\ runs' = [runs EXCEPT ![r].status = "ready", ![r].workspace = TRUE]
        /\ worktree' = worktree \cup {r}
        /\ GotoIf(c, Of(c, {"create_and_start"}), "starting_automatically")
     \/ /\ Writes(r, "error")
        /\ worktree' \in {worktree, worktree \cup {r}}
        /\ Goto(c, "done")
  /\ UNCHANGED <<ref, tree, memory, lock, worker, restarts>>

\* The first line of start_run, cancel_run and cleanup_workspace.
Reads(c, r) ==
  /\ IF Of(c, {"cancel", "cleanup"})
       THEN call' = [call EXCEPT ![c] = [at |-> Calls[c].kind, saw |-> runs[r].status]]
       ELSE GotoIf(c, runs[r].status = "ready", "registering")
  /\ UNCHANGED <<store, memory, lock, worker, restarts>>

\* A call on a run that exists; any other is refused.
Asks(c, r) ==
  /\ At(c, "idle") /\ Of(c, {"start", "cancel", "cleanup"})
  /\ runs[r].status # "none"
  /\ Reads(c, r)

\* The auto_start of create_run.
AutoStarts(c, r) == At(c, "starting_automatically") /\ Reads(c, r)

\* Mutant of MayRegister: the run need not be inactive.
MayRegisterAlways(r) == r \in Runs
MayRegister(r) == r \notin active

Registers(c, r) ==
  /\ At(c, "registering")
  /\ lock = None
  /\ active' = IF MayRegister(r) THEN active \cup {r} ELSE active
  /\ event' = IF MayRegister(r) THEN event \ {r} ELSE event
  /\ GotoIf(c, MayRegister(r), "starting")
  /\ UNCHANGED <<store, queue, lock, worker, restarts>>

Starts(c, r) ==
  /\ At(c, "starting")
  /\ Writes(r, "running")
  /\ Goto(c, "submitting")
  /\ UNCHANGED <<ref, tree, worktree, memory, lock, worker, restarts>>

Submits(c, r) ==
  /\ At(c, "submitting")
  /\ queue' = Append(queue, r)
  /\ Goto(c, "done")
  /\ UNCHANGED <<store, active, event, lock, worker, restarts>>

\* An active run is cancelled cooperatively, under _lock.
CancelSets(c, r) ==
  /\ At(c, "cancel")
  /\ lock = None
  /\ IF r \in active
       THEN lock' = c /\ event' = event \cup {r} /\ Goto(c, "announcing")
       ELSE GotoIf(c, call[c].saw = "ready", "dropping") /\ UNCHANGED <<lock, event>>
  /\ UNCHANGED <<store, active, queue, worker, restarts>>

CancelWrites(c, r) ==
  /\ At(c, "announcing")
  /\ Writes(r, "cancelling")
  /\ lock' = None
  /\ Goto(c, "done")
  /\ UNCHANGED <<ref, tree, worktree, memory, worker, restarts>>

\* A run that was ready when it was read is cancelled at once.
CancelDrops(c, r) ==
  /\ At(c, "dropping")
  /\ Writes(r, "cancelled")
  /\ Goto(c, "done")
  /\ UNCHANGED <<ref, tree, worktree, memory, lock, worker, restarts>>

CleanupChecks(c, r) ==
  /\ At(c, "cleanup")
  /\ lock = None
  /\ GotoIf(c, r \notin active /\ call[c].saw \in {"passed", "failed", "cancelled", "error"},
            "removing")
  /\ UNCHANGED <<store, memory, lock, worker, restarts>>

\* The worktree goes, all at once, or git refuses.
Removes(c, r) ==
  /\ At(c, "removing")
  /\ \/ worktree' = worktree \ {r} /\ Goto(c, "forgetting")
     \/ UNCHANGED worktree /\ Goto(c, "done")
  /\ UNCHANGED <<runs, ref, tree, memory, lock, worker, restarts>>

Forgets(c, r) ==
  /\ At(c, "forgetting")
  /\ runs' = [runs EXCEPT ![r].workspace = FALSE]
  /\ Goto(c, "done")
  /\ UNCHANGED <<ref, tree, worktree, memory, lock, worker, restarts>>

Handles(c) ==
  LET r == Calls[c].run
  IN \/ CreateReturns(c, r) \/ AutoStarts(c, r)
     \/ Registers(c, r) \/ Starts(c, r) \/ Submits(c, r)
     \/ CancelSets(c, r) \/ CancelWrites(c, r) \/ CancelDrops(c, r)
     \/ CleanupChecks(c, r) \/ Removes(c, r) \/ Forgets(c, r)

-----------------------------------------------------------------------------
(* The executor                                                            *)

Job(w) == worker[w]
Does(w, state) == worker[w].at = state
Becomes(w, job) == worker' = [worker EXCEPT ![w] = job]
Moves(w, state) == worker' = [worker EXCEPT ![w].at = state]
\* The run does not pass: what its result says of that is left out.
Ends(w, state) == Becomes(w, [NoJob EXCEPT !.at = state, !.run = Job(w).run])
WorkerOnly == UNCHANGED <<store, memory, lock, call, restarts>>

Takes(w) ==
  /\ Does(w, "idle")
  /\ queue # <<>>
  /\ queue' = Tail(queue)
  /\ Becomes(w, [NewJob EXCEPT !.run = Head(queue)])
  /\ UNCHANGED <<store, active, event, lock, call, restarts>>

Begins(w) ==
  /\ Does(w, "begin")
  /\ IF runs[Job(w).run].workspace THEN Moves(w, "baseline") ELSE Ends(w, "error")
  /\ WorkerOnly

\* _guard, at the head of a node of the graph.
Guarded == {"baseline", "propose", "apply", "evaluate", "holdout"}
Enters(w, node) == Does(w, node) /\ Job(w).run \notin event

GuardCancels(w) ==
  /\ \E node \in Guarded : Does(w, node)
  /\ Job(w).run \in event
  /\ Ends(w, "cancelled")
  /\ WorkerOnly

OutOfTime(w) ==
  /\ \E node \in Guarded : Does(w, node)
  /\ Ends(w, "budget")
  /\ WorkerOnly

\* A node, or the saving of the candidate, raises.
Raises(w) ==
  /\ Does(w, "save") \/ \E node \in Guarded : Does(w, node)
  /\ Ends(w, "error")
  /\ WorkerOnly

\* The harness passes on the version in the worktree, or fails.
Verdicts(w) ==
  {[Job(w) EXCEPT !.tested = tree[Job(w).run]], [Job(w) EXCEPT !.tested = 0]}

\* inspect, select_harness and baseline
Baseline(w) ==
  /\ Enters(w, "baseline")
  /\ \E job \in Verdicts(w) :
       Becomes(w, [job EXCEPT !.at = IF job.tested # 0 /\ runs[job.run].strict
                                       THEN "finalize" ELSE "propose"])
  /\ WorkerOnly

Again(job) == IF job.iteration < MaxIterations THEN "propose" ELSE "finalize"

\* The model answers with edits, with none, or not at all, perhaps for want of
\* time; _apply and its route follow at once where there is nothing to apply.
Propose(w) ==
  /\ Enters(w, "propose")
  /\ LET job == [Job(w) EXCEPT !.iteration = Job(w).iteration + 1, !.error = FALSE]
     IN \/ Becomes(w, [job EXCEPT !.at = "apply"])
        \/ Becomes(w, [job EXCEPT !.at = Again(job)])
        \/ \E next \in {Again(job), "finalize"} :
             Becomes(w, [job EXCEPT !.at = next, !.error = TRUE])
  /\ WorkerOnly

\* apply_exact_edits applies all edits or none.
Apply(w) ==
  /\ Enters(w, "apply")
  /\ \/ /\ tree' \in {tree, [tree EXCEPT ![Job(w).run] = @ + 1]}
        /\ Moves(w, "evaluate")
     \/ /\ Becomes(w, [Job(w) EXCEPT !.at = Again(Job(w)), !.tested = 0, !.error = TRUE])
        /\ UNCHANGED tree
  /\ UNCHANGED <<runs, ref, worktree, memory, lock, call, restarts>>

Evaluate(w) ==
  /\ Enters(w, "evaluate")
  /\ \E job \in Verdicts(w) :
       Becomes(w, [job EXCEPT !.at = IF job.tested # 0 THEN "holdout" ELSE Again(job)])
  /\ WorkerOnly

Holdout(w) ==
  /\ Enters(w, "holdout")
  /\ \E verdict \in {"passed", "failed", "skipped"} :
       Becomes(w, [Job(w) EXCEPT !.at = "finalize", !.holdout = verdict])
  /\ WorkerOnly

\* Mutant of Passed: the visible harness alone decides.
PassedVisibly(job) == job.tested # 0 /\ ~job.error
\* _finalize
Passed(job) ==
  /\ job.tested # 0
  /\ job.holdout # "failed"
  /\ ~job.error
  /\ ~(job.iteration = 0 /\ runs[job.run].strict)

\* The last look at the cancel event follows the graph at once.
Finalize(w) ==
  /\ Does(w, "finalize")
  /\ CASE Job(w).run \in event -> Ends(w, "cancelled")
       [] Job(w).run \notin event /\ Passed(Job(w)) -> Moves(w, "save")
       [] Job(w).run \notin event /\ ~Passed(Job(w)) -> Ends(w, "failed")
  /\ WorkerOnly

\* Mutant of SavedFirst: the run is recorded before its candidate is saved.
SavedLater(w) == UNCHANGED ref
\* save_candidate moves the private ref of the run to what git status and git
\* add -A see of its worktree: the base commit itself where that is unchanged.
SavedFirst(w) == ref' = [ref EXCEPT ![Job(w).run] = tree[Job(w).run]]

Saves(w) ==
  /\ Does(w, "save")
  /\ Job(w).run \in worktree
  /\ SavedFirst(w)
  /\ Becomes(w, [Job(w) EXCEPT !.at = "passed", !.candidate = tree[Job(w).run]])
  /\ UNCHANGED <<runs, tree, worktree, memory, lock, call, restarts>>

\* The update of the row that ends the run; an error keeps an earlier result.
Records(w) ==
  /\ \E status \in {"passed", "failed", "cancelled", "error"} :
       /\ Does(w, status)
       /\ LET result == CASE status = "passed" -> [candidate |-> Job(w).candidate,
                                                   tested |-> Job(w).tested,
                                                   holdout |-> Job(w).holdout]
                          [] status = "error" -> runs[Job(w).run].result
                          [] OTHER -> NoResult
          IN runs' = [runs EXCEPT ![Job(w).run].status = status, ![Job(w).run].result = result]
  /\ Ends(w, "finally")
  /\ UNCHANGED <<ref, tree, worktree, memory, lock, call, restarts>>

RecordsBudget(w) ==
  /\ Does(w, "budget")
  /\ runs' = [runs EXCEPT ![Job(w).run].status = "failed", ![Job(w).run].result = NoResult]
  /\ Ends(w, "finally")
  /\ UNCHANGED <<ref, tree, worktree, memory, lock, call, restarts>>

\* Mutant of Discarded: a run stays registered.
DiscardedNone(r) == active
Discarded(r) == active \ {r}

Finally(w) ==
  /\ Does(w, "finally")
  /\ lock = None
  /\ active' = Discarded(Job(w).run)
  /\ event' = event \ {Job(w).run}
  /\ Becomes(w, NoJob)
  /\ UNCHANGED <<store, queue, lock, call, restarts>>

Works(w) ==
  \/ Takes(w) \/ Begins(w) \/ GuardCancels(w) \/ OutOfTime(w) \/ Raises(w)
  \/ Baseline(w) \/ Propose(w) \/ Apply(w) \/ Evaluate(w) \/ Holdout(w)
  \/ Finalize(w) \/ Saves(w) \/ Records(w) \/ RecordsBudget(w) \/ Finally(w)

-----------------------------------------------------------------------------
(* The process                                                             *)

\* Mutant of Interrupted: a run that was being prepared is not recovered.
InterruptedNotPreparing == {"running", "cancelling"}
\* The statuses that _recover_interrupted_runs turns into errors.
Interrupted == {"preparing", "running", "cancelling"}

\* The controller restarts: its threads, its queue and its memory are gone.
Restart ==
  /\ restarts < MaxRestarts
  /\ restarts' = restarts + 1
  /\ active' = {} /\ event' = {} /\ queue' = <<>>
  /\ lock' = None
  /\ worker' = [w \in Workers |-> NoJob]
  /\ call' = [c \in DOMAIN Calls |->
                IF At(c, "idle") THEN call[c] ELSE [at |-> "done", saw |-> "none"]]
  /\ runs' = [r \in Runs |-> IF runs[r].status \in Interrupted
                               THEN [runs[r] EXCEPT !.status = "error"] ELSE runs[r]]
  /\ UNCHANGED <<ref, tree, worktree>>

Next ==
  \/ \E c \in DOMAIN Calls :
       Creates(c, Calls[c].run) \/ Asks(c, Calls[c].run) \/ Handles(c)
  \/ \E w \in Workers : Works(w)
  \/ Restart

Spec == Init /\ [][Next]_vars

\* Threads that were started go on; _lock is held for one write at a time.
Fairness ==
  /\ \A c \in DOMAIN Calls : WF_vars(Handles(c))
  /\ \A w \in Workers : WF_vars(Works(w))

FairSpec == Spec /\ Fairness

-----------------------------------------------------------------------------
(* Properties                                                              *)

\* The executions of a run that are queued or in progress.
Executions(r) ==
  Cardinality({i \in DOMAIN queue : queue[i] = r}) + Cardinality({w \in Workers : worker[w].run = r})

\* Two executions of a run never share its worktree, however its start calls
\* interleave: a run is queued or executed once while it is in _active.
OneExecution == \A r \in Runs : Executions(r) <= (IF r \in active THEN 1 ELSE 0)

\* A run that is recorded as passed has its candidate under its private ref, and
\* the candidate is what git saves of the very worktree on which the harness
\* passed: no earlier or later version, though the ref moves before the row is
\* written.  Ignored files that a patch made were tested too, and are not saved.
PassedIsSaved ==
  \A r \in Runs : runs[r].status = "passed" =>
    /\ ref[r] = runs[r].result.candidate
    /\ runs[r].result.tested = runs[r].result.candidate

\* A run passes on evidence: the hidden holdout did not fail, and a run that
\* has to start from a failing baseline applied a patch and saw its holdout (which
\* follows a patch only; the patch may have changed nothing that git saves).
PassedOnEvidence ==
  \A r \in Runs : runs[r].status = "passed" =>
    /\ runs[r].result.holdout # "failed"
    /\ runs[r].strict => runs[r].result.holdout # "none"

\* A run that is shown as preparing or running is in some thread's hands: it
\* never stays in flight after a restart ("instead of leaving them permanently
\* in-flight").
InFlightOwned ==
  \A r \in Runs :
    /\ runs[r].status = "preparing" => \E c \in DOMAIN Calls : Calls[c].run = r /\ At(c, "creating")
    /\ runs[r].status = "running" => r \in active

\* Every started run leaves _active, whatever cancels, fails or restarts (but for
\* a failure of SQLite, see above).
ExecutionsEnd == \A r \in Runs : (r \in active) ~> (r \notin active)

=============================================================================
