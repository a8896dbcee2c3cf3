--------------------------- MODULE AgentRunsProofs ---------------------------
(***************************************************************************)
(* For any runs, calls, threads, iterations and restarts: a run has one    *)
(* execution at a time, and one that is shown as passed has saved what git *)
(* sees of the worktree that passed, on evidence.                          *)
(***************************************************************************)
EXTENDS AgentRuns, SequenceTheorems, FiniteSetTheorems, TLAPS

Statuses ==
  {"none", "preparing", "ready", "running", "cancelling", "passed", "failed", "cancelled", "error"}
Holdouts == {"none", "passed", "failed", "skipped"}
Positions ==
  {"idle", "creating", "starting_automatically", "registering", "starting", "submitting",
   "cancel", "announcing", "dropping", "cleanup", "removing", "forgetting",
   "done"}
Places ==
  {"idle", "begin", "baseline", "propose", "apply", "evaluate", "holdout", "finalize", "save",
   "passed", "failed", "cancelled", "error", "budget", "finally"}
Jobs ==
  [at : Places, run : Runs \cup {None}, iteration : Nat, tested : Nat, holdout : Holdouts,
   error : BOOLEAN, candidate : Nat]
Results == [candidate : Nat, tested : Nat, holdout : Holdouts]
Rows == [status : Statuses, workspace : BOOLEAN, strict : BOOLEAN, result : Results]

TypeOK ==
  /\ runs \in [Runs -> Rows]
  /\ ref \in [Runs -> Nat]
  /\ tree \in [Runs -> Nat \ {0}]
  /\ active \subseteq Runs
  /\ queue \in Seq(Runs)
  /\ call \in [DOMAIN Calls -> [at : Positions, saw : Statuses]]
  /\ worker \in [Workers -> Jobs]

-----------------------------------------------------------------------------
(* Who may execute a run                                                   *)

\* A start call that has registered its run, and a thread that executes one.
Starter(c) == call[c].at \in {"starting", "submitting"}
Busy(w) == worker[w].at # "idle"

\* A registered run is with one start call, in the queue once, or with one thread.
SoleInv ==
  /\ \A c \in DOMAIN Calls : Starter(c) =>
       /\ Calls[c].run \in active
       /\ \A d \in DOMAIN Calls : Starter(d) /\ Calls[d].run = Calls[c].run => d = c
       /\ \A i \in DOMAIN queue : queue[i] # Calls[c].run
       /\ \A w \in Workers : Busy(w) => worker[w].run # Calls[c].run
  /\ \A i \in DOMAIN queue :
       /\ queue[i] \in active
       /\ \A j \in DOMAIN queue : queue[i] = queue[j] => i = j
       /\ \A w \in Workers : Busy(w) => worker[w].run # queue[i]
  /\ \A w \in Workers :
       /\ Busy(w) => worker[w].run \in active
       /\ ~Busy(w) => worker[w].run = None
       /\ \A v \in Workers : Busy(w) /\ Busy(v) /\ worker[v].run = worker[w].run => v = w

-----------------------------------------------------------------------------
(* What a job is worth                                                     *)

\* What an execution has established on the way to its verdict, given the row,
\* the worktree and the ref of its run.
Sound(job, row, version, saved) ==
  /\ job.at # "finally" => row.status # "passed"
  /\ job.at = "finally" => row.status # "running"
  /\ job.at \in {"begin", "baseline"} => job.iteration = 0
  /\ job.at \in {"propose", "apply", "finalize"} => job.tested \in {0, version}
  /\ job.at \in {"holdout", "save", "passed"} => job.tested = version
  /\ row.strict =>
       /\ job.at \in {"propose", "apply"} => job.tested = 0
       /\ job.at = "finalize" /\ job.tested # 0 /\ job.iteration # 0 => job.holdout # "none"
       /\ job.at \in {"save", "passed"} => job.holdout # "none"
  /\ job.at \in {"save", "passed"} => job.holdout # "failed"
  /\ job.at = "passed" => job.candidate = version /\ saved = version

JobInv ==
  \A w \in Workers : Busy(w) =>
    LET r == worker[w].run IN Sound(worker[w], runs[r], tree[r], ref[r])

\* A row is created before any call or job is concerned with it.
KnownInv ==
  /\ \A c \in DOMAIN Calls :
       /\ call[c].at \notin {"idle", "done"} => runs[Calls[c].run].status # "none"
       /\ call[c].at = "submitting" => runs[Calls[c].run].status # "passed"
  /\ \A i \in DOMAIN queue : runs[queue[i]].status \notin {"none", "passed"}
  /\ \A w \in Workers : Busy(w) => runs[worker[w].run].status # "none"

IInv ==
  /\ TypeOK /\ SoleInv /\ JobInv /\ KnownInv
  /\ PassedIsSaved /\ PassedOnEvidence /\ InFlightOwned

-----------------------------------------------------------------------------
(* The threads of the executor                                             *)

LEMMA InitInv == Init => IInv
<1> SUFFICES ASSUME Init PROVE IInv
  OBVIOUS
<1>1. TypeOK
  <2>1. NewRun \in Rows /\ NoJob \in Jobs
    BY DEF Rows, Results, Jobs, NewRun, NoResult, NoJob, NewJob, None, Statuses, Holdouts, Places
  <2>2. <<>> \in Seq(Runs)
    BY EmptySeq
  <2> QED
    BY <2>1, <2>2 DEF Init, TypeOK, Positions, Statuses
<1>2. SoleInv
  BY DEF Init, SoleInv, Starter, Busy, NoJob, NewJob, None
<1>3. JobInv /\ KnownInv
  BY DEF Init, JobInv, KnownInv, Busy, NoJob, NewJob
<1>4. PassedIsSaved /\ PassedOnEvidence /\ InFlightOwned
  BY DEF Init, PassedIsSaved, PassedOnEvidence, InFlightOwned, NewRun
<1> QED
  BY <1>1, <1>2, <1>3, <1>4 DEF IInv

\* A thread goes on with the same run, in a place that it may be in.
LEMMA JobMoves ==
  ASSUME IInv, NEW w \in Workers, Busy(w), NEW job \in Jobs,
         job.at # "idle", job.run = worker[w].run,
         Sound(job, runs[job.run], tree[job.run], ref[job.run]),
         worker' = [worker EXCEPT ![w] = job],
         WorkerOnly
  PROVE  IInv'
<1> USE DEF IInv, TypeOK, WorkerOnly, store, memory
<1>1. /\ worker'[w] = job
      /\ \A v \in Workers \ {w} : worker'[v] = worker[v]
  OBVIOUS
<1>2. \A v \in Workers : worker'[v].run = worker[v].run /\ (Busy(v)' <=> Busy(v))
  BY <1>1 DEF Busy
<1>3. TypeOK'
  OBVIOUS
<1>4. SoleInv'
  BY <1>2 DEF SoleInv, Starter
<1>5. JobInv'
  BY <1>1, <1>2 DEF JobInv
<1>6. KnownInv'
  BY <1>2 DEF KnownInv
<1>7. PassedIsSaved' /\ PassedOnEvidence' /\ InFlightOwned'
  BY DEF PassedIsSaved, PassedOnEvidence, InFlightOwned, At
<1> QED
  BY <1>3, <1>4, <1>5, <1>6, <1>7

\* The run of a busy thread is a run, and what the thread knows of it is true.
LEMMA OfBusy ==
  ASSUME IInv, NEW w \in Workers, Busy(w)
  PROVE  /\ worker[w] \in Jobs /\ worker[w].run \in Runs /\ worker[w].run \in active
         /\ runs[worker[w].run] \in Rows /\ tree[worker[w].run] \in Nat \ {0}
         /\ ref[worker[w].run] \in Nat
         /\ Sound(worker[w], runs[worker[w].run], tree[worker[w].run], ref[worker[w].run])
  BY DEF IInv, TypeOK, SoleInv, JobInv

\* A job written out, and with some of its fields replaced.
Written(at, run, iteration, tested, holdout, error, candidate) ==
  [at |-> at, run |-> run, iteration |-> iteration, tested |-> tested, holdout |-> holdout,
   error |-> error, candidate |-> candidate]
Made(job, at, iteration, tested, holdout, error) ==
  Written(at, job.run, iteration, tested, holdout, error, job.candidate)
Placed(job, at) == Made(job, at, job.iteration, job.tested, job.holdout, job.error)

\* One field replaced.
WithAt(job, new) == [job EXCEPT !.at = new]
WithIteration(job, new) == [job EXCEPT !.iteration = new]
WithTested(job, new) == [job EXCEPT !.tested = new]
WithHoldout(job, new) == [job EXCEPT !.holdout = new]
WithError(job, new) == [job EXCEPT !.error = new]
WithCandidate(job, new) == [job EXCEPT !.candidate = new]

LEMMA WithAtIs ==
  ASSUME NEW a, NEW r, NEW i, NEW t, NEW h, NEW e, NEW c, NEW new
  PROVE  WithAt(Written(a, r, i, t, h, e, c), new) = Written(new, r, i, t, h, e, c)
  BY DEF Written, WithAt

LEMMA WithIterationIs ==
  ASSUME NEW a, NEW r, NEW i, NEW t, NEW h, NEW e, NEW c, NEW new
  PROVE  WithIteration(Written(a, r, i, t, h, e, c), new) = Written(a, r, new, t, h, e, c)
  BY DEF Written, WithIteration

LEMMA WithTestedIs ==
  ASSUME NEW a, NEW r, NEW i, NEW t, NEW h, NEW e, NEW c, NEW new
  PROVE  WithTested(Written(a, r, i, t, h, e, c), new) = Written(a, r, i, new, h, e, c)
  BY DEF Written, WithTested

LEMMA WithHoldoutIs ==
  ASSUME NEW a, NEW r, NEW i, NEW t, NEW h, NEW e, NEW c, NEW new
  PROVE  WithHoldout(Written(a, r, i, t, h, e, c), new) = Written(a, r, i, t, new, e, c)
  BY DEF Written, WithHoldout

LEMMA WithErrorIs ==
  ASSUME NEW a, NEW r, NEW i, NEW t, NEW h, NEW e, NEW c, NEW new
  PROVE  WithError(Written(a, r, i, t, h, e, c), new) = Written(a, r, i, t, h, new, c)
  BY DEF Written, WithError

LEMMA WithCandidateIs ==
  ASSUME NEW a, NEW r, NEW i, NEW t, NEW h, NEW e, NEW c, NEW new
  PROVE  WithCandidate(Written(a, r, i, t, h, e, c), new) = Written(a, r, i, t, h, e, new)
  BY DEF Written, WithCandidate

LEMMA Shaped ==
  ASSUME NEW job \in Jobs
  PROVE  /\ job = Written(job.at, job.run, job.iteration, job.tested, job.holdout, job.error,
                          job.candidate)
         /\ job.at \in Places /\ job.run \in Runs \cup {None} /\ job.iteration \in Nat
         /\ job.tested \in Nat /\ job.holdout \in Holdouts /\ job.error \in BOOLEAN
         /\ job.candidate \in Nat
  BY DEF Jobs, Written

LEMMA MadeJob ==
  ASSUME NEW job \in Jobs, NEW at \in Places, NEW iteration \in Nat, NEW tested \in Nat,
         NEW holdout \in Holdouts, NEW error \in BOOLEAN
  PROVE  Made(job, at, iteration, tested, holdout, error) \in Jobs
<1>1. job.run \in Runs \cup {None} /\ job.candidate \in Nat
  BY Shaped
<1> QED
  BY <1>1 DEF Made, Written, Jobs

LEMMA Replaced ==
  ASSUME NEW job \in Jobs, NEW at, NEW iteration, NEW tested, NEW holdout,
         NEW no, NEW yes
  PROVE  /\ WithAt(job, at) = Placed(job, at)
         /\ WithAt(WithTested(job, tested), at)
              = Made(job, at, job.iteration, tested, job.holdout, job.error)
         /\ WithHoldout(WithAt(job, at), holdout)
              = Made(job, at, job.iteration, job.tested, holdout, job.error)
         /\ WithAt(WithError(WithIteration(job, iteration), no), at)
              = Made(job, at, iteration, job.tested, job.holdout, no)
         /\ WithError(WithAt(WithError(WithIteration(job, iteration), no), at), yes)
              = Made(job, at, iteration, job.tested, job.holdout, yes)
         /\ WithError(WithTested(WithAt(job, at), tested), yes)
              = Made(job, at, job.iteration, tested, job.holdout, yes)
         /\ WithCandidate(WithAt(job, at), tested)
              = Written(at, job.run, job.iteration, job.tested, job.holdout, job.error, tested)
<1> DEFINE r == job.run
           i == job.iteration
           t == job.tested
           h == job.holdout
           e == job.error
           c == job.candidate
<1>1. job = Written(job.at, r, i, t, h, e, c)
  BY Shaped
<1> HIDE DEF r, i, t, h, e, c
<1>2. WithAt(job, at) = Written(at, r, i, t, h, e, c)
  BY <1>1, WithAtIs
<1>3. WithAt(WithTested(job, tested), at) = Written(at, r, i, tested, h, e, c)
  <2>1. WithTested(job, tested) = Written(job.at, r, i, tested, h, e, c)
    BY <1>1, WithTestedIs
  <2> QED
    BY <2>1, WithAtIs
<1>4. WithHoldout(WithAt(job, at), holdout) = Written(at, r, i, t, holdout, e, c)
  BY <1>2, WithHoldoutIs
<1>5. WithAt(WithError(WithIteration(job, iteration), no), at)
        = Written(at, r, iteration, t, h, no, c)
  <2>1. WithIteration(job, iteration) = Written(job.at, r, iteration, t, h, e, c)
    BY <1>1, WithIterationIs
  <2>2. WithError(WithIteration(job, iteration), no) = Written(job.at, r, iteration, t, h, no, c)
    BY <2>1, WithErrorIs
  <2> QED
    BY <2>2, WithAtIs
<1>6. WithError(WithAt(WithError(WithIteration(job, iteration), no), at), yes)
        = Written(at, r, iteration, t, h, yes, c)
  BY <1>5, WithErrorIs
<1>7. WithError(WithTested(WithAt(job, at), tested), yes) = Written(at, r, i, tested, h, yes, c)
  <2>1. WithTested(WithAt(job, at), tested) = Written(at, r, i, tested, h, e, c)
    BY <1>2, WithTestedIs
  <2> QED
    BY <2>1, WithErrorIs
<1>8. WithCandidate(WithAt(job, at), tested) = Written(at, r, i, t, h, e, tested)
  BY <1>2, WithCandidateIs
<1> QED
  BY <1>2, <1>3, <1>4, <1>5, <1>6, <1>7, <1>8 DEF Made, Placed, r, i, t, h, e, c

LEMMA TestedFields ==
  ASSUME NEW job \in Jobs, NEW tested
  PROVE  WithTested(job, tested).tested = tested /\ WithTested(job, tested).run = job.run
<1>1. WithTested(job, tested)
        = Written(job.at, job.run, job.iteration, tested, job.holdout, job.error, job.candidate)
  BY Shaped, WithTestedIs
<1> QED
  BY <1>1 DEF Written

LEMMA MadeFields ==
  ASSUME NEW job \in Jobs, NEW at, NEW iteration, NEW tested, NEW holdout, NEW error
  PROVE  LET made == Made(job, at, iteration, tested, holdout, error)
         IN  /\ made.at = at /\ made.run = job.run /\ made.iteration = iteration
             /\ made.tested = tested /\ made.holdout = holdout
             /\ made.candidate = job.candidate /\ made.error = error
  BY DEF Made, Written

\* A thread goes on in another place, with what else it has found.
LEMMA MadeMoves ==
  ASSUME IInv, NEW w \in Workers, Busy(w), NEW at \in Places, at # "idle",
         NEW iteration \in Nat, NEW tested \in Nat, NEW holdout \in Holdouts, NEW error \in BOOLEAN,
         LET r == worker[w].run
         IN  Sound(Made(worker[w], at, iteration, tested, holdout, error), runs[r], tree[r], ref[r]),
         worker' = [worker EXCEPT ![w] = Made(worker[w], at, iteration, tested, holdout, error)],
         WorkerOnly
  PROVE  IInv'
<1> DEFINE job == Made(worker[w], at, iteration, tested, holdout, error)
<1>1. job \in Jobs /\ job.at # "idle" /\ job.run = worker[w].run
  BY OfBusy, MadeJob, MadeFields
<1> HIDE DEF job
<1>2. /\ Sound(job, runs[job.run], tree[job.run], ref[job.run])
      /\ worker' = [worker EXCEPT ![w] = job]
  BY <1>1 DEF job
<1> QED
  BY <1>1, <1>2, JobMoves

LEMMA Moved ==
  ASSUME IInv, NEW w \in Workers, Busy(w), NEW at \in Places, at # "idle", Moves(w, at),
         LET r == worker[w].run IN Sound(Placed(worker[w], at), runs[r], tree[r], ref[r]),
         WorkerOnly
  PROVE  IInv'
<1>1. worker[w] \in Jobs
  BY OfBusy
<1>2. worker' = [worker EXCEPT ![w] = Placed(worker[w], at)]
  <2>1. worker' = [worker EXCEPT ![w] = [worker[w] EXCEPT !.at = at]]
    BY DEF Moves
  <2>2. [worker[w] EXCEPT !.at = at] = Placed(worker[w], at)
    BY <1>1, Replaced DEF WithAt
  <2> QED
    BY <2>1, <2>2
<1> QED
  BY <1>1, <1>2, MadeMoves DEF Placed, Jobs

\* What a thread is left with when its run ends.
LEMMA EndedJob ==
  ASSUME NEW r \in Runs, NEW at \in Places
  PROVE  /\ [NoJob EXCEPT !.at = at, !.run = r] \in Jobs
         /\ [NoJob EXCEPT !.at = at, !.run = r].at = at
         /\ [NoJob EXCEPT !.at = at, !.run = r].run = r
  BY DEF NoJob, NewJob, Jobs, Places, Holdouts

\* A run that does not pass.
LEMMA Ended ==
  ASSUME IInv, NEW w \in Workers, Busy(w), worker[w].at # "finally",
         NEW at \in {"error", "cancelled", "budget", "failed"}, Ends(w, at), WorkerOnly
  PROVE  IInv'
<1> DEFINE r == worker[w].run
           job == [NoJob EXCEPT !.at = at, !.run = r]
<1>1. r \in Runs /\ runs[r].status # "passed" /\ at \in Places
  BY OfBusy DEF Sound, Places
<1>2. job \in Jobs /\ job.at = at /\ job.run = r
  BY <1>1, EndedJob
<1>3. worker' = [worker EXCEPT ![w] = job]
  BY DEF Ends, Becomes, Job
<1> HIDE DEF job
<1>4. Sound(job, runs[job.run], tree[job.run], ref[job.run])
  BY <1>1, <1>2 DEF Sound
<1> QED
  BY <1>2, <1>3, <1>4, JobMoves

\* The nodes that change nothing but the job.
NodeSteps(w) ==
  \/ Begins(w) \/ GuardCancels(w) \/ OutOfTime(w) \/ Raises(w)
  \/ Baseline(w) \/ Propose(w) \/ Evaluate(w) \/ Holdout(w) \/ Finalize(w)

LEMMA NodeStep ==
  ASSUME IInv, NEW w \in Workers, NodeSteps(w)
  PROVE  IInv'
<1> DEFINE J == worker[w]
           r == worker[w].run
           Fine(job) == Sound(job, runs[r], tree[r], ref[r])
<1>1. WorkerOnly /\ Busy(w)
  BY DEF NodeSteps, Begins, GuardCancels, OutOfTime, Raises, Baseline, Propose, Evaluate, Holdout,
         Finalize, Enters, Does, Guarded, Busy
<1>2. J \in Jobs /\ r \in Runs /\ runs[r] \in Rows /\ tree[r] \in Nat \ {0} /\ Fine(J)
  BY <1>1, OfBusy
<1>3. /\ J.at \in Places /\ J.iteration \in Nat /\ J.tested \in Nat
      /\ J.holdout \in Holdouts /\ J.error \in BOOLEAN
  BY <1>2, Shaped
<1>4. CASE Begins(w) \/ GuardCancels(w) \/ OutOfTime(w) \/ Raises(w)
  <2>1. J.at # "finally"
    BY <1>4 DEF Begins, GuardCancels, OutOfTime, Raises, Does, Guarded
  <2>2. CASE Moves(w, "baseline") /\ J.at = "begin"
    <3>1. Fine(Placed(J, "baseline"))
      BY <1>2, <2>2, MadeFields DEF Placed, Sound
    <3> QED
      BY <1>1, <2>2, <3>1, Moved DEF Places
  <2>3. CASE \E at \in {"error", "cancelled", "budget"} : Ends(w, at)
    BY <1>1, <2>1, <2>3, Ended
  <2> QED
    BY <1>4, <2>2, <2>3 DEF Begins, GuardCancels, OutOfTime, Raises, Does
<1>5. CASE Finalize(w)
  <2>1. J.at = "finalize"
    BY <1>5 DEF Finalize, Does
  <2>2. CASE Moves(w, "save") /\ Passed(J)
    <3>1. Fine(Placed(J, "save"))
      BY <1>2, <2>1, <2>2, MadeFields DEF Placed, Sound, Passed
    <3> QED
      BY <1>1, <2>2, <3>1, Moved DEF Places
  <2>3. CASE \E at \in {"cancelled", "failed"} : Ends(w, at)
    BY <1>1, <2>1, <2>3, Ended
  <2> QED
    BY <1>5, <2>2, <2>3 DEF Finalize, Job
<1>6. CASE Baseline(w)
  <2>1. J.at = "baseline"
    BY <1>6 DEF Baseline, Enters, Does
  <2>2. PICK tested \in {0, tree[r]}, at \in {"finalize", "propose"} :
          /\ worker' = [worker EXCEPT ![w] = WithAt(WithTested(J, tested), at)]
          /\ at = "propose" => tested = 0 \/ ~runs[r].strict
    <3> DEFINE next(job) == IF job.tested # 0 /\ runs[job.run].strict THEN "finalize" ELSE "propose"
    <3>1. PICK tested \in {0, tree[r]} :
            worker' = [worker EXCEPT ![w] = WithAt(WithTested(J, tested), next(WithTested(J, tested)))]
      BY <1>6 DEF Baseline, Verdicts, Becomes, Job, WithTested, WithAt
    <3>2. WithTested(J, tested).tested = tested /\ WithTested(J, tested).run = r
      BY <1>2, TestedFields
    <3>3. next(WithTested(J, tested)) = IF tested # 0 /\ runs[r].strict THEN "finalize" ELSE "propose"
      BY <3>2
    <3> HIDE DEF next
    <3>4. /\ next(WithTested(J, tested)) \in {"finalize", "propose"}
          /\ next(WithTested(J, tested)) = "propose" => tested = 0 \/ ~runs[r].strict
      BY <3>3
    <3> QED
      BY <3>1, <3>4
  <2>3. WithAt(WithTested(J, tested), at) = Made(J, at, J.iteration, tested, J.holdout, J.error)
    BY <1>2, Replaced
  <2>4. Fine(Made(J, at, J.iteration, tested, J.holdout, J.error))
    BY <1>2, <2>1, <2>2, MadeFields DEF Sound
  <2>5. worker' = [worker EXCEPT ![w] = Made(J, at, J.iteration, tested, J.holdout, J.error)]
    BY <2>2, <2>3
  <2>6. at \in Places /\ at # "idle" /\ tested \in Nat
    BY <1>2, <2>2 DEF Places
  <2> QED
    BY <1>1, <1>3, <2>4, <2>5, <2>6, MadeMoves
<1>7. CASE Propose(w)
  <2>1. J.at = "propose"
    BY <1>7 DEF Propose, Enters, Does
  <2>2. PICK at \in {"apply", "propose", "finalize"}, error \in BOOLEAN :
          worker' = [worker EXCEPT ![w] = Made(J, at, J.iteration + 1, J.tested, J.holdout, error)]
    <3> DEFINE P == WithError(WithIteration(J, J.iteration + 1), FALSE)
    <3>1. Again(P) \in {"propose", "finalize"}
      BY DEF Again
    <3>2. \/ Becomes(w, WithAt(P, "apply"))
          \/ Becomes(w, WithAt(P, Again(P)))
          \/ \E next \in {Again(P), "finalize"} : Becomes(w, WithError(WithAt(P, next), TRUE))
      BY <1>7 DEF Propose, Job, WithIteration, WithError, WithAt
    <3>3. \A at : /\ WithAt(P, at) = Made(J, at, J.iteration + 1, J.tested, J.holdout, FALSE)
                  /\ WithError(WithAt(P, at), TRUE)
                       = Made(J, at, J.iteration + 1, J.tested, J.holdout, TRUE)
      <4>1. \A at, no, yes :
              LET Q == WithError(WithIteration(J, J.iteration + 1), no)
              IN  /\ WithAt(Q, at) = Made(J, at, J.iteration + 1, J.tested, J.holdout, no)
                  /\ WithError(WithAt(Q, at), yes)
                       = Made(J, at, J.iteration + 1, J.tested, J.holdout, yes)
        <5> TAKE at, no, yes
        <5> DEFINE Q == WithError(WithIteration(J, J.iteration + 1), no)
        <5>1. WithAt(Q, at) = Made(J, at, J.iteration + 1, J.tested, J.holdout, no)
          BY <1>2, Replaced
        <5>2. WithError(WithAt(Q, at), yes) = Made(J, at, J.iteration + 1, J.tested, J.holdout, yes)
          BY <1>2, Replaced
        <5> QED
          BY <5>1, <5>2
      <4> QED
        BY <4>1
    <3> HIDE DEF P
    <3> QED
      BY <3>1, <3>2, <3>3 DEF Becomes
  <2>3. Fine(Made(J, at, J.iteration + 1, J.tested, J.holdout, error))
    BY <1>2, <1>3, <2>1, MadeFields DEF Sound
  <2>4. at \in Places /\ at # "idle" /\ J.iteration + 1 \in Nat
    BY <1>3, <2>2 DEF Places
  <2> QED
    BY <1>1, <1>3, <2>2, <2>3, <2>4, MadeMoves
<1>8. CASE Evaluate(w)
  <2>1. J.at = "evaluate"
    BY <1>8 DEF Evaluate, Enters, Does
  <2>2. PICK tested \in {0, tree[r]}, at \in {"holdout", "propose", "finalize"} :
          /\ worker' = [worker EXCEPT ![w] = WithAt(WithTested(J, tested), at)]
          /\ at = "holdout" <=> tested # 0
    <3>1. PICK job \in {WithTested(J, tree[r]), WithTested(J, 0)} :
            worker' = [worker EXCEPT ![w] =
              WithAt(job, IF job.tested # 0 THEN "holdout" ELSE Again(job))]
      BY <1>8 DEF Evaluate, Verdicts, Becomes, Job, WithTested, WithAt
    <3>2. \A tested : WithTested(J, tested).tested = tested
      BY <1>2, TestedFields
    <3> QED
      BY <3>1, <3>2 DEF Again
  <2>3. WithAt(WithTested(J, tested), at) = Made(J, at, J.iteration, tested, J.holdout, J.error)
    BY <1>2, Replaced
  <2>4. Fine(Made(J, at, J.iteration, tested, J.holdout, J.error))
    BY <1>2, <2>1, <2>2, MadeFields DEF Sound
  <2>5. worker' = [worker EXCEPT ![w] = Made(J, at, J.iteration, tested, J.holdout, J.error)]
    BY <2>2, <2>3
  <2>6. at \in Places /\ at # "idle" /\ tested \in Nat
    BY <1>2, <2>2 DEF Places
  <2> QED
    BY <1>1, <1>3, <2>4, <2>5, <2>6, MadeMoves
<1>9. CASE Holdout(w)
  <2>1. J.at = "holdout"
    BY <1>9 DEF Holdout, Enters, Does
  <2>2. PICK verdict \in {"passed", "failed", "skipped"} :
          worker' = [worker EXCEPT ![w] = WithHoldout(WithAt(J, "finalize"), verdict)]
    BY <1>9 DEF Holdout, Becomes, Job, WithAt, WithHoldout
  <2>3. WithHoldout(WithAt(J, "finalize"), verdict)
          = Made(J, "finalize", J.iteration, J.tested, verdict, J.error)
    BY <1>2, Replaced
  <2>4. Fine(Made(J, "finalize", J.iteration, J.tested, verdict, J.error))
    BY <1>2, <2>1, MadeFields DEF Sound
  <2>5. worker' = [worker EXCEPT ![w] = Made(J, "finalize", J.iteration, J.tested, verdict, J.error)]
    BY <2>2, <2>3
  <2>6. "finalize" \in Places /\ "finalize" # "idle" /\ verdict \in Holdouts
    BY <2>2 DEF Places, Holdouts
  <2> QED
    BY <1>1, <1>3, <2>4, <2>5, <2>6, MadeMoves
<1> QED
  BY <1>4, <1>5, <1>6, <1>7, <1>8, <1>9 DEF NodeSteps

-----------------------------------------------------------------------------
(* The steps of a thread that change its run                               *)

\* What PassedIsSaved and PassedOnEvidence say of one row.
RowFine(row, saved) ==
  row.status = "passed" =>
    /\ saved = row.result.candidate /\ row.result.tested = row.result.candidate
    /\ row.result.holdout # "failed"
    /\ row.strict => row.result.holdout # "none"

LEMMA AllRowsFine ==
  (PassedIsSaved /\ PassedOnEvidence) <=> (\A r \in Runs : RowFine(runs[r], ref[r]))
  BY DEF PassedIsSaved, PassedOnEvidence, RowFine

\* A busy thread has its run to itself.
LEMMA Alone ==
  ASSUME IInv, NEW w \in Workers, Busy(w)
  PROVE  /\ \A v \in Workers \ {w} : Busy(v) => worker[v].run # worker[w].run
         /\ \A i \in DOMAIN queue : queue[i] # worker[w].run
         /\ \A c \in DOMAIN Calls : Starter(c) => Calls[c].run # worker[w].run
  BY DEF IInv, SoleInv

\* A thread goes on, and changes no row, worktree or ref but those of its run.
LEMMA OwnMoves ==
  ASSUME IInv, NEW w \in Workers, Busy(w), NEW job \in Jobs,
         job.at # "idle", job.run = worker[w].run,
         worker' = [worker EXCEPT ![w] = job],
         UNCHANGED <<active, queue, call>>,
         runs' \in [Runs -> Rows], ref' \in [Runs -> Nat], tree' \in [Runs -> Nat \ {0}],
         \A q \in Runs \ {job.run} : runs'[q] = runs[q] /\ ref'[q] = ref[q] /\ tree'[q] = tree[q],
         runs'[job.run].status \in {runs[job.run].status, "passed", "failed", "cancelled", "error"},
         RowFine(runs'[job.run], ref'[job.run]),
         Sound(job, runs'[job.run], tree'[job.run], ref'[job.run])
  PROVE  IInv'
<1> DEFINE r == job.run
<1>1. /\ worker'[w] = job
      /\ \A v \in Workers \ {w} : worker'[v] = worker[v]
  BY DEF IInv, TypeOK
<1>2. \A v \in Workers : worker'[v].run = worker[v].run /\ (Busy(v)' <=> Busy(v))
  BY <1>1 DEF Busy
<1>3. r \in Runs /\ r \in active /\ runs[r].status # "none"
  BY OfBusy DEF IInv, KnownInv
<1>4. TypeOK'
  BY <1>1 DEF IInv, TypeOK
<1>5. SoleInv'
  BY <1>2 DEF IInv, SoleInv, Starter
<1>6. JobInv'
  <2> SUFFICES ASSUME NEW v \in Workers, Busy(v)'
               PROVE  (LET q == worker[v].run IN Sound(worker[v], runs[q], tree[q], ref[q]))'
    BY DEF JobInv
  <2>1. CASE v = w
    BY <1>1, <2>1
  <2>2. CASE v # w
    <3>1. Busy(v) /\ worker'[v] = worker[v]
      BY <1>1, <1>2, <2>2
    <3>2. worker[v].run \in Runs \ {r}
      BY <2>2, <3>1, Alone, OfBusy
    <3>3. Sound(worker[v], runs[worker[v].run], tree[worker[v].run], ref[worker[v].run])
      BY <3>1, OfBusy
    <3> QED
      BY <3>1, <3>2, <3>3
  <2> QED
    BY <2>1, <2>2
<1>7. KnownInv'
  <2>1. \A q \in Runs : runs[q].status # "none" => runs'[q].status # "none"
    BY <1>3
  <2>2. \A c \in DOMAIN Calls : call[c].at = "submitting" => Calls[c].run # r
    BY Alone DEF Starter
  <2>3. \A i \in DOMAIN queue : queue[i] # r /\ queue[i] \in Runs
    <3>1. queue \in Seq(Runs)
      BY DEF IInv, TypeOK
    <3>2. \A i \in DOMAIN queue : queue[i] # r
      BY Alone
    <3> QED
      BY <3>1, <3>2
  <2>4. \A c \in DOMAIN Calls : Calls[c].run \in Runs
    BY CallsAssumption
  <2>5. \A v \in Workers : Busy(v) => worker[v].run \in Runs
    BY OfBusy
  <2> QED
    BY <1>2, <2>1, <2>2, <2>3, <2>4, <2>5 DEF IInv, KnownInv
<1>8. PassedIsSaved' /\ PassedOnEvidence'
  <2>1. \A q \in Runs : RowFine(runs'[q], ref'[q])
    BY AllRowsFine DEF IInv
  <2> QED
    BY <2>1 DEF RowFine, PassedIsSaved, PassedOnEvidence
<1>9. InFlightOwned'
  <2>1. \A q \in Runs : runs'[q].status \in {"preparing", "running"} => runs'[q].status = runs[q].status
    OBVIOUS
  <2> QED
    BY <2>1 DEF IInv, InFlightOwned, At
<1> QED
  BY <1>4, <1>5, <1>6, <1>7, <1>8, <1>9 DEF IInv

LEMMA ApplyStep == ASSUME IInv, NEW w \in Workers, Apply(w) PROVE IInv'
<1> DEFINE J == worker[w]
           r == worker[w].run
<1>1. J.at = "apply" /\ Busy(w)
  BY DEF Apply, Enters, Does, Busy
<1>2. /\ J \in Jobs /\ r \in Runs /\ runs[r] \in Rows /\ tree[r] \in Nat \ {0}
      /\ Sound(J, runs[r], tree[r], ref[r])
  BY <1>1, OfBusy
<1>3. /\ J.iteration \in Nat /\ J.tested \in Nat
      /\ J.holdout \in Holdouts /\ J.error \in BOOLEAN
  BY <1>2, Shaped
<1>4. CASE tree' \in {tree, [tree EXCEPT ![r] = @ + 1]} /\ Moves(w, "evaluate")
  <2> DEFINE job == Placed(J, "evaluate")
  <2>1. worker' = [worker EXCEPT ![w] = job]
    <3>1. worker' = [worker EXCEPT ![w] = WithAt(J, "evaluate")]
      BY <1>4 DEF Moves, WithAt
    <3> QED
      BY <1>2, <3>1, Replaced
  <2>2. job \in Jobs
    <3>1. "evaluate" \in Places
      BY DEF Places
    <3> QED
      BY <1>2, <1>3, <3>1, MadeJob DEF Placed
  <2>3. /\ job.at = "evaluate" /\ job.run = r
    BY <1>2, MadeFields DEF Placed
  <2>4. /\ tree' \in [Runs -> Nat \ {0}]
        /\ \A q \in Runs \ {r} : tree'[q] = tree[q]
    <3>1. tree \in [Runs -> Nat \ {0}] /\ tree[r] + 1 \in Nat \ {0}
      BY <1>2 DEF IInv, TypeOK
    <3>2. tree' = tree \/ tree' = [tree EXCEPT ![r] = tree[r] + 1]
      BY <1>4
    <3> QED
      BY <3>1, <3>2
  <2>5. Sound(job, runs[r], tree'[r], ref[r])
    BY <1>1, <1>2, <2>3, <2>4 DEF Sound
  <2>6. UNCHANGED <<runs, ref, active, queue, call>>
    BY DEF Apply, memory
  <2>7. RowFine(runs[r], ref[r]) /\ runs \in [Runs -> Rows] /\ ref \in [Runs -> Nat]
    BY <1>2, AllRowsFine DEF IInv, TypeOK
  <2> HIDE DEF job
  <2> QED
    BY <1>1, <2>1, <2>2, <2>3, <2>4, <2>5, <2>6, <2>7, OwnMoves
<1>5. CASE /\ Becomes(w, [Job(w) EXCEPT !.at = Again(Job(w)), !.tested = 0, !.error = TRUE])
           /\ UNCHANGED tree
  <2>1. PICK at \in {"propose", "finalize"} : at = Again(J)
    BY DEF Again
  <2>2. worker' = [worker EXCEPT ![w] = WithError(WithTested(WithAt(J, at), 0), TRUE)]
    BY <1>5, <2>1 DEF Becomes, Job, WithError, WithTested, WithAt
  <2>3. worker' = [worker EXCEPT ![w] = Made(J, at, J.iteration, 0, J.holdout, TRUE)]
    <3>1. \A yes : WithError(WithTested(WithAt(J, at), 0), yes) = Made(J, at, J.iteration, 0, J.holdout, yes)
      BY <1>2, Replaced
    <3> QED
      BY <2>2, <3>1
  <2>4. Sound(Made(J, at, J.iteration, 0, J.holdout, TRUE), runs[r], tree[r], ref[r])
    <3>1. \A yes : Sound(Made(J, at, J.iteration, 0, J.holdout, yes), runs[r], tree[r], ref[r])
      BY <1>1, <1>2, MadeFields DEF Sound
    <3> QED
      BY <3>1
  <2>5. WorkerOnly
    BY <1>5 DEF Apply, WorkerOnly, store
  <2>6. at \in Places /\ at # "idle" /\ TRUE \in BOOLEAN /\ 0 \in Nat
    BY DEF Places
  <2> QED
    BY <1>1, <1>3, <2>3, <2>4, <2>5, <2>6, MadeMoves
<1> QED
  BY <1>4, <1>5 DEF Apply, Job

LEMMA SavesStep == ASSUME IInv, NEW w \in Workers, Saves(w) PROVE IInv'
<1> DEFINE J == worker[w]
           r == worker[w].run
           job == Written("passed", r, J.iteration, J.tested, J.holdout, J.error, tree[r])
<1>1. J.at = "save" /\ Busy(w)
  BY DEF Saves, Does, Busy
<1>2. /\ J \in Jobs /\ r \in Runs /\ runs[r] \in Rows /\ tree[r] \in Nat \ {0}
      /\ Sound(J, runs[r], tree[r], ref[r])
  BY <1>1, OfBusy
<1>3. /\ J.iteration \in Nat /\ J.tested \in Nat
      /\ J.holdout \in Holdouts /\ J.error \in BOOLEAN
  BY <1>2, Shaped
<1>4. worker' = [worker EXCEPT ![w] = job]
  <2>1. worker' = [worker EXCEPT ![w] = WithCandidate(WithAt(J, "passed"), tree[r])]
    BY DEF Saves, Becomes, Job, WithCandidate, WithAt
  <2> QED
    BY <1>2, <2>1, Replaced
<1>5. job \in Jobs
  BY <1>2, <1>3 DEF Written, Jobs, Places
<1>6. /\ job.at = "passed" /\ job.run = r /\ job.tested = J.tested /\ job.holdout = J.holdout
      /\ job.candidate = tree[r] /\ job.iteration = J.iteration
  BY DEF Written
<1>7. /\ ref' = [ref EXCEPT ![r] = tree[r]]
      /\ UNCHANGED <<runs, tree, active, queue, call>>
  BY DEF Saves, SavedFirst, Job, memory
<1>8. /\ ref' \in [Runs -> Nat] /\ ref'[r] = tree[r]
      /\ \A q \in Runs \ {r} : ref'[q] = ref[q]
  BY <1>2, <1>7 DEF IInv, TypeOK
<1>9. Sound(job, runs[r], tree[r], ref'[r]) /\ RowFine(runs[r], ref'[r])
  BY <1>1, <1>2, <1>6, <1>8 DEF Sound, RowFine
<1>10. runs \in [Runs -> Rows] /\ tree \in [Runs -> Nat \ {0}]
  BY DEF IInv, TypeOK
<1> HIDE DEF job
<1> QED
  BY <1>1, <1>4, <1>5, <1>6, <1>7, <1>8, <1>9, <1>10, OwnMoves

\* The row that ends a run.
LEMMA Recorded ==
  ASSUME IInv, NEW r \in Runs, NEW status \in Statuses, NEW result \in Results,
         runs' = [runs EXCEPT ![r].status = status, ![r].result = result]
  PROVE  /\ runs' \in [Runs -> Rows]
         /\ runs'[r].status = status /\ runs'[r].result = result
         /\ runs'[r].strict = runs[r].strict
         /\ \A q \in Runs \ {r} : runs'[q] = runs[q]
<1> DEFINE first == [runs EXCEPT ![r].status = status]
<1>1. runs \in [Runs -> Rows]
  BY DEF IInv, TypeOK
<1>2. /\ first \in [Runs -> Rows] /\ first[r].status = status /\ first[r].strict = runs[r].strict
      /\ \A q \in Runs \ {r} : first[q] = runs[q]
  BY <1>1 DEF Rows
<1>3. runs' = [first EXCEPT ![r].result = result]
  OBVIOUS
<1> HIDE DEF first
<1>4. /\ runs'[r] = [first[r] EXCEPT !.result = result]
      /\ \A q \in Runs \ {r} : runs'[q] = runs[q]
  BY <1>2, <1>3
<1>5. /\ runs'[r] \in Rows
      /\ runs'[r].status = status /\ runs'[r].result = result /\ runs'[r].strict = runs[r].strict
  <2>1. first[r] \in Rows /\ first[r].status = status /\ first[r].strict = runs[r].strict
    BY <1>2
  <2>2. \A row \in Rows :
          /\ [row EXCEPT !.result = result] \in Rows
          /\ [row EXCEPT !.result = result].result = result
          /\ [row EXCEPT !.result = result].status = row.status
          /\ [row EXCEPT !.result = result].strict = row.strict
    BY DEF Rows
  <2> QED
    BY <1>4, <2>1, <2>2
<1>6. runs' \in [Runs -> Rows]
  BY <1>2, <1>3, <1>4, <1>5
<1> QED
  BY <1>4, <1>5, <1>6

LEMMA RecordsStep ==
  ASSUME IInv, NEW w \in Workers, Records(w) \/ RecordsBudget(w)
  PROVE  IInv'
<1> DEFINE J == worker[w]
           r == worker[w].run
           job == [NoJob EXCEPT !.at = "finally", !.run = r]
<1>1. /\ Busy(w) /\ J.at # "finally"
      /\ worker' = [worker EXCEPT ![w] = job]
      /\ UNCHANGED <<ref, tree, active, queue, call>>
  BY DEF Records, RecordsBudget, Does, Busy, Ends, Becomes, Job, memory
<1>2. /\ J \in Jobs /\ r \in Runs /\ runs[r] \in Rows /\ tree[r] \in Nat \ {0} /\ ref[r] \in Nat
      /\ Sound(J, runs[r], tree[r], ref[r])
  BY <1>1, OfBusy
<1>3. J.tested \in Nat /\ J.holdout \in Holdouts /\ J.candidate \in Nat
  BY <1>2, Shaped
<1>4. PICK status \in {"passed", "failed", "cancelled", "error"}, result \in Results :
        /\ runs' = [runs EXCEPT ![r].status = status, ![r].result = result]
        /\ status = "passed" =>
             /\ J.at = "passed"
             /\ result = [candidate |-> J.candidate, tested |-> J.tested, holdout |-> J.holdout]
  <2>1. NoResult \in Results
    BY DEF NoResult, Results, Holdouts
  <2>2. CASE Records(w)
    <3>1. PICK status \in {"passed", "failed", "cancelled", "error"} :
            /\ J.at = status
            /\ runs' = [runs EXCEPT ![r].status = status, ![r].result =
                 CASE status = "passed" -> [candidate |-> J.candidate, tested |-> J.tested,
                                            holdout |-> J.holdout]
                   [] status = "error" -> runs[r].result
                   [] OTHER -> NoResult]
      BY <2>2 DEF Records, Does, Job
    <3>2. [candidate |-> J.candidate, tested |-> J.tested, holdout |-> J.holdout] \in Results
      BY <1>3 DEF Results
    <3>3. runs[r].result \in Results
      BY <1>2 DEF Rows
    <3> QED
      BY <2>1, <3>1, <3>2, <3>3
  <2>3. CASE RecordsBudget(w)
    BY <2>1, <2>3 DEF RecordsBudget, Job
  <2> QED
    BY <2>2, <2>3
<1>5. /\ runs' \in [Runs -> Rows]
      /\ runs'[r].status = status /\ runs'[r].result = result
      /\ runs'[r].strict = runs[r].strict
      /\ \A q \in Runs \ {r} : runs'[q] = runs[q]
  <2>1. status \in Statuses
    BY DEF Statuses
  <2> QED
    BY <1>2, <1>4, <2>1, Recorded
<1>6. RowFine(runs'[r], ref[r])
  <2> SUFFICES ASSUME status = "passed"
               PROVE  /\ ref[r] = result.candidate /\ result.tested = result.candidate
                      /\ result.holdout # "failed"
                      /\ runs[r].strict => result.holdout # "none"
    BY <1>5 DEF RowFine
  <2>1. /\ J.at = "passed" /\ result.candidate = J.candidate /\ result.tested = J.tested
        /\ result.holdout = J.holdout
    BY <1>4
  <2> QED
    BY <1>2, <2>1 DEF Sound
<1>7. job \in Jobs /\ job.at = "finally" /\ job.run = r
  BY <1>2, EndedJob DEF Places
<1> HIDE DEF job
<1>8. Sound(job, runs'[r], tree[r], ref[r])
  BY <1>4, <1>5, <1>7 DEF Sound
<1>9. ref \in [Runs -> Nat] /\ tree \in [Runs -> Nat \ {0}]
  BY DEF IInv, TypeOK
<1> QED
  BY <1>1, <1>4, <1>5, <1>6, <1>7, <1>8, <1>9, OwnMoves

\* The head of the queue passes to a thread that was idle.
LEMMA TakesStep == ASSUME IInv, NEW w \in Workers, Takes(w) PROVE IInv'
<1> DEFINE r == Head(queue)
           job == [NewJob EXCEPT !.run = r]
<1>1. /\ queue \in Seq(Runs) /\ queue # <<>> /\ 1 \in DOMAIN queue /\ r = queue[1] /\ r \in Runs
      /\ queue' = Tail(queue) /\ queue' \in Seq(Runs)
      /\ \A i \in DOMAIN queue' : i + 1 \in DOMAIN queue /\ i + 1 # 1 /\ queue'[i] = queue[i + 1]
  BY DEF IInv, TypeOK, Takes
<1>2. /\ ~Busy(w) /\ worker' = [worker EXCEPT ![w] = job]
      /\ UNCHANGED <<runs, ref, tree, active, call>>
  BY DEF Takes, Does, Busy, Becomes, store
<1>3. job \in Jobs /\ job.at = "begin" /\ job.run = r /\ job.iteration = 0
  BY <1>1 DEF NewJob, Jobs, Places, Holdouts
<1>4. /\ worker'[w] = job
      /\ \A v \in Workers \ {w} : worker'[v] = worker[v] /\ (Busy(v)' <=> Busy(v))
      /\ Busy(w)'
  BY <1>2, <1>3 DEF IInv, TypeOK, Busy
<1> HIDE DEF job
<1>5. /\ r \in active /\ runs[r].status \notin {"none", "passed"}
      /\ \A i \in DOMAIN queue' : queue'[i] # r
      /\ \A c \in DOMAIN Calls : Starter(c) => Calls[c].run # r
      /\ \A v \in Workers : Busy(v) => worker[v].run # r
  BY <1>1 DEF IInv, SoleInv, KnownInv
<1> HIDE DEF r
<1>6. TypeOK'
  BY <1>1, <1>2, <1>3, <1>4 DEF IInv, TypeOK
<1>7. SoleInv'
  <2>1. \A c \in DOMAIN Calls : Starter(c)' <=> Starter(c)
    BY <1>2 DEF Starter
  <2>2. \A c \in DOMAIN Calls : Starter(c)' =>
          /\ Calls[c].run \in active'
          /\ \A d \in DOMAIN Calls : Starter(d)' /\ Calls[d].run = Calls[c].run => d = c
          /\ \A i \in DOMAIN queue' : queue'[i] # Calls[c].run
          /\ \A v \in Workers : Busy(v)' => worker'[v].run # Calls[c].run
    BY <1>1, <1>2, <1>3, <1>4, <1>5, <2>1 DEF IInv, SoleInv
  <2>3. \A i \in DOMAIN queue' :
          /\ queue'[i] \in active'
          /\ \A v \in Workers : Busy(v)' => worker'[v].run # queue'[i]
    BY <1>1, <1>2, <1>3, <1>4, <1>5 DEF IInv, SoleInv
  <2>4. \A i, j \in DOMAIN queue' : queue'[i] = queue'[j] => i = j
    <3> SUFFICES ASSUME NEW i \in DOMAIN queue', NEW j \in DOMAIN queue', queue'[i] = queue'[j]
                 PROVE  i = j
      OBVIOUS
    <3>1. i + 1 = j + 1
      BY <1>1 DEF IInv, SoleInv
    <3>2. i \in Int /\ j \in Int
      BY <1>1
    <3> QED
      BY <3>1, <3>2
  <2>5. \A v \in Workers :
          /\ Busy(v)' => worker'[v].run \in active'
          /\ ~Busy(v)' => worker'[v].run = None
          /\ \A x \in Workers : Busy(v)' /\ Busy(x)' /\ worker'[x].run = worker'[v].run => x = v
    BY <1>2, <1>3, <1>4, <1>5 DEF IInv, SoleInv
  <2> QED
    BY <2>2, <2>3, <2>4, <2>5 DEF SoleInv
<1>8. JobInv'
  <2>1. Sound(job, runs[r], tree[r], ref[r])
    BY <1>3, <1>5 DEF Sound
  <2> QED
    BY <1>2, <1>3, <1>4, <2>1 DEF IInv, JobInv
<1>9. KnownInv'
  BY <1>1, <1>2, <1>3, <1>4, <1>5 DEF IInv, KnownInv
<1>10. PassedIsSaved' /\ PassedOnEvidence' /\ InFlightOwned'
  BY <1>2 DEF IInv, PassedIsSaved, PassedOnEvidence, InFlightOwned, At
<1> QED
  BY <1>6, <1>7, <1>8, <1>9, <1>10 DEF IInv

\* A thread that is through gives the run up.
LEMMA FinallyStep == ASSUME IInv, NEW w \in Workers, Finally(w) PROVE IInv'
<1> DEFINE r == worker[w].run
<1>1. /\ Busy(w) /\ worker[w].at = "finally"
      /\ worker' = [worker EXCEPT ![w] = NoJob]
      /\ active' = active \ {r}
      /\ UNCHANGED <<runs, ref, tree, queue, call>>
  BY DEF Finally, Discarded, Does, Busy, Becomes, Job, store
<1>2. NoJob \in Jobs /\ NoJob.at = "idle" /\ NoJob.run = None
  BY DEF NoJob, NewJob, Jobs, Places, Holdouts
<1>3. /\ worker'[w] = NoJob /\ ~Busy(w)'
      /\ \A v \in Workers \ {w} : worker'[v] = worker[v] /\ (Busy(v)' <=> Busy(v))
  BY <1>1, <1>2 DEF IInv, TypeOK, Busy
<1>4. runs[r].status # "running"
  BY <1>1, OfBusy DEF Sound
<1>5. /\ \A v \in Workers \ {w} : Busy(v) => worker[v].run # r
      /\ \A i \in DOMAIN queue : queue[i] # r
      /\ \A c \in DOMAIN Calls : Starter(c) => Calls[c].run # r
  BY <1>1, Alone
<1>6. TypeOK'
  BY <1>1, <1>2, <1>3 DEF IInv, TypeOK
<1>7. SoleInv'
  <2>1. \A c \in DOMAIN Calls : Starter(c)' <=> Starter(c)
    BY <1>1 DEF Starter
  <2> HIDE DEF r
  <2>2. \A v \in Workers : Busy(v)' => v # w /\ Busy(v) /\ worker'[v] = worker[v]
    BY <1>3
  <2>3. \A c \in DOMAIN Calls : Starter(c)' =>
          /\ Calls[c].run \in active'
          /\ \A d \in DOMAIN Calls : Starter(d)' /\ Calls[d].run = Calls[c].run => d = c
          /\ \A i \in DOMAIN queue' : queue'[i] # Calls[c].run
          /\ \A v \in Workers : Busy(v)' => worker'[v].run # Calls[c].run
    BY <1>1, <1>5, <2>1, <2>2 DEF IInv, SoleInv
  <2>4. \A i \in DOMAIN queue' :
          /\ queue'[i] \in active'
          /\ \A j \in DOMAIN queue' : queue'[i] = queue'[j] => i = j
          /\ \A v \in Workers : Busy(v)' => worker'[v].run # queue'[i]
    BY <1>1, <1>5, <2>2 DEF IInv, SoleInv
  <2>5. \A v \in Workers :
          /\ Busy(v)' => worker'[v].run \in active'
          /\ ~Busy(v)' => worker'[v].run = None
          /\ \A x \in Workers : Busy(v)' /\ Busy(x)' /\ worker'[x].run = worker'[v].run => x = v
    BY <1>1, <1>2, <1>3, <1>5, <2>2 DEF IInv, SoleInv
  <2> QED
    BY <2>3, <2>4, <2>5 DEF SoleInv
<1>8. JobInv' /\ KnownInv'
  BY <1>1, <1>3 DEF IInv, JobInv, KnownInv
<1>9. PassedIsSaved' /\ PassedOnEvidence' /\ InFlightOwned'
  BY <1>1, <1>4 DEF IInv, PassedIsSaved, PassedOnEvidence, InFlightOwned, At
<1> QED
  BY <1>6, <1>7, <1>8, <1>9 DEF IInv

LEMMA WorkerStep == ASSUME IInv, NEW w \in Workers, Works(w) PROVE IInv'
  BY NodeStep, ApplyStep, SavesStep, RecordsStep, TakesStep, FinallyStep DEF Works, NodeSteps

-----------------------------------------------------------------------------
(* The handlers                                                            *)

Goes(c, at) == call' \in [DOMAIN Calls -> [at : Positions, saw : Statuses]]
               /\ call'[c].at = at
               /\ \A d \in DOMAIN Calls \ {c} : call'[d] = call[d]

LEMMA GotoGoes ==
  ASSUME IInv, NEW c \in DOMAIN Calls, NEW at \in Positions, Goto(c, at)
  PROVE  Goes(c, at)
<1>1. call \in [DOMAIN Calls -> [at : Positions, saw : Statuses]] /\ "none" \in Statuses
  BY DEF IInv, TypeOK, Statuses
<1>2. call[c].saw \in Statuses
  BY <1>1
<1>3. PICK saw \in Statuses : call' = [call EXCEPT ![c] = [at |-> at, saw |-> saw]]
  BY <1>1, <1>2 DEF Goto
<1> QED
  BY <1>1, <1>3 DEF Goes

\* A handler that neither registers nor starts its run, and at most writes its row.
LEMMA CallMoves ==
  ASSUME IInv, NEW c \in DOMAIN Calls, NEW at, Goes(c, at), at \notin {"starting", "submitting"},
         UNCHANGED <<ref, tree, active, queue, worker>>,
         runs' \in [Runs -> Rows],
         \A q \in Runs \ {Calls[c].run} : runs'[q] = runs[q],
         at \notin {"idle", "done"} => runs'[Calls[c].run].status # "none",
         at = "creating" \/ call[c].at # "creating" \/ runs'[Calls[c].run].status # "preparing",
         LET old == runs[Calls[c].run]
             new == runs'[Calls[c].run]
         IN  \/ old.status = "none" /\ new.status = "preparing" /\ at = "creating"
             \/ /\ new.strict = old.strict /\ new.result = old.result
                /\ new.status \in {old.status, "ready", "error", "cancelling", "cancelled"}
  PROVE  IInv'
<1> DEFINE r == Calls[c].run
<1>1. r \in Runs /\ \A d \in DOMAIN Calls : Calls[d].run \in Runs
  BY CallsAssumption
<1>2. \A d \in DOMAIN Calls : Starter(d)' => Starter(d) /\ d # c
  BY DEF Goes, Starter
<1>3. \A v \in Workers : Busy(v)' <=> Busy(v)
  BY DEF Busy
<1>4. TypeOK'
  BY DEF IInv, TypeOK, Goes
<1>5. SoleInv'
  BY <1>2, <1>3 DEF IInv, SoleInv
<1>6. JobInv'
  <2> SUFFICES ASSUME NEW v \in Workers, Busy(v)
               PROVE  LET q == worker[v].run IN Sound(worker[v], runs'[q], tree[q], ref[q])
    BY <1>3 DEF JobInv
  <2>1. /\ worker[v].run \in Runs /\ runs[worker[v].run].status # "none"
        /\ Sound(worker[v], runs[worker[v].run], tree[worker[v].run], ref[worker[v].run])
    BY OfBusy DEF IInv, KnownInv
  <2>2. CASE worker[v].run = r
    BY <2>1, <2>2 DEF Sound
  <2>3. CASE worker[v].run # r
    BY <2>1, <2>3
  <2> QED
    BY <2>2, <2>3
<1>7. \A q \in Runs :
        /\ runs[q].status # "none" => runs'[q].status # "none"
        /\ runs[q].status \notin {"none", "passed"} => runs'[q].status \notin {"none", "passed"}
  BY <1>1
<1>8. KnownInv'
  <2>1. \A d \in DOMAIN Calls \ {c} :
          /\ call'[d].at \notin {"idle", "done"} => runs'[Calls[d].run].status # "none"
          /\ call'[d].at = "submitting" => runs'[Calls[d].run].status # "passed"
    BY <1>1, <1>7 DEF IInv, KnownInv, Goes
  <2>2. \A i \in DOMAIN queue : runs'[queue[i]].status \notin {"none", "passed"}
    BY <1>7 DEF IInv, KnownInv, TypeOK
  <2>3. \A v \in Workers : Busy(v) => runs'[worker[v].run].status # "none"
    BY <1>7, OfBusy DEF IInv, KnownInv
  <2> QED
    BY <1>3, <2>1, <2>2, <2>3 DEF KnownInv, Goes
<1>9. PassedIsSaved' /\ PassedOnEvidence'
  <2>1. \A q \in Runs : RowFine(runs[q], ref[q])
    BY AllRowsFine DEF IInv
  <2>2. \A q \in Runs : RowFine(runs'[q], ref[q])
    BY <1>1, <2>1 DEF RowFine
  <2> QED
    BY <2>2 DEF RowFine, PassedIsSaved, PassedOnEvidence
<1>10. InFlightOwned'
  <2> SUFFICES ASSUME NEW q \in Runs
               PROVE  /\ runs'[q].status = "preparing"
                           => \E d \in DOMAIN Calls : Calls[d].run = q /\ call'[d].at = "creating"
                      /\ runs'[q].status = "running" => q \in active
    BY DEF InFlightOwned, At
  <2>1. CASE runs'[q].status = "running"
    BY <1>1, <2>1 DEF IInv, InFlightOwned
  <2>2. CASE runs'[q].status = "preparing" /\ at = "creating" /\ q = r
    BY <2>2 DEF Goes
  <2>3. CASE runs'[q].status = "preparing" /\ ~(at = "creating" /\ q = r)
    <3>1. runs[q].status = "preparing"
      BY <1>1, <2>3
    <3>2. PICK d \in DOMAIN Calls : Calls[d].run = q /\ call[d].at = "creating"
      BY <3>1 DEF IInv, InFlightOwned, At
    <3>3. d # c
      BY <2>3, <3>2
    <3>4. call'[d].at = "creating"
      BY <3>2, <3>3 DEF Goes
    <3> QED
      BY <2>3, <3>2, <3>4
  <2> QED
    BY <2>1, <2>2, <2>3
<1> QED
  BY <1>4, <1>5, <1>6, <1>8, <1>9, <1>10 DEF IInv

\* A handler that only reads, and goes on or refuses.
LEMMA CallReads ==
  ASSUME IInv, NEW c \in DOMAIN Calls, NEW at, Goes(c, at),
         at \notin {"creating", "starting", "submitting"}, call[c].at # "creating",
         runs[Calls[c].run].status # "none", UNCHANGED <<runs, ref, tree, active, queue, worker>>
  PROVE  IInv'
  BY CallMoves DEF IInv, TypeOK

\* A write of the status or the workspace alone.
LEMMA RowWritten ==
  ASSUME IInv, NEW r \in Runs, NEW status \in Statuses, NEW workspace \in BOOLEAN,
         \/ runs' = [runs EXCEPT ![r].status = status]
         \/ runs' = [runs EXCEPT ![r].workspace = workspace] /\ status = runs[r].status
         \/ runs' = [runs EXCEPT ![r].status = status, ![r].workspace = workspace]
  PROVE  /\ runs' \in [Runs -> Rows]
         /\ \A q \in Runs \ {r} : runs'[q] = runs[q]
         /\ runs'[r].status = status /\ runs'[r].strict = runs[r].strict
         /\ runs'[r].result = runs[r].result
<1>1. runs \in [Runs -> Rows] /\ runs[r] \in Rows
  BY DEF IInv, TypeOK
<1>2. \A row \in Rows :
        /\ [row EXCEPT !.status = status] \in Rows
        /\ [row EXCEPT !.status = status].status = status
        /\ [row EXCEPT !.status = status].strict = row.strict
        /\ [row EXCEPT !.status = status].result = row.result
  BY DEF Rows
<1>3. \A row \in Rows :
        /\ [row EXCEPT !.workspace = workspace] \in Rows
        /\ [row EXCEPT !.workspace = workspace].status = row.status
        /\ [row EXCEPT !.workspace = workspace].strict = row.strict
        /\ [row EXCEPT !.workspace = workspace].result = row.result
  BY DEF Rows
<1>4. CASE runs' = [runs EXCEPT ![r].status = status]
  <2>1. runs' = [runs EXCEPT ![r] = [runs[r] EXCEPT !.status = status]]
    BY <1>4
  <2> QED
    BY <1>1, <1>2, <2>1
<1>5. CASE runs' = [runs EXCEPT ![r].workspace = workspace] /\ status = runs[r].status
  <2>1. runs' = [runs EXCEPT ![r] = [runs[r] EXCEPT !.workspace = workspace]]
    BY <1>5
  <2> QED
    BY <1>1, <1>3, <1>5, <2>1
<1>6. CASE runs' = [runs EXCEPT ![r].status = status, ![r].workspace = workspace]
  <2> DEFINE first == [runs EXCEPT ![r].status = status]
  <2>1. first = [runs EXCEPT ![r] = [runs[r] EXCEPT !.status = status]]
    OBVIOUS
  <2>2. runs' = [first EXCEPT ![r].workspace = workspace]
    BY <1>6
  <2> HIDE DEF first
  <2>3. /\ first \in [Runs -> Rows] /\ first[r] \in Rows
        /\ \A q \in Runs \ {r} : first[q] = runs[q]
        /\ first[r].status = status /\ first[r].strict = runs[r].strict
        /\ first[r].result = runs[r].result
    BY <1>1, <1>2, <2>1
  <2>4. runs' = [first EXCEPT ![r] = [first[r] EXCEPT !.workspace = workspace]]
    BY <2>2
  <2> QED
    BY <1>3, <2>3, <2>4
<1> QED
  BY <1>4, <1>5, <1>6

LEMMA CreatesStep ==
  ASSUME IInv, NEW c \in DOMAIN Calls, Creates(c, Calls[c].run)
  PROVE  IInv'
<1> DEFINE r == Calls[c].run
<1>1. r \in Runs
  BY CallsAssumption
<1>2. PICK strict \in BOOLEAN :
        runs' = [runs EXCEPT ![r] = [NewRun EXCEPT !.status = "preparing", !.strict = strict]]
  BY DEF Creates
<1>3. /\ [NewRun EXCEPT !.status = "preparing", !.strict = strict] \in Rows
      /\ [NewRun EXCEPT !.status = "preparing", !.strict = strict].status = "preparing"
  BY DEF NewRun, NoResult, Rows, Results, Statuses, Holdouts
<1>4. /\ runs' \in [Runs -> Rows] /\ runs'[r].status = "preparing"
      /\ \A q \in Runs \ {r} : runs'[q] = runs[q]
  BY <1>1, <1>2, <1>3 DEF IInv, TypeOK
<1>5. Goes(c, "creating")
  BY GotoGoes DEF Creates, Positions
<1>6. runs[r].status = "none" /\ UNCHANGED <<ref, tree, active, queue, worker>>
  BY DEF Creates, memory
<1> QED
  BY <1>1, <1>4, <1>5, <1>6, CallMoves

LEMMA CreateReturnsStep ==
  ASSUME IInv, NEW c \in DOMAIN Calls, CreateReturns(c, Calls[c].run)
  PROVE  IInv'
<1> DEFINE r == Calls[c].run
<1>1. r \in Runs /\ UNCHANGED <<ref, tree, active, queue, worker>>
  BY CallsAssumption DEF CreateReturns, memory
<1>2. PICK at \in {"starting_automatically", "done"}, status \in {"ready", "error"} :
        /\ Goto(c, at)
        /\ \/ runs' = [runs EXCEPT ![r].status = status]
           \/ runs' = [runs EXCEPT ![r].status = status, ![r].workspace = TRUE]
  BY DEF CreateReturns, GotoIf, Writes
<1>3. at \in Positions /\ status \in Statuses /\ TRUE \in BOOLEAN
  BY DEF Positions, Statuses
<1>4. Goes(c, at)
  BY <1>2, <1>3, GotoGoes
<1>5. /\ runs' \in [Runs -> Rows]
      /\ \A q \in Runs \ {r} : runs'[q] = runs[q]
      /\ runs'[r].status = status /\ runs'[r].strict = runs[r].strict
      /\ runs'[r].result = runs[r].result
  BY <1>1, <1>2, <1>3, RowWritten
<1> QED
  BY <1>1, <1>2, <1>4, <1>5, CallMoves

\* What a handler is concerned with has been created.
LEMMA Concerned ==
  ASSUME IInv, NEW c \in DOMAIN Calls, call[c].at \notin {"idle", "done"}
  PROVE  runs[Calls[c].run].status # "none"
  BY DEF IInv, KnownInv

LEMMA ReadsStep ==
  ASSUME IInv, NEW c \in DOMAIN Calls, Asks(c, Calls[c].run) \/ AutoStarts(c, Calls[c].run)
  PROVE  IInv'
<1> DEFINE r == Calls[c].run
<1>1. /\ Reads(c, r) /\ runs[r].status # "none" /\ call[c].at # "creating" /\ r \in Runs
  BY Concerned, CallsAssumption DEF Asks, AutoStarts, At
<1>2. UNCHANGED <<runs, ref, tree, active, queue, worker>>
  BY <1>1 DEF Reads, store, memory
<1>3. \E at \in {"cancel", "cleanup", "registering", "done"} : Goes(c, at)
  <2>1. CASE Of(c, {"cancel", "cleanup"})
    <3>1. PICK at \in {"cancel", "cleanup"} :
            call' = [call EXCEPT ![c] = [at |-> at, saw |-> runs[r].status]]
      BY <1>1, <2>1 DEF Reads, Of
    <3>2. at \in Positions /\ runs[r].status \in Statuses
      BY <1>1 DEF Positions, IInv, TypeOK, Rows
    <3>3. Goes(c, at)
      BY <3>1, <3>2 DEF Goes, IInv, TypeOK
    <3> QED
      BY <3>3
  <2>2. CASE ~Of(c, {"cancel", "cleanup"})
    <3>1. PICK at \in {"registering", "done"} : Goto(c, at)
      BY <1>1, <2>2 DEF Reads, GotoIf
    <3>2. at \in Positions
      BY DEF Positions
    <3> QED
      BY <3>1, <3>2, GotoGoes
  <2> QED
    BY <2>1, <2>2
<1> QED
  BY <1>1, <1>2, <1>3, CallReads

LEMMA CancelSetsStep ==
  ASSUME IInv, NEW c \in DOMAIN Calls,
         \/ CancelSets(c, Calls[c].run) \/ CleanupChecks(c, Calls[c].run)
         \/ Removes(c, Calls[c].run)
  PROVE  IInv'
<1>1. /\ call[c].at \in {"cancel", "cleanup", "removing"}
      /\ UNCHANGED <<runs, ref, tree, active, queue, worker>>
  BY DEF CancelSets, CleanupChecks, Removes, At, store, memory
<1>2. PICK at \in {"announcing", "dropping", "removing", "forgetting", "done"} : Goto(c, at)
  BY DEF CancelSets, CleanupChecks, Removes, GotoIf
<1>3. Goes(c, at)
  <2>1. at \in Positions
    BY DEF Positions
  <2> QED
    BY <1>2, <2>1, GotoGoes
<1>4. runs[Calls[c].run].status # "none"
  BY <1>1, Concerned
<1> QED
  BY <1>1, <1>3, <1>4, CallReads

LEMMA CallWritesStep ==
  ASSUME IInv, NEW c \in DOMAIN Calls,
         \/ CancelWrites(c, Calls[c].run) \/ CancelDrops(c, Calls[c].run) \/ Forgets(c, Calls[c].run)
  PROVE  IInv'
<1> DEFINE r == Calls[c].run
<1>1. /\ r \in Runs /\ call[c].at \in {"announcing", "dropping", "forgetting"}
      /\ Goto(c, "done") /\ UNCHANGED <<ref, tree, active, queue, worker>>
  BY CallsAssumption DEF CancelWrites, CancelDrops, Forgets, At, memory
<1>2. PICK status \in {runs[r].status, "cancelling", "cancelled"} :
        \/ runs' = [runs EXCEPT ![r].status = status]
        \/ runs' = [runs EXCEPT ![r].workspace = FALSE] /\ status = runs[r].status
  BY DEF CancelWrites, CancelDrops, Forgets, Writes
<1>3. status \in Statuses /\ FALSE \in BOOLEAN
  BY <1>1, <1>2 DEF Statuses, IInv, TypeOK, Rows
<1>4. /\ runs' \in [Runs -> Rows]
      /\ \A q \in Runs \ {r} : runs'[q] = runs[q]
      /\ runs'[r].status = status /\ runs'[r].strict = runs[r].strict
      /\ runs'[r].result = runs[r].result
  BY <1>1, <1>2, <1>3, RowWritten
<1>5. Goes(c, "done")
  BY <1>1, GotoGoes DEF Positions
<1> QED
  BY <1>1, <1>2, <1>4, <1>5, CallMoves

\* A start call registers its run, unless somebody has it.
LEMMA RegistersStep ==
  ASSUME IInv, NEW c \in DOMAIN Calls, Registers(c, Calls[c].run)
  PROVE  IInv'
<1> DEFINE r == Calls[c].run
<1>1. /\ r \in Runs /\ call[c].at = "registering"
      /\ UNCHANGED <<runs, ref, tree, queue, worker>>
      /\ runs[r].status # "none"
  BY CallsAssumption, Concerned DEF Registers, At, store
<1>2. CASE r \in active
  <2>1. Goto(c, "done") /\ UNCHANGED active
    BY <1>2 DEF Registers, GotoIf, MayRegister
  <2>2. Goes(c, "done")
    BY <2>1, GotoGoes DEF Positions
  <2> QED
    BY <1>1, <2>1, <2>2, CallReads
<1>3. CASE r \notin active
  <2>1. Goto(c, "starting") /\ active' = active \cup {r}
    BY <1>3 DEF Registers, GotoIf, MayRegister
  <2>2. Goes(c, "starting")
    BY <2>1, GotoGoes DEF Positions
  <2>3. \A d \in DOMAIN Calls : Starter(d)' <=> (Starter(d) \/ d = c)
    BY <2>2 DEF Goes, Starter
  <2>4. \A v \in Workers : Busy(v)' <=> Busy(v)
    BY <1>1 DEF Busy
  <2>5. /\ \A d \in DOMAIN Calls : Starter(d) => Calls[d].run # r
        /\ \A i \in DOMAIN queue : queue[i] # r
        /\ \A v \in Workers : Busy(v) => worker[v].run # r
    BY <1>3 DEF IInv, SoleInv
  <2>6. TypeOK'
    BY <1>1, <2>1, <2>2 DEF IInv, TypeOK, Goes
  <2>7. SoleInv'
    <3> HIDE DEF r
    <3>1. Calls[c].run = r
      BY DEF r
    <3> QED
      BY <1>1, <2>1, <2>3, <2>4, <2>5, <3>1 DEF IInv, SoleInv
  <2>8. JobInv' /\ KnownInv'
    BY <1>1, <2>2, <2>4 DEF IInv, JobInv, KnownInv, Goes
  <2>9. PassedIsSaved' /\ PassedOnEvidence' /\ InFlightOwned'
    <3>1. \A d \in DOMAIN Calls : call[d].at = "creating" => call'[d].at = "creating"
      BY <1>1, <2>2 DEF Goes
    <3> QED
      BY <1>1, <2>1, <3>1 DEF IInv, PassedIsSaved, PassedOnEvidence, InFlightOwned, At
  <2> QED
    BY <2>6, <2>7, <2>8, <2>9 DEF IInv
<1> QED
  BY <1>2, <1>3

\* What the start of a run has to itself.
LEMMA StarterAlone ==
  ASSUME IInv, NEW c \in DOMAIN Calls, Starter(c)
  PROVE  /\ Calls[c].run \in Runs /\ Calls[c].run \in active
         /\ runs[Calls[c].run].status # "none"
         /\ \A d \in DOMAIN Calls \ {c} : Starter(d) => Calls[d].run # Calls[c].run
         /\ \A i \in DOMAIN queue : queue[i] # Calls[c].run
         /\ \A w \in Workers : Busy(w) => worker[w].run # Calls[c].run
  BY Concerned, CallsAssumption DEF IInv, SoleInv, Starter

LEMMA StartsStep ==
  ASSUME IInv, NEW c \in DOMAIN Calls, Starts(c, Calls[c].run)
  PROVE  IInv'
<1> DEFINE r == Calls[c].run
<1>1. /\ Starter(c) /\ call[c].at = "starting" /\ Goto(c, "submitting")
      /\ runs' = [runs EXCEPT ![r].status = "running"]
      /\ UNCHANGED <<ref, tree, active, queue, worker>>
  BY DEF Starts, Starter, At, Writes, memory
<1>2. Goes(c, "submitting")
  BY <1>1, GotoGoes DEF Positions
<1>3. /\ runs' \in [Runs -> Rows]
      /\ \A q \in Runs \ {r} : runs'[q] = runs[q]
      /\ runs'[r].status = "running"
  <2>1. "running" \in Statuses /\ TRUE \in BOOLEAN /\ r \in Runs
    BY CallsAssumption DEF Statuses
  <2> QED
    BY <1>1, <2>1, RowWritten
<1>4. /\ r \in Runs /\ r \in active
      /\ \A d \in DOMAIN Calls \ {c} : Starter(d) => Calls[d].run # r
      /\ \A i \in DOMAIN queue : queue[i] # r
      /\ \A w \in Workers : Busy(w) => worker[w].run # r
  BY <1>1, StarterAlone
<1>5. \A d \in DOMAIN Calls : Starter(d)' <=> Starter(d)
  BY <1>1, <1>2 DEF Goes, Starter
<1>6. \A v \in Workers : Busy(v)' <=> Busy(v)
  BY <1>1 DEF Busy
<1>7. TypeOK'
  BY <1>1, <1>2, <1>3 DEF IInv, TypeOK, Goes
<1>8. SoleInv'
  BY <1>1, <1>5, <1>6 DEF IInv, SoleInv
<1>9. JobInv'
  BY <1>1, <1>3, <1>4, <1>6, OfBusy DEF JobInv
<1>10. KnownInv'
  <2>1. \A q \in Runs : runs[q].status # "none" => runs'[q].status # "none"
    BY <1>3
  <2>2. \A d \in DOMAIN Calls : Calls[d].run \in Runs
    BY CallsAssumption
  <2>3. \A d \in DOMAIN Calls \ {c} :
          /\ call'[d].at \notin {"idle", "done"} => runs'[Calls[d].run].status # "none"
          /\ call'[d].at = "submitting" => runs'[Calls[d].run].status # "passed"
    BY <1>2, <1>3, <2>1, <2>2 DEF IInv, KnownInv, Goes
  <2>4. \A i \in DOMAIN queue : runs'[queue[i]].status \notin {"none", "passed"}
    BY <1>3, <1>4 DEF IInv, KnownInv, TypeOK
  <2>5. \A v \in Workers : Busy(v) => runs'[worker[v].run].status # "none"
    BY <1>3, <1>4, OfBusy DEF IInv, KnownInv
  <2> QED
    BY <1>1, <1>3, <1>6, <2>3, <2>4, <2>5 DEF KnownInv
<1>11. PassedIsSaved' /\ PassedOnEvidence'
  <2>1. \A q \in Runs : runs'[q].status = "passed" => runs'[q] = runs[q]
    BY <1>3
  <2> QED
    BY <1>1, <2>1 DEF IInv, PassedIsSaved, PassedOnEvidence
<1>12. InFlightOwned'
  <2>1. \A d \in DOMAIN Calls : call[d].at = "creating" => call'[d].at = "creating"
    BY <1>1, <1>2 DEF Goes
  <2> QED
    BY <1>1, <1>3, <1>4, <2>1 DEF IInv, InFlightOwned, At
<1> QED
  BY <1>7, <1>8, <1>9, <1>10, <1>11, <1>12 DEF IInv

LEMMA SubmitsStep ==
  ASSUME IInv, NEW c \in DOMAIN Calls, Submits(c, Calls[c].run)
  PROVE  IInv'
<1> DEFINE r == Calls[c].run
<1>1. /\ Starter(c) /\ call[c].at = "submitting" /\ Goto(c, "done")
      /\ queue' = Append(queue, r)
      /\ UNCHANGED <<runs, ref, tree, active, worker>>
  BY DEF Submits, Starter, At, store
<1>2. Goes(c, "done")
  BY <1>1, GotoGoes DEF Positions
<1>3. /\ r \in Runs /\ r \in active /\ runs[r].status \notin {"none", "passed"}
      /\ \A d \in DOMAIN Calls \ {c} : Starter(d) => Calls[d].run # r
      /\ \A i \in DOMAIN queue : queue[i] # r
      /\ \A w \in Workers : Busy(w) => worker[w].run # r
  BY <1>1, StarterAlone DEF IInv, KnownInv
<1>4. \A d \in DOMAIN Calls : Starter(d)' => Starter(d) /\ d # c
  BY <1>2 DEF Goes, Starter
<1>5. \A v \in Workers : Busy(v)' <=> Busy(v)
  BY <1>1 DEF Busy
<1>6. /\ queue' \in Seq(Runs) /\ queue'[Len(queue) + 1] = r
      /\ \A i \in DOMAIN queue' : i = Len(queue) + 1 \/ (i \in DOMAIN queue /\ queue'[i] = queue[i])
  BY <1>1, <1>3 DEF IInv, TypeOK
<1>7. TypeOK'
  BY <1>1, <1>2, <1>6 DEF IInv, TypeOK, Goes
<1> HIDE DEF r
<1>8. SoleInv'
  <2>1. \A d \in DOMAIN Calls : Starter(d)' =>
          /\ Calls[d].run \in active'
          /\ \A e \in DOMAIN Calls : Starter(e)' /\ Calls[e].run = Calls[d].run => e = d
          /\ \A i \in DOMAIN queue' : queue'[i] # Calls[d].run
          /\ \A w \in Workers : Busy(w)' => worker'[w].run # Calls[d].run
    BY <1>1, <1>3, <1>4, <1>5, <1>6 DEF IInv, SoleInv
  <2>2. \A i \in DOMAIN queue' :
          /\ queue'[i] \in active'
          /\ \A w \in Workers : Busy(w)' => worker'[w].run # queue'[i]
    BY <1>1, <1>3, <1>5, <1>6 DEF IInv, SoleInv
  <2>3. \A i, j \in DOMAIN queue' : queue'[i] = queue'[j] => i = j
    BY <1>3, <1>6 DEF IInv, SoleInv
  <2>4. \A v \in Workers :
          /\ Busy(v)' => worker'[v].run \in active'
          /\ ~Busy(v)' => worker'[v].run = None
          /\ \A x \in Workers : Busy(v)' /\ Busy(x)' /\ worker'[x].run = worker'[v].run => x = v
    BY <1>1, <1>5 DEF IInv, SoleInv
  <2> QED
    BY <2>1, <2>2, <2>3, <2>4 DEF SoleInv
<1>9. JobInv'
  BY <1>1, <1>5 DEF IInv, JobInv
<1>10. KnownInv'
  BY <1>1, <1>2, <1>3, <1>5, <1>6 DEF IInv, KnownInv, Goes
<1>11. PassedIsSaved' /\ PassedOnEvidence' /\ InFlightOwned'
  <2>1. \A d \in DOMAIN Calls : call[d].at = "creating" => call'[d].at = "creating"
    BY <1>1, <1>2 DEF Goes
  <2> QED
    BY <1>1, <2>1 DEF IInv, PassedIsSaved, PassedOnEvidence, InFlightOwned, At
<1> QED
  BY <1>7, <1>8, <1>9, <1>10, <1>11 DEF IInv

LEMMA HandlerStep ==
  ASSUME IInv, NEW c \in DOMAIN Calls,
         Creates(c, Calls[c].run) \/ Asks(c, Calls[c].run) \/ Handles(c)
  PROVE  IInv'
  BY CreatesStep, CreateReturnsStep, ReadsStep, CancelSetsStep, CallWritesStep, RegistersStep,
     StartsStep, SubmitsStep DEF Handles

-----------------------------------------------------------------------------
(* The process and the specification                                       *)

LEMMA RestartStep == IInv /\ Restart => IInv'
<1> SUFFICES ASSUME IInv, Restart PROVE IInv'
  OBVIOUS
<1>1. /\ active' = {} /\ queue' = <<>> /\ worker' = [w \in Workers |-> NoJob]
      /\ UNCHANGED <<ref, tree>>
  BY DEF Restart
<1>2. NoJob \in Jobs /\ NoJob.at = "idle" /\ NoJob.run = None
  BY DEF NoJob, NewJob, Jobs, Places, Holdouts
<1>3. \A w \in Workers : worker'[w] = NoJob /\ ~Busy(w)'
  BY <1>1, <1>2 DEF Busy
<1>4. /\ call' \in [DOMAIN Calls -> [at : Positions, saw : Statuses]]
      /\ \A c \in DOMAIN Calls : call'[c].at \in {"idle", "done"}
  <2>1. /\ call \in [DOMAIN Calls -> [at : Positions, saw : Statuses]]
        /\ [at |-> "done", saw |-> "none"] \in [at : Positions, saw : Statuses]
    BY DEF IInv, TypeOK, Positions, Statuses
  <2>2. call' = [c \in DOMAIN Calls |->
                  IF call[c].at = "idle" THEN call[c] ELSE [at |-> "done", saw |-> "none"]]
    BY DEF Restart, At
  <2> QED
    BY <2>1, <2>2
<1>5. /\ runs' \in [Runs -> Rows]
      /\ \A r \in Runs :
           /\ runs'[r].status \notin Interrupted
           /\ runs'[r].status = "passed" => runs'[r] = runs[r]
  <2>1. \A row \in Rows : /\ [row EXCEPT !.status = "error"] \in Rows
                          /\ [row EXCEPT !.status = "error"].status = "error"
    BY DEF Rows, Statuses
  <2>2. \A r \in Runs : runs[r] \in Rows
    BY DEF IInv, TypeOK
  <2>3. runs' = [r \in Runs |-> IF runs[r].status \in Interrupted
                                 THEN [runs[r] EXCEPT !.status = "error"] ELSE runs[r]]
    BY DEF Restart
  <2> QED
    BY <2>1, <2>2, <2>3 DEF Interrupted
<1>6. TypeOK'
  <2>1. <<>> \in Seq(Runs)
    BY EmptySeq
  <2> QED
    BY <1>1, <1>2, <1>4, <1>5, <2>1 DEF IInv, TypeOK
<1>7. SoleInv' /\ JobInv' /\ KnownInv'
  <2>1. \A c \in DOMAIN Calls : ~Starter(c)' /\ call'[c].at # "submitting"
    BY <1>4 DEF Starter
  <2>2. DOMAIN queue' = {}
    BY <1>1
  <2> QED
    BY <1>2, <1>3, <1>4, <2>1, <2>2 DEF SoleInv, JobInv, KnownInv
<1>8. PassedIsSaved' /\ PassedOnEvidence' /\ InFlightOwned'
  BY <1>1, <1>5 DEF IInv, PassedIsSaved, PassedOnEvidence, InFlightOwned, Interrupted
<1> QED
  BY <1>6, <1>7, <1>8 DEF IInv

LEMMA NextInv == IInv /\ [Next]_vars => IInv'
<1> SUFFICES ASSUME IInv, [Next]_vars PROVE IInv'
  OBVIOUS
<1>1. CASE UNCHANGED vars
  <2> USE <1>1 DEF vars, store, memory
  <2>1. TypeOK' /\ KnownInv' /\ PassedIsSaved' /\ PassedOnEvidence'
    BY DEF IInv, TypeOK, KnownInv, Busy, PassedIsSaved, PassedOnEvidence
  <2>2. SoleInv' /\ JobInv' /\ InFlightOwned'
    BY DEF IInv, SoleInv, JobInv, InFlightOwned, Starter, Busy, At
  <2> QED
    BY <2>1, <2>2 DEF IInv
<1> QED
  BY <1>1, HandlerStep, WorkerStep, RestartStep DEF Next

\* Rows, jobs and handlers are related at every moment as this module says.
THEOREM Invariance == FairSpec => []IInv
  BY InitInv, NextInv, PTL DEF FairSpec, Spec

\* At most one element, counted.
LEMMA AtMostOne ==
  ASSUME NEW S, \A x, y \in S : x = y
  PROVE  Cardinality(S) = (IF S = {} THEN 0 ELSE 1)
<1>1. CASE S = {}
  BY <1>1, FS_EmptySet
<1>2. CASE S # {}
  <2>1. PICK x \in S : TRUE
    BY <1>2
  <2>2. S = {x}
    BY <2>1
  <2> QED
    BY <2>2, FS_Singleton
<1> QED
  BY <1>1, <1>2

\* However its start calls interleave, a run is queued or executed once, and only
\* while it is registered (agent_lab/controller.py, start_run and _execute).
THEOREM OneExecutionHolds == FairSpec => []OneExecution
<1>1. IInv => OneExecution
  <2> SUFFICES ASSUME IInv, NEW r \in Runs
               PROVE  Executions(r) <= (IF r \in active THEN 1 ELSE 0)
    BY DEF OneExecution
  <2> DEFINE Q == {i \in DOMAIN queue : queue[i] = r}
             W == {w \in Workers : worker[w].run = r}
  <2>1. r # None
    BY RunsAssumption DEF None
  <2>2. \A w \in W : Busy(w)
    BY <2>1 DEF IInv, SoleInv
  <2>3. \A i, j \in Q : i = j
    BY DEF IInv, SoleInv
  <2>4. \A v, w \in W : v = w
    BY <2>2 DEF IInv, SoleInv
  <2>5. Q = {} \/ W = {}
    BY <2>2 DEF IInv, SoleInv
  <2>6. r \notin active => Q = {} /\ W = {}
    BY <2>2 DEF IInv, SoleInv
  <2>7. Executions(r) = Cardinality(Q) + Cardinality(W)
    BY DEF Executions
  <2> HIDE DEF Q, W
  <2>8. /\ Cardinality(Q) = (IF Q = {} THEN 0 ELSE 1)
        /\ Cardinality(W) = (IF W = {} THEN 0 ELSE 1)
    BY <2>3, <2>4, AtMostOne
  <2> QED
    BY <2>5, <2>6, <2>7, <2>8
<1> QED
  BY <1>1, Invariance, PTL

\* A passed run has saved, under its private ref, what git sees of the worktree
\* that was tested, whatever ignored files were tested with it (agent_lab/controller.py, _execute, and agent_lab/worktrees.py).
THEOREM PassedIsSavedHolds == FairSpec => []PassedIsSaved
<1>1. IInv => PassedIsSaved
  BY DEF IInv
<1> QED
  BY <1>1, Invariance, PTL

\* No run passes against its holdout, and none that must start from a failing
\* baseline without a patch and a holdout (agent_lab/worker/graph.py, _finalize).
THEOREM PassedOnEvidenceHolds == FairSpec => []PassedOnEvidence
<1>1. IInv => PassedOnEvidence
  BY DEF IInv
<1> QED
  BY <1>1, Invariance, PTL

\* A row that says preparing or running is in somebody's hands, after a restart
\* too (agent_lab/controller.py, _recover_interrupted_runs).
THEOREM InFlightOwnedHolds == FairSpec => []InFlightOwned
<1>1. IInv => InFlightOwned
  BY DEF IInv
<1> QED
  BY <1>1, Invariance, PTL

=============================================================================
