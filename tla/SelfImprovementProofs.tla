------------------------ MODULE SelfImprovementProofs ------------------------
(***************************************************************************)
(* For any suite, runs, references and bounds: an evaluation that is not   *)
(* over has an owner, a candidate's verdict is what the comparison with    *)
(* the sealed reference and the budget allow, and an attempt qualifies     *)
(* only on passing evaluations of its own commit and an eligible review.   *)
(*                                                                         *)
(* None depends on what the runner, the operator or the file of the        *)
(* reference do: the invariants speak of the rows, the executor with its   *)
(* queue, and the campaign with its attempts.                              *)
(***************************************************************************)
EXTENDS SelfImprovement, SequenceTheorems, TLAPS

Unfinished == {"queued", "preparing", "running"}

IsSequence(s) == Len(s) \in Nat /\ s = [i \in 1..Len(s) |-> s[i]]

\* What a row, the executing thread and the campaign are made of.
RowShape(r) ==
  r = [status |-> r.status, run |-> r.run, commit |-> r.commit, base |-> r.base,
       verdict |-> r.verdict]

ExecShape ==
  /\ exec = [at |-> exec.at, ev |-> exec.ev, todo |-> exec.todo, tokens |-> exec.tokens,
             calls |-> exec.calls, verdict |-> exec.verdict]
  /\ exec.tokens \in Nat /\ exec.tokens < Budget + MaxCallTokens

CampShape ==
  camp = [at |-> camp.at, attempt |-> camp.attempt, ev |-> camp.ev, seen |-> camp.seen,
          allPassed |-> camp.allPassed, evidence |-> camp.evidence]

RowsShape == IsSequence(rows) /\ \A e \in Created : RowShape(rows[e])

\* The executor and its queue have active evaluations only, each of them once.
ExecutorOwns ==
  /\ evalActive \subseteq Created
  /\ evalQueue \in Seq(Nat)
  /\ \A i \in DOMAIN evalQueue :
       /\ evalQueue[i] \in evalActive
       /\ exec.at # "idle" => evalQueue[i] # exec.ev
       /\ \A j \in DOMAIN evalQueue : evalQueue[i] = evalQueue[j] => i = j
  /\ exec.at # "idle" => exec.ev \in evalActive
  /\ exec.at = "leaving" => rows[exec.ev].status \notin Unfinished

\* The campaign submits what it created, and nobody else has it.
CampaignOwns == CampAt("submitting") => camp.ev \in Created \ evalActive

Truthful(v, base) ==
  /\ v.tokens < Budget + MaxCallTokens
  /\ v.status \in {"passed", "failed"}
  /\ v.status = "passed" =>
       /\ v.critical /\ v.tokens <= Budget
       /\ v.reference.base = base
       /\ PassedIn(v.reference.cases) \subseteq PassedIn(v.cases)
       /\ v.comparison.regressions = {}

RowTruthful(r) ==
  r.verdict # NoVerdict =>
    /\ Truthful(r.verdict, r.base)
    /\ r.status = "passed" => r.verdict.status = "passed"

VerdictsTruthful ==
  /\ ExecAt("recording") => Truthful(exec.verdict, rows[exec.ev].base)
  /\ \A e \in Created : RowTruthful(rows[e])

IInv ==
  /\ RowsShape /\ ExecShape /\ CampShape
  /\ ExecutorOwns /\ CampaignOwns /\ VerdictsTruthful /\ UnfinishedIsOwned

\* All that the invariant speaks of.
owned == <<rows, evalActive, evalQueue, exec, camp>>

-----------------------------------------------------------------------------
LEMMA Appended ==
  ASSUME NEW s, IsSequence(s), NEW x
  PROVE  /\ IsSequence(Append(s, x)) /\ Len(Append(s, x)) = Len(s) + 1
         /\ DOMAIN Append(s, x) = 1..(Len(s) + 1)
         /\ \A i \in 1..Len(s) : Append(s, x)[i] = s[i]
         /\ Append(s, x)[Len(s) + 1] = x
<1> DEFINE S == {s[i] : i \in 1..Len(s)} \cup {x}
<1>1. s \in Seq(S)
  BY DEF IsSequence
<1> DEFINE t == Append(s, x)
<1>2. /\ t \in Seq(S) /\ Len(t) = Len(s) + 1 /\ Len(s) \in Nat
      /\ \A i \in 1..Len(s) : t[i] = s[i]
      /\ t[Len(s) + 1] = x
  BY <1>1
<1> HIDE DEF t
<1>3. t \in [1..Len(t) -> S] /\ DOMAIN t = 1..Len(t)
  BY <1>2, LenProperties
<1>4. IsSequence(t)
  BY <1>2, <1>3 DEF IsSequence
<1> QED
  BY <1>2, <1>3, <1>4 DEF t

LEMMA InitInv == Init => IInv
<1> SUFFICES ASSUME Init PROVE IInv
  OBVIOUS
<1>1. rows = <<>> /\ evalQueue = <<>> /\ exec = Idle /\ camp = Campaign /\ evalActive = {}
  BY DEF Init, EvaluatorInit
<1>2. RowsShape /\ Created = {}
  BY <1>1 DEF RowsShape, IsSequence, Created
<1>3. ExecShape /\ CampShape
  BY <1>1, EvaluatorAssumption DEF ExecShape, CampShape, Idle, Campaign, NoVerdict
<1>4. ExecutorOwns /\ CampaignOwns
  BY <1>1, <1>2 DEF ExecutorOwns, CampaignOwns, CampAt, Idle, Campaign
<1>5. VerdictsTruthful /\ UnfinishedIsOwned
  BY <1>1, <1>2 DEF VerdictsTruthful, UnfinishedIsOwned, ExecAt, Idle
<1> QED
  BY <1>2, <1>3, <1>4, <1>5 DEF IInv

LEMMA Kept == ASSUME IInv, UNCHANGED owned PROVE IInv'
  BY DEF IInv, owned, RowsShape, ExecShape, CampShape, ExecutorOwns, CampaignOwns,
         VerdictsTruthful, UnfinishedIsOwned, Created, CampAt, ExecAt

\* The status of a row changes and nothing else of the rows.
LEMMA StatusChanged ==
  ASSUME RowsShape, NEW e, NEW status, RowStatus(e, status)
  PROVE  /\ RowsShape' /\ Created' = Created
         /\ \A f \in Created :
              /\ rows'[f].base = rows[f].base /\ rows'[f].verdict = rows[f].verdict
              /\ rows'[f].commit = rows[f].commit
              /\ rows'[f].status = IF f = e THEN status ELSE rows[f].status
<1>1. Created' = Created
  BY DEF RowStatus, Created
<1>2. \A f \in Created :
        rows'[f] = IF f = e THEN [rows[f] EXCEPT !.status = status] ELSE rows[f]
  BY DEF RowStatus, Created
<1>3. \A f \in Created :
        /\ RowShape(rows'[f])
        /\ rows'[f].base = rows[f].base /\ rows'[f].verdict = rows[f].verdict
        /\ rows'[f].commit = rows[f].commit
        /\ rows'[f].status = IF f = e THEN status ELSE rows[f].status
  <2> SUFFICES ASSUME NEW f \in Created
               PROVE  /\ RowShape(rows'[f])
                      /\ rows'[f].base = rows[f].base /\ rows'[f].verdict = rows[f].verdict
                      /\ rows'[f].commit = rows[f].commit
                      /\ rows'[f].status = IF f = e THEN status ELSE rows[f].status
    OBVIOUS
  <2>1. RowShape(rows[f])
    BY DEF RowsShape
  <2>2. CASE f = e
    <3>1. rows'[f] = [status |-> status, run |-> rows[f].run, commit |-> rows[f].commit,
                      base |-> rows[f].base, verdict |-> rows[f].verdict]
      BY <1>2, <2>1, <2>2 DEF RowShape
    <3> QED
      BY <2>2, <3>1 DEF RowShape
  <2>3. CASE f # e
    BY <1>2, <2>1, <2>3
  <2> QED
    BY <2>2, <2>3
<1>4. IsSequence(rows')
  <2>1. rows \in Seq({rows[i] : i \in 1..Len(rows)})
    BY DEF RowsShape, IsSequence
  <2>2. DOMAIN rows = 1..Len(rows)
    BY <2>1
  <2>3. rows' = [i \in 1..Len(rows) |-> rows'[i]]
    BY <2>2 DEF RowStatus
  <2>4. rows' \in Seq({rows'[i] : i \in 1..Len(rows)}) /\ Len(rows') = Len(rows)
    BY <2>1, <2>3
  <2> QED
    BY <2>1, <2>3, <2>4 DEF IsSequence
<1> QED
  BY <1>1, <1>3, <1>4 DEF RowsShape

-----------------------------------------------------------------------------
(* The executing thread                                                    *)

\* A step of the thread with its evaluation, whose row it may give a status.
LEMMA ExecutorMoves ==
  ASSUME IInv, exec.at # "idle", exec'.at # "idle", exec'.ev = exec.ev, ExecShape',
         UNCHANGED <<evalActive, evalQueue, camp>>,
         \/ rows' = rows
         \/ \E status \in {"running", "error", "cancelled"} : RowStatus(exec.ev, status),
         exec'.at = "leaving" => rows'[exec.ev].status \notin Unfinished,
         exec'.at = "recording" => Truthful(exec'.verdict, rows[exec.ev].base)
  PROVE  IInv'
<1>1. exec.ev \in evalActive /\ exec.ev \in Created
  BY DEF IInv, ExecutorOwns
<1>2. /\ RowsShape' /\ Created' = Created
      /\ \A f \in Created :
           /\ rows'[f].base = rows[f].base /\ rows'[f].verdict = rows[f].verdict
           /\ f # exec.ev => rows'[f].status = rows[f].status
           /\ rows'[f].status = "passed" => rows[f].status = "passed"
  <2>1. CASE rows' = rows
    BY <2>1 DEF IInv, RowsShape, Created
  <2>2. ASSUME NEW status \in {"running", "error", "cancelled"}, RowStatus(exec.ev, status)
        PROVE  <1>2!:
    BY <2>2, StatusChanged DEF IInv
  <2> QED
    BY <2>1, <2>2
<1>3. ExecutorOwns'
  BY <1>1, <1>2 DEF IInv, ExecutorOwns
<1>4. CampaignOwns' /\ CampShape'
  BY <1>2 DEF IInv, CampaignOwns, CampAt, CampShape
<1>5. VerdictsTruthful'
  <2>1. ExecAt("recording")' => Truthful(exec'.verdict, rows'[exec'.ev].base)
    BY <1>1, <1>2 DEF ExecAt
  <2>2. ASSUME NEW f \in Created PROVE RowTruthful(rows'[f])
    BY <1>2 DEF IInv, VerdictsTruthful, RowTruthful
  <2> QED
    BY <1>2, <2>1, <2>2 DEF VerdictsTruthful
<1>6. UnfinishedIsOwned'
  BY <1>1, <1>2 DEF IInv, UnfinishedIsOwned
<1> QED
  BY <1>2, <1>3, <1>4, <1>5, <1>6 DEF IInv

LEMMA ExecGoesOn ==
  ASSUME IInv, NEW at, ExecGoes(at)
  PROVE  exec'.at = at /\ exec'.ev = exec.ev /\ ExecShape'
<1>1. exec' = [at |-> at, ev |-> exec.ev, todo |-> exec.todo, tokens |-> exec.tokens,
               calls |-> exec.calls, verdict |-> exec.verdict]
  BY DEF IInv, ExecShape, ExecGoes
<1> QED
  BY <1>1 DEF IInv, ExecShape

LEMMA RunStep ==
  ASSUME IInv, Exports \/ StartsRunning \/ LooksForResult, UNCHANGED camp
  PROVE  IInv'
<1>1. PICK at \in {"starting", "polling", "deciding"} :
        /\ ExecGoes(at)
        /\ exec.at # "idle"
        /\ rows' = rows \/ RowStatus(exec.ev, "running")
        /\ UNCHANGED <<evalActive, evalQueue>>
  BY DEF Exports, StartsRunning, LooksForResult, ExecAt
<1> QED
  BY <1>1, ExecGoesOn, ExecutorMoves

LEMMA FailStep ==
  ASSUME IInv, exec.at # "idle", UNCHANGED <<evalActive, evalQueue, camp>>,
         NEW status \in {"error", "cancelled"}, RowStatus(exec.ev, status), ExecGoes("leaving")
  PROVE  IInv'
<1>1. exec.ev \in Created
  BY DEF IInv, ExecutorOwns
<1>2. rows'[exec.ev].status = status
  BY <1>1, StatusChanged DEF IInv
<1>3. rows'[exec.ev].status \notin Unfinished
  BY <1>2 DEF Unfinished
<1> QED
  BY <1>3, ExecGoesOn, ExecutorMoves

LEMMA PollStep ==
  ASSUME IInv, ExportFails \/ DeadlinePasses \/ Polls, UNCHANGED camp
  PROVE  IInv'
<1>1. exec.at # "idle" /\ UNCHANGED <<evalActive, evalQueue>>
  BY DEF ExportFails, DeadlinePasses, Polls, ExecAt
<1>2. CASE ExportFails \/ DeadlinePasses
  BY <1>1, <1>2, FailStep DEF ExportFails, DeadlinePasses, Fails
<1>3. CASE Polls /\ exec.ev \in evalCancel
  BY <1>1, <1>3, FailStep DEF Polls
<1>4. CASE Polls /\ exec.ev \notin evalCancel
  <2>1. exec' = [at |-> "serving", ev |-> exec.ev, todo |-> Pending(exec.ev),
                 tokens |-> exec.tokens, calls |-> exec.calls, verdict |-> exec.verdict]
    BY <1>4 DEF Polls, IInv, ExecShape
  <2>2. exec'.at = "serving" /\ exec'.ev = exec.ev /\ ExecShape'
    BY <2>1 DEF IInv, ExecShape
  <2>3. rows' = rows
    BY <1>4 DEF Polls
  <2> QED
    BY <1>1, <2>2, <2>3, ExecutorMoves
<1> QED
  BY <1>2, <1>3, <1>4

LEMMA ServeStep ==
  ASSUME IInv, UNCHANGED camp, NEW c \in Cases,
         ModelRefuses(c) \/ \E t \in 1..MaxCallTokens : ModelAnswers(c, t)
  PROVE  IInv'
<1>1. exec.at = "serving" /\ UNCHANGED <<rows, evalActive, evalQueue>>
  BY DEF ModelRefuses, ModelAnswers, ExecAt
<1>2. exec'.at = "serving" /\ exec'.ev = exec.ev /\ ExecShape'
  <2>1. CASE ModelRefuses(c)
    <3>1. exec' = [at |-> exec.at, ev |-> exec.ev, todo |-> exec.todo \ {c},
                   tokens |-> exec.tokens, calls |-> exec.calls, verdict |-> exec.verdict]
      BY <2>1 DEF ModelRefuses, IInv, ExecShape
    <3> QED
      BY <1>1, <3>1 DEF IInv, ExecShape
  <2>2. ASSUME NEW t \in 1..MaxCallTokens, ModelAnswers(c, t)
        PROVE  exec'.at = "serving" /\ exec'.ev = exec.ev /\ ExecShape'
    <3>1. exec' = [at |-> exec.at, ev |-> exec.ev, todo |-> exec.todo \ {c},
                   tokens |-> exec.tokens + t, calls |-> exec.calls + 1,
                   verdict |-> exec.verdict]
      BY <2>2 DEF ModelAnswers, IInv, ExecShape
    <3>2. exec.tokens \in Nat /\ exec.tokens < Budget
      BY <2>2 DEF ModelAnswers, MayCall, IInv, ExecShape
    <3>3. exec.tokens + t \in Nat /\ exec.tokens + t < Budget + MaxCallTokens
      BY <3>2, EvaluatorAssumption
    <3> QED
      BY <1>1, <3>1, <3>3 DEF ExecShape
  <2> QED
    BY <2>1, <2>2
<1> QED
  BY <1>1, <1>2, ExecutorMoves

\* Only a candidate that meets the reference of its base within the budget passes.
LEMMA DecideStep ==
  ASSUME IInv, Decides, UNCHANGED camp
  PROVE  IInv'
<1>1. exec.at = "deciding" /\ UNCHANGED <<evalActive, evalQueue>>
  BY DEF Decides, ExecAt
<1>2. CASE reference = Corrupt
  BY <1>1, <1>2, FailStep DEF Decides, Fails
<1>3. CASE reference # Corrupt
  <2> DEFINE v == Verdict(exec.ev, results[exec.ev])
  <2>1. rows' = rows
    BY <1>3 DEF Decides
  <2>2. exec' = [at |-> "recording", ev |-> exec.ev, todo |-> exec.todo,
                 tokens |-> exec.tokens, calls |-> exec.calls, verdict |-> v]
    BY <1>3 DEF Decides, IInv, ExecShape
  <2>3. exec'.at = "recording" /\ exec'.ev = exec.ev /\ ExecShape' /\ exec'.verdict = v
    BY <2>2 DEF IInv, ExecShape
  <2>4. Truthful(v, rows[exec.ev].base)
    <3>1. v.tokens = exec.tokens /\ exec.tokens < Budget + MaxCallTokens
      BY DEF Verdict, IInv, ExecShape
    <3>2. v.status \in {"passed", "failed"}
      BY DEF Verdict
    <3>3. ASSUME v.status = "passed"
          PROVE  /\ v.critical /\ v.tokens <= Budget
                 /\ v.reference.base = rows[exec.ev].base
                 /\ PassedIn(v.reference.cases) \subseteq PassedIn(v.cases)
                 /\ v.comparison.regressions = {}
      <4>1. v.critical /\ v.tokens <= Budget
        BY <3>3 DEF Verdict
      <4>2. Compared(ReferenceFor(exec.ev), results[exec.ev].cases).meets
        BY <3>3 DEF Verdict
      <4>3. /\ ReferenceFor(exec.ev) # NoReference
            /\ PassedIn(ReferenceFor(exec.ev).cases) \ PassedIn(results[exec.ev].cases) = {}
        BY <4>2 DEF Compared
      <4>4. ReferenceFor(exec.ev).base = rows[exec.ev].base
        BY <4>3 DEF ReferenceFor
      <4>5. v.reference = ReferenceFor(exec.ev) /\ v.cases = results[exec.ev].cases
        BY DEF Verdict
      <4>6. v.comparison.regressions = {}
        BY <4>2 DEF Verdict, Compared
      <4> QED
        BY <4>1, <4>3, <4>4, <4>5, <4>6
    <3> QED
      BY <3>1, <3>2, <3>3 DEF Truthful
  <2> HIDE DEF v
  <2> QED
    BY <1>1, <2>1, <2>3, <2>4, ExecutorMoves
<1> QED
  BY <1>2, <1>3

LEMMA IdleShape ==
  ASSUME NEW at, NEW e, exec' = [Idle EXCEPT !.at = at, !.ev = e]
  PROVE  exec'.at = at /\ exec'.ev = e /\ ExecShape'
<1>1. 0 < Budget + MaxCallTokens
  BY EvaluatorAssumption
<1>2. exec'.at = at /\ exec'.ev = e
  BY DEF Idle
<1>3. ExecShape'
  BY <1>1 DEF ExecShape, Idle
<1> QED
  BY <1>2, <1>3

LEMMA TakeStep ==
  ASSUME IInv, ExecutorTakes, UNCHANGED camp
  PROVE  IInv'
<1> DEFINE e == Head(evalQueue)
<1>1. /\ evalQueue \in Seq(Nat) /\ evalQueue # <<>>
      /\ e = evalQueue[1] /\ 1 \in DOMAIN evalQueue
      /\ evalQueue' \in Seq(Nat) /\ exec.at = "idle"
      /\ \A i \in DOMAIN evalQueue' : i + 1 \in DOMAIN evalQueue
                                      /\ evalQueue'[i] = evalQueue[i + 1]
  BY DEF ExecutorTakes, ExecAt, IInv, ExecutorOwns
<1>2. e \in evalActive /\ e \in Created
  BY <1>1 DEF IInv, ExecutorOwns
<1>3. exec'.at = "exporting" /\ exec'.ev = e /\ ExecShape'
  BY IdleShape DEF ExecutorTakes
<1>4. UNCHANGED <<evalActive, camp>> /\ RowStatus(e, "preparing")
  BY DEF ExecutorTakes
<1>5. /\ RowsShape' /\ Created' = Created
      /\ \A f \in Created :
           /\ rows'[f].base = rows[f].base /\ rows'[f].verdict = rows[f].verdict
           /\ rows'[f].status = IF f = e THEN "preparing" ELSE rows[f].status
  BY <1>4, StatusChanged DEF IInv
<1> HIDE DEF e
<1>6. ExecutorOwns'
  <2>1. ASSUME NEW i \in DOMAIN evalQueue'
        PROVE  /\ evalQueue'[i] \in evalActive /\ evalQueue'[i] # e
               /\ \A j \in DOMAIN evalQueue' : evalQueue'[i] = evalQueue'[j] => i = j
    <3>1. i \in Nat \ {0}
      BY <1>1
    <3>2. evalQueue'[i] \in evalActive /\ evalQueue'[i] # e
      BY <1>1, <3>1 DEF IInv, ExecutorOwns
    <3>3. ASSUME NEW j \in DOMAIN evalQueue', evalQueue'[i] = evalQueue'[j] PROVE i = j
      <4>1. i + 1 = j + 1
        BY <1>1, <3>3 DEF IInv, ExecutorOwns
      <4>2. j \in Nat
        BY <1>1
      <4> QED
        BY <3>1, <4>1, <4>2
    <3> QED
      BY <3>2, <3>3
  <2> QED
    BY <1>1, <1>2, <1>3, <1>4, <1>5, <2>1 DEF IInv, ExecutorOwns
<1>7. CampaignOwns' /\ CampShape'
  BY <1>4, <1>5 DEF IInv, CampaignOwns, CampAt, CampShape
<1>8. VerdictsTruthful'
  BY <1>3, <1>5 DEF IInv, VerdictsTruthful, RowTruthful, ExecAt
<1>9. UnfinishedIsOwned'
  BY <1>2, <1>4, <1>5 DEF IInv, UnfinishedIsOwned
<1> QED
  BY <1>3, <1>5, <1>6, <1>7, <1>8, <1>9 DEF IInv

LEMMA RecordStep ==
  ASSUME IInv, Records, UNCHANGED camp
  PROVE  IInv'
<1> DEFINE v == exec.verdict
           e == exec.ev
<1>1. /\ exec.at = "recording" /\ UNCHANGED <<evalActive, evalQueue>> /\ e \in Created
      /\ ExecGoes("leaving") /\ Truthful(v, rows[e].base)
      /\ rows' = [rows EXCEPT ![e].status = v.status, ![e].verdict = v]
  BY DEF Records, ExecAt, IInv, ExecutorOwns, VerdictsTruthful
<1>2. exec'.at = "leaving" /\ exec'.ev = e /\ ExecShape'
  BY <1>1, ExecGoesOn
<1> HIDE DEF v, e
<1>3. \A f \in Created \ {e} : rows'[f] = rows[f]
  BY <1>1 DEF Created
<1>4. rows'[e] = [status |-> v.status, run |-> rows[e].run, commit |-> rows[e].commit,
                  base |-> rows[e].base, verdict |-> v]
  <2>1. RowShape(rows[e])
    BY <1>1 DEF IInv, RowsShape
  <2>2. rows'[e] = [[rows[e] EXCEPT !.status = v.status] EXCEPT !.verdict = v]
    BY <1>1 DEF Created
  <2> QED
    BY <2>1, <2>2 DEF RowShape
<1>5. RowsShape' /\ Created' = Created
  <2>1. DOMAIN rows' = DOMAIN rows
    BY <1>1
  <2>2. rows \in Seq({rows[i] : i \in 1..Len(rows)}) /\ DOMAIN rows = 1..Len(rows)
    BY DEF IInv, RowsShape, IsSequence
  <2>3. rows' = [i \in 1..Len(rows) |-> rows'[i]]
    BY <1>1, <2>2
  <2>4. Len(rows') = Len(rows) /\ Len(rows) \in Nat
    BY <2>2, <2>3
  <2>5. IsSequence(rows')
    BY <2>3, <2>4 DEF IsSequence
  <2>6. \A f \in Created : RowShape(rows'[f])
    BY <1>3, <1>4 DEF IInv, RowsShape, RowShape
  <2> QED
    BY <2>1, <2>5, <2>6 DEF RowsShape, Created
<1>6. ExecutorOwns'
  BY <1>1, <1>2, <1>4, <1>5 DEF IInv, ExecutorOwns, Truthful, Unfinished, e
<1>7. CampaignOwns' /\ CampShape'
  BY <1>1, <1>5 DEF IInv, CampaignOwns, CampAt, CampShape
<1>8. VerdictsTruthful'
  <2>1. RowTruthful(rows'[e])
    BY <1>1, <1>4 DEF RowTruthful
  <2>2. \A f \in Created : RowTruthful(rows'[f])
    BY <1>3, <2>1 DEF IInv, VerdictsTruthful
  <2> QED
    BY <1>2, <1>5, <2>2 DEF VerdictsTruthful, ExecAt
<1>9. UnfinishedIsOwned'
  <2>1. rows'[e].status \notin Unfinished
    BY <1>1, <1>4 DEF Truthful, Unfinished
  <2> QED
    BY <1>1, <1>3, <1>5, <2>1 DEF IInv, UnfinishedIsOwned, Unfinished
<1> QED
  BY <1>2, <1>5, <1>6, <1>7, <1>8, <1>9 DEF IInv

LEMMA LeaveStep ==
  ASSUME IInv, Leaves, UNCHANGED camp
  PROVE  IInv'
<1>1. /\ exec.at = "leaving" /\ evalActive' = evalActive \ {exec.ev} /\ exec' = Idle
      /\ rows' = rows /\ evalQueue' = evalQueue
  BY DEF Leaves, ExecAt, StillActive
<1>2. exec'.at = "idle" /\ ExecShape'
  BY <1>1, EvaluatorAssumption DEF Idle, ExecShape
<1>3. RowsShape' /\ Created' = Created /\ CampShape'
  BY <1>1 DEF IInv, RowsShape, Created, CampShape
<1>4. ExecutorOwns'
  BY <1>1, <1>2, <1>3 DEF IInv, ExecutorOwns
<1>5. CampaignOwns'
  BY <1>1, <1>3 DEF IInv, CampaignOwns, CampAt
<1>6. VerdictsTruthful'
  BY <1>1, <1>2, <1>3 DEF IInv, VerdictsTruthful, ExecAt
<1>7. UnfinishedIsOwned'
  BY <1>1, <1>3 DEF IInv, UnfinishedIsOwned, ExecutorOwns, Unfinished
<1> QED
  BY <1>2, <1>3, <1>4, <1>5, <1>6, <1>7 DEF IInv

LEMMA ExecutorStepInv ==
  ASSUME IInv, ExecutorStep, UNCHANGED camp
  PROVE  IInv'
  BY TakeStep, RunStep, PollStep, ServeStep, DecideStep, RecordStep, LeaveStep DEF ExecutorStep

-----------------------------------------------------------------------------
(* Cancellations, the campaign and the restart                             *)

LEMMA CancelStepInv ==
  ASSUME IInv, CancelLocks \/ CancelWrites, UNCHANGED camp
  PROVE  IInv'
<1> DEFINE e == canceller.ev
<1>1. UNCHANGED <<evalActive, evalQueue, exec, camp>>
  BY DEF CancelLocks, CancelWrites
<1>2. CASE rows' = rows
  BY <1>1, <1>2, Kept DEF owned
<1>3. ASSUME NEW status \in {"cancelling", "cancelled"}, RowStatus(e, status) PROVE IInv'
  <2> HIDE DEF e
  <2>1. /\ RowsShape' /\ Created' = Created
        /\ \A f \in Created :
             /\ rows'[f].base = rows[f].base /\ rows'[f].verdict = rows[f].verdict
             /\ rows'[f].status = IF f = e THEN status ELSE rows[f].status
    BY <1>3, StatusChanged DEF IInv
  <2>2. ExecShape' /\ CampShape'
    BY <1>1 DEF IInv, ExecShape, CampShape
  <2>3. ExecutorOwns'
    BY <1>1, <2>1 DEF IInv, ExecutorOwns, Unfinished
  <2>4. CampaignOwns'
    BY <1>1, <2>1 DEF IInv, CampaignOwns, CampAt
  <2>5. VerdictsTruthful'
    <3>1. ExecAt("recording") => exec.ev \in Created
      BY DEF IInv, ExecutorOwns, ExecAt
    <3> QED
      BY <1>1, <2>1, <3>1 DEF IInv, VerdictsTruthful, RowTruthful, ExecAt
  <2>6. UnfinishedIsOwned'
    BY <1>1, <2>1 DEF IInv, UnfinishedIsOwned
  <2> QED
    BY <2>1, <2>2, <2>3, <2>4, <2>5, <2>6 DEF IInv
<1> QED
  BY <1>2, <1>3 DEF CancelLocks, CancelWrites

LEMMA CampaignMoves ==
  ASSUME IInv, camp.at # "submitting", camp'.at # "submitting", CampShape',
         UNCHANGED <<rows, evalActive, evalQueue, exec>>
  PROVE  IInv'
  BY DEF IInv, RowsShape, ExecShape, ExecutorOwns, CampaignOwns, VerdictsTruthful,
         UnfinishedIsOwned, Created, CampAt, ExecAt

LEMMA CampaignGoesOn ==
  ASSUME IInv, NEW at, Goes(at)
  PROVE  camp'.at = at /\ CampShape'
<1>1. camp' = [at |-> at, attempt |-> camp.attempt, ev |-> camp.ev, seen |-> camp.seen,
               allPassed |-> camp.allPassed, evidence |-> camp.evidence]
  BY DEF IInv, CampShape, Goes
<1> QED
  BY <1>1 DEF CampShape

LEMMA GoesStep ==
  ASSUME IInv,
         \/ ReadsReference \/ MarksBaseline \/ CreateFails \/ WaitTimesOut \/ Seals \/ WritesSeal
         \/ \E yes \in BOOLEAN : ValidatesBaseline(yes) \/ Gates(yes)
         \/ LabPasses \/ \E status \in {"failed", "error"} : LabFails(status)
         \/ \E diff \in Diffs : Reviews(diff)
  PROVE  IInv'
<1>1. PICK at \in {"validating", "baseline", "evaluating base", "aborted", "writing",
                   "attempting", "done", "evaluating", "gating"} : Goes(at)
  BY DEF ReadsReference, MarksBaseline, CreateFails, WaitTimesOut, Seals, WritesSeal,
         ValidatesBaseline, Gates, LabPasses, LabFails, Reviews
<1>2. camp.at # "submitting" /\ UNCHANGED <<rows, evalActive, evalQueue, exec>>
  BY DEF ReadsReference, MarksBaseline, CreateFails, WaitTimesOut, Seals, WritesSeal,
         ValidatesBaseline, Gates, LabPasses, LabFails, Reviews, CampAt, evaluatorVars
<1> QED
  BY <1>1, <1>2, CampaignGoesOn, CampaignMoves

LEMMA WaitStep ==
  ASSUME IInv, WaitEnds \/ Attempting \/ \E yes \in BOOLEAN : Collects(yes)
  PROVE  IInv'
<1>1. camp.at # "submitting" /\ UNCHANGED <<rows, evalActive, evalQueue, exec>>
  BY DEF WaitEnds, Attempting, Collects, CampAt, evaluatorVars
<1>2. camp'.at # "submitting" /\ CampShape'
  <2>1. CASE WaitEnds
    <3> DEFINE seen == Append(camp.seen, camp.ev)
               at == IF camp.attempt = 0 THEN AfterBaseline(seen) ELSE AfterSealed(seen)
    <3>1. camp' = [at |-> at, attempt |-> camp.attempt, ev |-> camp.ev, seen |-> seen,
                   allPassed |-> camp.allPassed /\ rows[camp.ev].status = "passed",
                   evidence |-> camp.evidence]
      BY <2>1 DEF WaitEnds, IInv, CampShape
    <3>2. at # "submitting"
      BY DEF AfterBaseline, AfterSealed
    <3> HIDE DEF at, seen
    <3> QED
      BY <3>1, <3>2 DEF CampShape
  <2>2. CASE Attempting /\ camp.attempt = Len(Attempts)
    BY <2>2, CampaignGoesOn DEF Attempting
  <2>3. CASE Attempting /\ camp.attempt # Len(Attempts)
    <3>1. camp' = [at |-> "executing", attempt |-> camp.attempt + 1, ev |-> 0, seen |-> <<>>,
                   allPassed |-> TRUE, evidence |-> NoEvidence]
      BY <2>3 DEF Attempting, Campaign
    <3> QED
      BY <3>1 DEF CampShape
  <2>4. ASSUME NEW yes \in BOOLEAN, Collects(yes)
        PROVE  camp'.at # "submitting" /\ CampShape'
    <3>1. camp' = [at |-> "reviewing", attempt |-> camp.attempt, ev |-> camp.ev,
                   seen |-> camp.seen, allPassed |-> camp.allPassed,
                   evidence |-> IF yes THEN EvidenceOf(LatestPassing(Run)) ELSE NoEvidence]
      BY <2>4 DEF Collects, IInv, CampShape
    <3> QED
      BY <3>1 DEF CampShape
  <2> QED
    BY <2>1, <2>2, <2>3, <2>4
<1> QED
  BY <1>1, <1>2, CampaignMoves

\* A new evaluation belongs to the campaign until it is submitted.
LEMMA CreateStep ==
  ASSUME IInv, EvaluatesBase \/ EvaluatesCandidate
  PROVE  IInv'
<1>1. PICK run, commit : CreatesEvaluation(run, commit)
  BY DEF EvaluatesBase, EvaluatesCandidate
<1> DEFINE row == [status |-> "queued", run |-> run, commit |-> commit, base |-> Base,
                   verdict |-> NoVerdict]
           e == Len(rows) + 1
<1>2. UNCHANGED <<evalActive, evalQueue, exec>> /\ rows' = Append(rows, row)
  BY <1>1 DEF CreatesEvaluation, Inserts
<1>3. RowShape(row) /\ RowTruthful(row)
  BY DEF RowShape, RowTruthful
<1> HIDE DEF row
<1>4. /\ IsSequence(rows') /\ Created' = 1..e /\ Created = 1..Len(rows) /\ Len(rows) \in Nat
      /\ \A f \in Created : rows'[f] = rows[f]
      /\ rows'[e] = row
  BY <1>2, Appended DEF IInv, RowsShape, IsSequence, Created
<1>5. Created' = Created \cup {e} /\ e \notin Created
  BY <1>4
<1>6. RowsShape'
  BY <1>3, <1>4, <1>5 DEF IInv, RowsShape
<1>7. camp'.at = "submitting" /\ camp'.ev = e /\ CampShape'
  <2>1. camp' = [at |-> "submitting", attempt |-> camp.attempt, ev |-> e, seen |-> camp.seen,
                 allPassed |-> camp.allPassed, evidence |-> camp.evidence]
    BY <1>1 DEF CreatesEvaluation, IInv, CampShape
  <2> QED
    BY <2>1 DEF CampShape
<1>8. ExecutorOwns' /\ ExecShape'
  BY <1>2, <1>4, <1>5 DEF IInv, ExecutorOwns, ExecShape
<1>9. CampaignOwns'
  BY <1>2, <1>5, <1>7 DEF IInv, ExecutorOwns, CampaignOwns
<1>10. VerdictsTruthful'
  <2>1. ExecAt("recording") => exec.ev \in Created
    BY DEF IInv, ExecutorOwns, ExecAt
  <2> QED
    BY <1>2, <1>3, <1>4, <1>5, <2>1 DEF IInv, VerdictsTruthful, ExecAt
<1>11. UnfinishedIsOwned'
  <2>1. camp.at # "submitting"
    BY DEF EvaluatesBase, EvaluatesCandidate, CampAt
  <2> QED
    BY <1>2, <1>4, <1>5, <1>7, <2>1 DEF IInv, UnfinishedIsOwned
<1> QED
  BY <1>6, <1>7, <1>8, <1>9, <1>10, <1>11 DEF IInv

LEMMA SubmitStep ==
  ASSUME IInv, SubmitReturns
  PROVE  IInv'
<1> DEFINE e == camp.ev
<1>1. /\ e \in Created \ evalActive /\ UNCHANGED <<rows, exec>>
      /\ evalActive' = evalActive \cup {e} /\ evalQueue' = Append(evalQueue, e)
      /\ camp.at = "submitting" /\ Goes("waiting")
  BY DEF SubmitReturns, Submits, CampAt, IInv, CampaignOwns
<1>2. camp'.at = "waiting" /\ CampShape'
  BY <1>1, CampaignGoesOn
<1> HIDE DEF e
<1>3. RowsShape' /\ ExecShape' /\ Created' = Created
  BY <1>1 DEF IInv, RowsShape, ExecShape, Created
<1>4. ExecutorOwns'
  <2>1. e \in Nat /\ evalQueue \in Seq(Nat)
    BY <1>1 DEF IInv, RowsShape, IsSequence, Created, ExecutorOwns
  <2>2. /\ evalQueue' \in Seq(Nat) /\ DOMAIN evalQueue' = 1..(Len(evalQueue) + 1)
        /\ DOMAIN evalQueue = 1..Len(evalQueue) /\ Len(evalQueue) \in Nat
        /\ \A i \in DOMAIN evalQueue : evalQueue'[i] = evalQueue[i]
        /\ evalQueue'[Len(evalQueue) + 1] = e
    BY <1>1, <2>1
  <2>3. \A i \in DOMAIN evalQueue' : i \in DOMAIN evalQueue \/ i = Len(evalQueue) + 1
    BY <2>2
  <2> QED
    BY <1>1, <1>3, <2>2, <2>3 DEF IInv, ExecutorOwns
<1>5. CampaignOwns'
  BY <1>2 DEF CampaignOwns, CampAt
<1>6. VerdictsTruthful'
  BY <1>1, <1>3 DEF IInv, VerdictsTruthful, ExecAt
<1>7. UnfinishedIsOwned'
  BY <1>1, <1>3 DEF IInv, UnfinishedIsOwned, e
<1> QED
  BY <1>2, <1>3, <1>4, <1>5, <1>6, <1>7 DEF IInv

LEMMA RestartStep ==
  ASSUME IInv, Restarts
  PROVE  IInv'
<1>1. /\ evalActive' = {} /\ evalQueue' = <<>> /\ exec' = Idle
      /\ rows' = [e \in Created |-> IF rows[e].status \in Inflight
                                    THEN [rows[e] EXCEPT !.status = "error"] ELSE rows[e]]
      /\ (camp' = camp /\ camp.at # "submitting") \/ Goes("aborted")
  BY DEF Restarts, EvaluatorRestarts
<1>2. camp'.at # "submitting" /\ CampShape'
  BY <1>1, CampaignGoesOn DEF IInv, CampShape
<1>3. Created' = Created
  BY <1>1 DEF Created
<1>4. \A e \in Created :
        /\ RowShape(rows'[e]) /\ rows'[e].base = rows[e].base
        /\ rows'[e].verdict = rows[e].verdict
        /\ rows'[e].status = rows[e].status \/ rows'[e].status = "error"
        /\ rows'[e].status \notin Unfinished
  <2> SUFFICES ASSUME NEW e \in Created
               PROVE  /\ RowShape(rows'[e]) /\ rows'[e].base = rows[e].base
                      /\ rows'[e].verdict = rows[e].verdict
                      /\ rows'[e].status = rows[e].status \/ rows'[e].status = "error"
                      /\ rows'[e].status \notin Unfinished
    OBVIOUS
  <2>1. RowShape(rows[e])
    BY DEF IInv, RowsShape
  <2>2. CASE rows[e].status \in Inflight
    <3>1. rows'[e] = [rows[e] EXCEPT !.status = "error"]
      BY <1>1, <2>2
    <3>2. rows'[e] = [status |-> "error", run |-> rows[e].run, commit |-> rows[e].commit,
                      base |-> rows[e].base, verdict |-> rows[e].verdict]
      BY <2>1, <3>1 DEF RowShape
    <3> QED
      BY <3>2 DEF RowShape, Unfinished
  <2>3. CASE rows[e].status \notin Inflight
    BY <1>1, <2>1, <2>3 DEF Inflight, Unfinished
  <2> QED
    BY <2>2, <2>3
<1>5. RowsShape'
  <2>1. DOMAIN rows = 1..Len(rows) /\ Len(rows) \in Nat
    BY DEF IInv, RowsShape, IsSequence
  <2>2. rows' = [i \in 1..Len(rows) |-> rows'[i]]
    BY <1>1, <2>1 DEF Created
  <2>3. rows' \in Seq({rows'[i] : i \in 1..Len(rows)}) /\ Len(rows') = Len(rows)
    BY <2>1, <2>2
  <2> QED
    BY <1>3, <1>4, <2>1, <2>2, <2>3 DEF RowsShape, IsSequence
<1>6. exec'.at = "idle" /\ ExecShape'
  BY <1>1, EvaluatorAssumption DEF Idle, ExecShape
<1>7. ExecutorOwns'
  BY <1>1, <1>6 DEF ExecutorOwns
<1>8. CampaignOwns'
  BY <1>2 DEF CampaignOwns, CampAt
<1>9. VerdictsTruthful'
  BY <1>3, <1>4, <1>6 DEF IInv, VerdictsTruthful, RowTruthful, ExecAt
<1>10. UnfinishedIsOwned'
  BY <1>3, <1>4 DEF UnfinishedIsOwned, Unfinished
<1> QED
  BY <1>2, <1>5, <1>6, <1>7, <1>8, <1>9, <1>10 DEF IInv

-----------------------------------------------------------------------------
(* The specification                                                       *)

LEMMA NextInv == IInv /\ [Next]_vars => IInv'
<1> SUFFICES ASSUME IInv, [Next]_vars PROVE IInv'
  OBVIOUS
<1>1. CASE CampaignStep
  BY <1>1, GoesStep, WaitStep, CreateStep, SubmitStep DEF CampaignStep
<1>2. CASE Evaluating
  <2>1. UNCHANGED camp
    BY <1>2 DEF Evaluating
  <2>2. CASE ExecutorStep
    BY <2>1, <2>2, ExecutorStepInv
  <2>3. CASE CancelLocks \/ CancelWrites
    BY <2>1, <2>3, CancelStepInv
  <2>4. CASE RunnerStep \/ \E e \in Created : CancelReads(e)
    <3>1. UNCHANGED <<rows, evalActive, evalQueue, exec>>
      BY <2>4 DEF RunnerStep, CancelReads, RunnerTakes, StartsCase, AsksModel, CasePasses, CaseFails,
                  RunnerPublishes, RunnerGivesUp, Publishes
    <3> QED
      BY <2>1, <3>1, Kept DEF owned
  <2> QED
    BY <1>2, <2>2, <2>3, <2>4 DEF Evaluating, EvaluatorStep, CancelStep
<1>3. CASE Sealing \/ HeadMoves
  BY <1>3, Kept DEF Sealing, OperatorOpensSeal, OperatorWritesSeal, HeadMoves, owned
<1>4. CASE Restarts
  BY <1>4, RestartStep
<1>5. CASE UNCHANGED vars
  BY <1>5, Kept DEF vars, evaluatorVars, owned
<1> QED
  BY <1>1, <1>2, <1>3, <1>4, <1>5 DEF Next

\* The rows, the executor and the campaign are related at every moment as this
\* module says.
THEOREM Invariance == Spec => []IInv
  BY InitInv, NextInv, PTL DEF Spec

\* An evaluation that is not over is with the executor or about to be submitted,
\* after any cancellation and restart (agent_eval/controller.py).
THEOREM UnfinishedIsOwnedHolds == Spec => []UnfinishedIsOwned
<1>1. IInv => UnfinishedIsOwned
  BY DEF IInv
<1> QED
  BY <1>1, Invariance, PTL

\* A row that says passed tells of a candidate that met the reference of its base
\* within the budget (agent_eval/controller.py, _execute).
THEOREM PassedMeetsReferenceHolds == Spec => []PassedMeetsReference
<1>1. IInv => PassedMeetsReference
  BY DEF IInv, VerdictsTruthful, RowTruthful, Truthful, PassedMeetsReference
<1> QED
  BY <1>1, Invariance, PTL

-----------------------------------------------------------------------------
(* What a qualified attempt rests on                                       *)

Judged(e) == rows[e].verdict # NoVerdict

\* An evaluation is of the base of the campaign, passes with a verdict, and is
\* judged once: the executor does not come back to it.
EvaluationInv ==
  /\ \A e \in Created : rows[e].base = Base /\ (rows[e].status = "passed" => Judged(e))
  /\ \A e \in Created : Judged(e) =>
       /\ \A i \in DOMAIN evalQueue : evalQueue[i] # e
       /\ exec.at \notin {"idle", "leaving"} => exec.ev # e
  /\ CampAt("submitting") => ~Judged(camp.ev)

\* The evaluations seen, all of one commit and, if they say so, all passed.
Counted(seen, commit, passed) ==
  \A k \in DOMAIN seen :
    /\ seen[k] \in Created /\ rows[seen[k]].commit = commit
    /\ passed => rows[seen[k]].verdict.status = "passed"

BasePhases == {"reference", "baseline", "evaluating base", "sealing", "writing", "validating"}
Evaluated == {"collecting", "reviewing"}
AttemptPhases == {"executing", "gating", "evaluating"} \cup Evaluated

\* What the campaign has counted for the attempt it is in, and that it ends
\* with the attempt that it qualifies.
CampaignInv ==
  /\ camp.attempt \in Nat
  /\ camp.at \in BasePhases => camp.attempt = 0
  /\ camp.at \in AttemptPhases => camp.attempt # 0
  /\ camp.at \in {"submitting", "waiting"} => camp.ev \in Created
  /\ camp.attempt # 0 /\ camp.at \in AttemptPhases \cup {"submitting", "waiting"} =>
       /\ camp.seen \in Seq(Nat) /\ Counted(camp.seen, Run, camp.allPassed)
       /\ IF camp.at \in Evaluated THEN Len(camp.seen) = SealedRepeats
                                   ELSE Len(camp.seen) < SealedRepeats
       /\ camp.at \in {"submitting", "waiting"} => rows[camp.ev].commit = Run
  /\ qualified # {} => camp.at = "done"

QualifiedInv ==
  \A q \in qualified :
    /\ Len(q.seen) = SealedRepeats /\ Counted(q.seen, q.run, TRUE)
    /\ lab[q.run] = "passed" /\ refs[q.run] = q.run
    /\ q.files \cap {"protected", "root-trust"} = {} /\ q.files # {}

EvidenceInv == EvaluationInv /\ CampaignInv /\ QualifiedInv

\* What every step leaves of the evaluations.
RowsKept ==
  \A e \in Created :
    /\ e \in Created' /\ rows'[e].commit = rows[e].commit
    /\ Judged(e) => rows'[e].verdict = rows[e].verdict

\* A step that leaves the verdicts and the queue, and the executor out of the
\* evaluations that are judged.
LEMMA EvaluationsKept ==
  ASSUME EvaluationInv, Created' = Created,
         \A e \in Created :
           /\ rows'[e].commit = rows[e].commit /\ rows'[e].base = rows[e].base
           /\ rows'[e].verdict = rows[e].verdict
           /\ rows'[e].status = "passed" => rows[e].status = "passed",
         \A i \in DOMAIN evalQueue' : \E j \in DOMAIN evalQueue : evalQueue'[i] = evalQueue[j],
         \/ exec'.at \in {"idle", "leaving"}
         \/ exec.at \notin {"idle", "leaving"} /\ exec'.ev = exec.ev
         \/ \E j \in DOMAIN evalQueue : exec'.ev = evalQueue[j],
         camp'.at # "submitting" \/ (camp' = camp /\ camp.ev \in Created)
  PROVE  EvaluationInv' /\ RowsKept
  BY DEF EvaluationInv, RowsKept, Judged, CampAt

LEMMA ExecutorKeeps ==
  ASSUME IInv, EvaluationInv, ExecutorStep, UNCHANGED camp
  PROVE  EvaluationInv' /\ RowsKept
<1>1. camp'.at # "submitting" \/ (camp' = camp /\ camp.ev \in Created)
  BY DEF IInv, CampaignOwns, CampAt
<1>2. /\ evalQueue \in Seq(Nat) /\ RowsShape /\ ExecShape
      /\ exec.at # "idle" => exec.ev \in evalActive /\ exec.ev \in Created
  BY DEF IInv, ExecutorOwns
<1>3. ASSUME NEW e, NEW status \in {"preparing", "running", "error", "cancelled"},
             rows' = rows \/ RowStatus(e, status)
      PROVE  /\ Created' = Created
             /\ \A f \in Created :
                  /\ rows'[f].commit = rows[f].commit /\ rows'[f].base = rows[f].base
                  /\ rows'[f].verdict = rows[f].verdict
                  /\ rows'[f].status = "passed" => rows[f].status = "passed"
  <2>1. CASE rows' = rows
    BY <2>1 DEF Created
  <2>2. CASE RowStatus(e, status)
    BY <1>2, <1>3, <2>2, StatusChanged
  <2> QED
    BY <1>3, <2>1, <2>2
<1>4. CASE ExecutorTakes
  <2>1. /\ evalQueue # <<>> /\ evalQueue' = Tail(evalQueue) /\ RowStatus(Head(evalQueue), "preparing")
        /\ exec'.ev = Head(evalQueue)
    BY <1>4 DEF ExecutorTakes, Idle
  <2>2. /\ \A i \in DOMAIN evalQueue' : i + 1 \in DOMAIN evalQueue /\ evalQueue'[i] = evalQueue[i + 1]
        /\ 1 \in DOMAIN evalQueue /\ Head(evalQueue) = evalQueue[1]
    BY <1>2, <2>1
  <2> QED
    BY <1>1, <1>3, <2>1, <2>2, EvaluationsKept
<1>5. CASE \/ Exports \/ ExportFails \/ StartsRunning \/ Polls \/ DeadlinePasses \/ LooksForResult
           \/ (\E c \in Cases : ModelRefuses(c) \/ \E t \in 1..MaxCallTokens : ModelAnswers(c, t))
           \/ Decides
  <2>1. /\ exec.at \notin {"idle", "leaving"} /\ evalQueue' = evalQueue
        /\ \/ rows' = rows
           \/ \E status \in {"running", "error", "cancelled"} : RowStatus(exec.ev, status)
    BY <1>5 DEF Exports, ExportFails, StartsRunning, Polls, DeadlinePasses, LooksForResult,
                ModelRefuses, ModelAnswers, Decides, Fails, ExecAt
  <2>2. exec'.ev = exec.ev
    BY <1>2, <1>5
       DEF Exports, ExportFails, StartsRunning, Polls, DeadlinePasses, LooksForResult,
           ModelRefuses, ModelAnswers, Decides, Fails, ExecGoes, ExecShape
  <2> QED
    BY <1>1, <1>3, <2>1, <2>2, EvaluationsKept
<1>6. CASE Leaves
  <2>1. rows' = rows /\ evalQueue' = evalQueue /\ exec'.at = "idle"
    BY <1>6 DEF Leaves, Idle
  <2> QED
    BY <1>1, <2>1, EvaluationsKept DEF Created
<1>7. CASE Records
  <2> DEFINE v == exec.verdict
  <2>0. PICK e : e = exec.ev
    OBVIOUS
  <2>1. /\ exec.at = "recording" /\ evalQueue' = evalQueue /\ e \in Created /\ e \in evalActive
        /\ ExecGoes("leaving") /\ Truthful(v, rows[e].base)
        /\ rows' = [rows EXCEPT ![e].status = v.status, ![e].verdict = v]
    BY <1>2, <1>7, <2>0 DEF Records, ExecAt, IInv, VerdictsTruthful
  <2>2. exec'.at = "leaving"
    BY <2>1, ExecGoesOn
  <2> HIDE DEF v
  <2>3. v # NoVerdict
    BY <2>1 DEF Truthful, NoVerdict, None
  <2>4. Created' = Created /\ \A f \in Created \ {e} : rows'[f] = rows[f]
    BY <2>1 DEF Created
  <2>5. rows'[e].verdict = v /\ rows'[e].commit = rows[e].commit /\ rows'[e].base = rows[e].base
    <3>1. rows'[e] = [[rows[e] EXCEPT !.status = v.status] EXCEPT !.verdict = v]
      BY <2>1 DEF Created
    <3>2. RowShape(rows[e])
      BY <1>2, <2>1 DEF RowsShape
    <3> QED
      BY <3>1, <3>2 DEF RowShape
  <2>6. ~Judged(e) /\ (\A i \in DOMAIN evalQueue : evalQueue[i] # e)
        /\ (CampAt("submitting") => camp.ev # e /\ camp.ev \in Created)
    BY <2>0, <2>1 DEF EvaluationInv, IInv, ExecutorOwns, CampaignOwns
  <2>7. Judged(e)' /\ \A f \in Created : (Judged(f) => Judged(f)') /\ (Judged(f)' => Judged(f) \/ f = e)
    BY <2>3, <2>4, <2>5 DEF Judged
  <2>8. RowsKept
    BY <2>4, <2>5, <2>6 DEF RowsKept
  <2>9. EvaluationInv'
    <3>1. \A f \in Created' : rows'[f].base = Base /\ (rows'[f].status = "passed" => Judged(f)')
      BY <2>4, <2>5, <2>7 DEF EvaluationInv
    <3>2. \A f \in Created' : Judged(f)' =>
            /\ \A i \in DOMAIN evalQueue' : evalQueue'[i] # f
            /\ exec'.at \notin {"idle", "leaving"} => exec'.ev # f
      BY <2>1, <2>2, <2>4, <2>6, <2>7 DEF EvaluationInv
    <3>3. CampAt("submitting")' => ~Judged(camp.ev)'
      BY <2>6, <2>7 DEF EvaluationInv, CampAt
    <3> QED
      BY <3>1, <3>2, <3>3 DEF EvaluationInv
  <2> QED
    BY <2>8, <2>9
<1> QED
  BY <1>4, <1>5, <1>6, <1>7 DEF ExecutorStep

\* A new evaluation, and one that is given to the executor, are not judged.
LEMMA CreateKeeps ==
  ASSUME IInv, EvaluationInv, EvaluatesBase \/ EvaluatesCandidate \/ SubmitReturns
  PROVE  EvaluationInv' /\ RowsKept
<1>1. CASE EvaluatesBase \/ EvaluatesCandidate
  <2>1. PICK run, commit : CreatesEvaluation(run, commit)
    BY <1>1 DEF EvaluatesBase, EvaluatesCandidate
  <2> DEFINE row == [status |-> "queued", run |-> run, commit |-> commit, base |-> Base,
                     verdict |-> NoVerdict]
  <2>0. PICK e : e = Len(rows) + 1
    OBVIOUS
  <2>2. UNCHANGED <<evalQueue, exec>> /\ rows' = Append(rows, row)
    BY <2>1 DEF CreatesEvaluation, Inserts
  <2>3. row.status = "queued" /\ row.base = Base /\ row.verdict = NoVerdict
    OBVIOUS
  <2> HIDE DEF row
  <2>4. /\ Created' = 1..e /\ Created = 1..Len(rows) /\ Len(rows) \in Nat
        /\ \A f \in Created : rows'[f] = rows[f]
        /\ rows'[e] = row
    BY <2>0, <2>2, Appended DEF IInv, RowsShape, IsSequence, Created
  <2>5. Created' = Created \cup {e} /\ e \notin Created
    BY <2>0, <2>4
  <2>6. camp'.ev = e
    BY <2>0, <2>1 DEF CreatesEvaluation, IInv, CampShape
  <2>7. \A f \in Created : Judged(f)' = Judged(f)
    BY <2>4 DEF Judged
  <2>8. ~Judged(e)'
    BY <2>3, <2>4 DEF Judged
  <2>9. RowsKept
    BY <2>4, <2>5 DEF RowsKept
  <2>10. EvaluationInv'
    <3>1. \A f \in Created' : rows'[f].base = Base /\ (rows'[f].status = "passed" => Judged(f)')
      BY <2>3, <2>4, <2>5, <2>7 DEF EvaluationInv
    <3>2. \A f \in Created' : Judged(f)' => f \in Created /\ Judged(f)
      BY <2>5, <2>7, <2>8
    <3>3. CampAt("submitting")' => ~Judged(camp.ev)'
      BY <2>6, <2>8 DEF Judged
    <3> QED
      BY <2>2, <3>1, <3>2, <3>3 DEF EvaluationInv
  <2> QED
    BY <2>9, <2>10
<1>2. CASE SubmitReturns
  <2>1. /\ rows' = rows /\ exec' = exec /\ evalQueue' = Append(evalQueue, camp.ev)
        /\ CampAt("submitting") /\ Goes("waiting")
    BY <1>2 DEF SubmitReturns, Submits
  <2>2. camp'.at = "waiting"
    BY <2>1, CampaignGoesOn
  <2>3. ~Judged(camp.ev) /\ camp.ev \in Nat /\ evalQueue \in Seq(Nat)
    BY <2>1 DEF EvaluationInv, IInv, CampaignOwns, ExecutorOwns, RowsShape, IsSequence, Created
  <2>4. \A i \in DOMAIN evalQueue' :
          evalQueue'[i] = camp.ev \/ (i \in DOMAIN evalQueue /\ evalQueue'[i] = evalQueue[i])
    BY <2>1, <2>3
  <2>5. Created' = Created /\ \A e : Judged(e)' = Judged(e)
    BY <2>1 DEF Created, Judged
  <2>6. RowsKept
    BY <2>1, <2>5 DEF RowsKept
  <2>7. EvaluationInv'
    BY <2>1, <2>2, <2>3, <2>4, <2>5 DEF EvaluationInv, CampAt
  <2> QED
    BY <2>6, <2>7
<1> QED
  BY <1>1, <1>2

LEMMA RestartKeeps ==
  ASSUME IInv, EvaluationInv, Restarts
  PROVE  EvaluationInv' /\ RowsKept
<1>1. /\ evalQueue' = <<>> /\ exec' = Idle
      /\ rows' = [e \in Created |-> IF rows[e].status \in Inflight
                                    THEN [rows[e] EXCEPT !.status = "error"] ELSE rows[e]]
      /\ (camp' = camp /\ camp.at # "submitting") \/ Goes("aborted")
  BY DEF Restarts, EvaluatorRestarts
<1>2. camp'.at # "submitting"
  BY <1>1, CampaignGoesOn
<1>3. Created' = Created
  BY <1>1 DEF Created
<1>4. ASSUME NEW e \in Created
      PROVE  /\ rows'[e].commit = rows[e].commit /\ rows'[e].base = rows[e].base
             /\ rows'[e].verdict = rows[e].verdict
             /\ rows'[e].status = "passed" => rows[e].status = "passed"
  <2>1. RowShape(rows[e])
    BY DEF IInv, RowsShape
  <2>2. rows'[e] = rows[e] \/ rows'[e] = [rows[e] EXCEPT !.status = "error"]
    BY <1>1
  <2>3. CASE rows'[e] = [rows[e] EXCEPT !.status = "error"]
    BY <2>1, <2>3 DEF RowShape
  <2> QED
    BY <2>2, <2>3
<1>5. exec'.at = "idle" /\ DOMAIN evalQueue' = {}
  BY <1>1 DEF Idle
<1> QED
  BY <1>2, <1>3, <1>4, <1>5, EvaluationsKept

LEMMA CancelKeeps ==
  ASSUME IInv, EvaluationInv, CancelLocks \/ CancelWrites, UNCHANGED camp
  PROVE  EvaluationInv' /\ RowsKept
<1>1. /\ evalQueue' = evalQueue /\ exec' = exec
      /\ \/ rows' = rows
         \/ \E status \in {"cancelling", "cancelled"} : RowStatus(canceller.ev, status)
  BY DEF CancelLocks, CancelWrites
<1>2. /\ Created' = Created
      /\ \A f \in Created :
           /\ rows'[f].commit = rows[f].commit /\ rows'[f].base = rows[f].base
           /\ rows'[f].verdict = rows[f].verdict
           /\ rows'[f].status = "passed" => rows[f].status = "passed"
  <2>1. CASE rows' = rows
    BY <2>1 DEF Created
  <2>2. ASSUME NEW status \in {"cancelling", "cancelled"}, RowStatus(canceller.ev, status)
        PROVE  <1>2!:
    BY <2>2, StatusChanged DEF IInv
  <2> QED
    BY <1>1, <2>1, <2>2
<1>3. camp'.at # "submitting" \/ (camp' = camp /\ camp.ev \in Created)
  BY DEF IInv, CampaignOwns, CampAt
<1> QED
  BY <1>1, <1>2, <1>3, EvaluationsKept

\* A step that leaves the evaluations alone.
LEMMA EvaluationsUntouched ==
  ASSUME IInv, EvaluationInv, UNCHANGED <<rows, evalQueue, exec>>,
         camp'.at # "submitting" \/ camp' = camp
  PROVE  EvaluationInv' /\ RowsKept
<1>1. camp'.at # "submitting" \/ (camp' = camp /\ camp.ev \in Created)
  BY DEF IInv, CampaignOwns, CampAt
<1> QED
  BY <1>1, EvaluationsKept DEF Created, EvaluationInv, RowsKept, CampAt, Judged

LEMMA CountedKept ==
  ASSUME RowsKept
  PROVE  \A seen, commit, passed : Counted(seen, commit, passed) => Counted(seen, commit, passed)'
<1>1. NoVerdict.status # "passed"
  BY DEF NoVerdict, None
<1> QED
  BY <1>1 DEF RowsKept, Counted, Judged

LEMMA QualifiedKept ==
  ASSUME QualifiedInv, RowsKept, UNCHANGED <<lab, refs, qualified>>
  PROVE  QualifiedInv'
  BY CountedKept DEF QualifiedInv

LEMMA CampaignWaits ==
  ASSUME CampaignInv, RowsKept, UNCHANGED <<camp, qualified>>
  PROVE  CampaignInv'
<1>1. Counted(camp.seen, Run, camp.allPassed) => Counted(camp.seen, Run, camp.allPassed)'
  BY CountedKept DEF Run
<1> QED
  BY <1>1 DEF CampaignInv, RowsKept, Run

LEMMA GoesFields ==
  ASSUME CampShape, NEW at, Goes(at)
  PROVE  /\ camp'.at = at /\ camp'.attempt = camp.attempt /\ camp'.ev = camp.ev
         /\ camp'.seen = camp.seen /\ camp'.allPassed = camp.allPassed
<1>1. camp' = [at |-> at, attempt |-> camp.attempt, ev |-> camp.ev, seen |-> camp.seen,
               allPassed |-> camp.allPassed, evidence |-> camp.evidence]
  BY DEF CampShape, Goes
<1> QED
  BY <1>1

\* The campaign goes on to another phase with what it has counted so far.
LEMMA PhaseMoves ==
  ASSUME CampaignInv, RowsKept, camp.at # "done",
         camp'.attempt = camp.attempt, camp'.ev = camp.ev, camp'.seen = camp.seen,
         camp'.allPassed = camp.allPassed,
         \/ camp'.at \in {"aborted", "done", "attempting"}
         \/ camp'.at \in BasePhases /\ camp.at \in BasePhases
         \/ camp'.at \in {"gating", "evaluating"} /\ camp.at \in {"executing", "gating"}
         \/ camp'.at = "reviewing" /\ camp.at = "collecting"
         \/ camp'.at = "waiting" /\ camp.at = "submitting",
         qualified' = qualified \/ camp'.at = "done"
  PROVE  CampaignInv'
<1>1. Counted(camp.seen, Run, camp.allPassed) => Counted(camp.seen, Run, camp.allPassed)'
  BY CountedKept DEF Run
<1>2. Run' = Run
  BY DEF Run
<1>3. camp'.attempt \in Nat /\ (qualified' # {} => camp'.at = "done")
  BY DEF CampaignInv
<1>4. CASE camp'.at \in {"aborted", "done", "attempting"}
  BY <1>3, <1>4 DEF CampaignInv, BasePhases, AttemptPhases, Evaluated
<1>5. CASE camp'.at \in BasePhases /\ camp.at \in BasePhases
  BY <1>3, <1>5 DEF CampaignInv, BasePhases, AttemptPhases, Evaluated
<1>6. CASE \/ camp'.at \in {"gating", "evaluating"} /\ camp.at \in {"executing", "gating"}
           \/ camp'.at = "reviewing" /\ camp.at = "collecting"
  BY <1>1, <1>2, <1>3, <1>6 DEF CampaignInv, BasePhases, AttemptPhases, Evaluated
<1>7. CASE camp'.at = "waiting" /\ camp.at = "submitting"
  BY <1>1, <1>2, <1>3, <1>7 DEF CampaignInv, BasePhases, AttemptPhases, Evaluated, RowsKept
<1> QED
  BY <1>4, <1>5, <1>6, <1>7

LEMMA PhaseStep ==
  ASSUME IInv, CampaignInv, RowsKept,
         \/ ReadsReference \/ MarksBaseline \/ CreateFails \/ WaitTimesOut \/ Seals \/ WritesSeal
         \/ \E yes \in BOOLEAN : ValidatesBaseline(yes) \/ Gates(yes)
         \/ LabPasses \/ \E status \in {"failed", "error"} : LabFails(status)
         \/ SubmitReturns
         \/ \E diff \in Diffs : Reviews(diff)
  PROVE  CampaignInv'
<1> DEFINE Ok(at) ==
      \/ at \in {"aborted", "done", "attempting"}
      \/ at \in BasePhases /\ camp.at \in BasePhases
      \/ at \in {"gating", "evaluating"} /\ camp.at \in {"executing", "gating"}
      \/ at = "waiting" /\ camp.at = "submitting"
<1>1. \E at : Goes(at) /\ Ok(at) /\ (qualified' = qualified \/ at = "done")
  <2>1. CASE \/ ReadsReference \/ MarksBaseline \/ CreateFails \/ WaitTimesOut \/ Seals \/ WritesSeal
    BY <2>1 DEF ReadsReference, MarksBaseline, CreateFails, WaitTimesOut, Seals, WritesSeal, CampAt,
                BasePhases
  <2>2. CASE \/ \E yes \in BOOLEAN : ValidatesBaseline(yes) \/ Gates(yes)
             \/ LabPasses \/ \E status \in {"failed", "error"} : LabFails(status)
             \/ SubmitReturns
    BY <2>2 DEF ValidatesBaseline, Gates, LabPasses, LabFails, SubmitReturns, CampAt
  <2>3. ASSUME NEW diff \in Diffs, Reviews(diff)
        PROVE  \E at : Goes(at) /\ Ok(at) /\ (qualified' = qualified \/ at = "done")
    BY <2>3 DEF Reviews
  <2> QED
    BY <2>1, <2>2, <2>3
<1>2. camp.at # "done"
  BY DEF ReadsReference, MarksBaseline, CreateFails, WaitTimesOut, Seals, WritesSeal,
         ValidatesBaseline, Gates, LabPasses, LabFails, SubmitReturns, Reviews, CampAt
<1>3. PICK at : Goes(at) /\ Ok(at) /\ (qualified' = qualified \/ at = "done")
  BY <1>1
<1>4. /\ camp'.at = at /\ camp'.attempt = camp.attempt /\ camp'.ev = camp.ev
      /\ camp'.seen = camp.seen /\ camp'.allPassed = camp.allPassed
  BY <1>3, GoesFields DEF IInv
<1> QED
  BY <1>2, <1>3, <1>4, PhaseMoves

\* One more evaluation counts for the attempt.
LEMMA CountStep ==
  ASSUME IInv, EvaluationInv, CampaignInv, WaitEnds
  PROVE  CampaignInv'
<1> DEFINE seen == Append(camp.seen, camp.ev)
           at == IF camp.attempt = 0 THEN AfterBaseline(seen) ELSE AfterSealed(seen)
           all == camp.allPassed /\ rows[camp.ev].status = "passed"
<1>1. /\ camp.at = "waiting" /\ UNCHANGED <<rows, qualified>> /\ camp.ev \in Created
      /\ qualified = {}
  BY DEF WaitEnds, CampAt, evaluatorVars, CampaignInv
<1>2. camp' = [at |-> at, attempt |-> camp.attempt, ev |-> camp.ev, seen |-> seen,
               allPassed |-> all, evidence |-> camp.evidence]
  BY DEF WaitEnds, IInv, CampShape
<1>3. /\ camp'.at = at /\ camp'.attempt = camp.attempt /\ camp'.ev = camp.ev /\ camp'.seen = seen
      /\ camp'.allPassed = all
  BY <1>2
<1>4. CASE camp.attempt = 0
  <2>1. at \in {"aborted", "baseline", "sealing"}
    BY <1>4 DEF AfterBaseline
  <2> HIDE DEF at, seen, all
  <2> QED
    BY <1>1, <1>3, <1>4, <2>1 DEF CampaignInv, BasePhases, AttemptPhases, Evaluated
<1>5. CASE camp.attempt # 0
  <2>1. /\ camp.seen \in Seq(Nat) /\ Counted(camp.seen, Run, camp.allPassed)
        /\ Len(camp.seen) < SealedRepeats /\ rows[camp.ev].commit = Run
    BY <1>1, <1>5 DEF CampaignInv, Evaluated
  <2>2. camp.ev \in Nat
    BY <1>1 DEF IInv, RowsShape, IsSequence, Created
  <2>3. /\ seen \in Seq(Nat) /\ Len(seen) = Len(camp.seen) + 1 /\ Len(camp.seen) \in Nat
        /\ \A k \in DOMAIN seen : seen[k] = camp.ev \/ (k \in DOMAIN camp.seen /\ seen[k] = camp.seen[k])
    BY <2>1, <2>2
  <2>4. at = IF Len(seen) < SealedRepeats THEN "evaluating" ELSE "collecting"
    BY <1>5 DEF AfterSealed
  <2>5. rows[camp.ev].status = "passed" => rows[camp.ev].verdict.status = "passed"
    BY <1>1 DEF EvaluationInv, Judged, IInv, VerdictsTruthful, RowTruthful
  <2> HIDE DEF seen, at
  <2>6. Counted(seen, Run, all)
    <3>1. ASSUME NEW k \in DOMAIN seen
          PROVE  /\ seen[k] \in Created /\ rows[seen[k]].commit = Run
                 /\ all => rows[seen[k]].verdict.status = "passed"
      <4>1. CASE seen[k] = camp.ev
        BY <1>1, <2>1, <2>5, <4>1
      <4>2. CASE k \in DOMAIN camp.seen /\ seen[k] = camp.seen[k]
        BY <2>1, <4>2 DEF Counted
      <4> QED
        BY <2>3, <4>1, <4>2
    <3> QED
      BY <3>1 DEF Counted
  <2> HIDE DEF all
  <2>7. Run' = Run /\ Created' = Created
    BY <1>1, <1>3 DEF Run, Created
  <2>8. Counted(seen, Run, all) => Counted(camp.seen, Run, camp.allPassed)'
    BY <1>1, <1>3, <2>7 DEF Counted
  <2>9. Len(seen) < SealedRepeats \/ Len(seen) = SealedRepeats
    BY <2>1, <2>3, CampaignAssumption
  <2> QED
    BY <1>1, <1>3, <1>5, <2>3, <2>4, <2>6, <2>8, <2>9
       DEF CampaignInv, BasePhases, AttemptPhases, Evaluated
<1> QED
  BY <1>4, <1>5

LEMMA AttemptStep ==
  ASSUME IInv, CampaignInv, RowsKept, Attempting \/ \E yes \in BOOLEAN : Collects(yes)
  PROVE  CampaignInv'
<1>1. CASE Attempting /\ camp.attempt = Len(Attempts)
  <2>1. Goes("done") /\ qualified' = qualified /\ camp.at = "attempting"
    BY <1>1 DEF Attempting, CampAt
  <2>2. /\ camp'.at = "done" /\ camp'.attempt = camp.attempt /\ camp'.ev = camp.ev
        /\ camp'.seen = camp.seen /\ camp'.allPassed = camp.allPassed
    BY <2>1, GoesFields DEF IInv
  <2> QED
    BY <2>1, <2>2, PhaseMoves
<1>2. CASE Attempting /\ camp.attempt # Len(Attempts)
  <2>1. /\ camp'.at = "executing" /\ camp'.attempt = camp.attempt + 1 /\ camp'.seen = <<>>
        /\ qualified' = qualified /\ camp.at = "attempting"
    BY <1>2 DEF Attempting, Campaign, CampAt
  <2>2. camp'.attempt \in Nat /\ camp'.attempt # 0 /\ qualified' = {}
    BY <2>1 DEF CampaignInv
  <2>3. /\ camp'.seen \in Seq(Nat) /\ Len(camp'.seen) < SealedRepeats
        /\ Counted(camp.seen, Run, camp.allPassed)'
    BY <2>1, CampaignAssumption DEF Counted
  <2> QED
    BY <2>1, <2>2, <2>3 DEF CampaignInv, BasePhases, AttemptPhases, Evaluated
<1>3. ASSUME NEW yes \in BOOLEAN, Collects(yes)
      PROVE  CampaignInv'
  <2>1. /\ camp'.at = "reviewing" /\ camp'.attempt = camp.attempt /\ camp'.ev = camp.ev
        /\ camp'.seen = camp.seen /\ camp'.allPassed = camp.allPassed
    <3>1. camp' = [at |-> "reviewing", attempt |-> camp.attempt, ev |-> camp.ev,
                   seen |-> camp.seen, allPassed |-> camp.allPassed,
                   evidence |-> IF yes THEN EvidenceOf(LatestPassing(Run)) ELSE NoEvidence]
      BY <1>3 DEF Collects, IInv, CampShape
    <3> QED
      BY <3>1
  <2>2. camp.at = "collecting" /\ qualified' = qualified
    BY <1>3 DEF Collects, CampAt
  <2> QED
    BY <2>1, <2>2, PhaseMoves
<1> QED
  BY <1>1, <1>2, <1>3

LEMMA CreatesStep ==
  ASSUME IInv, CampaignInv, RowsKept, EvaluatesBase \/ EvaluatesCandidate
  PROVE  CampaignInv'
<1>1. PICK run, commit :
        /\ CreatesEvaluation(run, commit) /\ camp.at \in {"evaluating base", "evaluating"}
        /\ camp.at = "evaluating" => commit = Run
  BY DEF EvaluatesBase, EvaluatesCandidate, CampAt
<1> DEFINE row == [status |-> "queued", run |-> run, commit |-> commit, base |-> Base,
                   verdict |-> NoVerdict]
<1>2. PICK e : e = Len(rows) + 1
  OBVIOUS
<1>3. rows' = Append(rows, row) /\ qualified' = qualified
  BY <1>1 DEF CreatesEvaluation, Inserts
<1>4. e \in Created' /\ rows'[e].commit = commit
  <2>1. DOMAIN rows' = 1..e /\ rows'[e] = row /\ Len(rows) \in Nat
    BY <1>2, <1>3, Appended DEF IInv, RowsShape, IsSequence
  <2> QED
    BY <1>2, <2>1 DEF Created
<1>5. /\ camp'.at = "submitting" /\ camp'.ev = e /\ camp'.attempt = camp.attempt
      /\ camp'.seen = camp.seen /\ camp'.allPassed = camp.allPassed
  <2>1. camp' = [at |-> "submitting", attempt |-> camp.attempt, ev |-> e, seen |-> camp.seen,
                 allPassed |-> camp.allPassed, evidence |-> camp.evidence]
    BY <1>1, <1>2 DEF CreatesEvaluation, IInv, CampShape
  <2> QED
    BY <2>1
<1> HIDE DEF row
<1>6. Counted(camp.seen, Run, camp.allPassed) => Counted(camp.seen, Run, camp.allPassed)'
  BY <1>5, CountedKept DEF Run
<1>7. Run' = Run
  BY <1>5 DEF Run
<1>8. camp.attempt = 0 \/ camp.at = "evaluating"
  BY <1>1 DEF CampaignInv, BasePhases
<1> QED
  BY <1>1, <1>3, <1>4, <1>5, <1>6, <1>7, <1>8
     DEF CampaignInv, BasePhases, AttemptPhases, Evaluated

\* What the checks of the review leave of a candidate that they do not block.
LEMMA EligibleMeans ==
  ASSUME NEW run, NEW ref, NEW h, NEW diff, NEW evidence, Eligible(run, ref, h, diff, evidence)
  PROVE  /\ run.status = "passed" /\ ref = run.commit
         /\ diff.files # {} /\ diff.files \cap {"protected", "root-trust"} = {}
<1>1. /\ RunBlocks(run) = {} /\ CandidateBlocks(run, ref, h) = {}
      /\ InspectionBlocks(diff, evidence, run) = {}
  BY DEF Eligible
<1>2. run.status = "passed" /\ run.base # "none"
  BY <1>1 DEF RunBlocks
<1>3. ref = run.commit /\ run.commit # "none"
  BY <1>1 DEF CandidateBlocks
<1>4. DiffBlocks(diff) = {} /\ SelfModificationBlocks(diff, evidence, run) = {}
  BY <1>1, <1>2, <1>3 DEF InspectionBlocks
<1>5. diff.files # {} /\ "protected" \notin diff.files
  BY <1>4 DEF DiffBlocks
<1>6. "root-trust" \notin diff.files
  BY <1>4 DEF SelfModificationBlocks
<1> QED
  BY <1>2, <1>3, <1>5, <1>6

\* The review qualifies an attempt with all its evaluations passed.
LEMMA ReviewStep ==
  ASSUME IInv, CampaignInv, QualifiedInv, RowsKept, NEW diff \in Diffs, Reviews(diff)
  PROVE  QualifiedInv'
<1> DEFINE new == [run |-> Run, seen |-> camp.seen, files |-> diff.files]
<1>1. /\ camp.at = "reviewing" /\ UNCHANGED <<rows, refs, lab>> /\ qualified = {}
  BY DEF Reviews, CampAt, evaluatorVars, CampaignInv
<1>2. CASE ~Qualifies(diff)
  BY <1>1, <1>2, QualifiedKept DEF Reviews
<1>3. CASE Qualifies(diff)
  <2>1. qualified' = {new}
    BY <1>1, <1>3 DEF Reviews
  <2>2. camp.allPassed /\ Eligible(RunRecord(Run), refs[Run], head, diff, camp.evidence)
    BY <1>3 DEF Qualifies
  <2>3. /\ RunRecord(Run).status = "passed" /\ refs[Run] = RunRecord(Run).commit
        /\ diff.files # {} /\ diff.files \cap {"protected", "root-trust"} = {}
    BY <2>2, EligibleMeans
  <2>4. lab[Run] = "passed" /\ refs[Run] = Run
    BY <2>3 DEF RunRecord
  <2>5. /\ Len(camp.seen) = SealedRepeats /\ Counted(camp.seen, Run, camp.allPassed)
    BY <1>1 DEF CampaignInv, AttemptPhases, Evaluated
  <2>6. Counted(camp.seen, Run, TRUE)
    BY <2>2, <2>5 DEF Counted
  <2>7. \A q \in {new} : q.run = Run /\ q.seen = camp.seen /\ q.files = diff.files
    OBVIOUS
  <2> HIDE DEF new
  <2>8. QualifiedInv' <=>
          \A q \in {new} :
            /\ Len(q.seen) = SealedRepeats /\ Counted(q.seen, q.run, TRUE)'
            /\ lab'[q.run] = "passed" /\ refs'[q.run] = q.run
            /\ q.files \cap {"protected", "root-trust"} = {} /\ q.files # {}
    BY <2>1 DEF QualifiedInv
  <2>9. ASSUME NEW q \in {new}
        PROVE  Counted(q.seen, q.run, TRUE)'
    <3>1. Counted(q.seen, q.run, TRUE)
      BY <2>6, <2>7
    <3> QED
      BY <3>1, CountedKept
  <2> QED
    BY <1>1, <2>3, <2>4, <2>5, <2>7, <2>8, <2>9
<1> QED
  BY <1>2, <1>3

LEMMA EvidenceInvNext ==
  ASSUME IInv, EvidenceInv, [Next]_vars
  PROVE  EvidenceInv'
<1>1. EvaluationInv /\ CampaignInv /\ QualifiedInv
  BY DEF EvidenceInv
<1>2. CASE CampaignStep
  <2>1. EvaluationInv' /\ RowsKept
    <3>1. CASE EvaluatesBase \/ EvaluatesCandidate \/ SubmitReturns
      BY <1>1, <3>1, CreateKeeps
    <3>2. CASE \/ ReadsReference \/ MarksBaseline \/ CreateFails \/ WaitTimesOut \/ Seals \/ WritesSeal
               \/ \E yes \in BOOLEAN : ValidatesBaseline(yes) \/ Gates(yes)
               \/ LabPasses \/ \E status \in {"failed", "error"} : LabFails(status)
               \/ \E diff \in Diffs : Reviews(diff)
      <4>1. PICK at \in {"validating", "baseline", "evaluating base", "aborted", "writing",
                         "attempting", "done", "evaluating", "gating"} : Goes(at)
        BY <3>2 DEF ReadsReference, MarksBaseline, CreateFails, WaitTimesOut, Seals, WritesSeal,
                    ValidatesBaseline, Gates, LabPasses, LabFails, Reviews
      <4>2. UNCHANGED <<rows, evalQueue, exec>>
        BY <3>2 DEF ReadsReference, MarksBaseline, CreateFails, WaitTimesOut, Seals, WritesSeal,
                    ValidatesBaseline, Gates, LabPasses, LabFails, Reviews, evaluatorVars
      <4> QED
        BY <1>1, <4>1, <4>2, CampaignGoesOn, EvaluationsUntouched
    <3>3. CASE WaitEnds \/ Attempting \/ \E yes \in BOOLEAN : Collects(yes)
      <4>1. UNCHANGED <<rows, evalQueue, exec>>
        BY <3>3 DEF WaitEnds, Attempting, Collects, evaluatorVars
      <4>2. camp'.at # "submitting"
        <5>1. CASE WaitEnds
          BY <5>1 DEF WaitEnds, IInv, CampShape, AfterBaseline, AfterSealed
        <5>2. CASE Attempting
          <6>1. Goes("done") \/ camp'.at = "executing"
            BY <5>2 DEF Attempting, Campaign
          <6> QED
            BY <6>1, CampaignGoesOn
        <5>3. CASE \E yes \in BOOLEAN : Collects(yes)
          BY <5>3 DEF Collects, IInv, CampShape
        <5> QED
          BY <3>3, <5>1, <5>2, <5>3
      <4> QED
        BY <1>1, <4>1, <4>2, EvaluationsUntouched
    <3> QED
      BY <1>2, <3>1, <3>2, <3>3 DEF CampaignStep
  <2>2. CampaignInv'
    BY <1>1, <1>2, <2>1, PhaseStep, CountStep, AttemptStep, CreatesStep DEF CampaignStep
  <2>3. QualifiedInv'
    <3>1. CASE \E diff \in Diffs : Reviews(diff)
      BY <1>1, <2>1, <3>1, ReviewStep
    <3>2. CASE ~\E diff \in Diffs : Reviews(diff)
      <4>1. camp.at # "done" /\ qualified' = qualified
        BY <1>2, <3>2
           DEF CampaignStep, ReadsReference, MarksBaseline, EvaluatesBase, EvaluatesCandidate,
               CreatesEvaluation, CreateFails, SubmitReturns, WaitEnds, WaitTimesOut, Seals,
               WritesSeal, ValidatesBaseline, Gates, Collects, Attempting, LabPasses, LabFails,
               CampAt
      <4> QED
        BY <1>1, <4>1 DEF CampaignInv, QualifiedInv
    <3> QED
      BY <3>1, <3>2
  <2> QED
    BY <2>1, <2>2, <2>3 DEF EvidenceInv
<1>3. ASSUME EvaluationInv' /\ RowsKept, UNCHANGED <<camp, lab, refs, qualified>>
      PROVE  EvidenceInv'
  BY <1>1, <1>3, CampaignWaits, QualifiedKept DEF EvidenceInv
<1>4. CASE Evaluating
  <2>1. UNCHANGED <<camp, lab, qualified>>
    BY <1>4 DEF Evaluating
  <2>2. CASE ExecutorStep
    <3>1. refs' = refs
      BY <2>2 DEF ExecutorStep, ExecutorTakes, Exports, ExportFails, StartsRunning, Polls,
                  DeadlinePasses, LooksForResult, ModelRefuses, ModelAnswers, Decides, Records,
                  Leaves
    <3> QED
      BY <1>1, <1>3, <2>1, <2>2, <3>1, ExecutorKeeps
  <2>3. CASE CancelLocks \/ CancelWrites
    <3>1. refs' = refs
      BY <2>3 DEF CancelLocks, CancelWrites
    <3> QED
      BY <1>1, <1>3, <2>1, <2>3, <3>1, CancelKeeps
  <2>4. CASE RunnerStep \/ \E e \in Created : CancelReads(e)
    <3>1. UNCHANGED <<rows, refs, evalQueue, exec>>
      BY <2>4 DEF RunnerStep, CancelReads, RunnerTakes, StartsCase, AsksModel, CasePasses, CaseFails,
                  RunnerPublishes, RunnerGivesUp, Publishes
    <3> QED
      BY <1>1, <1>3, <2>1, <3>1, EvaluationsUntouched
  <2> QED
    BY <1>4, <2>2, <2>3, <2>4 DEF Evaluating, EvaluatorStep, CancelStep
<1>5. CASE Sealing \/ HeadMoves \/ UNCHANGED vars
  <2>1. UNCHANGED <<rows, refs, evalQueue, exec, camp, lab, qualified>>
    BY <1>5 DEF Sealing, OperatorOpensSeal, OperatorWritesSeal, HeadMoves, vars, evaluatorVars
  <2> QED
    BY <1>1, <1>3, <2>1, EvaluationsUntouched
<1>6. CASE Restarts
  <2>1. EvaluationInv' /\ RowsKept /\ UNCHANGED <<lab, refs, qualified>>
    BY <1>1, <1>6, RestartKeeps DEF Restarts, EvaluatorRestarts
  <2>2. CASE camp' = camp
    BY <1>3, <2>1, <2>2
  <2>3. CASE Goes("aborted") /\ camp.at \in {"submitting", "writing", "waiting"}
    <3>1. /\ camp'.at = "aborted" /\ camp'.attempt = camp.attempt /\ camp'.ev = camp.ev
          /\ camp'.seen = camp.seen /\ camp'.allPassed = camp.allPassed
      BY <2>3, GoesFields DEF IInv
    <3>2. CampaignInv'
      BY <1>1, <2>1, <2>3, <3>1, PhaseMoves
    <3> QED
      BY <1>1, <2>1, <3>2, QualifiedKept DEF EvidenceInv
  <2> QED
    BY <1>6, <2>2, <2>3 DEF Restarts
<1> QED
  BY <1>2, <1>4, <1>5, <1>6 DEF Next

LEMMA EvidenceInvInit == Init => EvidenceInv
<1> SUFFICES ASSUME Init PROVE EvidenceInv
  OBVIOUS
<1>1. rows = <<>> /\ exec = Idle /\ camp = Campaign /\ qualified = {}
  BY DEF Init, EvaluatorInit
<1>2. Created = {}
  BY <1>1 DEF Created
<1>3. camp.at = "reference" /\ camp.attempt = 0
  BY <1>1 DEF Campaign
<1>4. EvaluationInv
  BY <1>2, <1>3 DEF EvaluationInv, CampAt
<1>5. CampaignInv
  BY <1>1, <1>3 DEF CampaignInv, BasePhases, AttemptPhases, Evaluated
<1> QED
  BY <1>1, <1>4, <1>5 DEF EvidenceInv, QualifiedInv

\* A campaign qualifies an attempt only on as many evaluations as the feature
\* demands, each of that commit, with a passing verdict that regresses in
\* nothing from a reference of the base (scripts/self_improve.py, run_feature).
THEOREM QualifiedOnEvidenceHolds == Spec => []QualifiedOnEvidence
<1>1. Spec => []EvidenceInv
  BY Invariance, EvidenceInvInit, EvidenceInvNext, PTL DEF Spec
<1>2. IInv /\ EvidenceInv => QualifiedOnEvidence
  <2> SUFFICES ASSUME IInv, EvidenceInv, NEW q \in qualified, NEW k \in DOMAIN q.seen
               PROVE  /\ rows[q.seen[k]].commit = q.run /\ rows[q.seen[k]].base = Base
                      /\ rows[q.seen[k]].verdict.status = "passed"
                      /\ rows[q.seen[k]].verdict.comparison.regressions = {}
                      /\ rows[q.seen[k]].verdict.reference.base = Base
    BY DEF QualifiedOnEvidence, EvidenceInv, QualifiedInv
  <2>1. PICK e \in Created : /\ e = q.seen[k] /\ rows[e].commit = q.run
                             /\ rows[e].verdict.status = "passed" /\ rows[e].base = Base
    BY DEF EvidenceInv, QualifiedInv, EvaluationInv, Counted
  <2>2. rows[e].verdict # NoVerdict
    BY <2>1 DEF NoVerdict, None
  <2>3. Truthful(rows[e].verdict, rows[e].base)
    BY <2>2 DEF IInv, VerdictsTruthful, RowTruthful
  <2> QED
    BY <2>1, <2>3 DEF Truthful
<1> QED
  BY <1>1, <1>2, Invariance, PTL

=============================================================================
