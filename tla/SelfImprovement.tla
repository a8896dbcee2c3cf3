--------------------------- MODULE SelfImprovement ---------------------------
(***************************************************************************)
(* A self-improvement campaign (scripts/self_improve.py) over one feature: *)
(* it seals a reference from two evaluations of the base commit, checks    *)
(* that the feature's validators fail on the base, lets Agent Lab attempt  *)
(* the feature, passes the candidate through the validators in the         *)
(* sandbox, through repeated sealed evaluations and through the promotion  *)
(* review, and qualifies it or tries again.  Agent Lab's run is taken by   *)
(* its end: a candidate commit under the run's private ref, or none (the   *)
(* module AgentRuns models how it gets there).                             *)
(*                                                                         *)
(* Beside the campaign an operator cancels evaluations, seals a reference, *)
(* and moves the HEAD of the source, and the evaluator restarts.           *)
(***************************************************************************)
EXTENDS AgentEvaluator, PromotionReview

CONSTANTS
  Baselines,     \* <<the run ids of the two baseline evaluations>>
  Attempts,      \* <<the run ids of the attempts>>
  SealedRepeats, \* feature.sealed_repeats
  Diffs          \* the diffs a candidate may have

ASSUME CampaignAssumption ==
  /\ SealedRepeats \in Nat \ {0} /\ Len(Baselines) = 2
  /\ \A diff \in Diffs : diff.files \subseteq Classes

VARIABLES
  camp,      \* where the campaign is
  lab,       \* the end of Agent Lab's run of each attempt
  qualified, \* the attempts the campaign qualified
  sealer,    \* the operator's set_reference between the opening and the write
  head       \* the HEAD of the source repository
vars == <<evaluatorVars, camp, lab, qualified, sealer, head>>

NoEvidence == [found |-> FALSE]
Campaign == [at |-> "reference", attempt |-> 0, ev |-> 0, seen |-> <<>>, allPassed |-> TRUE,
             evidence |-> NoEvidence]

Init ==
  /\ EvaluatorInit
  /\ camp = Campaign
  /\ lab = [i \in Ids |-> None]
  /\ qualified = {}
  /\ sealer = 0
  /\ head = Base

Ended == {"done", "aborted"}
CampAt(at) == camp.at = at
Goes(at) == camp' = [camp EXCEPT !.at = at]
Run == Attempts[camp.attempt]

\* ensure_reference; a reference that cannot be read counts as none.
ReadsReference ==
  /\ CampAt("reference")
  /\ Goes(IF reference.base = Base
            THEN "validating" ELSE "baseline")
  /\ UNCHANGED <<evaluatorVars, lab, qualified, sealer, head>>

\* update-ref of _baseline_evaluation
MarksBaseline ==
  /\ CampAt("baseline")
  /\ refs' = [refs EXCEPT ![Baselines[Len(camp.seen) + 1]] = Base]
  /\ Goes("evaluating base")
  /\ UNCHANGED <<rows, reference, evalActive, evalCancel, evalQueue, exec, canceller,
                 jobs, results, mail, runner, disturbances, lab, qualified, sealer, head>>

CreatesEvaluation(run, commit) ==
  /\ Inserts(run, commit)
  /\ camp' = [camp EXCEPT !.at = "submitting", !.ev = Len(rows) + 1]
  /\ UNCHANGED <<refs, reference, evalActive, evalCancel, evalQueue, exec, canceller,
                 jobs, results, mail, runner, disturbances, lab, qualified, sealer, head>>

EvaluatesBase ==
  CampAt("evaluating base") /\ CreatesEvaluation(Baselines[Len(camp.seen) + 1], Base)

\* start_candidate_evaluation
EvaluatesCandidate ==
  CampAt("evaluating") /\ lab[Run] = "passed" /\ CreatesEvaluation(Run, Run)

\* create refuses, or git fails: the campaign ends.
CreateFails ==
  /\ camp.at \in {"evaluating base", "evaluating"}
  /\ Goes("aborted")
  /\ UNCHANGED <<evaluatorVars, lab, qualified, sealer, head>>

SubmitReturns ==
  /\ CampAt("submitting")
  /\ Submits(camp.ev)
  /\ Goes("waiting")
  /\ UNCHANGED <<rows, refs, reference, evalCancel, exec, canceller, jobs, results, mail,
                 runner, disturbances, lab, qualified, sealer, head>>

\* Where the campaign goes with one more evaluation of the base: it must have
\* passed a case, and the second must repeat the first.
AfterBaseline(seen) ==
  LET ended == rows[camp.ev] IN
  IF ended.status \notin {"passed", "failed"} \/ PassedIn(ended.verdict.cases) = {}
    THEN "aborted"
  ELSE IF Len(seen) = 1 THEN "baseline"
  ELSE IF rows[seen[1]].verdict.cases = ended.verdict.cases THEN "sealing" ELSE "aborted"

AfterSealed(seen) == IF Len(seen) < SealedRepeats THEN "evaluating" ELSE "collecting"

\* wait_api sees a terminal status.
WaitEnds ==
  LET seen == Append(camp.seen, camp.ev) IN
  /\ CampAt("waiting") /\ rows[camp.ev].status \in Terminal
  /\ camp' = [camp EXCEPT !.seen = seen,
                          !.allPassed = @ /\ rows[camp.ev].status = "passed",
                          !.at = IF camp.attempt = 0 THEN AfterBaseline(seen)
                                 ELSE AfterSealed(seen)]
  /\ UNCHANGED <<evaluatorVars, lab, qualified, sealer, head>>

\* wait_api gives up, which ends the campaign.
WaitTimesOut ==
  /\ CampAt("waiting")
  /\ Goes("aborted")
  /\ UNCHANGED <<evaluatorVars, lab, qualified, sealer, head>>

\* set_reference of the first baseline; a refusal ends the campaign.
Seals ==
  /\ CampAt("sealing")
  /\ IF MayBecomeReference(camp.seen[1])
       THEN OpensReference(camp.seen[1]) /\ Goes("writing")
       ELSE reference' = reference /\ Goes("aborted")
  /\ UNCHANGED <<rows, refs, evalActive, evalCancel, evalQueue, exec, canceller, jobs,
                 results, mail, runner, disturbances, lab, qualified, sealer, head>>

WritesSeal ==
  /\ CampAt("writing")
  /\ WritesReference(camp.seen[1])
  /\ Goes("validating")
  /\ UNCHANGED <<rows, refs, evalActive, evalCancel, evalQueue, exec, canceller, jobs,
                 results, mail, runner, disturbances, lab, qualified, sealer, head>>

\* evaluate_feature_baseline: a feature whose validators do not both fail on the
\* base is skipped.
ValidatesBaseline(discriminates) ==
  /\ CampAt("validating")
  /\ Goes(IF discriminates THEN "attempting" ELSE "done")
  /\ UNCHANGED <<evaluatorVars, lab, qualified, sealer, head>>

\* The next attempt of the feature, or its end.
Attempting ==
  /\ CampAt("attempting")
  /\ IF camp.attempt = Len(Attempts)
       THEN Goes("done")
       ELSE camp' = [Campaign EXCEPT !.at = "executing", !.attempt = camp.attempt + 1]
  /\ UNCHANGED <<evaluatorVars, lab, qualified, sealer, head>>

\* execute_candidate: Agent Lab saves the candidate of a run that passed.
LabPasses ==
  /\ CampAt("executing")
  /\ lab' = [lab EXCEPT ![Run] = "passed"]
  /\ refs' = [refs EXCEPT ![Run] = Run]
  /\ Goes("gating")
  /\ UNCHANGED <<rows, reference, evalActive, evalCancel, evalQueue, exec, canceller, jobs,
                 results, mail, runner, disturbances, qualified, sealer, head>>

LabFails(status) ==
  /\ CampAt("executing")
  /\ lab' = [lab EXCEPT ![Run] = status]
  /\ Goes("attempting")
  /\ UNCHANGED <<evaluatorVars, qualified, sealer, head>>

\* evaluate_feature_candidate: both validators and the unit suite, in the sandbox.
Gates(eligible) ==
  /\ CampAt("gating")
  /\ Goes(IF eligible THEN "evaluating" ELSE "attempting")
  /\ UNCHANGED <<evaluatorVars, lab, qualified, sealer, head>>

\* What the evaluator returns of an evaluation.
EvidenceOf(e) ==
  IF e = 0 THEN NoEvidence
  ELSE [found |-> TRUE, run |-> rows[e].run, commit |-> rows[e].commit, base |-> rows[e].base,
        status |-> rows[e].status, verdict |-> rows[e].verdict]

\* promotion_review asks the evaluator first, which may not answer.
Collects(answers) ==
  /\ CampAt("collecting")
  /\ camp' = [camp EXCEPT !.at = "reviewing",
                          !.evidence = IF answers THEN EvidenceOf(LatestPassing(Run))
                                       ELSE NoEvidence]
  /\ UNCHANGED <<evaluatorVars, lab, qualified, sealer, head>>

RunRecord(run) ==
  [status |-> lab[run], run |-> run, commit |-> run, base |-> Base, harness |-> "passed",
   holdout |-> "skipped"]

\* Mutant of Qualifies: one passing evaluation of several is enough.
QualifiesByReview(diff) ==
  Eligible(RunRecord(Run), refs[Run], head, diff, camp.evidence)
Qualifies(diff) ==
  /\ camp.allPassed
  /\ Eligible(RunRecord(Run), refs[Run], head, diff, camp.evidence)

\* review_candidate reads the diff of the candidate, which is looked at only here.
Reviews(diff) ==
  /\ CampAt("reviewing")
  /\ qualified' = IF Qualifies(diff)
                   THEN qualified \cup {[run |-> Run, seen |-> camp.seen, files |-> diff.files]}
                   ELSE qualified
  /\ Goes(IF Qualifies(diff) THEN "done" ELSE "attempting")
  /\ UNCHANGED <<evaluatorVars, lab, sealer, head>>

CampaignStep ==
  \/ ReadsReference \/ MarksBaseline \/ EvaluatesBase \/ EvaluatesCandidate \/ CreateFails
  \/ SubmitReturns \/ WaitEnds \/ WaitTimesOut \/ Seals \/ WritesSeal
  \/ \E yes \in BOOLEAN : ValidatesBaseline(yes) \/ Gates(yes) \/ Collects(yes)
  \/ Attempting \/ LabPasses
  \/ \E diff \in Diffs : Reviews(diff)
  \/ \E status \in {"failed", "error"} : LabFails(status)

-----------------------------------------------------------------------------
(* The operator and the restart                                            *)

OperatorOpensSeal(e) ==
  /\ sealer = 0
  /\ Disturbs
  /\ OpensReference(e)
  /\ sealer' = e
  /\ UNCHANGED <<rows, refs, evalActive, evalCancel, evalQueue, exec, canceller, jobs,
                 results, mail, runner, camp, lab, qualified, head>>

OperatorWritesSeal ==
  /\ sealer # 0
  /\ WritesReference(sealer)
  /\ sealer' = 0
  /\ UNCHANGED <<rows, refs, evalActive, evalCancel, evalQueue, exec, canceller, jobs,
                 results, mail, runner, disturbances, camp, lab, qualified, head>>

HeadMoves ==
  /\ head = Base
  /\ Disturbs
  /\ head' = "moved"
  /\ UNCHANGED <<rows, refs, reference, evalActive, evalCancel, evalQueue, exec, canceller,
                 jobs, results, mail, runner, camp, lab, qualified, sealer>>

\* A request under way is cut off; a poll may be.
Restarts ==
  /\ EvaluatorRestarts
  /\ sealer' = 0
  /\ \/ camp' = camp /\ camp.at \notin {"submitting", "writing"}
     \/ Goes("aborted") /\ camp.at \in {"submitting", "writing", "waiting"}
  /\ UNCHANGED <<lab, qualified, head>>

Evaluating == EvaluatorStep /\ UNCHANGED <<camp, lab, qualified, sealer, head>>
Sealing == (\E e \in Created : OperatorOpensSeal(e)) \/ OperatorWritesSeal

Next == CampaignStep \/ Evaluating \/ Sealing \/ HeadMoves \/ Restarts

Spec == Init /\ [][Next]_vars

\* Threads that can run do run; a deadline passes however often the loop turns.
Fairness ==
  /\ WF_vars(CampaignStep)
  /\ WF_vars(ExecutorStep /\ UNCHANGED <<camp, lab, qualified, sealer, head>>)
  /\ SF_vars(DeadlinePasses /\ UNCHANGED <<camp, lab, qualified, sealer, head>>)
FairSpec == Spec /\ Fairness

-----------------------------------------------------------------------------
(* What a campaign promises                                                *)

\* README.md, "A feature qualifies only when": every evaluation the campaign
\* counts for a qualified attempt was of that very commit, and its verdict held
\* no regression from a reference of the base the campaign started from, also
\* when others cancel evaluations, seal a reference or move HEAD meanwhile; a
\* candidate that changes Agent Lab's root of trust, protected files, or
\* nothing, is never qualified.
QualifiedOnEvidence ==
  \A q \in qualified :
    /\ Len(q.seen) = SealedRepeats
    /\ lab[q.run] = "passed" /\ refs[q.run] = q.run
    /\ q.files \cap {"protected", "root-trust"} = {} /\ q.files # {}
    /\ \A k \in DOMAIN q.seen :
         LET row == rows[q.seen[k]] IN
         /\ row.commit = q.run /\ row.base = Base
         /\ row.verdict.status = "passed"
         /\ row.verdict.comparison.regressions = {}
         /\ row.verdict.reference.base = Base

\* A row that says queued, preparing or running has somebody who will end it: a
\* restart, a cancellation or a failed create leave no such row behind.  (Only
\* a cancellation written after the verdict can leave a row at cancelling.)
UnfinishedIsOwned ==
  \A e \in Created :
    rows[e].status \in {"queued", "preparing", "running"} =>
      e \in evalActive \/ (camp.at = "submitting" /\ camp.ev = e)
=============================================================================
