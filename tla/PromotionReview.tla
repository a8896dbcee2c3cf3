-------------------------- MODULE PromotionReview ----------------------------
(***************************************************************************)
(* The read-only review of a candidate (agent_lab/promotion.py): a list of *)
(* checks, each a pass, a warning or a block; a candidate without a block  *)
(* qualifies for manual promotion.  A run is [status, run, commit, base,   *)
(* harness, holdout], where commit and base are "none" if the run recorded *)
(* none; its diff is [readable, files, binary, small, deletes], where      *)
(* "files" is the set of the classes of the paths it changes; and evidence *)
(* is what the evaluator returns for its latest passing evaluation.        *)
(***************************************************************************)
EXTENDS FiniteSets

\* _protected_path and _self_modification_class, in the order they decide.
Classes == {"plain", "protected", "root-trust", "experimental"}

\* _valid_self_eval_evidence
ValidEvidence(evidence, run) ==
  /\ evidence.found
  /\ evidence.run = run.run /\ evidence.commit = run.commit /\ evidence.base = run.base
  /\ evidence.status = "passed"
  /\ evidence.verdict.status = "passed"
  /\ evidence.verdict.critical
  /\ evidence.verdict.cases # <<>>
  /\ evidence.verdict.comparison.compatible
  /\ evidence.verdict.comparison.regressions = {}
  /\ evidence.verdict.comparison.meets

\* The checks of review_candidate that block.
RunBlocks(run) ==
  (IF run.status # "passed" THEN {"terminal-status"} ELSE {})
    \cup (IF run.harness # "passed" THEN {"visible-validation"} ELSE {})
    \cup (IF run.holdout = "failed" THEN {"holdout-validation"} ELSE {})
    \cup (IF run.base = "none" THEN {"base-commit"} ELSE {})

CandidateBlocks(run, ref, head) ==
  (IF run.commit = "none" \/ ref # run.commit THEN {"candidate-record"} ELSE {})
    \cup (IF run.base # "none" /\ head # run.base THEN {"base-freshness"} ELSE {})

DiffBlocks(diff) ==
  (IF diff.files = {} THEN {"non-empty-diff"} ELSE {})
    \cup (IF diff.binary THEN {"binary-diff"} ELSE {})
    \cup (IF ~diff.small THEN {"diff-size"} ELSE {})
    \cup (IF "protected" \in diff.files THEN {"protected-paths"} ELSE {})
    \cup (IF diff.deletes THEN {"file-deletions"} ELSE {})

SelfModificationBlocks(diff, evidence, run) ==
  IF \/ "root-trust" \in diff.files
     \/ "experimental" \in diff.files /\ ~ValidEvidence(evidence, run)
    THEN {"self-modification"} ELSE {}

\* The diff is looked at where there is one, and it can be read.
InspectionBlocks(diff, evidence, run) ==
  IF "none" \in {run.base, run.commit} THEN {}
  ELSE IF ~diff.readable THEN {"candidate-diff"}
  ELSE DiffBlocks(diff) \cup SelfModificationBlocks(diff, evidence, run)

\* eligible_for_manual_promotion
Eligible(run, ref, head, diff, evidence) ==
  RunBlocks(run) \cup CandidateBlocks(run, ref, head)
    \cup InspectionBlocks(diff, evidence, run) = {}
=============================================================================
