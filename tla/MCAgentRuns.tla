----------------------------- MODULE MCAgentRuns ----------------------------
(* One thread executes (AGENT_LAB_MAX_WORKERS is 1 by default), and every    *)
(* kind of call races on one run, a start twice.                            *)
EXTENDS AgentRuns

OneThread == {"t1"}
OneRun == {"r1"}

Ask(kind, run) == [kind |-> kind, run |-> run]

Racing ==
  [create |-> Ask("create_and_start", "r1"),
   again |-> Ask("start", "r1"), cancel |-> Ask("cancel", "r1"),
   cleanup |-> Ask("cleanup", "r1")]

=============================================================================
