-------------------------- MODULE MCGatewayLeases ---------------------------
(* Small instances of the gateway and its supervisor, in the default       *)
(* compatibility mode: one GPU worker at a time.                           *)
EXTENDS GatewayLeases

CONSTANT Calls  \* the calls of the instance: <<endpoint, service>> of each

MCRequests == DOMAIN Calls
MCKind == [r \in DOMAIN Calls |-> Calls[r][1]]
MCService == [r \in DOMAIN Calls |-> Calls[r][2]]
MCAdmit(s, S) == S \subseteq {s}
MCFits(S) == Cardinality(S) <= 1

GpuAndCpu == {"llm", "vm"}
Gpu == {"llm"}
Jobs == [r1 |-> <<"acquire", "llm">>, r2 |-> <<"acquire", "vm">>, r3 |-> <<"stop_all", "llm">>]
TwoJobs == [r1 |-> <<"acquire", "llm">>, r2 |-> <<"acquire", "llm">>]
=============================================================================
