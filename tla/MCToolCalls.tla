----------------------------- MODULE MCToolCalls -----------------------------
(* Two calls that share a token, as two tools called for one invocation do;    *)
(* one of the two tools is not among those that the server may offer.          *)
EXTENDS ToolCalls

CONSTANTS s1, s2, a, b, c1, c2, t1
TwoServers == {s1, s2}
TwoTools == {a, b}
OnlyA == [s \in Servers |-> {a}]
TwoCalls == {c1, c2}
OneToken == {t1}
SharedToken == [c \in Calls |-> t1]
=============================================================================
