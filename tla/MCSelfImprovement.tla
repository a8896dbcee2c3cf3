-------------------------- MODULE MCSelfImprovement --------------------------
(* One feature, and a suite of two cases.                                   *)
EXTENDS SelfImprovement

OneCase == {"c1"}
RunIds == {"b1", "b2", "a1"}
TwoBaselines == <<"b1", "b2">>
OneAttempt == <<"a1">>
Plain == [readable |-> TRUE, files |-> {"plain"}, binary |-> FALSE, small |-> TRUE, deletes |-> FALSE]
Self == [Plain EXCEPT !.files = {"plain", "experimental"}]
SomeDiffs == {Self, [Self EXCEPT !.readable = FALSE], [Self EXCEPT !.files = {"plain", "root-trust"}]}
Sealed == [base |-> Base, cases |-> [c \in Cases |-> "passed"], ev |-> 0]
SealedOrNot == {Sealed, [Sealed EXCEPT !.base = "older"]}
=============================================================================
