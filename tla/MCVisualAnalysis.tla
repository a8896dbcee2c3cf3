-------------------------- MODULE MCVisualAnalysis --------------------------
(* One analysis and two requests that index, over three images and a text. *)
EXTENDS VisualAnalysis

ThreeImages == {"i1", "i2", "i3"}
OneText == {"t1"}
NearPair == {<<"i1", "i3">>, <<"i3", "i1">>}
Show(item, crops, retention, scope, number) ==
  [item |-> item, crops |-> crops, retention |-> retention, scope |-> scope, number |-> number]
SomeWorks == {Show("i1", {"full"}, 1, "s", Unnumbered), Show("i1", {"full", "crop"}, 2, "s", 1),
              Show("i2", {"full"}, 2, "s", 3), Show("i3", {"full"}, 0, "s", 2),
              Show("t1", {"full"}, 0, "s", Unnumbered)}
Three == {"a1", "r1", "r2"}
OneAnalysis == {"a1"}
OtherNamespace == {[item |-> "i2", namespace |-> "game"]}
TwoNamespaces == [i \in Images \cup Texts |-> IF i = "i2" THEN "game" ELSE "web"]
=============================================================================
