---------------------------- MODULE Conversation ----------------------------
(***************************************************************************)
(* What a realtime voice session promises its user, without tasks, locks   *)
(* or cancellations: what the user says is answered piece by piece, each   *)
(* piece shown before it is heard; an answer is remembered once, as it was *)
(* shown when it is complete, as it was heard when it is cut short; and an *)
(* interrupted turn stays silent.  VoiceTurns is shown to implement it.    *)
(***************************************************************************)
EXTENDS Naturals, Sequences

CONSTANT Turns

VARIABLES
  history,  \* what the language model will be told: <<role, turn, pieces>>
  shown,    \* of each turn, the pieces of its answer that the user was shown
  heard,    \* and those that the user was sent to hear
  silenced, \* the turns that the user knows to be interrupted
  outcome   \* of each turn, as it was reported
vars == <<history, shown, heard, silenced, outcome>>

Entries(role, t) == {i \in DOMAIN history : history[i][1] = role /\ history[i][2] = t}

\* The pieces of the answer that are remembered.
Recalled(t) ==
  LET answers == Entries("assistant", t)
  IN  IF answers = {} THEN 0 ELSE history[CHOOSE i \in answers : TRUE][3]

\* The utterance of the turn is what is being answered.
Asked(t) == Len(history) > 0 /\ history[Len(history)] = <<"user", t, 1>>

Init ==
  /\ history = <<>>
  /\ shown = [t \in Turns |-> 0] /\ heard = [t \in Turns |-> 0]
  /\ silenced = {}
  /\ outcome = [t \in Turns |-> "none"]

\* What was said joins the history, turn by turn.
Asks(t) ==
  /\ outcome[t] = "none"
  /\ \A i \in DOMAIN history : history[i][2] < t
  /\ history' = Append(history, <<"user", t, 1>>)
  /\ UNCHANGED <<shown, heard, silenced, outcome>>

Shows(t) ==
  /\ Asked(t) /\ t \notin silenced /\ outcome[t] = "none"
  /\ shown' = [shown EXCEPT ![t] = @ + 1]
  /\ UNCHANGED <<history, heard, silenced, outcome>>

Speaks(t) ==
  /\ Asked(t) /\ t \notin silenced /\ outcome[t] = "none"
  /\ heard[t] < shown[t]
  /\ heard' = [heard EXCEPT ![t] = @ + 1]
  /\ UNCHANGED <<history, shown, silenced, outcome>>

\* A complete answer was shown and heard to its end.
Completes(t) ==
  /\ Asked(t) /\ t \notin silenced /\ outcome[t] = "none"
  /\ heard[t] = shown[t]
  /\ history' = Append(history, <<"assistant", t, shown[t]>>)
  /\ UNCHANGED <<shown, heard, silenced, outcome>>

Silences(t) ==
  /\ Entries("assistant", t) = {}
  /\ silenced' = silenced \cup {t}
  /\ UNCHANGED <<history, shown, heard, outcome>>

\* The user knows it by then; the turn may have failed meanwhile.
CutsShort(t) ==
  /\ Asked(t) /\ t \in silenced /\ outcome[t] \in {"none", "failed"}
  /\ history' = Append(history, <<"assistant", t, heard[t]>>)
  /\ UNCHANGED <<shown, heard, silenced, outcome>>

\* A turn is reported once, with an outcome that the history bears out.
Reports(t, result) ==
  /\ outcome[t] = "none"
  /\ result = "empty" => Entries("user", t) = {}
  /\ result = "completed" => t \notin silenced /\ Recalled(t) = shown[t]
  /\ result = "failed" => Entries("assistant", t) = {}
  /\ result = "interrupted" => Recalled(t) = heard[t]
  /\ outcome' = [outcome EXCEPT ![t] = result]
  /\ UNCHANGED <<history, shown, heard, silenced>>

Next ==
  \E t \in Turns :
    \/ Asks(t) \/ Shows(t) \/ Speaks(t) \/ Completes(t) \/ Silences(t) \/ CutsShort(t)
    \/ \E result \in {"empty", "completed", "failed", "interrupted"} : Reports(t, result)

Spec == Init /\ [][Next]_vars
=============================================================================
