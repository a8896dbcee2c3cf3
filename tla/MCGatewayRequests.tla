------------------------- MODULE MCGatewayRequests --------------------------
(* A request, buffered or streamed, a voice turn, and two workers.           *)
EXTENDS GatewayRequests

CONSTANTS w1, w2, call, turn
TwoWorkers == {w1, w2}
OneCall == {call}
OneTurn == {turn}
Both == {call, turn}
\* A turn that was fine, a slow one, an interrupted one whose answer was not
\* truncated, and one without input.
Turn == [type |-> "completed", input |-> TRUE, output |-> TRUE, integrity |-> TRUE,
         interrupted |-> FALSE, truncated |-> FALSE, slow |-> FALSE, slowFirst |-> FALSE]
SomeTurns == {Turn, [Turn EXCEPT !.slow = TRUE],
              [Turn EXCEPT !.type = "interrupted", !.interrupted = TRUE],
              [Turn EXCEPT !.type = "empty"]}
=============================================================================
