---------------------------- MODULE MCVoiceTurns ----------------------------
(* Two turns, the second of which may interrupt the first: every property   *)
(* speaks of at most two.  Two chunks, so that an interrupted answer can be *)
(* heard in part.                                                           *)
EXTENDS VoiceTurns

TwoTurns == 2
TwoChunks == 2
=============================================================================
