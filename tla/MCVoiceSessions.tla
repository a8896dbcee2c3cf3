-------------------------- MODULE MCVoiceSessions ---------------------------
(* Two attempts to connect for two sessions of a registry with one place: a   *)
(* place must be given back, or its ticket expire, before the second session. *)
EXTENDS VoiceSessions

CONSTANTS h1, h2
TwoHandlers == {h1, h2}
=============================================================================
