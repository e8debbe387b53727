---------------------------- MODULE MCCodexWakes ----------------------------
(***************************************************************************)
(* Model values for the messages of CodexWakes.                            *)
(***************************************************************************)
EXTENDS CodexWakes

CONSTANTS request, notice

=============================================================================
