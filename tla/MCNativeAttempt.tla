-------------------------- MODULE MCNativeAttempt --------------------------
(* Small instances of NativeAttempt for TLC. *)
EXTENDS NativeAttempt
=============================================================================
