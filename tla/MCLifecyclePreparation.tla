----------------------- MODULE MCLifecyclePreparation -----------------------
(***************************************************************************)
(* Small instances of LifecyclePreparation for TLC.                        *)
(***************************************************************************)
EXTENDS LifecyclePreparation
=============================================================================
