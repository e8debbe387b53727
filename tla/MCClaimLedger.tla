---------------------------- MODULE MCClaimLedger ----------------------------
(***************************************************************************)
(* A small instance of ClaimLedger for TLC: a dyad.                        *)
(***************************************************************************)
EXTENDS ClaimLedger
=============================================================================
