---------------------------- MODULE MCSessionLive ----------------------------
(***************************************************************************)
(* An instance of SessionDelivery with a single session, whose rotations   *)
(* never end.                                                              *)
(***************************************************************************)
EXTENDS SessionDelivery

CONSTANTS s1, first, again, auth

Sessions == [c \in Call |-> s1]
=============================================================================
