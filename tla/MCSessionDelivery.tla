------------------------- MODULE MCSessionDelivery -------------------------
(***************************************************************************)
(* A small instance of SessionDelivery for TLC: a session that may run two *)
(* binds and another call at a time, and a second one that may bind.  They *)
(* begin a bounded number of rotations.                                    *)
(***************************************************************************)
EXTENDS SessionDelivery

CONSTANTS s1, s2, first, again, other, auth, MaxRotations

VARIABLE begun  \* rotations begun so far

Sessions == [c \in Call |-> IF c = other THEN s2 ELSE s1]

RotationBegins ==
  \E c \in BindCall : /\ calls[c].stage = "none" /\ calls'[c].stage = "begun"
                      /\ pendings[SessionOf[c]].cap = NoCap

BoundedSpec ==
  /\ Init /\ begun = 0
  /\ [][/\ Next
        /\ begun' = begun + (IF RotationBegins THEN 1 ELSE 0)
        /\ begun' <= MaxRotations]_<<vars, begun>>
=============================================================================
