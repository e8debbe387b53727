-------------------------- MODULE LifecycleContract --------------------------
(***************************************************************************)
(* What an operator may rely on when a lifecycle transaction was begun:   *)
(* docs/lifecycle.md, "Recovery contract".  A transaction is pending until *)
(* it settles, once, on one of its two planned outcomes; the prior outcome *)
(* can be selected while it is pending and then stays selected; and at the *)
(* moment it settles every managed artifact is the one the outcome plans.  *)
(* How the artifacts get there, and how often the program dies on the way, *)
(* is not visible here.                                                    *)
(***************************************************************************)
CONSTANT Wanted    \* the sets of artifacts a plan can want: [goal -> artifacts]

VARIABLES
    wanted,        \* what the plan wants under each goal
    goal,          \* the goal the journal selects
    outcome,       \* the outcome the admission certifies, or "pending"
    live           \* the artifacts certified; none until it settles

vars == <<wanted, goal, outcome, live>>

Init == /\ wanted \in Wanted
        /\ goal = "target"
        /\ outcome = "pending"
        /\ live = {}

SelectPrior == /\ outcome = "pending"
               /\ goal' = "prior"
               /\ UNCHANGED <<wanted, outcome, live>>

Settle == /\ outcome = "pending"
          /\ outcome' = goal
          /\ live' = wanted[goal]
          /\ UNCHANGED <<wanted, goal>>

Next == SelectPrior \/ Settle

Spec == Init /\ [][Next]_vars
=============================================================================
