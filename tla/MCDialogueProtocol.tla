------------------------- MODULE MCDialogueProtocol -------------------------
(***************************************************************************)
(* A small instance of DialogueProtocol for TLC.  The start policy ranges  *)
(* over every minimum, authorized and maximum number of rounds within      *)
(* MaxCouncilRounds.  The dyads and triads that are followed are those of  *)
(* one initiator: the participants differ by their roles only.             *)
(***************************************************************************)
EXTENDS DialogueProtocol

CONSTANTS alice, bob, carol

\* The positions of a participant that are followed: all of them in a dyad
\* that may stop on convergence, one where convergence does not count; in a
\* triad it is up to the third participant whether they converge.
Positions(participant) ==
  IF ~dialogue.stop_on_convergence THEN {"contest"}
  ELSE IF carol \notin dialogue.peers THEN ExchangePayload
  ELSE IF participant = carol THEN {"settled_one_way", "contest"}
  ELSE {"settled_one_way"}

\* Every policy is followed in a dyad; in a triad, those of two rounds that may
\* stop on convergence.
Considered ==
  \/ dialogue.phase = "absent"
  \/ /\ dialogue.initiator = alice
     /\ bob \in dialogue.peers
     /\ carol \in dialogue.peers =>
          /\ dialogue.stop_on_convergence
          /\ dialogue.max_rounds = 2
     /\ \A s \in dialogue.submissions :
          s.kind = "exchange" => s.payload \in Positions(s.participant)
=============================================================================
