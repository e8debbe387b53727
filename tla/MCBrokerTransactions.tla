------------------------ MODULE MCBrokerTransactions ------------------------
(***************************************************************************)
(* Small instances of BrokerTransactions for TLC: a dyad, whose initiator  *)
(* is fixed because the two are told apart by their roles only, and the    *)
(* round policies that are worth their states.                             *)
(***************************************************************************)
EXTENDS BrokerTransactions

CONSTANTS alice, bob

Policy(minimum, rounds, max) ==
  [initiator |-> alice, peers |-> {bob}, minimum |-> minimum,
   rounds |-> rounds, max |-> max, stop |-> TRUE]

\* One round, no extension possible.
OneRound == {Policy(1, 1, 1)}

\* One round that may be extended by another.
Extensible == {Policy(1, 1, 2)}

\* A dialogue that is not extended is followed to its end; one that is, until
\* after the replacement of the requests that were out.
ExtendedBriefly ==
  saved.m.extension_operations # {} =>
    nextTx <= IF saved.m.current_round = 1 THEN 6 ELSE 9
=============================================================================
