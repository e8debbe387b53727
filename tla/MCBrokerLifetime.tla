-------------------------- MODULE MCBrokerLifetime --------------------------
(***************************************************************************)
(* A small instance of BrokerLifetime for TLC.                             *)
(***************************************************************************)
EXTENDS BrokerLifetime
=============================================================================
