---------------------------- MODULE MCBrokerProxy ----------------------------
(* TLC instance of BrokerProxy. *)
EXTENDS BrokerProxy
=============================================================================
