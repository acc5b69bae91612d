---------------------------- MODULE MCBrokerStats ----------------------------
(* Instances of BrokerStats for TLC. *)
EXTENDS BrokerStats

\* The admin API lists the brokers in no particular order; the third may be away.
MCListings == { <<2, 3, 1>>, <<3, 1, 2>>, <<2, 1>> }
==============================================================================
