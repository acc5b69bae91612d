---------------------------- MODULE MCTenantUsage ----------------------------
(* Instances of TenantUsage for TLC. *)
EXTENDS TenantUsage
MCTenantOf == [t \in Topics |-> "acme"]
MCConcat == [tb \in Topics \X Brokers |-> tb]
==============================================================================
