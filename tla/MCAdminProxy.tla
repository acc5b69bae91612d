---------------------------- MODULE MCAdminProxy ----------------------------
(* An instance of AdminProxy for TLC: two tenants, the name of one of which *)
(* begins with the name of the other, and requests of every kind of route.  *)
EXTENDS AdminProxy, TLC

MCSuperRoles == { <<"root">> }
MCWordsOf == [t \in {"acme", "acme-client"} |-> IF t = "acme" THEN <<"acme">> ELSE <<"acme", "client">>]
MCSubjects == { <<>>, <<"root">>, <<"acme", "k1">>, <<"acme", "client", "client", "k2">> }

MCRequests ==
  { <<"PUT", <<"namespaces", "acme", n>>>> : n \in {"n1", "n2", "n3"} }
  \cup { <<"GET", p>> : p \in { <<"namespaces", "acme", "n1">>, <<"tenant", "acme">>, <<"tenants">>,
           <<"functions", "acme", "n1">> } }
  \cup { <<"POST", <<"namespaces", "acme", "n1", "retention">>>>, <<"DELETE", <<"namespaces", "acme", "n1">>>>,
         <<"DELETE", <<"namespaces", "acme", "n1", "backlogQuota">>>>,
         <<"PUT", <<"namespaces", "acme", "n1", "schemaCompatibilityStrategy">>>>,
         <<"POST", <<"functions", "acme", "n1">>>>, <<"POST", <<"sinks", "reloadBuiltIn">>>>,
         <<"POST", <<"persistent", "acme-client", "n1">>>>, <<"PUT", <<"tenants", "acme">>>>,
         <<"PUT", <<"bookies">>>> }

Symmetry == Permutations(Handlers)

MCPlans == {"free", "starter", "private"}
MCNumOfNamespaces == [p \in MCPlans |-> IF p = "free" THEN 1 ELSE 2]
MCFunctions == [p \in MCPlans |-> IF p = "private" THEN -1 ELSE 1]

\* The instance meets what the theorem on the limit of namespaces asks for.
ASSUME InstanceAssumption == LimitsApply
==============================================================================
