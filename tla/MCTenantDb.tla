----------------------------- MODULE MCTenantDb -----------------------------
(* Instances of TenantDb for TLC. *)
EXTENDS TenantDb

\* Both handlers run in process n1; n2 only listens.
MCHome == [h \in Handlers |-> CHOOSE n \in Nodes : n = "n1"]

MCPlanTypes == {"Starter", "starter", "free", "gold"}
MCAuditTexts == {"", "a", "b", "c", "d"}

Post(status, planType, namespaces, text) ==
  [name |-> NoName, tenantStatus |-> status, planType |-> planType,
   policy |-> [numOfNamespaces |-> namespaces, functions |-> 0], audit |-> <<text>>]

\* An upgrade that leaves everything else to the defaults, a custom limit with a
\* status that has no name, and a plan type that names no tier.
PlainRequests ==
  { Post(Reserved0, "Starter", 0, ""), Post(7, "free", 3, "b"),
    Post(Activated, "gold", 0, "c") }

\* One request is enough to show a lost update.
OneRequest == { Post(Reserved0, "starter", 0, "a") }
=============================================================================
