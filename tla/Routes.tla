------------------------------- MODULE Routes -------------------------------
(***************************************************************************)
(* Who may do what: the routes in their order (NewRouter in               *)
(* src/src/route/router.go), the authentication around their handlers      *)
(* (middleware.go), and the match of a token's subject with the tenant of  *)
(* a path (VerifySubject and ExtractTenant in handlers.go).                *)
(*                                                                         *)
(* Data abstraction.  A path is the sequence of its segments, without the  *)
(* leading admin/v2 or admin/v3; a subject or a tenant's name is the       *)
(* sequence of its words, the parts between the "-".  A token has one      *)
(* subject.  Whether a token is valid is a question to icrypto.            *)
(***************************************************************************)
EXTENDS Naturals, Sequences

CONSTANTS SuperRoles,      \* subjects, util.SuperRoles
          PulsarJWTEnabled, \* util.IsPulsarJWTEnabled()
          WordsOf          \* WordsOf[t]: the words of the tenant t of a path

NoSubject == <<>>
DummySuperRole == <<"DummySuperRole">>

ASSUME SuperRolesAssumption == NoSubject \notin SuperRoles

-----------------------------------------------------------------------------
(* Subjects *)

\* The tenant is all but the last word, or all but the last two if the last but
\* one is "client" or "admin"; a subject of one word is a tenant itself.
ExtractTenant(sub) ==
  LET n == Len(sub)
      case1 == IF n < 2 THEN sub ELSE SubSeq(sub, 1, n - 1)
  IN  IF n >= 2 /\ sub[n - 1] \in {"client", "admin"}
      THEN <<case1, SubSeq(sub, 1, n - 2)>>
      ELSE <<case1, case1>>

VerifySubject(tenant, sub) ==
  \/ sub \in SuperRoles
  \/ \E i \in 1..2 : tenant = ExtractTenant(sub)[i]

\* How the handlers tell a super user; without JWT there is one role for all.
IsSuperUser(sub) ==
  ExtractTenant(sub)[2] \in (IF PulsarJWTEnabled THEN SuperRoles ELSE {DummySuperRole})

-----------------------------------------------------------------------------
(* Routes.  A pattern is a sequence of sets of words; the empty set stands  *)
(* for a variable.  A route matches every path that its pattern begins, or  *)
(* only paths of its length if it is exact (Path instead of PathPrefix).    *)

Prefix(pattern, methods, auth, handler) ==
  [pattern |-> pattern, exact |-> FALSE, methods |-> methods, auth |-> auth, handler |-> handler]
Path(pattern, methods, auth, handler) ==
  [Prefix(pattern, methods, auth, handler) EXCEPT !.exact = TRUE]

GET == {"GET"}
POST == {"POST"}
PUT == {"PUT"}
DELETE == {"DELETE"}

\* Burnell's own endpoints; {tenant} is the last or the only variable.
OwnRoutes ==
  << Path(<<{"liveness", "metrics"}>>, GET, "NoAuth", "Own"),
     Path(<<{"subject"}, {}>>, GET, "SuperRoleRequired", "Own"),
     Path(<<{"tenantsusage"}>>, GET, "SuperRoleRequired", "Own"),
     Path(<<{"namespacesusage"}, {}>>, GET, "AuthVerifyTenantJWT", "Own"),
     Path(<<{"pulsarmetrics"}, {}>>, GET, "SuperRoleRequired", "Own"),
     Path(<<{"pulsarmetrics"}>>, GET, "AuthVerifyJWT", "Own"),
     Path(<<{"tenant"}, {}>>, GET, "AuthVerifyTenantJWT", "Own"),
     Path(<<{"tenant"}, {}>>, DELETE \cup POST, "SuperRoleRequired", "Own"),
     Path(<<{"stats-topics"}, {}>>, GET, "AuthVerifyTenantJWT", "Own"),
     Path(<<{"function-logs", "function-status"}, {}, {}, {}>>, GET, "AuthVerifyTenantJWT", "Own"),
     Path(<<{"function-logs"}, {}, {}, {}, {}>>, GET, "AuthVerifyTenantJWT", "Own"),
     Path(<<{"topics"}, {}>>, GET, "AuthVerifyTenantJWT", "Own") >>

\* The parts of the admin API that belong to the cluster.
ClusterRoutes ==
  << Prefix(<<{"bookies", "brokers"}>>, GET \cup POST \cup DELETE, "SuperRoleRequired", "Direct"),
     Prefix(<<{"broker-stats"}>>, GET, "SuperRoleRequired", "Own"),
     Prefix(<<{"clusters"}>>, GET \cup POST \cup PUT \cup DELETE, "SuperRoleRequired", "Direct") >>

\* What is below a namespace and only for super users.
RestrictedPolicyRoutes ==
  << Prefix(<<{"namespaces"}, {}, {}, {"maxConsumersPerSubscription", "maxConsumersPerTopic",
       "maxProducersPerTopic", "maxUnackedMessagesPerSubscription", "messageTTL",
       "offloadPolicies"}>>, POST, "SuperRoleRequired", "NamespacePolicy"),
     Prefix(<<{"namespaces"}, {}, {}, {"offloadDeletionLagMs"}>>,
       PUT \cup DELETE, "SuperRoleRequired", "NamespacePolicy"),
     Prefix(<<{"namespaces"}, {}, {}, {"offloadThreshold",
       "schemaAutoUpdateCompatibilityStrategy"}>>, PUT, "SuperRoleRequired", "NamespacePolicy"),
     Prefix(<<{"namespaces"}, {}, {}, {"schemaCompatibilityStrategy"}>>,
       PUT, "AuthVerifyTenantJWT", "NamespacePolicy"),
     Prefix(<<{"namespaces"}, {}, {}, {"schemaValidationEnforced"}>>,
       POST, "AuthVerifyTenantJWT", "NamespacePolicy"),
     Prefix(<<{"namespaces"}, {}, {}, {"deduplication"}>>, POST, "AuthVerifyTenantJWT", "Direct"),
     Prefix(<<{"namespaces"}, {}, {}, {"permissions"}, {}>>,
       POST \cup DELETE, "SuperRoleRequired", "Direct"),
     Prefix(<<{"namespaces"}, {}, {}, {"persistence", "replication", "replicatorDispatchRate",
       "retention", "subscribeRate", "subscriptionAuthMode", "subscriptionDispatchRate"}>>,
       POST, "SuperRoleRequired", "Direct"),
     Prefix(<<{"namespaces"}, {}, {}, {"unload"}>>, PUT, "SuperRoleRequired", "Direct") >>

\* Bundles.  The first of these routes takes every deletion below a namespace,
\* the ones for split, unload, clearBacklog and unsubscribe are never reached.
BundleRoutes ==
  << Prefix(<<{"namespaces"}, {}, {}, {}>>, DELETE, "SuperRoleRequired", "Direct"),
     Prefix(<<{"namespaces"}, {}, {}, {}, {"split", "unload", "clearBacklog"}>>,
       DELETE, "SuperRoleRequired", "Direct"),
     Prefix(<<{"namespaces"}, {}, {}, {}, {"unsubscribe"}, {}>>,
       DELETE, "SuperRoleRequired", "Direct") >>

\* What tenants may do with their namespaces.
NamespaceRoutes ==
  << Prefix(<<{"namespaces"}, {}, {}, {"autoSubscriptionCreation", "autoTopicCreation",
       "backlogQuota"}>>, DELETE \cup POST, "AuthVerifyTenantJWT", "Direct"),
     Prefix(<<{"namespaces"}, {}, {}, {"backlogQuotaMap"}>>, GET, "AuthVerifyTenantJWT", "Direct"),
     Prefix(<<{"namespaces"}, {}, {}, {"clearBacklog"}>>, POST, "AuthVerifyTenantJWT", "Direct"),
     Prefix(<<{"namespaces"}, {}, {}, {"antiAffinity"}>>,
       GET \cup POST \cup DELETE, "AuthVerifyTenantJWT", "Direct"),
     Prefix(<<{"namespaces"}, {}, {}, {"compactionThreshold"}>>,
       GET \cup PUT, "AuthVerifyTenantJWT", "Direct"),
     Prefix(<<{"namespaces"}, {}, {}, {"delayedDelivery"}>>,
       GET \cup POST, "AuthVerifyTenantJWT", "Direct"),
     Prefix(<<{"namespaces"}, {}, {}>>,
       GET \cup PUT \cup DELETE \cup POST, "AuthVerifyTenantJWT", "NamespaceLimitEnforce"),
     Prefix(<<{"namespaces"}, {}>>, GET \cup PUT \cup DELETE, "AuthVerifyTenantJWT", "Direct"),
     Prefix(<<{"namespaces"}>>, GET \cup POST \cup PUT \cup DELETE, "SuperRoleRequired", "Direct") >>

\* Topics, schemas, tenants.
TopicRoutes ==
  << Prefix(<<{"persistent", "non-persistent"}, {}, {}>>,
       GET \cup POST \cup PUT \cup DELETE, "AuthVerifyTenantJWT", "TopicProxy"),
     Prefix(<<{"resource-quotas"}>>, GET \cup POST \cup DELETE, "SuperRoleRequired", "Direct"),
     Prefix(<<{"schemas"}, {}>>, GET \cup POST \cup DELETE, "AuthVerifyTenantJWT", "Direct"),
     Prefix(<<{"tenants"}, {}>>, GET, "AuthVerifyTenantJWT", "Direct"),
     Prefix(<<{"tenants"}>>, GET, "AuthVerifyJWT", "RestrictedTenants"),
     Prefix(<<{"tenants"}>>, POST \cup PUT \cup DELETE, "SuperRoleRequired", "Direct") >>

\* Functions, sources and sinks.
FunctionRoutes ==
  << Prefix(<<{"functions"}, {}>>,
       GET \cup POST \cup PUT \cup DELETE, "AuthVerifyTenantJWT", "DirectFunction"),
     Prefix(<<{"sources", "sinks"}, {"builtin"}>>, GET, "AuthVerifyJWT", "DirectFunction"),
     Prefix(<<{"sources", "sinks"}, {"reloadBuiltIn"}>>, POST, "SuperRoleRequired", "DirectFunction"),
     Prefix(<<{"sources", "sinks"}, {}>>,
       GET \cup POST \cup PUT \cup DELETE, "AuthVerifyTenantJWT", "DirectFunction") >>

\* Mutant: what tenants may do is looked up first.
Routes_RelaxedFirst ==
  OwnRoutes \o ClusterRoutes \o NamespaceRoutes \o RestrictedPolicyRoutes \o BundleRoutes
    \o TopicRoutes \o FunctionRoutes

\* Order of routes definition matters.
Routes ==
  OwnRoutes \o ClusterRoutes \o RestrictedPolicyRoutes \o BundleRoutes \o NamespaceRoutes
    \o TopicRoutes \o FunctionRoutes

Matches(route, method, path) ==
  /\ method \in route.methods
  /\ IF route.exact THEN Len(path) = Len(route.pattern) ELSE Len(path) >= Len(route.pattern)
  /\ \A i \in 1..Len(route.pattern) : route.pattern[i] = {} \/ path[i] \in route.pattern[i]

HasRoute(method, path) == \E i \in 1..Len(Routes) : Matches(Routes[i], method, path)

\* The first route that matches.
RouteOf(method, path) ==
  Routes[CHOOSE i \in 1..Len(Routes) :
           /\ Matches(Routes[i], method, path)
           /\ \A j \in 1..(i - 1) : ~Matches(Routes[j], method, path)]

-----------------------------------------------------------------------------
(* Authentication *)

\* The header injectedSubs, as the handler finds it, of a request that comes with
\* one already: only the checks of a subject set it, NoAuth and the check of a
\* super role leave what the client sent.
InjectedSubs(route, sub, header) ==
  CASE route.auth # "NoAuth" /\ ~PulsarJWTEnabled -> DummySuperRole
    [] route.auth = "NoAuth" \/ (route.auth = "SuperRoleRequired" /\ PulsarJWTEnabled) -> header
    [] OTHER -> sub

\* Does the request of a subject get through to the handler?  NoSubject stands
\* for a token that is missing or not valid.
Authenticated(route, path, sub) ==
  \/ route.auth = "NoAuth" \/ ~PulsarJWTEnabled
  \/ route.auth = "AuthVerifyJWT" /\ sub # NoSubject
  \/ /\ route.auth = "AuthVerifyTenantJWT"
     /\ sub # NoSubject /\ VerifySubject(WordsOf[path[2]], sub)
  \/ route.auth = "SuperRoleRequired" /\ sub \in SuperRoles
==============================================================================
