----------------------------- MODULE AdminProxy -----------------------------
(***************************************************************************)
(* Requests to the proxy of Pulsar's admin API: the route and the          *)
(* authentication of Routes, the handlers that hold tenants to their plan  *)
(* (limitEnforceProxyHandler, NamespacePolicyProxyHandler and              *)
(* DirectFunctionProxyHandler in src/src/route/handlers.go, with the       *)
(* queries of the plan in src/src/policy/pulsardb.go), and the forwarding  *)
(* to Pulsar, many requests at once.                                       *)
(*                                                                         *)
(* Data abstraction.  A plan is its type; the two limits are functions of  *)
(* it.  Of Pulsar's state the namespaces are kept, of the function map the *)
(* number of functions it counts.  How plans get into the cache is the     *)
(* subject of TenantDb; here the listener stores and evicts any.           *)
(***************************************************************************)
EXTENDS Routes, Integers, FiniteSets

CONSTANTS Handlers,        \* requests under way at the same time
          Tenants,         \* those whose plans and functions are followed
          Requests,        \* <<method, path>>
          Subjects,        \* of the tokens of requests
          Plans, FreeTier, StarterTier,
          NumOfNamespaces, \* NumOfNamespaces[p], of the policy of the plan p
          Functions,       \* Functions[p]
          MaxCounted       \* bound: functions counted per tenant

ASSUME AdminAssumption ==
  /\ FreeTier \in Plans /\ StarterTier \in Plans /\ IsFiniteSet(Plans)
  /\ IsFiniteSet(Handlers) /\ Handlers # {}
  /\ NumOfNamespaces \in [Plans -> Int] /\ Functions \in [Plans -> Int]
  /\ \A r \in Requests : r = <<r[1], r[2]>> /\ r[2] \in Seq(STRING)
  /\ \A r \in Requests : Len(r[2]) >= 3 /\ r[2][1] = "namespaces" => r[2][2] \in Tenants
  /\ \A r \in Requests : HasRoute(r[1], r[2]) /\ RouteOf(r[1], r[2]).auth = "AuthVerifyTenantJWT" =>
       r[2][2] \in DOMAIN WordsOf
  /\ Subjects \subseteq Seq(STRING) /\ NoSubject \in Subjects
  /\ \A t \in DOMAIN WordsOf : WordsOf[t] \in Seq(STRING) \ {<<>>}
  /\ Tenants \subseteq DOMAIN WordsOf /\ MaxCounted \in Nat

NoPlan == "no plan"
ASSUME NoPlanAssumption == NoPlan \notin Plans

VARIABLES namespaces, \* in Pulsar: <<tenant, namespace>>
          bySuper,    \* those of them a super user has created
          plan,       \* plan[t]: the cache of the tenant database
          counted,    \* counted[t]: logclient.TenantFunctionCount(t)
          req         \* req[h]: the request of h

vars == <<namespaces, bySuper, plan, counted, req>>

Idle == [stage |-> "idle"]
\* A request, the limit read for it, and the status of an answer that Burnell
\* gives without asking Pulsar.
Request(stage, r, sub, limit, status) ==
  [stage |-> stage, method |-> r[1], path |-> r[2], sub |-> sub, limit |-> limit, status |-> status]

Names == {<<r[2][2], r[2][3]>> : r \in {q \in Requests : Len(q[2]) >= 3}}
Limits == {NumOfNamespaces[p] : p \in Plans}
InProgress ==
  [stage : {"planning", "evaluating", "granted", "answered"}, method : {r[1] : r \in Requests},
   path : {r[2] : r \in Requests}, sub : Subjects, limit : Limits \cup {0},
   status : {0, 200, 401, 402, 404, 500}]

TypeOK ==
  /\ namespaces \subseteq Names /\ bySuper \subseteq namespaces
  /\ plan \in [Tenants -> Plans \cup {NoPlan}]
  /\ counted \in [Tenants -> 0..MaxCounted]
  /\ req \in [Handlers -> {Idle} \cup InProgress]
  /\ \A h \in Handlers :
       /\ req[h] # Idle => <<req[h].method, req[h].path>> \in Requests
       /\ req[h].stage = "evaluating" => req[h].limit \in Limits

Init ==
  /\ namespaces = {} /\ bySuper = {}
  /\ plan = [t \in Tenants |-> NoPlan] /\ counted = [t \in Tenants |-> 0]
  /\ req = [h \in Handlers |-> Idle]

-----------------------------------------------------------------------------
(* The handlers *)

Grant(h, r, sub) == req' = [req EXCEPT ![h] = Request("granted", r, sub, 0, 0)]
Answer(h, r, sub, status) == req' = [req EXCEPT ![h] = Request("answered", r, sub, 0, status)]

\* GetFunctionsLimit
FunctionsLimit(t) == Functions[IF plan[t] = NoPlan THEN FreeTier ELSE plan[t]]

IsFreeStarterPlan(t) == plan[t] \in {NoPlan, FreeTier, StarterTier}

\* Mutant: reads are evaluated against the limit, too.
NamespaceLimitEnforce_Reads(h, r, sub, subs) ==
  CASE subs = NoSubject  -> Answer(h, r, sub, 401)
    [] subs # NoSubject /\ IsSuperUser(subs) -> Grant(h, r, sub)
    [] OTHER -> LET p == plan[r[2][2]] IN
         IF p = NoPlan THEN req' = [req EXCEPT ![h] = Request("planning", r, sub, 0, 0)]
         ELSE req' = [req EXCEPT ![h] = Request("evaluating", r, sub, NumOfNamespaces[p], 0)]

\* limitEnforceProxyHandler with EvaluateNamespaceLimit, until it knows the plan.
NamespaceLimitEnforce(h, r, sub, subs) ==
  CASE r[1] = "GET"      -> Grant(h, r, sub)
    [] r[1] # "GET" /\ subs = NoSubject -> Answer(h, r, sub, 401)
    [] r[1] # "GET" /\ subs # NoSubject /\ IsSuperUser(subs) -> Grant(h, r, sub)
    [] OTHER -> LET p == plan[r[2][2]] IN
         IF p = NoPlan THEN req' = [req EXCEPT ![h] = Request("planning", r, sub, 0, 0)]
         ELSE req' = [req EXCEPT ![h] = Request("evaluating", r, sub, NumOfNamespaces[p], 0)]

\* limitEnforceProxyHandler with EvaluateAlwaysSuccessful.
TopicProxy(h, r, sub, subs) ==
  IF r[1] # "GET" /\ subs = NoSubject THEN Answer(h, r, sub, 401) ELSE Grant(h, r, sub)

\* A plan that is neither free nor starter is answered 200 without forwarding.
NamespacePolicyProxy(h, r, sub) ==
  IF IsFreeStarterPlan(r[2][2]) THEN Grant(h, r, sub) ELSE Answer(h, r, sub, 200)

\* A route without {tenant} has no limit.
OverFunctionsLimit(r, subs) ==
  /\ Len(r[2]) >= 2 /\ r[2][2] \in Tenants
  /\ counted[r[2][2]] >= FunctionsLimit(r[2][2])
  /\ ~IsSuperUser(subs)

DirectFunctionProxy(h, r, sub, subs) ==
  CASE r[1] \in {"GET", "DELETE"} -> Grant(h, r, sub)
    [] r[1] \notin {"GET", "DELETE"} /\ subs = NoSubject -> Answer(h, r, sub, 401)
    [] r[1] \notin {"GET", "DELETE"} /\ subs # NoSubject /\ OverFunctionsLimit(r, subs) ->
         Answer(h, r, sub, 402)
    [] OTHER -> Grant(h, r, sub)

\* RestrictedTenantsProxyHandler: Pulsar is asked for its list first and may fail
\* (500).  200 is the whole list for a super user; for anybody else it is one name,
\* the first of the list that the subject, as a string, begins with, which need
\* not be the tenant of the subject, and 404 if there is none.
RestrictedTenants(h, r, sub, subs) ==
  LET statuses == IF subs = NoSubject THEN {401, 500}
                  ELSE IF ExtractTenant(subs)[2] \in SuperRoles THEN {200, 500}
                  ELSE {200, 404, 500}
  IN \E status \in statuses : Answer(h, r, sub, status)

\* The route of each request that has one.
RouteTable == [r \in {q \in Requests : HasRoute(q[1], q[2])} |-> RouteOf(r[1], r[2])]

\* A request arrives, with a token and a header of the client's, finds its route,
\* is authenticated and handled.
Arrive(h, r, sub, header) ==
  /\ req[h] = Idle
  /\ IF r \notin DOMAIN RouteTable THEN Answer(h, r, sub, 404)
     ELSE LET route == RouteTable[r]
              subs  == InjectedSubs(route, sub, header)
          IN IF ~Authenticated(route, r[2], sub) THEN Answer(h, r, sub, 401)
             ELSE CASE route.handler = "NamespaceLimitEnforce" -> NamespaceLimitEnforce(h, r, sub, subs)
                    [] route.handler = "TopicProxy" -> TopicProxy(h, r, sub, subs)
                    [] route.handler = "NamespacePolicy" -> NamespacePolicyProxy(h, r, sub)
                    [] route.handler = "RestrictedTenants" -> RestrictedTenants(h, r, sub, subs)
                    [] route.handler = "DirectFunction" -> DirectFunctionProxy(h, r, sub, subs)
                    [] OTHER -> Grant(h, r, sub)
  /\ UNCHANGED <<namespaces, bySuper, plan, counted>>

\* GetOrCreateTenant: the tenant was not in the cache and gets the free plan.
CreateFreePlan(h) ==
  /\ req[h].stage = "planning"
  /\ plan' = [plan EXCEPT ![req[h].path[2]] = FreeTier]
  /\ req' = [req EXCEPT ![h].stage = "evaluating", ![h].limit = NumOfNamespaces[FreeTier]]
  /\ UNCHANGED <<namespaces, bySuper, counted>>

NamespacesOf(t) == {n \in namespaces : n[1] = t}

\* Mutant: the namespace that is to be added is not counted.
WithinLimit_NotAdded(h) == req[h].limit >= Cardinality(NamespacesOf(req[h].path[2]))

WithinLimit(h) == req[h].limit >= Cardinality(NamespacesOf(req[h].path[2])) + 1

\* EvaluateNamespaceLimit asks Pulsar for the namespaces, which may fail, and the
\* handler goes on with its verdict.
Evaluate(h) ==
  /\ req[h].stage = "evaluating"
  /\ LET r == <<req[h].method, req[h].path>> IN
       \/ WithinLimit(h) /\ Grant(h, r, req[h].sub)
       \/ ~WithinLimit(h) /\ Answer(h, r, req[h].sub, 402)
       \/ Answer(h, r, req[h].sub, 401)
  /\ UNCHANGED <<namespaces, bySuper, plan, counted>>

\* httpProxy: Pulsar carries the request out, with Burnell's own token, or
\* refuses it; its answer, or the lack of one, ends the request.
Forward(h) ==
  /\ req[h].stage = "granted"
  /\ req' = [req EXCEPT ![h] = Idle]
  /\ LET path == req[h].path
         name == <<path[2], path[3]>>
         onNamespace == Len(path) = 3 /\ path[1] = "namespaces"
     IN \/ /\ onNamespace /\ req[h].method = "PUT" /\ name \notin namespaces
           /\ namespaces' = namespaces \cup {name}
           /\ bySuper' = IF req[h].sub \in SuperRoles THEN bySuper \cup {name} ELSE bySuper
        \/ /\ onNamespace /\ req[h].method = "DELETE"
           /\ namespaces' = namespaces \ {name} /\ bySuper' = bySuper \ {name}
        \/ UNCHANGED <<namespaces, bySuper>>
  /\ UNCHANGED <<plan, counted>>

Finish(h) ==
  /\ req[h].stage = "answered"
  /\ req' = [req EXCEPT ![h] = Idle]
  /\ UNCHANGED <<namespaces, bySuper, plan, counted>>

-----------------------------------------------------------------------------
(* What happens meanwhile *)

\* Tenant management or the listener of the tenant database.
ChangePlan(t) ==
  /\ \E p \in Plans \cup {NoPlan} : plan' = [plan EXCEPT ![t] = p]
  /\ UNCHANGED <<namespaces, bySuper, counted, req>>

\* The function map learns of another function of the tenant.
CountFunction(t) ==
  /\ counted[t] < MaxCounted
  /\ counted' = [counted EXCEPT ![t] = @ + 1]
  /\ UNCHANGED <<namespaces, bySuper, plan, req>>

HandlerNext(h) ==
  \/ \E r \in Requests, sub, header \in Subjects : Arrive(h, r, sub, header)
  \/ CreateFreePlan(h) \/ Evaluate(h) \/ Forward(h) \/ Finish(h)

Next ==
  \/ \E h \in Handlers : HandlerNext(h)
  \/ \E t \in Tenants : ChangePlan(t) \/ CountFunction(t)

Spec == Init /\ [][Next]_vars

-----------------------------------------------------------------------------
(* Properties *)

\* Requests of tenants to create a namespace of t that are past the check.
Creating(t) ==
  {h \in Handlers : /\ req[h].stage = "granted" /\ req[h].method = "PUT"
                    /\ Len(req[h].path) = 3 /\ req[h].path[1] = "namespaces"
                    /\ req[h].path[2] = t /\ req[h].sub \notin SuperRoles}

\* The namespaces a tenant may have under the best plan.
TopLimit == CHOOSE l \in Limits \cup {0} : \A m \in Limits \cup {0} : m <= l

\* With authentication a token is a super user's only if it has a super role: no
\* tenant is named like one, which the handlers would take for the role itself.
LimitsApply == PulsarJWTEnabled /\ \A sub \in Subjects : IsSuperUser(sub) => sub \in SuperRoles

\* The check and the creation are two steps, so requests may pass the check
\* together: a tenant gets over its limit that way, by at most one namespace
\* for every other request under way.
NamespacesBounded ==
  \A t \in Tenants :
    Cardinality(NamespacesOf(t) \ bySuper) + Cardinality(Creating(t))
      <= TopLimit + Cardinality(Handlers) - 1

\* The reference: what belongs to a tenant, to whom, and what is left to
\* operators ("from more restricted to relaxed", router.go).
TenantResources == {"namespacesusage", "tenant", "stats-topics", "function-logs",
  "function-status", "topics", "namespaces", "persistent", "non-persistent",
  "schemas", "tenants", "functions", "sources", "sinks"}
BelongsTo(sub, t) ==
  \/ sub = WordsOf[t] /\ Len(sub) = 1
  \/ \E n \in 1..2 : /\ Len(sub) = Len(WordsOf[t]) + n
                     /\ SubSeq(sub, 1, Len(WordsOf[t])) = WordsOf[t]
                     /\ n = 2 => sub[Len(sub) - 1] \in {"client", "admin"}
OperatorPolicies == {"maxConsumersPerTopic", "messageTTL", "persistence", "replication",
  "retention", "subscribeRate"}
\* Tenants are changed by operators, and so are these policies of a namespace,
\* with the methods that Pulsar has for them.  A tenant may look at himself, by the
\* routes' authentication; src/README.md:126 asks for a super role for that, too.
OperatorOnly(method, path) ==
  \/ path[1] \in {"tenant", "tenants"} /\ method # "GET"
  \/ /\ path[1] = "namespaces" /\ Len(path) >= 4
     /\ \/ method = "DELETE"
        \/ method = "PUT" /\ path[4] \in {"offloadThreshold", "unload"}
        \/ method = "POST" /\ path[4] \in OperatorPolicies
        \/ method = "POST" /\ path[4] = "permissions" /\ Len(path) >= 5
OpenToAll(path) ==
  \/ Len(path) = 1 /\ path[1] \in {"pulsarmetrics", "tenants"}
  \/ Len(path) >= 2 /\ path[1] \in {"sources", "sinks"} /\ path[2] = "builtin"
Permitted(method, path, sub) ==
  \/ ~PulsarJWTEnabled \/ sub \in SuperRoles \/ path[1] \in {"liveness", "metrics"}
  \/ sub # NoSubject /\ method = "GET" /\ OpenToAll(path)
  \/ /\ sub # NoSubject /\ path[1] \in TenantResources /\ Len(path) >= 2
     /\ path[2] \in DOMAIN WordsOf /\ BelongsTo(sub, path[2]) /\ ~OperatorOnly(method, path)

\* Whatever gets to Pulsar, or is answered with success by Burnell, is permitted to
\* the subject of the token, whatever header the client sends along: no route
\* further down the table opens what one above it closes.
OnlyPermitted ==
  \A h \in Handlers :
    (\/ req[h].stage \in {"planning", "evaluating", "granted"}
     \/ req[h].stage = "answered" /\ req[h].status = 200)
    => Permitted(req[h].method, req[h].path, req[h].sub)

\* Nobody is refused to read what is his, however many namespaces or functions
\* the tenant has: limits apply to changes only, and no route above closes what
\* one further down the table opens to him.
ReadsServed ==
  \A h \in Handlers :
    /\ req[h].stage \in {"planning", "evaluating"} => req[h].method # "GET"
    /\ req[h].stage = "answered" /\ req[h].method = "GET" /\ req[h].status \in {401, 402} =>
         ~Permitted("GET", req[h].path, req[h].sub)
==============================================================================
