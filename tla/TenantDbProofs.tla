--------------------------- MODULE TenantDbProofs ---------------------------
(***************************************************************************)
(* Proofs about TenantDb, for every set of processes, handlers, tenants    *)
(* and requests, and every bound.                                          *)
(***************************************************************************)
EXTENDS TenantDb, TLAPS, SequenceTheorems

\* The zero value, the free plan and the tier policies are documents of the
\* expected shape (policy.go).
LEMMA PlanConstants ==
  /\ emptyPlan \in TenantPlans
  /\ \A t \in Tenants : newFreeTenantPlan(t) \in TenantPlans
  /\ \A p \in Tiers : getPlanPolicy(p) \in PlanPolicy
  /\ Activated \in TenantStatus /\ Deleted \in TenantStatus
  /\ <<InitialAudit>> \in Audits
<1>1. emptyPolicy \in PlanPolicy
  BY DEF emptyPolicy, PlanPolicy
<1>2. \A p \in Tiers : getPlanPolicy(p) \in PlanPolicy
  BY DEF Tiers, getPlanPolicy, TenantPlanPolicies, PlanPolicy, FreeTier, StarterTier,
         ProductionTier, DedicatedTier, PrivateTier
<1>3. emptyPlan \in TenantPlans
  <2>1. <<>> \in Audits
    BY DEF Audits
  <2>3. Reserved0 \in TenantStatus
    BY DEF TenantStatus, Reserved0, Deleted
  <2> QED
    BY <1>1, <2>1, <2>3 DEF emptyPlan, TenantPlans
<1>4. \A t \in Tenants : newFreeTenantPlan(t) \in TenantPlans
  <2>1. TenantPlanPolicies.free \in PlanPolicy
    BY DEF TenantPlanPolicies, PlanPolicy
  <2>2. <<FreeAudit>> \in Audits
    BY DEF Audits
  <2>3. FreeTier \in Tiers
    BY DEF Tiers
  <2>4. Activated \in TenantStatus
    BY DEF TenantStatus, Activated, Reserved0, Deleted
  <2> QED
    BY <2>1, <2>2, <2>3, <2>4 DEF newFreeTenantPlan, TenantPlans
<1>5. Activated \in TenantStatus /\ Deleted \in TenantStatus
  BY DEF TenantStatus, Activated, Reserved0, Deleted
<1>6. <<InitialAudit>> \in Audits
  BY DEF Audits
<1> QED
  BY <1>2, <1>3, <1>4, <1>5, <1>6

\* ReconcileTenantPlan returns a document for the tenant of the request.
LEMMA ReconcileType ==
  ASSUME NEW req \in TenantPlans, NEW old \in TenantPlans, Reconcilable(req)
  PROVE  /\ ReconcileTenantPlan(req, old) \in TenantPlans
         /\ ReconcileTenantPlan(req, old).name = req.name
         /\ ReconcileTenantPlan(req, old).planType = req.planType
         /\ ReconcileTenantPlan(req, old).tenantStatus =
              takeTenantStatus(req.tenantStatus,
                               IF old = emptyPlan THEN Activated ELSE old.tenantStatus)
<1>1. InitialPlan(req) \in TenantPlans /\ InitialPlan(req).name = req.name
      /\ InitialPlan(req).planType = req.planType
      /\ InitialPlan(req).tenantStatus = takeTenantStatus(req.tenantStatus, Activated)
  <2> DEFINE a == IF req.audit = <<"">> THEN <<InitialAudit>> ELSE req.audit
             p == IF req.policy = emptyPolicy THEN getPlanPolicy(ToLower(req.planType))
                  ELSE req.policy
             s == takeTenantStatus(req.tenantStatus, Activated)
  <2>1. a \in Audits
    BY PlanConstants DEF TenantPlans
  <2>2. p \in PlanPolicy
    BY PlanConstants DEF TenantPlans, Reconcilable, HasPlanPolicy
  <2>3. s \in TenantStatus
    BY PlanConstants DEF TenantPlans, takeTenantStatus
  <2>4. InitialPlan(req) = [req EXCEPT !.audit = a, !.policy = p, !.tenantStatus = s]
    BY DEF InitialPlan
  <2> HIDE DEF a, p
  <2> QED
    BY <2>1, <2>2, <2>3, <2>4 DEF TenantPlans
<1>2. MergedPlan(req, old) \in TenantPlans /\ MergedPlan(req, old).name = req.name
      /\ MergedPlan(req, old).planType = req.planType
      /\ MergedPlan(req, old).tenantStatus = takeTenantStatus(req.tenantStatus, old.tenantStatus)
  <2> DEFINE a == old.audit \o req.audit
             p == [numOfNamespaces |-> takeNonZero(req.policy.numOfNamespaces,
                                                   old.policy.numOfNamespaces),
                   functions |-> takeNonZero(req.policy.functions, old.policy.functions)]
             s == takeTenantStatus(req.tenantStatus, old.tenantStatus)
  <2>1. a \in Audits
    BY ConcatProperties DEF TenantPlans, Audits
  <2>2. p \in PlanPolicy
    BY DEF TenantPlans, PlanPolicy, takeNonZero
  <2>3. s \in TenantStatus
    BY DEF TenantPlans, takeTenantStatus
  <2>4. MergedPlan(req, old) = [req EXCEPT !.policy = p, !.tenantStatus = s, !.audit = a]
    BY DEF MergedPlan
  <2> HIDE DEF a, p
  <2> QED
    BY <2>1, <2>2, <2>3, <2>4 DEF TenantPlans
<1> QED
  BY <1>1, <1>2 DEF ReconcileTenantPlan

\* The plan UpdateTenant writes is a document for tenant t.
LEMMA UpdatePlanType ==
  ASSUME NEW request \in Requests, NEW t \in Tenants, NEW old \in TenantPlans,
         Reconcilable(request)
  PROVE  LET new == ReconcileTenantPlan([request EXCEPT !.name = t], old)
         IN  /\ new \in TenantPlans
             /\ new.name = t
             /\ new.planType = request.planType
             /\ new.tenantStatus =
                  takeTenantStatus(request.tenantStatus,
                                   IF old = emptyPlan THEN Activated ELSE old.tenantStatus)
<1> DEFINE req == [request EXCEPT !.name = t]
<1>1. req \in TenantPlans /\ req.name = t /\ req.planType = request.planType
      /\ req.tenantStatus = request.tenantStatus
  BY RequestsAssumption, TenantsAssumption DEF TenantPlans
<1>2. Reconcilable(req)
  BY <1>1 DEF Reconcilable
<1> HIDE DEF req
<1>3. /\ ReconcileTenantPlan(req, old) \in TenantPlans
      /\ ReconcileTenantPlan(req, old).name = t
      /\ ReconcileTenantPlan(req, old).planType = request.planType
      /\ ReconcileTenantPlan(req, old).tenantStatus =
           takeTenantStatus(request.tenantStatus,
                            IF old = emptyPlan THEN Activated ELSE old.tenantStatus)
  BY <1>1, <1>2, ReconcileType
<1> QED
  BY <1>3 DEF req

\* DeleteTenant changes nothing but the status.
LEMMA DeletedPlanType ==
  ASSUME NEW p \in TenantPlans
  PROVE  LET d == [p EXCEPT !.tenantStatus = Deleted]
         IN  d \in TenantPlans /\ d.name = p.name /\ d.planType = p.planType
             /\ d.tenantStatus = Deleted
BY PlanConstants DEF TenantPlans

-----------------------------------------------------------------------------
\* Type correctness of one step, one case per action of the code.
LEMMA TypeStep == TypeOK /\ [Next]_vars => TypeOK'
<1> SUFFICES ASSUME TypeOK, [Next]_vars PROVE TypeOK'
  OBVIOUS
<1> USE DEF TypeOK
<1>1. ASSUME NEW n \in Nodes, ListenerNext(n) PROVE TypeOK'
  <2>1. CASE OpenReader(n)
    BY <2>1 DEF OpenReader, handlerVars
  <2>2. CASE ReaderError(n)
    BY <2>2 DEF ReaderError, handlerVars
  <2>3. CASE Watchdog(n)
    BY <2>3 DEF Watchdog, handlerVars
  <2>4. CASE ReadRecord(n)
    <3>1. topic[pos[n] + 1] \in TenantPlans
      BY <2>4 DEF ReadRecord
    <3>2. Applied(cache[n], topic[pos[n] + 1]) \in [Tenants -> TenantPlans]
      BY <3>1, PlanConstants DEF Applied, Row
    <3> QED
      BY <2>4, <3>2 DEF ReadRecord, handlerVars
  <2> QED
    BY <1>1, <2>1, <2>2, <2>3, <2>4 DEF ListenerNext
<1>2. ASSUME NEW h \in Handlers, HandlerStart(h) PROVE TypeOK'
  <2>0. Home[h] \in Nodes
    BY HomeAssumption
  <2>1. ASSUME NEW t \in Tenants, GetOrCreateTenant(h, t) PROVE TypeOK'
    BY <2>1, PlanConstants DEF GetOrCreateTenant, Start, listenerVars
  <2>2. ASSUME NEW t \in Tenants, NEW request \in Requests, UpdateTenant(h, t, request)
        PROVE  TypeOK'
    <3>1. ReconcileTenantPlan([request EXCEPT !.name = t], cache[Home[h]][t]) \in TenantPlans
      BY SMTT(40), <2>0, <2>2, UpdatePlanType DEF UpdateTenant
    <3> QED
      BY <2>2, <3>1 DEF UpdateTenant, Start, listenerVars
  <2>3. ASSUME NEW t \in Tenants, DeleteTenant(h, t) PROVE TypeOK'
    <3>1. [cache[Home[h]][t] EXCEPT !.tenantStatus = Deleted] \in TenantPlans
      BY <2>0, DeletedPlanType
    <3> QED
      BY <2>3, <3>1 DEF DeleteTenant, Start, listenerVars
  <2> QED
    BY <1>2, <2>1, <2>2, <2>3 DEF HandlerStart
<1>3. ASSUME NEW h \in Handlers, HandlerContinue(h) PROVE TypeOK'
  <2>0. Home[h] \in Nodes /\ emptyPlan \in TenantPlans
    BY HomeAssumption, PlanConstants
  <2>1. CASE CreateFreePlan(h)
    BY <2>0, <2>1 DEF CreateFreePlan, Put, Return, Start, listenerVars
  <2>2. CASE Send(h)
    BY <2>2 DEF Send, listenerVars
  <2>3. CASE SendFails(h)
    BY <2>0, <2>3 DEF SendFails, Return, Start, listenerVars
  <2>4. CASE SendTimesOut(h)
    BY <2>0, <2>4 DEF SendTimesOut, Return, Start, listenerVars
  <2>5. CASE StorePlan(h)
    BY <2>0, <2>5 DEF StorePlan, Put, Return, Start, listenerVars
  <2>6. CASE EvictPlan(h)
    BY <2>0, <2>6 DEF EvictPlan, Put, Return, Start, listenerVars
  <2> QED
    BY <1>3, <2>1, <2>2, <2>3, <2>4, <2>5, <2>6 DEF HandlerContinue
<1>4. CASE ForeignRecord
  BY <1>4, PlanConstants DEF ForeignRecord, listenerVars, handlerVars
<1>5. ASSUME NEW n \in Nodes, Crash(n) PROVE TypeOK'
  BY <1>5, PlanConstants DEF Crash, NoTenants
<1>6. CASE UNCHANGED vars
  BY <1>6 DEF vars
<1> QED
  BY <1>1, <1>2, <1>3, <1>4, <1>5, <1>6 DEF Next

LEMMA TypeInit == Init => TypeOK
BY PlanConstants DEF Init, TypeOK, NoTenants

\* The variables of the tenant database keep their types: every cached value,
\* every record and every local plan is a tenant document.
THEOREM TypeCorrect == Spec => []TypeOK
BY TypeInit, TypeStep, PTL DEF Spec

-----------------------------------------------------------------------------
(* Provenance of the cache.  CacheFromTable alone is not inductive: it has *)
(* to be known that the plan a handler is about to store was sent.         *)

InTable(p) == \E i \in 1..Len(topic) : topic[i] = p

HandlersFromTable ==
  \A h \in Handlers :
    /\ pc[h] # "idle" => plan[h].name \in Tenants
    /\ pc[h] = "create" => plan[h] = newFreeTenantPlan(plan[h].name)
    /\ pc[h] \in {"store", "evict"} => InTable(plan[h])

ProvenanceInv == TypeOK /\ CacheFromTable /\ HandlersFromTable

\* A record stays in the table, and an appended one is in it.
LEMMA AppendInTable ==
  ASSUME TypeOK, NEW p \in TenantPlans, topic' = Append(topic, p)
  PROVE  \A q : (q = p \/ InTable(q)) => InTable(q)'
<1>1. topic \in Seq(TenantPlans) /\ Len(topic) \in Nat
  BY DEF TypeOK
<1>2. Len(topic') = Len(topic) + 1
  BY <1>1
<1>3. topic'[Len(topic')] = p
  BY <1>1, <1>2
<1>4. \A i \in 1..Len(topic) : i \in 1..Len(topic') /\ topic'[i] = topic[i]
  BY <1>1, <1>2
<1>5. Len(topic') \in 1..Len(topic')
  BY <1>1, <1>2
<1> QED
  BY <1>3, <1>4, <1>5 DEF InTable

\* One step keeps the provenance of cached plans.
LEMMA ProvenanceStep == ProvenanceInv /\ [Next]_vars => ProvenanceInv'
<1> SUFFICES ASSUME ProvenanceInv, [Next]_vars PROVE ProvenanceInv'
  OBVIOUS
<1>0. TypeOK'
  BY TypeStep DEF ProvenanceInv
<1> DEFINE From(c, t) == \/ c \in {emptyPlan, newFreeTenantPlan(t)}
                         \/ c.name = t /\ InTable(c)
<1>a. \A n \in Nodes, t \in Tenants : From(cache[n][t], t)
  BY DEF ProvenanceInv, CacheFromTable, InTable
<1>b. ASSUME \A n \in Nodes, t \in Tenants : From(cache[n][t], t)'
      PROVE  CacheFromTable'
  BY <1>b DEF CacheFromTable, InTable
<1> USE DEF ProvenanceInv
<1>1. ASSUME NEW n \in Nodes, ListenerNext(n) PROVE CacheFromTable' /\ HandlersFromTable'
  <2>1. CASE OpenReader(n) \/ ReaderError(n) \/ Watchdog(n)
    BY <2>1 DEF OpenReader, ReaderError, Watchdog, handlerVars, CacheFromTable,
                HandlersFromTable, InTable
  <2>2. CASE ReadRecord(n)
    <3>1. UNCHANGED <<topic, pc, op, plan>>
      BY <2>2 DEF ReadRecord, handlerVars
    <3>2. HandlersFromTable'
      BY <3>1 DEF HandlersFromTable, InTable
    <3>3. ASSUME NEW m \in Nodes, NEW t \in Tenants PROVE From(cache[m][t], t)'
      <4> DEFINE r == topic[pos[n] + 1]
      <4>1. r \in TenantPlans /\ InTable(r)
        <5>1. pos[n] + 1 \in 1..Len(topic) /\ topic \in Seq(TenantPlans)
          BY <2>2 DEF ReadRecord, TypeOK
        <5> QED
          BY <5>1 DEF InTable
      <4>2. cache'[m][t] = cache[m][t] \/ (r.name = t /\ cache'[m][t] = Row(r))
        BY <2>2 DEF ReadRecord, Applied, TypeOK
      <4>3. CASE cache'[m][t] = cache[m][t]
        BY <4>3, <3>1, <1>a DEF InTable
      <4>4. CASE r.name = t /\ cache'[m][t] = Row(r)
        BY <4>4, <4>1, <3>1 DEF InTable, Row
      <4> QED
        BY <4>2, <4>3, <4>4
    <3> QED
      BY <1>b, <3>2, <3>3
  <2> QED
    BY <1>1, <2>1, <2>2 DEF ListenerNext
<1>2. ASSUME NEW h \in Handlers, HandlerStart(h) PROVE CacheFromTable' /\ HandlersFromTable'
  <2>0. Home[h] \in Nodes
    BY HomeAssumption
  <2>1. UNCHANGED <<topic, cache>>
    BY <1>2 DEF HandlerStart, GetOrCreateTenant, UpdateTenant, DeleteTenant
  <2>2. CacheFromTable'
    BY <2>1 DEF CacheFromTable
  <2>3. ASSUME NEW t \in Tenants, GetOrCreateTenant(h, t) PROVE HandlersFromTable'
    BY <2>1, <2>3 DEF GetOrCreateTenant, Start, HandlersFromTable, InTable, TypeOK,
                      newFreeTenantPlan
  <2>4. ASSUME NEW t \in Tenants, NEW p, p.name = t, NEW o, Start(h, o, "produce", p)
        PROVE  HandlersFromTable'
    BY <2>1, <2>4 DEF Start, HandlersFromTable, InTable, TypeOK
  <2>5. ASSUME NEW t \in Tenants, NEW request \in Requests, UpdateTenant(h, t, request)
        PROVE  HandlersFromTable'
    <3>1. ReconcileTenantPlan([request EXCEPT !.name = t], cache[Home[h]][t]).name = t
      <4>1. cache[Home[h]][t] \in TenantPlans
        BY <2>0 DEF TypeOK
      <4>2. Reconcilable(request)
        BY <2>5 DEF UpdateTenant
      <4> QED
        BY <4>1, <4>2, UpdatePlanType
    <3> QED
      BY <2>4, <2>5, <3>1 DEF UpdateTenant
  <2>6. ASSUME NEW t \in Tenants, DeleteTenant(h, t) PROVE HandlersFromTable'
    <3>1. cache[Home[h]][t] \in TenantPlans /\ cache[Home[h]][t].name = t
      BY <2>0, <2>6, <1>a DEF DeleteTenant, TypeOK, newFreeTenantPlan
    <3>2. [cache[Home[h]][t] EXCEPT !.tenantStatus = Deleted].name = t
      BY <3>1, DeletedPlanType
    <3> QED
      BY <2>4, <2>6, <3>2 DEF DeleteTenant
  <2> QED
    BY <1>2, <2>2, <2>3, <2>5, <2>6 DEF HandlerStart
<1>3. ASSUME NEW h \in Handlers, HandlerContinue(h) PROVE CacheFromTable' /\ HandlersFromTable'
  <2>0. Home[h] \in Nodes /\ plan[h] \in TenantPlans
    BY HomeAssumption DEF TypeOK
  <2>1. CASE CreateFreePlan(h) \/ EvictPlan(h) \/ StorePlan(h)
    <3>1. topic' = topic
      BY <2>1 DEF CreateFreePlan, EvictPlan, StorePlan
    <3>2. HandlersFromTable'
      BY SMTT(40), <2>1, <3>1 DEF CreateFreePlan, EvictPlan, StorePlan, Return, Start, HandlersFromTable,
                        InTable, TypeOK
    <3>3. ASSUME NEW m \in Nodes, NEW t \in Tenants PROVE From(cache[m][t], t)'
      <4>1. \/ cache'[m][t] \in {cache[m][t], emptyPlan}
            \/ /\ t = plan[h].name
               /\ cache'[m][t] = plan[h]
               /\ pc[h] \in {"create", "store"}
        BY SMTT(40), <2>0, <2>1 DEF CreateFreePlan, EvictPlan, StorePlan, Put, TypeOK
      <4>2. CASE cache'[m][t] \in {cache[m][t], emptyPlan}
        BY <4>2, <3>1, <1>a DEF InTable
      <4>3. CASE t = plan[h].name /\ cache'[m][t] = plan[h] /\ pc[h] \in {"create", "store"}
        BY <4>3, <3>1 DEF InTable, HandlersFromTable
      <4> QED
        BY <4>1, <4>2, <4>3
    <3> QED
      BY <1>b, <3>2, <3>3
  <2>2. CASE SendFails(h)
    BY <2>2 DEF SendFails, Return, Start, CacheFromTable, HandlersFromTable, InTable, TypeOK
  <2>3. CASE Send(h) \/ SendTimesOut(h)
    <3>1. \A q : (q = plan[h] \/ InTable(q)) => InTable(q)'
      <4>1. topic' = Append(topic, plan[h])
        BY <2>3 DEF Send, SendTimesOut
      <4> QED
        BY <2>0, <4>1, AppendInTable
    <3>2. cache' = cache
      BY <2>3 DEF Send, SendTimesOut
    <3>3. ASSUME NEW m \in Nodes, NEW t \in Tenants PROVE From(cache[m][t], t)'
      BY <3>1, <3>2, <1>a
    <3>4. HandlersFromTable'
      <4>1. CASE Send(h)
        BY SMTT(40), <4>1, <3>1 DEF Send, HandlersFromTable, InTable, TypeOK
      <4>2. CASE SendTimesOut(h)
        BY <4>2, <3>1 DEF SendTimesOut, Return, Start, HandlersFromTable, InTable, TypeOK
      <4> QED
        BY <2>3, <4>1, <4>2
    <3> QED
      BY <1>b, <3>3, <3>4
  <2> QED
    BY <1>3, <2>1, <2>2, <2>3 DEF HandlerContinue
<1>4. CASE ForeignRecord
  <2>1. \A q : InTable(q) => InTable(q)'
    BY <1>4, PlanConstants, AppendInTable DEF ForeignRecord
  <2>2. UNCHANGED <<cache, pc, op, plan>>
    BY <1>4 DEF ForeignRecord, handlerVars
  <2>3. ASSUME NEW m \in Nodes, NEW t \in Tenants PROVE From(cache[m][t], t)'
    BY <2>1, <2>2, <1>a
  <2>4. HandlersFromTable'
    BY <2>1, <2>2 DEF HandlersFromTable
  <2> QED
    BY <1>0, <1>b, <2>3, <2>4
<1>5. ASSUME NEW n \in Nodes, Crash(n) PROVE CacheFromTable' /\ HandlersFromTable'
  <2>1. ASSUME NEW m \in Nodes, NEW t \in Tenants PROVE From(cache[m][t], t)'
    <3>1. topic' = topic /\ cache'[m][t] \in {cache[m][t], emptyPlan}
      BY <1>5 DEF Crash, NoTenants, TypeOK
    <3> QED
      BY <3>1, <1>a DEF InTable
  <2>2. HandlersFromTable'
    BY <1>5 DEF Crash, HandlersFromTable, InTable, TypeOK
  <2> QED
    BY <1>b, <2>1, <2>2
<1>6. CASE UNCHANGED vars
  BY <1>6 DEF vars, TypeOK, CacheFromTable, HandlersFromTable, InTable
<1> QED
  BY <1>0, <1>1, <1>2, <1>3, <1>4, <1>5, <1>6 DEF Next

\* Whatever the interleaving of handlers, listener, failed sends and crashes, a
\* process serves for a tenant only plans that are records of the table for that
\* tenant, or the free plan (updateDb, dbListener, GetOrCreateTenant).
THEOREM CacheProvenance == Spec => []CacheFromTable
<1>1. Init => ProvenanceInv
  <2> SUFFICES ASSUME Init PROVE CacheFromTable /\ HandlersFromTable
    BY TypeInit DEF ProvenanceInv
  <2> QED
    BY DEF Init, NoTenants, CacheFromTable, HandlersFromTable
<1>2. ProvenanceInv => CacheFromTable
  BY DEF ProvenanceInv
<1> QED
  BY <1>1, <1>2, ProvenanceStep, PTL DEF Spec

-----------------------------------------------------------------------------
(* Well-formed records.  The reconciliation merges a request into a cached *)
(* plan, so the cache and the local plans have to be well formed too.      *)

WellFormed(p) == p.tenantStatus # Reserved0 /\ HasPlanPolicy(ToLower(p.planType))

WellFormedInv ==
  /\ TypeOK
  /\ RowsWellFormed
  /\ \A n \in Nodes, t \in Tenants : cache[n][t] # emptyPlan => WellFormed(cache[n][t])
  /\ \A h \in Handlers : pc[h] # "idle" => WellFormed(plan[h])

LEMMA FreePlanWellFormed == \A t : WellFormed(newFreeTenantPlan(t))
<1>1. ToLower(FreeTier) \in Tiers
  BY DEF ToLower, FreeTier, Tiers
<1> QED
  BY <1>1 DEF WellFormed, newFreeTenantPlan, HasPlanPolicy, Activated, Reserved0

\* A reconciled plan is well formed if the plan it was merged into is.
LEMMA UpdatePlanWellFormed ==
  ASSUME NEW request \in Requests, NEW t \in Tenants, NEW old \in TenantPlans,
         Reconcilable(request), old # emptyPlan => WellFormed(old)
  PROVE  WellFormed(ReconcileTenantPlan([request EXCEPT !.name = t], old))
<1> DEFINE new == ReconcileTenantPlan([request EXCEPT !.name = t], old)
<1>1. /\ new.planType = request.planType
      /\ new.tenantStatus =
           takeTenantStatus(request.tenantStatus,
                            IF old = emptyPlan THEN Activated ELSE old.tenantStatus)
  BY UpdatePlanType
<1> HIDE DEF new
<1>2. WellFormed(new)
  BY <1>1 DEF WellFormed, takeTenantStatus, Reconcilable, Activated, Reserved0
<1> QED
  BY <1>2 DEF new

\* One step keeps records, caches and local plans well formed.
LEMMA WellFormedStep == WellFormedInv /\ [Next]_vars => WellFormedInv'
<1> SUFFICES ASSUME WellFormedInv, [Next]_vars PROVE WellFormedInv'
  OBVIOUS
<1> USE DEF WellFormedInv
<1>0. TypeOK'
  BY TypeStep
<1> DEFINE CacheWF == \A n \in Nodes, t \in Tenants :
                        cache[n][t] # emptyPlan => WellFormed(cache[n][t])
           PlanWF == \A h \in Handlers : pc[h] # "idle" => WellFormed(plan[h])
           Goal == RowsWellFormed /\ CacheWF /\ PlanWF
<1>r. \A i \in 1..Len(topic) : topic[i] # emptyPlan => WellFormed(topic[i])
  BY DEF RowsWellFormed, WellFormed
<1>a. ASSUME NEW p \in TenantPlans, p # emptyPlan => WellFormed(p), topic' = Append(topic, p)
      PROVE  RowsWellFormed'
  BY <1>a, <1>r DEF RowsWellFormed, WellFormed, TypeOK
<1>1. ASSUME NEW n \in Nodes, ListenerNext(n) PROVE Goal'
  <2>1. CASE OpenReader(n) \/ ReaderError(n) \/ Watchdog(n)
    BY <2>1 DEF OpenReader, ReaderError, Watchdog, handlerVars, RowsWellFormed
  <2>2. CASE ReadRecord(n)
    <3>1. UNCHANGED <<topic, pc, op, plan>>
      BY <2>2 DEF ReadRecord, handlerVars
    <3>2. pos[n] + 1 \in 1..Len(topic)
      BY <2>2 DEF ReadRecord, TypeOK
    <3>3. ASSUME NEW m \in Nodes, NEW t \in Tenants
          PROVE  cache'[m][t] \in {cache[m][t], emptyPlan, topic[pos[n] + 1]}
      BY <2>2 DEF ReadRecord, Applied, Row, TypeOK
    <3>4. CacheWF'
      BY <3>2, <3>3, <1>r
    <3> QED
      BY <3>1, <3>4 DEF RowsWellFormed
  <2> QED
    BY <1>1, <2>1, <2>2 DEF ListenerNext
<1>2. ASSUME NEW h \in Handlers, HandlerStart(h) PROVE Goal'
  <2>0. Home[h] \in Nodes
    BY HomeAssumption
  <2>1. UNCHANGED <<topic, cache>>
    BY <1>2 DEF HandlerStart, GetOrCreateTenant, UpdateTenant, DeleteTenant
  <2>2. ASSUME NEW p, WellFormed(p), NEW o, NEW next, Start(h, o, next, p) PROVE PlanWF'
    BY <2>2 DEF Start, TypeOK
  <2>3. ASSUME NEW t \in Tenants, GetOrCreateTenant(h, t) PROVE PlanWF'
    BY <2>2, <2>3, FreePlanWellFormed DEF GetOrCreateTenant
  <2>4. ASSUME NEW t \in Tenants, NEW request \in Requests, UpdateTenant(h, t, request)
        PROVE  PlanWF'
    <3>1. /\ cache[Home[h]][t] \in TenantPlans
          /\ cache[Home[h]][t] # emptyPlan => WellFormed(cache[Home[h]][t])
      BY <2>0 DEF TypeOK
    <3>2. Reconcilable(request)
      BY <2>4 DEF UpdateTenant
    <3>3. WellFormed(ReconcileTenantPlan([request EXCEPT !.name = t], cache[Home[h]][t]))
      BY <3>1, <3>2, UpdatePlanWellFormed
    <3> QED
      BY <2>2, <2>4, <3>3 DEF UpdateTenant
  <2>5. ASSUME NEW t \in Tenants, DeleteTenant(h, t) PROVE PlanWF'
    <3>1. cache[Home[h]][t] \in TenantPlans /\ WellFormed(cache[Home[h]][t])
      BY <2>0, <2>5 DEF DeleteTenant, TypeOK
    <3>2. WellFormed([cache[Home[h]][t] EXCEPT !.tenantStatus = Deleted])
      BY <3>1, DeletedPlanType DEF WellFormed, Deleted, Reserved0
    <3> QED
      BY <2>2, <2>5, <3>2 DEF DeleteTenant
  <2> QED
    BY <1>2, <2>1, <2>3, <2>4, <2>5 DEF HandlerStart, RowsWellFormed
<1>3. ASSUME NEW h \in Handlers, HandlerContinue(h) PROVE Goal'
  <2>0. pc[h] # "idle" /\ plan[h] \in TenantPlans /\ WellFormed(plan[h]) /\ Home[h] \in Nodes
    BY <1>3, HomeAssumption DEF HandlerContinue, CreateFreePlan, Send, SendFails, SendTimesOut,
                                StorePlan, EvictPlan, TypeOK
  <2>1. PlanWF'
    BY <1>3, <2>0 DEF HandlerContinue, CreateFreePlan, Send, SendFails, SendTimesOut,
                      StorePlan, EvictPlan, Return, Start, TypeOK
  <2>2. RowsWellFormed'
    <3>1. CASE topic' = topic
      BY <3>1 DEF RowsWellFormed
    <3>2. CASE topic' = Append(topic, plan[h])
      BY <3>2, <2>0, <1>a
    <3> QED
      BY <1>3, <3>1, <3>2 DEF HandlerContinue, CreateFreePlan, Send, SendFails, SendTimesOut,
                              StorePlan, EvictPlan
  <2>3. CacheWF'
    <3>1. ASSUME NEW m \in Nodes, NEW t \in Tenants
          PROVE  cache'[m][t] \in {cache[m][t], emptyPlan, plan[h]}
      <4>1. CASE CreateFreePlan(h) \/ StorePlan(h) \/ EvictPlan(h)
        <5>1. \E x \in {emptyPlan, plan[h]} :
                cache' = [cache EXCEPT ![Home[h]][plan[h].name] = x]
          BY <4>1 DEF CreateFreePlan, StorePlan, EvictPlan, Put
        <5>2. cache \in [Nodes -> [Tenants -> TenantPlans]]
          BY DEF TypeOK
        <5> QED
          BY <5>1, <5>2
      <4>2. CASE Send(h) \/ SendFails(h) \/ SendTimesOut(h)
        BY <4>2 DEF Send, SendFails, SendTimesOut
      <4> QED
        BY <1>3, <4>1, <4>2 DEF HandlerContinue
    <3> QED
      BY <3>1, <2>0
  <2> QED
    BY <2>1, <2>2, <2>3
<1>4. CASE ForeignRecord
  BY <1>0, <1>4, <1>a, PlanConstants DEF ForeignRecord, handlerVars
<1>5. ASSUME NEW n \in Nodes, Crash(n) PROVE Goal'
  BY <1>5 DEF Crash, NoTenants, RowsWellFormed, TypeOK
<1>6. CASE UNCHANGED vars
  BY <1>0, <1>6 DEF vars, RowsWellFormed
<1> QED
  BY <1>0, <1>1, <1>2, <1>3, <1>4, <1>5, <1>6 DEF Next

\* No interleaving of creations, updates, deletions and replays writes a record
\* with the status 0 or without a tier, whatever statuses, plan types and cached
\* plans the requests are merged from (ReconcileTenantPlan).
THEOREM RowsAlwaysWellFormed == Spec => []RowsWellFormed
<1>1. Init => WellFormedInv
  <2> SUFFICES ASSUME Init PROVE WellFormedInv
    OBVIOUS
  <2> QED
    BY TypeInit DEF Init, WellFormedInv, NoTenants, RowsWellFormed
<1>2. WellFormedInv => RowsWellFormed
  BY DEF WellFormedInv
<1> QED
  BY <1>1, <1>2, WellFormedStep, PTL DEF Spec

-----------------------------------------------------------------------------
(* Convergence.  The cache entry of t in process n is settled when it is   *)
(* what the newest record of t says, once the reader has got that far.     *)
(* AgreesWithTable is not inductive: it does not hold while the reader is  *)
(* behind, and a restarted reader is behind again.                         *)

Settled(n, t) ==
  /\ \A i \in 1..Len(topic) : (IsLatest(i, t) /\ i <= pos[n]) => cache[n][t] = Row(topic[i])
  /\ (\A i \in 1..Len(topic) : topic[i].name # t) => cache[n][t] = emptyPlan

PosInv == \A n \in Nodes : pos[n] <= Len(topic)

\* The reader never gets past the end of the topic.
LEMMA PosStep == TypeOK /\ PosInv /\ [Next]_vars => PosInv'
<1> SUFFICES ASSUME TypeOK, PosInv, [Next]_vars PROVE PosInv'
  OBVIOUS
<1>1. ASSUME NEW n \in Nodes, ListenerNext(n) PROVE PosInv'
  <2>1. CASE OpenReader(n)
    BY <2>1 DEF OpenReader, PosInv, TypeOK
  <2>2. CASE ReaderError(n) \/ Watchdog(n)
    BY <2>2 DEF ReaderError, Watchdog, PosInv
  <2>3. CASE ReadRecord(n)
    BY <2>3 DEF ReadRecord, PosInv, TypeOK
  <2> QED
    BY <1>1, <2>1, <2>2, <2>3 DEF ListenerNext
<1>2. ASSUME NEW h \in Handlers, HandlerStart(h) PROVE PosInv'
  BY <1>2 DEF HandlerStart, GetOrCreateTenant, UpdateTenant, DeleteTenant, listenerVars, PosInv
<1>a. ASSUME NEW p, topic' = Append(topic, p), pos' = pos PROVE PosInv'
  BY <1>a DEF PosInv, TypeOK
<1>3. ASSUME NEW h \in Handlers, HandlerContinue(h) PROVE PosInv'
  <2>1. CASE CreateFreePlan(h) \/ SendFails(h) \/ StorePlan(h) \/ EvictPlan(h)
    BY <2>1 DEF CreateFreePlan, SendFails, StorePlan, EvictPlan, listenerVars, PosInv
  <2>2. CASE Send(h) \/ SendTimesOut(h)
    BY <2>2, <1>a DEF Send, SendTimesOut, listenerVars
  <2> QED
    BY <1>3, <2>1, <2>2 DEF HandlerContinue
<1>4. CASE ForeignRecord
  BY <1>4, <1>a DEF ForeignRecord, listenerVars
<1>5. ASSUME NEW n \in Nodes, Crash(n) PROVE PosInv'
  BY <1>5 DEF Crash, PosInv, TypeOK
<1>6. CASE UNCHANGED vars
  BY <1>6 DEF vars, PosInv
<1> QED
  BY <1>1, <1>2, <1>3, <1>4, <1>5, <1>6 DEF Next

\* Steps that leave the table and the entry alone and do not move the reader forward.
LEMMA SettledUnchanged ==
  ASSUME TypeOK, NEW n \in Nodes, NEW t \in Tenants, Settled(n, t),
         topic' = topic, cache'[n][t] = cache[n][t], pos'[n] \in Nat, pos'[n] <= pos[n]
  PROVE  Settled(n, t)'
BY DEF TypeOK, Settled, IsLatest

\* An append: the new record is ahead of the reader.
LEMMA SettledAppend ==
  ASSUME TypeOK, PosInv, NEW n \in Nodes, NEW t \in Tenants, Settled(n, t),
         NEW p \in TenantPlans, topic' = Append(topic, p),
         cache'[n][t] = cache[n][t], pos'[n] = pos[n]
  PROVE  Settled(n, t)'
<1>1. /\ Len(topic) \in Nat /\ Len(topic') = Len(topic) + 1
      /\ \A i \in 1..Len(topic) : topic'[i] = topic[i]
  BY DEF TypeOK
<1>2. pos[n] \in Nat /\ pos[n] <= Len(topic)
  BY DEF TypeOK, PosInv
<1>3. ASSUME NEW i \in 1..Len(topic'), IsLatest(i, t)', i <= pos'[n]
      PROVE  cache'[n][t] = Row(topic'[i])
  <2>1. i \in 1..Len(topic) /\ IsLatest(i, t)
    BY <1>1, <1>2, <1>3 DEF IsLatest
  <2> QED
    BY <1>1, <1>3, <2>1 DEF Settled
<1>4. (\A i \in 1..Len(topic') : topic'[i].name # t) => cache'[n][t] = emptyPlan
  BY <1>1 DEF Settled
<1> QED
  BY <1>3, <1>4 DEF Settled, Row

\* The listener applies a record: of another tenant, or the newest so far of t.
LEMMA SettledRead ==
  ASSUME TypeOK, NEW n \in Nodes, NEW t \in Tenants, Settled(n, t), ReadRecord(n)
  PROVE  Settled(n, t)'
<1> DEFINE k == pos[n] + 1
<1>1. /\ topic' = topic /\ pos'[n] = k /\ k \in 1..Len(topic) /\ pos[n] \in Nat
      /\ Len(topic) \in Nat
  BY DEF ReadRecord, TypeOK
<1>2. cache'[n][t] = IF topic[k].name = t THEN Row(topic[k]) ELSE cache[n][t]
  BY DEF ReadRecord, Applied, TypeOK
<1> HIDE DEF k
<1>3. ASSUME NEW i \in 1..Len(topic), IsLatest(i, t), i <= k
      PROVE  cache'[n][t] = Row(topic[i])
  <2>1. CASE i = k
    BY <1>2, <1>3, <2>1 DEF IsLatest
  <2>2. CASE i # k
    <3>1. topic[k].name # t /\ i <= pos[n]
      BY <1>1, <1>3, <2>2 DEF IsLatest, k
    <3> QED
      BY <1>2, <1>3, <3>1 DEF Settled
  <2> QED
    BY <2>1, <2>2
<1>4. (\A i \in 1..Len(topic) : topic[i].name # t) => cache'[n][t] = emptyPlan
  BY <1>1, <1>2 DEF Settled
<1> QED
  BY <1>1, <1>3, <1>4 DEF Settled, IsLatest

\* A settled entry whose reader has read to the end agrees with the table.
LEMMA SettledAgrees ==
  ASSUME TypeOK, NEW n \in Nodes, NEW t \in Tenants, Settled(n, t), CaughtUp(n)
  PROVE  AgreesWithTable(n, t)
BY DEF TypeOK, Settled, CaughtUp, AgreesWithTable

-----------------------------------------------------------------------------
(* Processes that only listen *)

OnlyListens(n) == \A h \in Handlers : Home[h] # n

ReplicaInv ==
  /\ TypeOK
  /\ PosInv
  /\ \A n \in Nodes, t \in Tenants : OnlyListens(n) => Settled(n, t)

LEMMA ReplicaStep == ReplicaInv /\ [Next]_vars => ReplicaInv'
<1> SUFFICES ASSUME ReplicaInv, [Next]_vars,
                    NEW n \in Nodes, NEW t \in Tenants, OnlyListens(n)
             PROVE  Settled(n, t)'
  BY TypeStep, PosStep DEF ReplicaInv
<1>0. TypeOK /\ TypeOK' /\ PosInv /\ Settled(n, t) /\ pos[n] \in Nat
  BY TypeStep DEF ReplicaInv, TypeOK
<1>a. ASSUME topic' = topic, cache'[n] = cache[n], pos'[n] \in {0, pos[n]} PROVE Settled(n, t)'
  BY <1>0, <1>a, SettledUnchanged
<1>1. ASSUME NEW m \in Nodes, ListenerNext(m) PROVE Settled(n, t)'
  <2>1. CASE OpenReader(m) \/ ReaderError(m) \/ Watchdog(m)
    BY <1>0, <1>a, <2>1 DEF OpenReader, ReaderError, Watchdog, TypeOK
  <2>2. CASE ReadRecord(m) /\ m # n
    BY <1>0, <1>a, <2>2 DEF ReadRecord, TypeOK
  <2>3. CASE ReadRecord(m) /\ m = n
    BY <1>0, <2>3, SettledRead
  <2> QED
    BY <1>1, <2>1, <2>2, <2>3 DEF ListenerNext
<1>2. ASSUME NEW h \in Handlers, HandlerStart(h) PROVE Settled(n, t)'
  BY <1>a, <1>2 DEF HandlerStart, GetOrCreateTenant, UpdateTenant, DeleteTenant, listenerVars
<1>3. ASSUME NEW h \in Handlers, HandlerContinue(h) PROVE Settled(n, t)'
  <2>0. Home[h] \in Nodes /\ Home[h] # n /\ plan[h] \in TenantPlans
    BY <1>0, HomeAssumption DEF OnlyListens, TypeOK
  <2>1. CASE CreateFreePlan(h) \/ StorePlan(h) \/ EvictPlan(h) \/ SendFails(h)
    <3>1. topic' = topic /\ pos' = pos
      BY <2>1 DEF CreateFreePlan, StorePlan, EvictPlan, SendFails, listenerVars
    <3>2. cache'[n] = cache[n]
      BY <1>0, <2>0, <2>1 DEF CreateFreePlan, StorePlan, EvictPlan, SendFails, Put, TypeOK
    <3> QED
      BY <1>a, <3>1, <3>2
  <2>2. CASE Send(h) \/ SendTimesOut(h)
    <3>1. topic' = Append(topic, plan[h]) /\ cache' = cache /\ pos' = pos
      BY <2>2 DEF Send, SendTimesOut, listenerVars
    <3> QED
      BY <1>0, <2>0, <3>1, SettledAppend
  <2> QED
    BY <1>3, <2>1, <2>2 DEF HandlerContinue
<1>4. CASE ForeignRecord
  <2>1. topic' = Append(topic, emptyPlan) /\ cache' = cache /\ pos' = pos
    BY <1>4 DEF ForeignRecord, listenerVars
  <2> QED
    BY <1>0, <2>1, PlanConstants, SettledAppend
<1>5. ASSUME NEW m \in Nodes, Crash(m) PROVE Settled(n, t)'
  <2>1. CASE m # n
    BY <1>0, <1>a, <1>5, <2>1 DEF Crash, TypeOK
  <2>2. CASE m = n
    BY <1>0, <1>5, <2>2 DEF Crash, NoTenants, Settled, TypeOK
  <2> QED
    BY <2>1, <2>2
<1>6. CASE UNCHANGED vars
  BY <1>a, <1>6 DEF vars
<1> QED
  BY <1>1, <1>2, <1>3, <1>4, <1>5, <1>6, <1>0 DEF Next, ReplicaInv

\* Whoever writes the table, and however often its reader breaks and replays, a
\* process that only listens agrees with the table when it has read to the end
\* (dbListener, and the watchdog of Setup).
THEOREM ReplicasConverge == Spec => []ReplicaConverged
<1>1. Init => ReplicaInv
  <2> SUFFICES ASSUME Init PROVE ReplicaInv
    OBVIOUS
  <2>1. TypeOK
    BY TypeInit
  <2> QED
    BY <2>1 DEF Init, ReplicaInv, NoTenants, PosInv, Settled
<1>2. ReplicaInv => ReplicaConverged
  BY SettledAgrees DEF ReplicaInv, ReplicaConverged, OnlyListens
<1> QED
  BY <1>1, <1>2, ReplicaStep, PTL DEF Spec

-----------------------------------------------------------------------------
(* One request at a time.  The handler's own writes are settled too, once  *)
(* it has returned: the record it stored is the newest of its tenant.      *)

OneWriter ==
  /\ \A h1, h2 \in Handlers : h1 = h2
  /\ "get" \notin Ops
  /\ \A request \in Requests : request.tenantStatus # Deleted

Writing(n, t) == \E h \in Handlers :
  Home[h] = n /\ pc[h] \in {"store", "evict"} /\ plan[h].name = t

SentLatest(h) == \E i \in 1..Len(topic) : IsLatest(i, plan[h].name) /\ topic[i] = plan[h]

WriterState(h) ==
  /\ pc[h] # "create"
  /\ pc[h] # "idle" => op[h] \in {"post", "delete"}
  /\ (pc[h] # "idle" /\ op[h] = "delete") => plan[h].tenantStatus = Deleted
  /\ (pc[h] # "idle" /\ op[h] = "post") => plan[h].tenantStatus # Deleted
  /\ pc[h] = "evict" => op[h] = "delete"
  /\ pc[h] \in {"store", "evict"} => SentLatest(h)

Evicting(n, t) == \E h \in Handlers : Home[h] = n /\ pc[h] = "evict" /\ plan[h].name = t

SerialInv ==
  /\ ProvenanceInv
  /\ PosInv
  /\ \A n \in Nodes, t \in Tenants : Settled(n, t) \/ Writing(n, t)
  /\ \A h \in Handlers : WriterState(h)
  /\ \A n \in Nodes, t \in Tenants : cache[n][t].tenantStatus = Deleted => Evicting(n, t)

\* A tenant the cache does not know is not a deleted one.
LEMMA EmptyNotDeleted == emptyPlan.tenantStatus # Deleted
BY DEF emptyPlan, Reserved0, Deleted

\* The record just appended is the newest of its tenant.
LEMMA AppendLatest ==
  ASSUME TypeOK, NEW p \in TenantPlans, topic' = Append(topic, p)
  PROVE  \E i \in 1..Len(topic') : IsLatest(i, p.name)' /\ topic'[i] = p
<1>0. PICK k \in Nat : k = Len(topic) + 1
  BY DEF TypeOK
<1>1. k \in 1..Len(topic') /\ Len(topic') = k /\ topic'[k] = p
  BY <1>0 DEF TypeOK
<1>2. IsLatest(k, p.name)'
  BY <1>1 DEF IsLatest
<1> QED
  BY <1>1, <1>2

\* Listener steps: the table does not change, and the cache only by a record.
LEMMA SerialListenerStep ==
  ASSUME SerialInv, NEW m \in Nodes, ListenerNext(m), TypeOK'
  PROVE  /\ \A n \in Nodes, t \in Tenants : (Settled(n, t) \/ Writing(n, t))'
         /\ \A h \in Handlers : WriterState(h)'
         /\ \A n \in Nodes, t \in Tenants : (cache[n][t].tenantStatus = Deleted => Evicting(n, t))'
<1>0. TypeOK /\ UNCHANGED <<topic, pc, op, plan>>
  BY DEF SerialInv, ProvenanceInv, ListenerNext, OpenReader, ReaderError, Watchdog, ReadRecord,
         handlerVars
<1>1. ASSUME NEW h \in Handlers PROVE WriterState(h)'
  BY <1>0 DEF SerialInv, WriterState, SentLatest, IsLatest
<1>2. ASSUME NEW n \in Nodes, NEW t \in Tenants, Settled(n, t) PROVE Settled(n, t)'
  <2>1. CASE ReadRecord(m) /\ m = n
    BY <1>0, <1>2, <2>1, SettledRead
  <2>2. CASE ~ReadRecord(m) \/ m # n
    <3>1. cache'[n] = cache[n] /\ pos'[n] \in {0, pos[n]}
      BY <1>0, <2>2 DEF ListenerNext, OpenReader, ReaderError, Watchdog, ReadRecord, TypeOK
    <3>2. pos[n] \in Nat
      BY <1>0 DEF TypeOK
    <3> QED
      BY <1>0, <1>2, <3>1, <3>2, SettledUnchanged
  <2> QED
    BY <2>1, <2>2
<1>3. ASSUME NEW n \in Nodes, NEW t \in Tenants PROVE (Settled(n, t) \/ Writing(n, t))'
  BY <1>0, <1>2 DEF SerialInv, Writing
<1>4. ASSUME NEW n \in Nodes, NEW t \in Tenants, cache'[n][t].tenantStatus = Deleted
      PROVE  Evicting(n, t)'
  <2>1. cache'[n][t] = cache[n][t]
        \/ (cache'[n][t] = Row(topic[pos[m] + 1]))
    BY <1>0 DEF ListenerNext, OpenReader, ReaderError, Watchdog, ReadRecord, Applied, TypeOK
  <2>2. Row(topic[pos[m] + 1]).tenantStatus # Deleted
    BY DEF Row, emptyPlan, Reserved0, Deleted
  <2> QED
    BY <1>0, <1>4, <2>1, <2>2 DEF SerialInv, Evicting
<1> QED
  BY <1>1, <1>3, <1>4

\* A request starts: nothing shared changes.
LEMMA SerialStartStep ==
  ASSUME OneWriter, SerialInv, NEW h \in Handlers, HandlerStart(h), TypeOK'
  PROVE  /\ \A n \in Nodes, t \in Tenants : (Settled(n, t) \/ Writing(n, t))'
         /\ \A k \in Handlers : WriterState(k)'
         /\ \A n \in Nodes, t \in Tenants : (cache[n][t].tenantStatus = Deleted => Evicting(n, t))'
<1>0. /\ TypeOK /\ Home[h] \in Nodes /\ pc[h] = "idle" /\ pc'[h] = "produce"
      /\ UNCHANGED <<topic, cache, pos>>
  BY HomeAssumption DEF SerialInv, ProvenanceInv, HandlerStart, GetOrCreateTenant, UpdateTenant,
     DeleteTenant, Start, OneWriter, TypeOK, listenerVars
<1>1. \A k \in Handlers : k = h
  BY DEF OneWriter
<1>2. \A n \in Nodes, t \in Tenants : ~Writing(n, t) /\ ~Evicting(n, t)
  BY <1>0, <1>1 DEF Writing, Evicting
<1>3. ASSUME NEW n \in Nodes, NEW t \in Tenants PROVE Settled(n, t)'
  <2>1. Settled(n, t) /\ pos[n] \in Nat
    BY <1>0, <1>2 DEF SerialInv, TypeOK
  <2> QED
    BY <1>0, <2>1, SettledUnchanged
<1>4. ASSUME NEW n \in Nodes, NEW t \in Tenants PROVE cache[n][t].tenantStatus # Deleted
  BY <1>2 DEF SerialInv
<1>5. WriterState(h)'
  <2>1. ASSUME NEW t \in Tenants, GetOrCreateTenant(h, t) PROVE FALSE
    BY <2>1 DEF GetOrCreateTenant, OneWriter
  <2>2. ASSUME NEW t \in Tenants, NEW request \in Requests, UpdateTenant(h, t, request)
        PROVE  WriterState(h)'
    <3> DEFINE new == ReconcileTenantPlan([request EXCEPT !.name = t], cache[Home[h]][t])
    <3>1. cache[Home[h]][t] \in TenantPlans /\ cache[Home[h]][t].tenantStatus # Deleted
      BY <1>0, <1>4 DEF TypeOK
    <3>2. Reconcilable(request) /\ request.tenantStatus # Deleted
      BY <2>2 DEF UpdateTenant, OneWriter
    <3>3. new.tenantStatus = takeTenantStatus(request.tenantStatus,
            IF cache[Home[h]][t] = emptyPlan THEN Activated ELSE cache[Home[h]][t].tenantStatus)
      BY <3>1, <3>2, UpdatePlanType
    <3>4. Start(h, "post", "produce", new)
      BY <2>2 DEF UpdateTenant
    <3> HIDE DEF new
    <3>5. new.tenantStatus # Deleted
      BY <3>1, <3>2, <3>3 DEF takeTenantStatus, Activated, Deleted
    <3> QED
      BY <1>0, <3>4, <3>5 DEF Start, WriterState, TypeOK
  <2>3. ASSUME NEW t \in Tenants, DeleteTenant(h, t) PROVE WriterState(h)'
    <3> DEFINE new == [cache[Home[h]][t] EXCEPT !.tenantStatus = Deleted]
    <3>1. new.tenantStatus = Deleted
      BY <1>0, DeletedPlanType DEF TypeOK
    <3>2. Start(h, "delete", "produce", new)
      BY <2>3 DEF DeleteTenant
    <3> HIDE DEF new
    <3> QED
      BY <1>0, <3>1, <3>2 DEF Start, WriterState, TypeOK
  <2> QED
    BY <2>1, <2>2, <2>3 DEF HandlerStart
<1> QED
  BY <1>0, <1>1, <1>3, <1>4, <1>5

\* A handler goes on: it appends its plan, stores it, removes it, or gives up.
LEMMA SerialContinueStep ==
  ASSUME OneWriter, SerialInv, NEW h \in Handlers, HandlerContinue(h), TypeOK'
  PROVE  /\ \A n \in Nodes, t \in Tenants : (Settled(n, t) \/ Writing(n, t))'
         /\ \A k \in Handlers : WriterState(k)'
         /\ \A n \in Nodes, t \in Tenants : (cache[n][t].tenantStatus = Deleted => Evicting(n, t))'
<1>0. /\ TypeOK /\ PosInv /\ WriterState(h) /\ Home[h] \in Nodes
      /\ plan[h] \in TenantPlans /\ pc[h] # "idle" /\ plan[h].name \in Tenants
  BY HomeAssumption DEF SerialInv, ProvenanceInv, HandlersFromTable, TypeOK, HandlerContinue,
     CreateFreePlan, Send, SendFails, SendTimesOut, StorePlan, EvictPlan
<1>1. \A k \in Handlers : k = h
  BY DEF OneWriter
<1>2. \A n \in Nodes, t \in Tenants :
        Writing(n, t) => n = Home[h] /\ t = plan[h].name /\ pc[h] \in {"store", "evict"}
  BY <1>1 DEF Writing
<1>3. \A n \in Nodes, t \in Tenants :
        Evicting(n, t) => n = Home[h] /\ t = plan[h].name /\ pc[h] = "evict"
  BY <1>1 DEF Evicting
<1>4. CASE CreateFreePlan(h)
  BY <1>0, <1>4 DEF CreateFreePlan, WriterState
<1>5. CASE SendFails(h)
  <2>1. UNCHANGED <<topic, cache, pos>> /\ pc[h] = "produce" /\ pc'[h] = "idle"
    BY <1>0, <1>5 DEF SendFails, Return, Start, listenerVars, TypeOK
  <2>2. ASSUME NEW n \in Nodes, NEW t \in Tenants PROVE Settled(n, t)'
    <3>1. Settled(n, t) /\ pos[n] \in Nat
      BY <1>0, <1>2, <2>1 DEF SerialInv, TypeOK
    <3> QED
      BY <1>0, <2>1, <3>1, SettledUnchanged
  <2>3. \A n \in Nodes, t \in Tenants : cache'[n][t].tenantStatus # Deleted
    BY <1>3, <2>1 DEF SerialInv
  <2> QED
    BY <1>1, <2>1, <2>2, <2>3 DEF WriterState
<1>6. CASE Send(h) \/ SendTimesOut(h)
  <2>1. /\ topic' = Append(topic, plan[h]) /\ cache' = cache /\ pos' = pos
        /\ pc[h] = "produce"
    BY <1>6 DEF Send, SendTimesOut, listenerVars
  <2>2. ASSUME NEW n \in Nodes, NEW t \in Tenants PROVE Settled(n, t)'
    <3>1. Settled(n, t)
      BY <1>2, <2>1 DEF SerialInv
    <3> QED
      BY <1>0, <2>1, <3>1, SettledAppend
  <2>3. \A n \in Nodes, t \in Tenants : cache'[n][t].tenantStatus # Deleted
    BY <1>3, <2>1 DEF SerialInv
  <2>4. WriterState(h)'
    <3>1. CASE Send(h)
      <4>1. plan' = plan /\ op' = op /\ pc'[h] = "store"
        BY <1>0, <3>1 DEF Send, TypeOK
      <4>2. SentLatest(h)'
        BY <1>0, <2>1, <4>1, AppendLatest DEF SentLatest, IsLatest
      <4> QED
        BY <1>0, <4>1, <4>2 DEF WriterState
    <3>2. CASE SendTimesOut(h)
      BY <1>0, <3>2 DEF SendTimesOut, Return, Start, WriterState, TypeOK
    <3> QED
      BY <1>6, <3>1, <3>2
  <2> QED
    BY <1>1, <2>2, <2>3, <2>4
<1>7. CASE StorePlan(h)
  <2>1. /\ topic' = topic /\ pos' = pos /\ pc[h] = "store" /\ SentLatest(h)
        /\ cache' = [cache EXCEPT ![Home[h]][plan[h].name] = plan[h]]
    BY <1>0, <1>7 DEF StorePlan, Put, WriterState, listenerVars
  <2>2. /\ cache'[Home[h]][plan[h].name] = plan[h]
        /\ \A n \in Nodes, t \in Tenants :
             (n # Home[h] \/ t # plan[h].name) => cache'[n][t] = cache[n][t]
    BY <1>0, <2>1 DEF TypeOK
  <2>3. ASSUME NEW n \in Nodes, NEW t \in Tenants, n # Home[h] \/ t # plan[h].name
        PROVE  Settled(n, t)' /\ cache'[n][t].tenantStatus # Deleted
    <3>1. Settled(n, t) /\ pos[n] \in Nat
      BY <1>0, <1>2, <2>3 DEF SerialInv, TypeOK
    <3>2. cache[n][t].tenantStatus # Deleted
      BY <1>3, <2>3 DEF SerialInv
    <3> QED
      BY <1>0, <2>1, <2>2, <2>3, <3>1, <3>2, SettledUnchanged
  <2>4. CASE op[h] = "delete"
    <3>1. pc'[h] = "evict" /\ plan' = plan /\ op' = op
      BY <1>0, <1>7, <2>4 DEF StorePlan, TypeOK
    <3>2. WriterState(h)'
      BY <1>0, <2>1, <2>4, <3>1 DEF WriterState, SentLatest, IsLatest
    <3>3. Writing(Home[h], plan[h].name)' /\ Evicting(Home[h], plan[h].name)'
      BY <3>1 DEF Writing, Evicting
    <3>4. ASSUME NEW n \in Nodes, NEW t \in Tenants, n = Home[h], t = plan[h].name
          PROVE  Writing(n, t)' /\ Evicting(n, t)'
      BY <3>1, <3>4 DEF Writing, Evicting
    <3> QED
      BY <1>1, <2>3, <3>2, <3>4
  <2>5. CASE op[h] # "delete"
    <3>1. Return(h) /\ pc'[h] = "idle" /\ plan[h].tenantStatus # Deleted
      BY <1>0, <1>7, <2>1, <2>5 DEF StorePlan, Return, Start, WriterState, TypeOK
    <3>2. WriterState(h)'
      BY <3>1 DEF WriterState
    <3>3. ASSUME NEW n \in Nodes, NEW t \in Tenants, n = Home[h], t = plan[h].name
          PROVE  Settled(n, t)'
      <4>1. PICK i \in 1..Len(topic) : IsLatest(i, t) /\ topic[i] = plan[h]
        BY <2>1, <3>3 DEF SentLatest
      <4>2. \A j \in 1..Len(topic) : IsLatest(j, t) => j = i
        BY <1>0, <4>1 DEF IsLatest, TypeOK
      <4>3. cache'[n][t] = Row(topic[i])
        BY <2>2, <3>1, <3>3, <4>1 DEF Row
      <4>4. topic[i].name = t
        BY <4>1 DEF IsLatest
      <4> QED
        BY <2>1, <4>2, <4>3, <4>4 DEF Settled, IsLatest
    <3>4. ASSUME NEW n \in Nodes, NEW t \in Tenants, n = Home[h], t = plan[h].name
          PROVE  cache'[n][t].tenantStatus # Deleted
      BY <2>2, <3>1, <3>4
    <3> QED
      BY <1>1, <2>3, <3>2, <3>3, <3>4
  <2> QED
    BY <2>4, <2>5
<1>8. CASE EvictPlan(h)
  <2>1. /\ topic' = topic /\ pos' = pos /\ pc[h] = "evict" /\ SentLatest(h)
        /\ plan[h].tenantStatus = Deleted
        /\ cache' = [cache EXCEPT ![Home[h]][plan[h].name] = emptyPlan]
        /\ pc'[h] = "idle"
    BY <1>0, <1>8 DEF EvictPlan, Put, WriterState, Return, Start, listenerVars, TypeOK
  <2>2. /\ cache'[Home[h]][plan[h].name] = emptyPlan
        /\ \A n \in Nodes, t \in Tenants :
             (n # Home[h] \/ t # plan[h].name) => cache'[n][t] = cache[n][t]
    BY <1>0, <2>1 DEF TypeOK
  <2>3. ASSUME NEW n \in Nodes, NEW t \in Tenants, n # Home[h] \/ t # plan[h].name
        PROVE  Settled(n, t)' /\ cache'[n][t].tenantStatus # Deleted
    <3>1. Settled(n, t) /\ pos[n] \in Nat
      BY <1>0, <1>2, <2>3 DEF SerialInv, TypeOK
    <3>2. cache[n][t].tenantStatus # Deleted
      BY <1>3, <2>3 DEF SerialInv
    <3> QED
      BY <1>0, <2>1, <2>2, <2>3, <3>1, <3>2, SettledUnchanged
  <2>4. ASSUME NEW n \in Nodes, NEW t \in Tenants, n = Home[h], t = plan[h].name
        PROVE  Settled(n, t)' /\ cache'[n][t].tenantStatus # Deleted
    <3>1. PICK i \in 1..Len(topic) : IsLatest(i, t) /\ topic[i] = plan[h]
      BY <2>1, <2>4 DEF SentLatest
    <3>2. \A j \in 1..Len(topic) : IsLatest(j, t) => j = i
      BY <1>0, <3>1 DEF IsLatest, TypeOK
    <3>3. cache'[n][t] = Row(topic[i]) /\ cache'[n][t] = emptyPlan
      BY <2>1, <2>2, <2>4, <3>1 DEF Row
    <3>4. topic[i].name = t
      BY <3>1 DEF IsLatest
    <3>5. Settled(n, t)'
      BY <2>1, <3>2, <3>3, <3>4 DEF Settled, IsLatest
    <3> QED
      BY <3>3, <3>5, EmptyNotDeleted
  <2> QED
    BY <1>1, <2>1, <2>3, <2>4 DEF WriterState
<1> QED
  BY <1>4, <1>5, <1>6, <1>7, <1>8 DEF HandlerContinue

\* One step of any kind, with one request at a time.
LEMMA SerialStep == OneWriter /\ SerialInv /\ [Next]_vars => SerialInv'
<1> SUFFICES ASSUME OneWriter, SerialInv, [Next]_vars PROVE SerialInv'
  OBVIOUS
<1>0. TypeOK /\ PosInv /\ ProvenanceInv' /\ PosInv' /\ TypeOK'
  BY ProvenanceStep, PosStep, TypeStep DEF SerialInv, ProvenanceInv
<1> DEFINE Goal == /\ \A n \in Nodes, t \in Tenants : Settled(n, t) \/ Writing(n, t)
                   /\ \A h \in Handlers : WriterState(h)
                   /\ \A n \in Nodes, t \in Tenants :
                        cache[n][t].tenantStatus = Deleted => Evicting(n, t)
<1>1. ASSUME NEW n \in Nodes, ListenerNext(n) PROVE Goal'
  BY <1>0, <1>1, SerialListenerStep
<1>2. ASSUME NEW h \in Handlers, HandlerStart(h) PROVE Goal'
  BY <1>0, <1>2, SerialStartStep
<1>3. ASSUME NEW h \in Handlers, HandlerContinue(h) PROVE Goal'
  BY <1>0, <1>3, SerialContinueStep
<1>4. ASSUME ForeignRecord PROVE Goal'
  <2>1. topic' = Append(topic, emptyPlan) /\ UNCHANGED <<cache, pos, pc, op, plan>>
    BY <1>4 DEF ForeignRecord, listenerVars, handlerVars
  <2>2. ASSUME NEW n \in Nodes, NEW t \in Tenants, Settled(n, t) PROVE Settled(n, t)'
    BY <1>0, <2>1, <2>2, PlanConstants, SettledAppend
  <2>3. ASSUME NEW h \in Handlers PROVE WriterState(h)'
    <3>1. WriterState(h) /\ (pc[h] # "idle" => plan[h].name \in Tenants)
      BY DEF SerialInv, ProvenanceInv, HandlersFromTable
    <3>2. ASSUME pc[h] \in {"store", "evict"} PROVE SentLatest(h)'
      <4>1. plan[h].name # NoName
        BY <3>1, <3>2, TenantsAssumption
      <4>2. PICK i \in 1..Len(topic) : IsLatest(i, plan[h].name) /\ topic[i] = plan[h]
        BY <3>1, <3>2 DEF WriterState, SentLatest
      <4>3. /\ Len(topic') = Len(topic) + 1 /\ Len(topic) \in Nat
            /\ \A j \in 1..Len(topic) : topic'[j] = topic[j]
            /\ topic'[Len(topic) + 1].name = NoName
        <5>1. emptyPlan \in TenantPlans /\ emptyPlan.name = NoName /\ topic \in Seq(TenantPlans)
          BY <1>0, PlanConstants DEF emptyPlan, TypeOK
        <5> HIDE DEF TypeOK
        <5> QED
          BY <2>1, <5>1
      <4> QED
        BY SMTT(40), <2>1, <4>1, <4>2, <4>3 DEF SentLatest, IsLatest
    <3> QED
      BY <2>1, <3>1, <3>2 DEF WriterState
  <2> QED
    BY <2>1, <2>2, <2>3 DEF SerialInv, Writing, Evicting
<1>5. ASSUME NEW n \in Nodes, Crash(n) PROVE Goal'
  <2>1. /\ topic' = topic
        /\ \A t \in Tenants : cache'[n][t] = emptyPlan
        /\ pos'[n] = 0
        /\ \A m \in Nodes : m # n => cache'[m] = cache[m] /\ pos'[m] = pos[m]
        /\ \A h \in Handlers :
             IF Home[h] = n THEN pc'[h] = "idle"
             ELSE pc'[h] = pc[h] /\ op'[h] = op[h] /\ plan'[h] = plan[h]
    BY <1>0, <1>5 DEF Crash, NoTenants, TypeOK
  <2>2. ASSUME NEW m \in Nodes, NEW t \in Tenants, Settled(m, t) \/ m = n PROVE Settled(m, t)'
    <3>1. CASE m = n
      BY <1>0, <2>1, <3>1 DEF Settled, TypeOK
    <3>2. CASE m # n
      <4>1. pos[m] \in Nat
        BY <1>0 DEF TypeOK
      <4> QED
        BY <1>0, <2>1, <2>2, <3>2, <4>1, SettledUnchanged
    <3> QED
      BY <3>1, <3>2
  <2>3. ASSUME NEW h \in Handlers PROVE WriterState(h)'
    BY <2>1 DEF SerialInv, WriterState, SentLatest, IsLatest
  <2>4. ASSUME NEW m \in Nodes, NEW t \in Tenants, Writing(m, t), m # n PROVE Writing(m, t)'
    BY <2>1, <2>4 DEF Writing
  <2>5. ASSUME NEW m \in Nodes, NEW t \in Tenants, cache'[m][t].tenantStatus = Deleted
        PROVE  Evicting(m, t)'
    <3>1. m # n
      BY <2>1, <2>5, EmptyNotDeleted
    <3>2. cache[m][t].tenantStatus = Deleted
      BY <2>1, <2>5, <3>1
    <3>3. PICK h \in Handlers : Home[h] = m /\ pc[h] = "evict" /\ plan[h].name = t
      BY <3>2 DEF SerialInv, Evicting
    <3> QED
      BY <2>1, <3>1, <3>3 DEF Evicting
  <2> QED
    BY <2>2, <2>3, <2>4, <2>5 DEF SerialInv
<1>6. ASSUME UNCHANGED vars PROVE Goal'
  BY <1>6 DEF vars, SerialInv, Settled, IsLatest, Writing, WriterState, SentLatest, Evicting
<1>7. Goal'
  BY <1>1, <1>2, <1>3, <1>4, <1>5, <1>6 DEF Next
<1> QED
  BY <1>0, <1>7 DEF SerialInv

\* With one request at a time, no creation of free plans and no POST of a Deleted
\* status, every process that has read to the end agrees with the table: through
\* failed and timed-out sends, reader errors, replays and crashes (updateDb,
\* DeleteTenant, dbListener).
THEOREM SerialConvergence == ASSUME OneWriter PROVE Spec => []Converged
<1>1. Init => SerialInv
  <2> SUFFICES ASSUME Init PROVE SerialInv
    OBVIOUS
  <2>1. TypeOK
    BY TypeInit
  <2>2. ProvenanceInv /\ PosInv
    BY <2>1 DEF Init, ProvenanceInv, NoTenants, CacheFromTable, HandlersFromTable, PosInv
  <2>3. \A n \in Nodes, t \in Tenants : Settled(n, t) /\ cache[n][t].tenantStatus # Deleted
    <3>1. \A n \in Nodes, t \in Tenants : cache[n][t] = emptyPlan /\ Len(topic) = 0
      BY DEF Init, NoTenants
    <3> QED
      BY <3>1, EmptyNotDeleted DEF Settled
  <2>4. \A h \in Handlers : WriterState(h)
    BY DEF Init, WriterState
  <2> QED
    BY <2>2, <2>3, <2>4 DEF SerialInv
<1>2. SerialInv => Converged
  <2> SUFFICES ASSUME SerialInv, NEW n \in Nodes, CaughtUp(n),
                      \A h \in Handlers : pc[h] = "idle", NEW t \in Tenants
               PROVE  AgreesWithTable(n, t)
    BY DEF Converged
  <2>1. TypeOK /\ Settled(n, t)
    BY DEF SerialInv, ProvenanceInv, Writing
  <2> QED
    BY <2>1, SettledAgrees
<1>3. SerialInv /\ [Next]_vars => SerialInv'
  BY SerialStep
<1> QED
  BY <1>1, <1>2, <1>3, PTL DEF Spec
=============================================================================
