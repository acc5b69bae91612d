------------------------------ MODULE TenantDb ------------------------------
(***************************************************************************)
(* The tenant database: a Pulsar topic used as a table, and in every       *)
(* burnell process a cache of it (TenantPolicyHandler.tenants).  A         *)
(* listener goroutine replays the topic into the cache; request handlers   *)
(* read the cache, publish to the topic and also write the cache           *)
(* themselves.  Each critical section of tenantsLock, and each call to     *)
(* Pulsar, is one atomic action; everything else interleaves.              *)
(***************************************************************************)
EXTENDS TenantPlan

CONSTANTS Nodes,      \* burnell processes
          Handlers,   \* request goroutines; each serves one request at a time
          Home,       \* Home[h] is the process handler h runs in
          Ops,        \* the operations clients ask for
          Requests,   \* the TenantPlan documents clients POST
          MaxRecords, \* bound: length of the topic
          MaxFaults   \* bound: reader errors and process crashes

ASSUME HomeAssumption == Home \in [Handlers -> Nodes]
ASSUME RequestsAssumption == Requests \subseteq TenantPlans
ASSUME OpsAssumption == Ops \subseteq {"get", "post", "delete", "garbage"}
ASSUME BoundsAssumption == MaxRecords \in Nat /\ MaxFaults \in Nat

VARIABLES topic,    \* the tenants-management topic, oldest record first
          cache,    \* cache[n][t] = tenants[t] in process n, emptyPlan if absent
          reader,   \* state of the dbListener goroutine of each process
          pos,      \* number of records the current reader has applied
          pc,       \* where each handler is
          op,       \* the operation it is running
          plan,     \* its local copy of the plan it writes
          faults    \* reader errors and crashes so far

vars == <<topic, cache, reader, pos, pc, op, plan, faults>>
handlerVars == <<pc, op, plan>>
listenerVars == <<reader, pos>>

TypeOK ==
  /\ topic \in Seq(TenantPlans)
  /\ cache \in [Nodes -> [Tenants -> TenantPlans]]
  /\ reader \in [Nodes -> {"opening", "reading", "terminated"}]
  /\ pos \in [Nodes -> Nat]
  /\ pc \in [Handlers -> {"idle", "create", "produce", "store", "evict"}]
  /\ op \in [Handlers -> {"none", "get", "post", "delete"}]
  /\ plan \in [Handlers -> TenantPlans]
  /\ faults \in Nat

NoTenants == [t \in Tenants |-> emptyPlan]

\* Setup: an empty map, and the watchdog has just started the listener.
Init ==
  /\ topic = <<>>
  /\ cache = [n \in Nodes |-> NoTenants]
  /\ reader = [n \in Nodes |-> "opening"]
  /\ pos = [n \in Nodes |-> 0]
  /\ pc = [h \in Handlers |-> "idle"]
  /\ op = [h \in Handlers |-> "none"]
  /\ plan = [h \in Handlers |-> emptyPlan]
  /\ faults = 0

-----------------------------------------------------------------------------
(* dbListener and the watchdog goroutine of Setup *)

\* Mutant: the reader starts one before the earliest message.
OpenReader_BeforeEarliest(n) ==
  /\ reader[n] = "opening"
  /\ reader' = [reader EXCEPT ![n] = "reading"]
  /\ pos' = [pos EXCEPT ![n] = -1]
  /\ UNCHANGED <<topic, cache, handlerVars, faults>>

\* CreateReader from the earliest message.
OpenReader(n) ==
  /\ reader[n] = "opening"
  /\ reader' = [reader EXCEPT ![n] = "reading"]
  /\ pos' = [pos EXCEPT ![n] = 0]
  /\ UNCHANGED <<topic, cache, handlerVars, faults>>

\* CreateReader or reader.Next returns an error; the goroutine ends and its
\* deferred function blocks on the unbuffered signal channel.
ReaderError(n) ==
  /\ faults < MaxFaults
  /\ reader[n] \in {"opening", "reading"}
  /\ reader' = [reader EXCEPT ![n] = "terminated"]
  /\ faults' = faults + 1
  /\ UNCHANGED <<topic, cache, pos, handlerVars>>

\* Mutant: the watchdog receives the signal and does not start a listener.
Watchdog_NoRestart(n) ==
  /\ reader[n] = "terminated"
  /\ UNCHANGED vars

\* The watchdog receives the signal and starts a new listener; the cache is kept.
Watchdog(n) ==
  /\ reader[n] = "terminated"
  /\ reader' = [reader EXCEPT ![n] = "opening"]
  /\ UNCHANGED <<topic, cache, pos, handlerVars, faults>>

\* What a record of the table says of its tenant: nothing if it is Deleted.
Row(t) == IF t.tenantStatus # Deleted THEN t ELSE emptyPlan

\* Mutant: the listener keeps the plans of deleted tenants.
Applied_KeepsDeleted(tenants, t) ==
  IF t.name \in Tenants THEN [tenants EXCEPT ![t.name] = t] ELSE tenants

\* The cache after record t.  A payload that does not unmarshal is the empty
\* plan: it goes under the empty name, which no request looks up.
Applied(tenants, t) ==
  IF t.name \in Tenants THEN [tenants EXCEPT ![t.name] = Row(t)] ELSE tenants

ReadRecord(n) ==
  /\ reader[n] = "reading"
  /\ pos[n] < Len(topic)
  /\ cache' = [cache EXCEPT ![n] = Applied(@, topic[pos[n] + 1])]
  /\ pos' = [pos EXCEPT ![n] = @ + 1]
  /\ UNCHANGED <<topic, reader, handlerVars, faults>>

-----------------------------------------------------------------------------
(* Request handlers *)

Start(h, o, next, p) ==
  /\ pc' = [pc EXCEPT ![h] = next]
  /\ op' = [op EXCEPT ![h] = o]
  /\ plan' = [plan EXCEPT ![h] = p]

Return(h) == Start(h, "none", "idle", emptyPlan)

Put(n, t, p) == cache' = [cache EXCEPT ![n][t] = p]

\* GetOrCreateTenant: GetTenant under the read lock.  A hit changes nothing;
\* a miss goes on to create the plan, the lock released in between.
GetOrCreateTenant(h, t) ==
  /\ "get" \in Ops
  /\ pc[h] = "idle"
  /\ cache[Home[h]][t] = emptyPlan
  /\ Start(h, "get", "create", newFreeTenantPlan(t))
  /\ UNCHANGED <<topic, cache, listenerVars, faults>>

CreateFreePlan(h) ==
  /\ pc[h] = "create"
  /\ Put(Home[h], plan[h].name, plan[h])
  /\ Return(h)
  /\ UNCHANGED <<topic, listenerVars, faults>>

\* UpdateTenant up to the call of updateDb: one read of the cache, then the
\* reconciliation on local copies.  A bad plan type answers 422, no effect.
UpdateTenant(h, t, request) ==
  /\ "post" \in Ops
  /\ pc[h] = "idle"
  /\ Reconcilable(request)
  /\ LET tenantPlan == [request EXCEPT !.name = t]
     IN  Start(h, "post", "produce", ReconcileTenantPlan(tenantPlan, cache[Home[h]][t]))
  /\ UNCHANGED <<topic, cache, listenerVars, faults>>

\* DeleteTenant up to the call of updateDb; an unknown tenant is an error.
DeleteTenant(h, t) ==
  /\ "delete" \in Ops
  /\ pc[h] = "idle"
  /\ cache[Home[h]][t] # emptyPlan
  /\ Start(h, "delete", "produce", [cache[Home[h]][t] EXCEPT !.tenantStatus = Deleted])
  /\ UNCHANGED <<topic, cache, listenerVars, faults>>

\* updateDb, producer.Send succeeds.
Send(h) ==
  /\ pc[h] = "produce"
  /\ Len(topic) < MaxRecords
  /\ topic' = Append(topic, plan[h])
  /\ pc' = [pc EXCEPT ![h] = "store"]
  /\ UNCHANGED <<cache, listenerVars, op, plan, faults>>

\* Mutant: the error of the send is not checked.
SendFails_Ignored(h) ==
  /\ pc[h] = "produce"
  /\ pc' = [pc EXCEPT ![h] = "store"]
  /\ UNCHANGED <<topic, cache, listenerVars, op, plan, faults>>

\* updateDb, CreateProducer or Send fails: 500, nothing else happened.
SendFails(h) ==
  /\ pc[h] = "produce"
  /\ Return(h)
  /\ UNCHANGED <<topic, cache, listenerVars, faults>>

\* updateDb, Send reports an error (a timeout) for a record that was stored.
SendTimesOut(h) ==
  /\ pc[h] = "produce"
  /\ Len(topic) < MaxRecords
  /\ topic' = Append(topic, plan[h])
  /\ Return(h)
  /\ UNCHANGED <<cache, listenerVars, faults>>

\* updateDb, the plan goes into the cache, a Deleted one too.
StorePlan(h) ==
  /\ pc[h] = "store"
  /\ Put(Home[h], plan[h].name, plan[h])
  /\ IF op[h] = "delete"
     THEN /\ pc' = [pc EXCEPT ![h] = "evict"]
          /\ UNCHANGED <<op, plan>>
     ELSE Return(h)
  /\ UNCHANGED <<topic, listenerVars, faults>>

\* Mutant: the plan updateDb stored is not removed.
EvictPlan_Kept(h) ==
  /\ pc[h] = "evict"
  /\ Return(h)
  /\ UNCHANGED <<topic, cache, listenerVars, faults>>

\* DeleteTenant after updateDb: delete(s.tenants, tenantName).
EvictPlan(h) ==
  /\ pc[h] = "evict"
  /\ Put(Home[h], plan[h].name, emptyPlan)
  /\ Return(h)
  /\ UNCHANGED <<topic, listenerVars, faults>>

-----------------------------------------------------------------------------
(* The environment *)

\* A payload that is not a tenant document appears on the topic.
ForeignRecord ==
  /\ "garbage" \in Ops
  /\ Len(topic) < MaxRecords
  /\ topic' = Append(topic, emptyPlan)
  /\ UNCHANGED <<cache, listenerVars, handlerVars, faults>>

\* Process n dies and is started again: main calls Setup on an empty map.
Crash(n) ==
  LET dropped(f, v) == [h \in Handlers |-> IF Home[h] = n THEN v ELSE f[h]]
  IN  /\ faults < MaxFaults
      /\ faults' = faults + 1
      /\ cache' = [cache EXCEPT ![n] = NoTenants]
      /\ reader' = [reader EXCEPT ![n] = "opening"]
      /\ pos' = [pos EXCEPT ![n] = 0]
      /\ pc' = dropped(pc, "idle")
      /\ op' = dropped(op, "none")
      /\ plan' = dropped(plan, emptyPlan)
      /\ UNCHANGED topic

ListenerNext(n) ==
  \/ OpenReader(n)
  \/ ReaderError(n)
  \/ Watchdog(n)
  \/ ReadRecord(n)

HandlerStart(h) ==
  \/ \E t \in Tenants : GetOrCreateTenant(h, t)
  \/ \E t \in Tenants, request \in Requests : UpdateTenant(h, t, request)
  \/ \E t \in Tenants : DeleteTenant(h, t)

HandlerContinue(h) ==
  \/ CreateFreePlan(h)
  \/ Send(h)
  \/ SendFails(h)
  \/ SendTimesOut(h)
  \/ StorePlan(h)
  \/ EvictPlan(h)

Next ==
  \/ \E n \in Nodes : ListenerNext(n)
  \/ \E h \in Handlers : HandlerStart(h) \/ HandlerContinue(h)
  \/ ForeignRecord
  \/ \E n \in Nodes : Crash(n)

Spec == Init /\ [][Next]_vars

(* Goroutines are scheduled, Pulsar answers, and the number of faults is   *)
(* bounded: a reader can eventually be opened and read to the end.         *)
Fairness ==
  /\ \A n \in Nodes : /\ WF_vars(OpenReader(n))
                      /\ WF_vars(Watchdog(n))
                      /\ WF_vars(ReadRecord(n))
  /\ \A h \in Handlers : WF_vars(HandlerContinue(h))

FairSpec == Spec /\ Fairness

-----------------------------------------------------------------------------
(* Properties *)

\* Record i is the newest one of tenant t.
IsLatest(i, t) ==
  /\ i \in 1..Len(topic)
  /\ topic[i].name = t
  /\ \A j \in 1..Len(topic) : j > i => topic[j].name # t

\* The cache of process n says of t what the table says.
AgreesWithTable(n, t) ==
  /\ \A i \in 1..Len(topic) : IsLatest(i, t) => cache[n][t] = Row(topic[i])
  /\ (\A i \in 1..Len(topic) : topic[i].name # t) => cache[n][t] = emptyPlan

CaughtUp(n) == pos[n] = Len(topic)

\* Every plan a process serves for a tenant is a record of the table for that
\* tenant, or the free plan GetOrCreateTenant makes up: updateDb writes the
\* cache only after the send, whatever fails or crashes (updateDb, dbListener).
CacheFromTable ==
  \A n \in Nodes, t \in Tenants :
    \/ cache[n][t] \in {emptyPlan, newFreeTenantPlan(t)}
    \/ cache[n][t].name = t /\ \E i \in 1..Len(topic) : topic[i] = cache[n][t]

\* No record of the table has the status 0, which in a request means 'not given',
\* or a plan type outside the tiers, whatever mixture of cached plans, requests
\* and deletions it results from.  The status may be any other number: nothing
\* checks that a request carries one with a name (ReconcileTenantPlan).
RowsWellFormed ==
  \A i \in 1..Len(topic) :
    topic[i] # emptyPlan => /\ topic[i].tenantStatus # Reserved0
                            /\ HasPlanPolicy(ToLower(topic[i].planType))

\* A process that serves no tenant requests itself agrees with the table as
\* soon as its listener has read to the end, after any number of reader errors
\* and replays over its old cache (dbListener, Setup's watchdog).
ReplicaConverged ==
  \A n \in Nodes :
    (CaughtUp(n) /\ \A h \in Handlers : Home[h] # n) => \A t \in Tenants : AgreesWithTable(n, t)

\* A process whose listener has read to the end, with no request under way,
\* agrees with the table: what the topic-as-a-table design needs.
Converged ==
  \A n \in Nodes :
    (CaughtUp(n) /\ \A h \in Handlers : pc[h] = "idle") => \A t \in Tenants : AgreesWithTable(n, t)

\* A POST is reconciled with the existing plan in the database: the audit of a
\* new live record continues the audit of the newest live record of that tenant
\* (UpdateTenant reads the cache, not the table).
ReconciledWithTable ==
  [][Len(topic') > Len(topic) =>
       LET new == topic'[Len(topic')]
       IN  \A i \in 1..Len(topic) :
             (IsLatest(i, new.name) /\ Deleted \notin {topic[i].tenantStatus, new.tenantStatus})
                => /\ Len(new.audit) > Len(topic[i].audit)
                   /\ SubSeq(new.audit, 1, Len(topic[i].audit)) = topic[i].audit]_vars

\* Once faults and updates stop, every cache becomes and stays equal to the
\* table (the watchdog restarts the listener, which replays from the start).
EventuallyConverged ==
  <>[](\A n \in Nodes, t \in Tenants : AgreesWithTable(n, t))
=============================================================================
