----------------------------- MODULE TenantUsage -----------------------------
(***************************************************************************)
(* Metering (src/src/metrics/federated-prometheus.go): BuildTenantUsage    *)
(* scrapes the counters of all brokers, or takes what the cache holds of   *)
(* them, and inserts a row per topic, broker and label in a transaction of *)
(* its own; a tenant's usage is the sum of its rows.  Topics move between  *)
(* brokers and brokers restart, which starts their counters again.         *)
(*                                                                         *)
(* Data abstraction.  One of the four counters is kept; they are rows      *)
(* apart and summed apart.  (The fifth label, the backlog, is no counter:  *)
(* a topic that moved keeps its last backlog in the row of its old broker, *)
(* and is counted twice.)  Time is not counted: a cache entry expires some *)
(* time after it was set, a scrape takes its sample and ends later.        *)
(***************************************************************************)
EXTENDS Naturals, FiniteSetsExt, Functions

CONSTANTS Topics, UsageTenants, Brokers,
          TenantOf,    \* TenantOf[t], from the topic's full name
          Concat,      \* Concat[t, b]: tenant, namespace, topic and broker in one string
          Scrapers,    \* requests of /pulsarmetrics by super users
          MaxReceived, \* bound: messages per topic
          MaxMoves,    \* bound: moves of topics
          MaxErrors,   \* bound: scrapes that fail
          MaxCrashes   \* bound: restarts of the process

ASSUME UsageAssumption ==
  /\ TenantOf \in [Topics -> UsageTenants] /\ DOMAIN Concat = Topics \X Brokers
  /\ "builder" \notin Scrapers /\ IsFiniteSet(Topics) /\ Topics # {}
  /\ IsFiniteSet(Brokers) /\ Brokers # {}
ASSUME UsageBoundsAssumption ==
  /\ MaxReceived \in Nat /\ MaxMoves \in Nat /\ MaxErrors \in Nat /\ MaxCrashes \in Nat

VARIABLES owner,      \* owner[t]: the broker that serves the topic
          counter,    \* counter[t]: what that broker exports for it
          received,   \* received[t]: the messages of the topic ever
          moves,
          superCache, \* cache[SuperRole], NoData if there is none or it is too old
          scrape,     \* scrape[p]: the sample of p's scrape under way
          todo,       \* the rows that the builder is yet to insert
          unlisted,   \* the tenants whose row is in, but not their name
          usageDb,    \* usageDb[key]: the row
          tenants,    \* the map of tenants' names
          listing,    \* is a request iterating over that map?
          errors, crashes

clusterVars == <<owner, counter, received, moves>>
scrapeVars == <<superCache, scrape>>
usageVars == <<todo, unlisted, usageDb, tenants>>
meteringVars == <<clusterVars, scrapeVars, usageVars, listing, errors, crashes>>

NoData == {}
Processes == Scrapers \cup {"builder"}
Keys == {Concat[tb] : tb \in Topics \X Brokers}
\* The ID of a row, without the label.
KeyOf(row) == Concat[<<row.topic, row.broker>>]
Rows == [topic : Topics, broker : Brokers, total : 0..MaxReceived]

UsageTypeOK ==
  /\ owner \in [Topics -> Brokers] /\ counter \in [Topics -> 0..MaxReceived]
  /\ received \in [Topics -> 0..MaxReceived] /\ moves \in 0..MaxMoves
  /\ superCache \subseteq Rows /\ scrape \in [Processes -> SUBSET Rows]
  /\ todo \subseteq Rows /\ unlisted \subseteq UsageTenants /\ Cardinality(unlisted) <= 1
  /\ DOMAIN usageDb \subseteq Keys
  /\ \A k \in DOMAIN usageDb : usageDb[k] \in Rows /\ KeyOf(usageDb[k]) = k
  /\ tenants \subseteq UsageTenants /\ listing \in BOOLEAN
  /\ errors \in 0..MaxErrors /\ crashes \in 0..MaxCrashes

UsageInit ==
  /\ owner \in [Topics -> Brokers]
  /\ counter = [t \in Topics |-> 0] /\ received = [t \in Topics |-> 0] /\ moves = 0
  /\ superCache = NoData /\ scrape = [p \in Processes |-> NoData]
  /\ todo = {} /\ unlisted = {} /\ usageDb = <<>> /\ tenants = {}
  /\ listing = FALSE /\ errors = 0 /\ crashes = 0

-----------------------------------------------------------------------------
(* The cluster *)

Receive(t) ==
  /\ received[t] < MaxReceived
  /\ received' = [received EXCEPT ![t] = @ + 1]
  /\ counter' = [counter EXCEPT ![t] = @ + 1]
  /\ UNCHANGED <<owner, moves, scrapeVars, usageVars, listing, errors, crashes>>

\* A topic is unloaded and loaded by a broker, maybe the same one restarted,
\* which counts from 0.
Load(t, b) ==
  /\ moves < MaxMoves
  /\ moves' = moves + 1
  /\ owner' = [owner EXCEPT ![t] = b] /\ counter' = [counter EXCEPT ![t] = 0]
  /\ UNCHANGED <<received, scrapeVars, usageVars, listing, errors, crashes>>

-----------------------------------------------------------------------------
(* GetTenantPromMetrics(SuperRole) *)

Sample == {[topic |-> t, broker |-> owner[t], total |-> counter[t]] : t \in Topics}

\* The builder scrapes when it has inserted all rows of the build before.
BeginSuperScrape(p) ==
  /\ superCache = NoData /\ scrape[p] = NoData
  /\ p = "builder" => todo = {} /\ unlisted = {}
  /\ scrape' = [scrape EXCEPT ![p] = Sample]
  /\ UNCHANGED <<clusterVars, superCache, usageVars, listing, errors, crashes>>

\* SetCache, and BuildTenantUsage goes on with the data.
EndSuperScrape(p) ==
  /\ scrape[p] # NoData
  /\ superCache' = scrape[p] /\ scrape' = [scrape EXCEPT ![p] = NoData]
  /\ todo' = IF p = "builder" THEN scrape[p] ELSE todo
  /\ UNCHANGED <<clusterVars, unlisted, usageDb, tenants, listing, errors, crashes>>

SuperScrapeFails(p) ==
  /\ scrape[p] # NoData /\ errors < MaxErrors
  /\ errors' = errors + 1 /\ scrape' = [scrape EXCEPT ![p] = NoData]
  /\ UNCHANGED <<clusterVars, superCache, usageVars, listing, crashes>>

\* GetCache: the ticker fires while the cache is fresh.
BuildFromCache ==
  /\ superCache # NoData /\ scrape["builder"] = NoData /\ todo = {} /\ unlisted = {}
  /\ todo' = superCache
  /\ UNCHANGED <<clusterVars, scrapeVars, unlisted, usageDb, tenants, listing, errors, crashes>>

\* Mutant: data of the cache is served for ever.
Expire_Never == FALSE /\ UNCHANGED meteringVars

\* scrapeInterval is over.
Expire ==
  /\ superCache # NoData
  /\ superCache' = NoData
  /\ UNCHANGED <<clusterVars, scrape, usageVars, listing, errors, crashes>>

-----------------------------------------------------------------------------
(* UpdatePerBrokerTenantUsage *)

\* Mutant: what the row had is added to.
Stored_Added(row) ==
  IF KeyOf(row) \notin DOMAIN usageDb THEN row ELSE [row EXCEPT !.total = @ + usageDb[KeyOf(row)].total]

\* A row replaces the one with its key.
Stored(row) == row

\* Mutant: a counter at 0 is no reason to list the tenant.
NewlyUnlisted_Counted(row) == IF row.total > 0 THEN {TenantOf[row.topic]} ELSE {}

\* tenants[tenantName] = true is to follow.
NewlyUnlisted(row) == {TenantOf[row.topic]}

\* One label of one topic and broker, in the order of a map.
Insert ==
  /\ unlisted = {}
  /\ \E row \in todo :
       /\ usageDb' = [k \in DOMAIN usageDb \cup {KeyOf(row)} |->
                        IF k = KeyOf(row) THEN Stored(row) ELSE usageDb[k]]
       /\ unlisted' = NewlyUnlisted(row)
       /\ todo' = todo \ {row}
  /\ UNCHANGED <<clusterVars, scrapeVars, tenants, listing, errors, crashes>>

\* The name is written into the map under the lock.
ListTenant ==
  /\ unlisted # {}
  /\ tenants' = tenants \cup unlisted /\ unlisted' = {}
  /\ UNCHANGED <<clusterVars, scrapeVars, todo, usageDb, listing, errors, crashes>>

-----------------------------------------------------------------------------
(* GetTenantsUsage and GetTenantUsage *)

BeginListing ==
  /\ ~listing /\ listing' = TRUE
  /\ UNCHANGED <<clusterVars, scrapeVars, usageVars, errors, crashes>>
EndListing ==
  /\ listing /\ listing' = FALSE
  /\ UNCHANGED <<clusterVars, scrapeVars, usageVars, errors, crashes>>

\* The map is iterated over without its lock: the runtime ends the process when
\* it sees ListTenant write to it meanwhile.  Everything is in memory.
Crash ==
  /\ listing /\ unlisted # {} /\ crashes < MaxCrashes
  /\ crashes' = crashes + 1
  /\ superCache' = NoData /\ scrape' = [p \in Processes |-> NoData]
  /\ todo' = {} /\ unlisted' = {} /\ usageDb' = <<>> /\ tenants' = {}
  /\ listing' = FALSE
  /\ UNCHANGED <<clusterVars, errors>>

\* The usage of a tenant: the sum of its rows in one transaction.
TotalMessagesIn(tenant) ==
  SumFunctionOnSet([k \in DOMAIN usageDb |-> usageDb[k].total],
    {k \in DOMAIN usageDb : TenantOf[usageDb[k].topic] = tenant})

-----------------------------------------------------------------------------
BuilderNext == BuildFromCache \/ Insert \/ ListTenant

UsageNext ==
  \/ \E t \in Topics : Receive(t) \/ \E b \in Brokers : Load(t, b)
  \/ \E p \in Processes : BeginSuperScrape(p) \/ EndSuperScrape(p) \/ SuperScrapeFails(p)
  \/ Expire \/ BuilderNext
  \/ BeginListing \/ EndListing \/ Crash

UsageSpec == UsageInit /\ [][UsageNext]_meteringVars

(* The ticker and the goroutine of the builder go on, scrapes end (the      *)
(* client has a timeout), and time passes.                                  *)
FairUsageSpec ==
  /\ UsageSpec
  /\ WF_meteringVars(BuilderNext) /\ WF_meteringVars(Expire)
  /\ SF_meteringVars(BeginSuperScrape("builder"))
  /\ \A p \in Processes : WF_meteringVars(EndSuperScrape(p))

-----------------------------------------------------------------------------
(* Properties *)

\* No tenant is charged for more than was sent to its topics, whatever moves,
\* restarts and samples older than the last one do to the rows.
NeverOverstated ==
  \A tenant \in UsageTenants :
    TotalMessagesIn(tenant)
      <= SumFunctionOnSet(received, {t \in Topics : TenantOf[t] = tenant})

\* What a topic's broker counts gets into its tenant's usage and stays there,
\* once the topic stays with the broker: neither late scrapes nor the cache
\* keep an older count alive (UpdatePerBrokerTenantUsage).
EventuallyMetered ==
  \A t \in Topics, b \in Brokers, n \in 0..MaxReceived :
    <>[](owner[t] = b /\ counter[t] = n) =>
      <>[]([topic |-> t, broker |-> b, total |-> n] \in Range(usageDb))

\* Every tenant with topics appears in the usage of all tenants, and stays.
EventuallyListed == \A t \in Topics : <>[](TenantOf[t] \in tenants)
==============================================================================
