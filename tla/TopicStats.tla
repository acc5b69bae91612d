------------------------------ MODULE TopicStats ------------------------------
(***************************************************************************)
(* The topic statistics cache (src/src/policy/topic-stats.go): a worker    *)
(* polls the brokers and puts one row per topic into a table, a handler    *)
(* pages through the rows of a tenant that are not older than 90 s and     *)
(* fetches the mandatory topics that are missing, and a client walks from  *)
(* page to page.  Topics are created, moved between brokers and deleted    *)
(* meanwhile, and requests to Pulsar fail.                                 *)
(*                                                                         *)
(* Data abstraction.  One tenant: rows are looked up by tenant.  A topic   *)
(* is its rank among the names.  A row's key <<k, n>> is the name n behind *)
(* k times "partition-" (util.PartitionPrefix), which sorts before         *)
(* "persistent://".  The statistics themselves are left out.  A row's age  *)
(* is counted in ticks; Expiry stands for the 90 s.                        *)
(***************************************************************************)
EXTENDS Naturals, FiniteSets

CONSTANTS Topics,     \* ranks of the topics that brokers host
          Partitions, \* the Topics that are partitions, <name>-partition-<i>
          MasterOf,   \* MasterOf[p]: the partitioned topic of the partition p
          Brokers,
          Mandatory,  \* lists of mandatory topics a client may send
          PageSizes,  \* "limit" query parameters
          Expiry

ASSUME TopicsAssumption ==
  /\ Topics \subseteq Nat /\ IsFiniteSet(Topics)
  /\ Partitions \subseteq Topics
  /\ MasterOf \in [Partitions -> Nat \ Topics]
ASSUME PagesAssumption == PageSizes \subseteq Nat \ {0}
ASSUME ExpiryAssumption == Expiry \in Nat \ {0}
ASSUME MandatoryAssumption == UNION Mandatory \subseteq (0..1) \X Nat

Masters == {MasterOf[p] : p \in Partitions}
NoMaster == 0
ASSUME RankAssumption == NoMaster \notin Topics \cup Masters

\* "partition-" in front of a name.
PartitionPrefix(id) == <<id[1] + 1, id[2]>>
Row(name) == <<0, name>>

\* The keys the table can have.
IDs == {Row(t) : t \in Topics} \cup {PartitionPrefix(Row(m)) : m \in Masters}
         \cup {PartitionPrefix(name) : name \in UNION Mandatory}
NoRow == Expiry + 1
NoBroker == "none"
ASSUME BrokersAssumption == NoBroker \notin Brokers

VARIABLES host,     \* host[t]: the broker of topic t, if the topic exists
          answers,  \* do the admin API and the brokers answer?
          age,      \* the table: age[id], or NoRow; expired rows stay in it
          worker,   \* "idle", "polling" or "storing" the topics of one broker
          toAsk,    \* the brokers this poll has yet to ask
          topics,   \* the topics of the broker's answer yet to be stored
          brokerMaster, \* partitionTopicNames of the broker, for this tenant
          pollMaster,   \* partitionTopicNames of the poll, for this tenant
          client,   \* "idle", "asking" for the next page, "waiting", "finished"
          pageSize, offset,
          snapshot, \* the rows the handler has read
          missing,  \* the mandatory topics it has yet to fetch
          collected, \* the keys the client has got so far in its walk
          owed,     \* history: keys listed when the walk began and not got yet
          appeared, vanished \* history: rows did so during the walk

workerVars == <<worker, toAsk, topics, brokerMaster, pollMaster>>
handlerVars == <<snapshot, missing>>
clientVars == <<client, pageSize, offset, collected, owed>>
vars == <<host, answers, age, workerVars, handlerVars, clientVars, appeared, vanished>>

-----------------------------------------------------------------------------
(* The table *)

\* Mutant: the age of a row is not looked at.
Fresh_AnyAge(ages) == {id \in IDs : ages[id] # NoRow}

\* The rows of the tenant younger than 90 s.
Fresh(ages) == {id \in IDs : ages[id] < Expiry}

\* Deleting an expired row in a read-only transaction fails, so nothing is
\* removed: the topics CountTopics lists, and the number it returns beside them.
CountTopics ==
  [topics |-> Fresh(age), size |-> Cardinality({id \in IDs : age[id] # NoRow})]

\* The keys' order as strings.
Before(a, b) == a[1] > b[1] \/ (a[1] = b[1] /\ a[2] < b[2])

\* A change of the table, as seen by the walk that is under way.
Table(ages) ==
  /\ age' = ages
  /\ IF client \in {"asking", "waiting"}
     THEN /\ appeared' = (appeared \/ ~(Fresh(ages) \subseteq Fresh(age)))
          /\ vanished' = (vanished \/ ~(Fresh(age) \subseteq Fresh(ages)))
     ELSE UNCHANGED <<appeared, vanished>>

\* The row is put into the tenant's index.
Stored(id) == Table([age EXCEPT ![id] = 0])

\* txn.Insert in a transaction of its own.  Rows have no Topic, which the index
\* of that name requires.  The indexes are filled in the order of a Go map: when
\* the tenant's comes first, it has the row all the same; otherwise it has not.
\* The error is ignored and what was done is committed.
Insert(id) == Stored(id) \/ UNCHANGED <<age, appeared, vanished>>

TypeOK ==
  /\ host \in [Topics -> Brokers \cup {NoBroker}] /\ answers \in BOOLEAN
  /\ age \in [IDs -> 0..NoRow]
  /\ worker \in {"idle", "polling", "storing"}
  /\ toAsk \subseteq Brokers /\ topics \subseteq Topics
  /\ brokerMaster \in Masters \cup {NoMaster} /\ pollMaster \in Masters \cup {NoMaster}
  /\ client \in {"idle", "asking", "waiting", "finished"}
  /\ pageSize \in PageSizes /\ offset \in Nat
  /\ snapshot \subseteq IDs /\ missing \subseteq UNION Mandatory
  /\ collected \subseteq IDs /\ owed \subseteq IDs
  /\ appeared \in BOOLEAN /\ vanished \in BOOLEAN

Init ==
  /\ host \in [Topics -> Brokers \cup {NoBroker}] /\ answers = TRUE
  /\ age = [id \in IDs |-> NoRow]
  /\ worker = "idle" /\ toAsk = {} /\ topics = {}
  /\ brokerMaster = NoMaster /\ pollMaster = NoMaster
  /\ client = "idle" /\ pageSize \in PageSizes /\ offset = 0
  /\ snapshot = {} /\ missing = {} /\ collected = {} /\ owed = {}
  /\ appeared = FALSE /\ vanished = FALSE

-----------------------------------------------------------------------------
(* Pulsar and time *)

\* Pulsar answers getSingleTopicStats for a topic, or for a partitioned topic
\* one of whose partitions there is.
HasStats(name) ==
  /\ answers
  /\ \/ name \in Topics /\ host[name] # NoBroker
     \/ \E p \in Partitions : MasterOf[p] = name /\ host[p] # NoBroker

\* A topic is created, moved to another broker or deleted.
Rehost(t) ==
  /\ \E b \in (Brokers \cup {NoBroker}) \ {host[t]} : host' = [host EXCEPT ![t] = b]
  /\ UNCHANGED <<answers, age, workerVars, handlerVars, clientVars, appeared, vanished>>

\* Requests to Pulsar begin to fail, or succeed again.
Outage ==
  /\ answers' = ~answers
  /\ UNCHANGED <<host, age, workerVars, handlerVars, clientVars, appeared, vanished>>

Tick ==
  /\ \E id \in IDs : age[id] < Expiry
  /\ Table([id \in IDs |-> IF age[id] < Expiry THEN age[id] + 1 ELSE age[id]])
  /\ UNCHANGED <<host, answers, workerVars, handlerVars, clientVars>>

-----------------------------------------------------------------------------
(* The worker *)

\* brokersStatsTopicQuery begins: GetBrokers, which lists none when it fails.
StartPoll ==
  /\ worker = "idle"
  /\ worker' = "polling"
  /\ toAsk' = IF answers THEN Brokers ELSE {}
  /\ UNCHANGED <<host, answers, age, topics, brokerMaster, pollMaster>>
  /\ UNCHANGED <<handlerVars, clientVars, appeared, vanished>>

\* brokerStatsTopicsQuery: the topics the broker has at this moment, or an error.
Ask(b) ==
  /\ worker = "polling" /\ b \in toAsk
  /\ toAsk' = toAsk \ {b}
  /\ IF answers
     THEN worker' = "storing" /\ topics' = {t \in Topics : host[t] = b}
     ELSE UNCHANGED <<worker, topics>>
  /\ UNCHANGED <<host, answers, age, brokerMaster, pollMaster>>
  /\ UNCHANGED <<handlerVars, clientVars, appeared, vanished>>

\* One topic of the answer is stored, in the order of a Go map.  Of the
\* partitioned topics of a tenant the last one is remembered.
StoreTopic(t) ==
  /\ worker = "storing" /\ t \in topics
  /\ topics' = topics \ {t}
  /\ brokerMaster' = IF t \in Partitions THEN MasterOf[t] ELSE brokerMaster
  /\ Insert(Row(t))
  /\ UNCHANGED <<host, answers, worker, toAsk, pollMaster, handlerVars, clientVars>>

\* Aggregated statistics of a partitioned topic, if Pulsar gives them.
StoreMaster(name) ==
  IF name # NoMaster /\ HasStats(name)
  THEN Insert(PartitionPrefix(Row(name)))
  ELSE UNCHANGED <<age, appeared, vanished>>

\* All topics of the broker are stored: the end of brokerStatsTopicsQuery, whose
\* result the caller copies into its own map.
EndBroker ==
  /\ worker = "storing" /\ topics = {}
  /\ StoreMaster(brokerMaster)
  /\ pollMaster' = IF brokerMaster # NoMaster THEN brokerMaster ELSE pollMaster
  /\ brokerMaster' = NoMaster
  /\ worker' = "polling"
  /\ UNCHANGED <<host, answers, toAsk, topics, handlerVars, clientVars>>

\* All brokers are asked; the worker waits for its ticker.
EndPoll ==
  /\ worker = "polling" /\ toAsk = {}
  /\ StoreMaster(pollMaster)
  /\ pollMaster' = NoMaster
  /\ worker' = "idle"
  /\ UNCHANGED <<host, answers, toAsk, topics, brokerMaster, handlerVars, clientVars>>

-----------------------------------------------------------------------------
(* The handler and its client *)

\* The client begins a walk.
BeginWalk ==
  /\ client = "idle"
  /\ client' = "asking"
  /\ owed' = CountTopics.topics
  /\ UNCHANGED <<host, answers, age, workerVars, handlerVars, pageSize, offset>>
  /\ UNCHANGED <<collected, appeared, vanished>>

\* PaginateTopicStats: the read transaction, and which mandatory topics are not
\* among the rows it gave.
ReadRows ==
  /\ client = "asking"
  /\ client' = "waiting"
  /\ snapshot' = Fresh(age)
  /\ \E names \in Mandatory : missing' = names \ Fresh(age)
  /\ UNCHANGED <<host, answers, age, workerVars, pageSize, offset>>
  /\ UNCHANGED <<collected, owed, appeared, vanished>>

\* A missing topic is fetched, and stored under its name with one more prefix
\* whatever kind of topic it is; the rows of the answer stay as they were read.
FetchMandatory(name) ==
  /\ client = "waiting" /\ name \in missing
  /\ missing' = missing \ {name}
  /\ IF HasStats(name[2])
     THEN Insert(PartitionPrefix(name))
     ELSE UNCHANGED <<age, appeared, vanished>>
  /\ UNCHANGED <<host, answers, workerVars, snapshot, clientVars>>

\* newOffset.
PageEnd ==
  LET totalSize == Cardinality(snapshot)
  IN  IF offset + pageSize > totalSize THEN totalSize ELSE offset + pageSize

Position(id) == Cardinality({x \in snapshot : Before(x, id)})

\* Mutant: the page begins behind the row at the offset.
Page_SkipsFirst == {id \in snapshot : Position(id) > offset /\ Position(id) < PageEnd}

\* Mutant: the page begins one row too early.
Page_Overlaps == {id \in snapshot : Position(id) + 1 >= offset /\ Position(id) < PageEnd}

\* keys[offset:newOffset] of the sorted keys.
Page == {id \in snapshot : Position(id) >= offset /\ Position(id) < PageEnd}

\* The client has all it can get.
EndWalk ==
  /\ client' = "finished" /\ offset' = 0
  /\ collected' = {} /\ owed' = {} /\ appeared' = FALSE /\ vanished' = FALSE

\* The page of the answer; it is empty, with 204, when there are no rows or the
\* offset is beyond them.  The client goes on until its offset is the total.
Answer ==
  /\ client = "waiting" /\ missing = {}
  /\ snapshot' = {}
  /\ IF PageEnd = Cardinality(snapshot)
     THEN EndWalk
     ELSE /\ client' = "asking" /\ offset' = PageEnd
          /\ collected' = collected \cup Page /\ owed' = owed \ Page
          /\ UNCHANGED <<appeared, vanished>>
  /\ UNCHANGED <<host, answers, age, workerVars, missing, pageSize>>

WorkerNext ==
  \/ StartPoll \/ EndBroker \/ EndPoll
  \/ \E b \in Brokers : Ask(b)
  \/ \E t \in Topics : StoreTopic(t)

ClientNext ==
  \/ BeginWalk \/ ReadRows \/ Answer
  \/ \E name \in UNION Mandatory : FetchMandatory(name)

Next ==
  \/ Outage \/ Tick \/ WorkerNext \/ ClientNext
  \/ \E t \in Topics : Rehost(t)

Spec == Init /\ [][Next]_vars

(* The worker is one goroutine that never ends, and time passes.  Nothing   *)
(* is assumed of Pulsar, nor of the handlers and their clients.             *)
FairSpec == Spec /\ WF_vars(WorkerNext) /\ WF_vars(Tick)

-----------------------------------------------------------------------------
(* Properties *)

Answers == client = "waiting" /\ client' # "waiting"

\* A client that paged to the end has every topic that was listed when it began,
\* if no row expired on the way: rows that the worker or the mandatory list add
\* between two pages make no page skip a topic (PaginateTopicStats).
WalkComplete == [][Answers /\ client' = "finished" /\ ~vanished => owed \subseteq Page]_vars

\* No topic is on two pages of a walk during which no row was added, whatever
\* rows expired on the way (PaginateTopicStats).
WalkDistinct == [][Answers /\ ~appeared => Page \cap collected = {}]_vars

\* A deleted topic finally is no longer listed, although nothing ever removes
\* its row and an answer from before the deletion may refresh it.
Forgotten ==
  \A t \in Topics :
    <>[](host[t] = NoBroker) => <>[](Row(t) \notin CountTopics.topics)
===============================================================================
