--------------------------- MODULE TopicStatsProofs ---------------------------
(***************************************************************************)
(* Proofs about TopicStats, for any topics, brokers, lists of mandatory    *)
(* topics, page sizes and time to live of a row.                           *)
(***************************************************************************)
EXTENDS TopicStats, FiniteSetTheorems, TLAPS

\* The rows in front of a key, were S the rows of a page's request.
Ahead(S, id) == Cardinality({x \in S : Before(x, id)})

Walking == client \in {"asking", "waiting"}

\* The table has finitely many rows, and so has an answer.
FiniteInv ==
  /\ IsFiniteSet({id \in IDs : age[id] # NoRow})
  /\ IsFiniteSet(snapshot)

IdleInv == client = "idle" => offset = 0 /\ collected = {}

\* While no row vanishes, what is owed stays behind the offset: rows that appear
\* can only move it further back.
OwedInv ==
  Walking /\ ~vanished =>
    /\ owed \subseteq Fresh(age)
    /\ \A id \in owed : Ahead(Fresh(age), id) >= offset
    /\ client = "waiting" =>
         /\ owed \subseteq snapshot /\ snapshot \subseteq Fresh(age)
         /\ \A id \in owed : Ahead(snapshot, id) >= offset

\* While no row appears, what was collected stays in front of the offset: rows
\* that vanish can only move it further to the front.
CollectedInv ==
  Walking /\ ~appeared =>
    /\ \A id \in collected : Ahead(Fresh(age), id) < offset
    /\ client = "waiting" =>
         /\ Fresh(age) \subseteq snapshot
         /\ \A id \in collected : Ahead(snapshot, id) < offset

TypeInv == TypeOK /\ FiniteInv
IInv == TypeInv /\ IdleInv /\ OwedInv /\ CollectedInv

-----------------------------------------------------------------------------
(* Rows in front of a key *)

LEMMA AheadMonotone ==
  ASSUME NEW S, NEW T, IsFiniteSet(T), S \subseteq T, NEW id
  PROVE  /\ Ahead(S, id) \in Nat /\ Ahead(T, id) \in Nat
         /\ Ahead(S, id) <= Ahead(T, id)
<1> DEFINE A == {x \in S : Before(x, id)}
           B == {x \in T : Before(x, id)}
<1>1. A \subseteq B /\ B \subseteq T
  OBVIOUS
<1>2. IsFiniteSet(B) /\ IsFiniteSet(A)
  BY <1>1, FS_Subset
<1> QED
  BY <1>1, <1>2, FS_Subset, FS_CardinalityType DEF Ahead

\* A row of the answer has a position in it.
LEMMA AheadOfMember ==
  ASSUME NEW S \in SUBSET IDs, IsFiniteSet(S), NEW id \in S
  PROVE  Ahead(S, id) < Cardinality(S)
<1> DEFINE A == {x \in S : Before(x, id)}
<1>1. ~Before(id, id)
  <2>1. id[2] \in Nat /\ id[1] \in Nat
    <3>1. id \in Nat \X Nat
      BY TopicsAssumption, MandatoryAssumption DEF IDs, Row, PartitionPrefix, Masters
    <3> QED
      BY <3>1
  <2> QED
    BY <2>1 DEF Before
<1>2. A \subseteq S \ {id}
  BY <1>1
<1>3. IsFiniteSet(S \ {id}) /\ Cardinality(S \ {id}) = Cardinality(S) - 1
  BY FS_RemoveElement
<1>4. Cardinality(A) <= Cardinality(S \ {id})
  BY <1>2, <1>3, FS_Subset
<1>5. IsFiniteSet(A) /\ Cardinality(A) \in Nat /\ Cardinality(S) \in Nat
  BY <1>2, <1>3, FS_Subset, FS_CardinalityType
<1> QED
  BY <1>3, <1>4, <1>5 DEF Ahead

LEMMA FreshFinite ==
  ASSUME NEW ages \in [IDs -> 0..NoRow], IsFiniteSet({id \in IDs : ages[id] # NoRow})
  PROVE  IsFiniteSet(Fresh(ages))
<1>1. Fresh(ages) \subseteq {id \in IDs : ages[id] # NoRow}
  BY ExpiryAssumption DEF Fresh, NoRow
<1> QED
  BY <1>1, FS_Subset

LEMMA FreshPrimed ==
  /\ Fresh(age)' = Fresh(age')
  /\ \A id : Ahead(Fresh(age), id)' = Ahead(Fresh(age'), id)
  /\ \A id : Ahead(snapshot, id)' = Ahead(snapshot', id)
BY DEF Fresh, Ahead, Before

-----------------------------------------------------------------------------
(* Changes of the table *)

walkVars == <<client, pageSize, offset, snapshot, collected, owed>>

LEMMA StoredTypes ==
  ASSUME TypeInv, NEW id \in IDs, Stored(id)
  PROVE  /\ age' \in [IDs -> 0..NoRow] /\ IsFiniteSet({i \in IDs : age'[i] # NoRow})
         /\ appeared' \in BOOLEAN /\ vanished' \in BOOLEAN
<1>1. age' = [age EXCEPT ![id] = 0]
  BY DEF Stored, Table
<1>2. age \in [IDs -> 0..NoRow] /\ 0 \in 0..NoRow
  BY ExpiryAssumption DEF TypeInv, TypeOK, NoRow
<1>3. {i \in IDs : age'[i] # NoRow} \subseteq {i \in IDs : age[i] # NoRow} \cup {id}
  BY <1>1, <1>2
<1>4. IsFiniteSet({i \in IDs : age[i] # NoRow} \cup {id})
  BY FS_AddElement DEF TypeInv, FiniteInv
<1>5. appeared' \in BOOLEAN /\ vanished' \in BOOLEAN
  BY DEF Stored, Table, TypeInv, TypeOK
<1> QED
  BY <1>1, <1>2, <1>3, <1>4, <1>5, FS_Subset

\* The invariants of the walk hold on when rows appear and vanish.
LEMMA TableKeeps ==
  ASSUME TypeInv, OwedInv, CollectedInv, NEW ages, Table(ages), UNCHANGED walkVars,
         age' \in [IDs -> 0..NoRow], IsFiniteSet({i \in IDs : age'[i] # NoRow})
  PROVE  OwedInv' /\ CollectedInv'
<1>1. IsFiniteSet(Fresh(age)) /\ IsFiniteSet(Fresh(age')) /\ offset \in Nat
  BY FreshFinite DEF TypeInv, TypeOK, FiniteInv
<1>2. /\ client' = client /\ offset' = offset /\ snapshot' = snapshot
      /\ collected' = collected /\ owed' = owed /\ Walking' = Walking
  BY DEF walkVars, Walking
<1>3. OwedInv'
  <2> SUFFICES ASSUME Walking, ~vanished'
               PROVE  /\ owed \subseteq Fresh(age')
                      /\ \A id \in owed : Ahead(Fresh(age'), id) >= offset
                      /\ client = "waiting" =>
                           /\ owed \subseteq snapshot /\ snapshot \subseteq Fresh(age')
                           /\ \A id \in owed : Ahead(snapshot, id) >= offset
    BY <1>2, FreshPrimed DEF OwedInv
  <2>1. ~vanished /\ Fresh(age) \subseteq Fresh(age')
    BY DEF Table, Walking
  <2>2. ASSUME NEW id \in owed PROVE Ahead(Fresh(age'), id) >= offset
    <3>1. Ahead(Fresh(age), id) >= offset
      BY <2>1 DEF OwedInv
    <3> QED
      BY <1>1, <2>1, <3>1, AheadMonotone
  <2> QED
    BY <2>1, <2>2 DEF OwedInv
<1>4. CollectedInv'
  <2> SUFFICES ASSUME Walking, ~appeared'
               PROVE  /\ \A id \in collected : Ahead(Fresh(age'), id) < offset
                      /\ client = "waiting" =>
                           /\ Fresh(age') \subseteq snapshot
                           /\ \A id \in collected : Ahead(snapshot, id) < offset
    BY <1>2, FreshPrimed DEF CollectedInv
  <2>1. ~appeared /\ Fresh(age') \subseteq Fresh(age)
    BY DEF Table, Walking
  <2>2. ASSUME NEW id \in collected PROVE Ahead(Fresh(age'), id) < offset
    <3>1. Ahead(Fresh(age), id) < offset
      BY <2>1 DEF CollectedInv
    <3> QED
      BY <1>1, <2>1, <3>1, AheadMonotone
  <2> QED
    BY <2>1, <2>2 DEF CollectedInv
<1> QED
  BY <1>3, <1>4

\* Nothing that leaves table and walk alone disturbs them.
LEMMA WalkUntouched ==
  ASSUME IInv, UNCHANGED <<age, appeared, vanished>>, UNCHANGED walkVars
  PROVE  FiniteInv' /\ IdleInv' /\ OwedInv' /\ CollectedInv'
<1>1. UNCHANGED <<age, appeared, vanished, client, offset, snapshot, collected, owed>>
  BY DEF walkVars
<1>2. FiniteInv' /\ IdleInv'
  BY <1>1 DEF IInv, TypeInv, FiniteInv, IdleInv
<1>3. Fresh(age') = Fresh(age) /\ Walking' = Walking
  BY <1>1 DEF Walking
<1>4. OwedInv'
  BY <1>1, <1>3, FreshPrimed DEF IInv, OwedInv
<1>5. CollectedInv'
  BY <1>1, <1>3, FreshPrimed DEF IInv, CollectedInv
<1> QED
  BY <1>2, <1>4, <1>5

LEMMA StoredKeeps ==
  ASSUME IInv, NEW id \in IDs, Stored(id), UNCHANGED walkVars
  PROVE  FiniteInv' /\ IdleInv' /\ OwedInv' /\ CollectedInv'
<1>1. /\ age' \in [IDs -> 0..NoRow] /\ IsFiniteSet({i \in IDs : age'[i] # NoRow})
  BY StoredTypes DEF IInv
<1>2. FiniteInv' /\ IdleInv'
  BY <1>1 DEF IInv, TypeInv, FiniteInv, IdleInv, walkVars
<1>3. Table([age EXCEPT ![id] = 0])
  BY DEF Stored
<1> QED
  BY <1>1, <1>2, <1>3, TableKeeps DEF IInv

\* The rest of TypeOK, which is about neither the table nor the walk.
WorkerTypes ==
  /\ host \in [Topics -> Brokers \cup {NoBroker}] /\ answers \in BOOLEAN
  /\ worker \in {"idle", "polling", "storing"}
  /\ toAsk \subseteq Brokers /\ topics \subseteq Topics
  /\ brokerMaster \in Masters \cup {NoMaster} /\ pollMaster \in Masters \cup {NoMaster}
  /\ missing \subseteq UNION Mandatory

\* A step that stores one row, or none.
Stores == (\E id \in IDs : Stored(id)) \/ UNCHANGED <<age, appeared, vanished>>

LEMMA StoresKeeps ==
  ASSUME IInv, Stores, UNCHANGED walkVars, WorkerTypes'
  PROVE  IInv'
<1>1. FiniteInv' /\ IdleInv' /\ OwedInv' /\ CollectedInv'
  BY StoredKeeps, WalkUntouched DEF Stores
<1>2. age' \in [IDs -> 0..NoRow] /\ appeared' \in BOOLEAN /\ vanished' \in BOOLEAN
  <2>1. CASE \E id \in IDs : Stored(id)
    BY <2>1, StoredTypes DEF IInv
  <2>2. CASE UNCHANGED <<age, appeared, vanished>>
    BY <2>2 DEF IInv, TypeInv, TypeOK
  <2> QED
    BY <2>1, <2>2 DEF Stores
<1>3. TypeOK'
  BY <1>2 DEF IInv, TypeInv, TypeOK, WorkerTypes, walkVars
<1> QED
  BY <1>1, <1>3 DEF IInv, TypeInv

LEMMA MasterID ==
  ASSUME NEW m \in Masters
  PROVE  PartitionPrefix(Row(m)) \in IDs
BY DEF IDs

LEMMA StoreMasterStores ==
  ASSUME NEW m \in Masters \cup {NoMaster}, StoreMaster(m)
  PROVE  Stores
BY MasterID DEF StoreMaster, Insert, Stores

LEMMA ClusterKeeps ==
  ASSUME IInv, Outage \/ \E t \in Topics : Rehost(t)
  PROVE  IInv'
<1>1. UNCHANGED <<age, worker, toAsk, topics, brokerMaster, pollMaster, missing, appeared, vanished>>
  BY DEF Outage, Rehost, workerVars, handlerVars
<1>2. UNCHANGED walkVars
  BY DEF Outage, Rehost, handlerVars, clientVars, walkVars
<1>3. host' \in [Topics -> Brokers \cup {NoBroker}] /\ answers' \in BOOLEAN
  BY DEF Outage, Rehost, IInv, TypeInv, TypeOK
<1>4. WorkerTypes' /\ Stores
  BY <1>1, <1>3 DEF WorkerTypes, Stores, IInv, TypeInv, TypeOK
<1> QED
  BY <1>2, <1>4, StoresKeeps

LEMMA WorkerKeeps ==
  ASSUME IInv, WorkerNext
  PROVE  IInv'
<1>1. WorkerTypes
  BY DEF IInv, TypeInv, TypeOK, WorkerTypes
<1>2. CASE StartPoll
  <2>1. UNCHANGED walkVars /\ Stores
    BY <1>2 DEF StartPoll, handlerVars, clientVars, walkVars, Stores
  <2>2. WorkerTypes'
    BY <1>1, <1>2 DEF StartPoll, handlerVars, WorkerTypes
  <2> QED
    BY <2>1, <2>2, StoresKeeps
<1>3. ASSUME NEW b \in Brokers, Ask(b) PROVE IInv'
  <2>1. UNCHANGED walkVars /\ Stores
    BY <1>3 DEF Ask, handlerVars, clientVars, walkVars, Stores
  <2>2. WorkerTypes'
    BY <1>1, <1>3 DEF Ask, handlerVars, WorkerTypes
  <2> QED
    BY <2>1, <2>2, StoresKeeps
<1>4. ASSUME NEW t \in Topics, StoreTopic(t) PROVE IInv'
  <2>1. UNCHANGED walkVars
    BY <1>4 DEF StoreTopic, handlerVars, clientVars, walkVars
  <2>2. Stores
    BY <1>4 DEF StoreTopic, Insert, Stores, IDs
  <2>3. WorkerTypes'
    BY <1>1, <1>4 DEF StoreTopic, handlerVars, WorkerTypes, Masters
  <2> QED
    BY <2>1, <2>2, <2>3, StoresKeeps
<1>5. CASE EndBroker
  <2>1. UNCHANGED walkVars
    BY <1>5 DEF EndBroker, handlerVars, clientVars, walkVars
  <2>2. Stores
    BY <1>1, <1>5, StoreMasterStores DEF EndBroker, WorkerTypes
  <2>3. WorkerTypes'
    BY <1>1, <1>5 DEF EndBroker, handlerVars, WorkerTypes
  <2> QED
    BY <2>1, <2>2, <2>3, StoresKeeps
<1>6. CASE EndPoll
  <2>1. UNCHANGED walkVars
    BY <1>6 DEF EndPoll, handlerVars, clientVars, walkVars
  <2>2. Stores
    BY <1>1, <1>6, StoreMasterStores DEF EndPoll, WorkerTypes
  <2>3. WorkerTypes'
    BY <1>1, <1>6 DEF EndPoll, handlerVars, WorkerTypes
  <2> QED
    BY <2>1, <2>2, <2>3, StoresKeeps
<1> QED
  BY <1>2, <1>3, <1>4, <1>5, <1>6 DEF WorkerNext

LEMMA FetchMandatoryKeeps ==
  ASSUME IInv, NEW name \in UNION Mandatory, FetchMandatory(name)
  PROVE  IInv'
<1>1. UNCHANGED walkVars
  BY DEF FetchMandatory, clientVars, walkVars
<1>2. Stores
  BY DEF FetchMandatory, Insert, Stores, IDs
<1>3. WorkerTypes'
  BY DEF FetchMandatory, workerVars, WorkerTypes, IInv, TypeInv, TypeOK
<1> QED
  BY <1>1, <1>2, <1>3, StoresKeeps

LEMMA TickKeeps ==
  ASSUME IInv, Tick
  PROVE  IInv'
<1> DEFINE ages == [id \in IDs |-> IF age[id] < Expiry THEN age[id] + 1 ELSE age[id]]
<1>1. Table(ages) /\ UNCHANGED <<host, answers, workerVars, handlerVars, clientVars>>
  BY DEF Tick
<1>2. UNCHANGED walkVars
  BY <1>1 DEF handlerVars, clientVars, walkVars
<1>3. \A id \in IDs : /\ ages[id] \in 0..NoRow
                      /\ ages[id] # NoRow => age[id] # NoRow
  BY ExpiryAssumption DEF IInv, TypeInv, TypeOK, NoRow
<1>4. ages \in [IDs -> 0..NoRow]
  BY <1>3
<1> HIDE DEF ages
<1>5. age' = ages
  BY <1>1 DEF Table
<1>6. IsFiniteSet({id \in IDs : age'[id] # NoRow})
  <2>1. {id \in IDs : age'[id] # NoRow} \subseteq {id \in IDs : age[id] # NoRow}
    BY <1>3, <1>5
  <2> QED
    BY <2>1, FS_Subset DEF IInv, TypeInv, FiniteInv
<1>7. OwedInv' /\ CollectedInv'
  BY <1>1, <1>2, <1>4, <1>5, <1>6, TableKeeps DEF IInv
<1>8. FiniteInv' /\ IdleInv'
  BY <1>2, <1>6 DEF IInv, TypeInv, FiniteInv, IdleInv, walkVars
<1>9. TypeOK'
  <2>1. appeared' \in BOOLEAN /\ vanished' \in BOOLEAN
    BY <1>1 DEF Table, IInv, TypeInv, TypeOK
  <2> QED
    BY <1>1, <1>4, <1>5, <2>1
       DEF workerVars, handlerVars, clientVars, IInv, TypeInv, TypeOK
<1> QED
  BY <1>7, <1>8, <1>9 DEF IInv, TypeInv

-----------------------------------------------------------------------------
(* The walk *)

LEMMA BeginWalkKeeps ==
  ASSUME IInv, BeginWalk
  PROVE  IInv'
<1>1. /\ client = "idle" /\ client' = "asking" /\ owed' = Fresh(age)
      /\ UNCHANGED <<host, answers, age, worker, toAsk, topics, brokerMaster, pollMaster>>
      /\ UNCHANGED <<snapshot, missing, pageSize, offset, collected, appeared, vanished>>
  BY DEF BeginWalk, CountTopics, workerVars, handlerVars
<1>2. offset = 0 /\ collected = {}
  BY <1>1 DEF IInv, IdleInv
<1>3. IsFiniteSet(Fresh(age)) /\ Fresh(age) \subseteq IDs
  BY FreshFinite DEF IInv, TypeInv, TypeOK, FiniteInv, Fresh
<1>4. TypeOK' /\ FiniteInv' /\ IdleInv'
  BY <1>1, <1>3 DEF IInv, TypeInv, TypeOK, FiniteInv, IdleInv
<1>5. OwedInv'
  <2>1. Fresh(age') = Fresh(age)
    BY <1>1
  <2>2. \A id : Ahead(Fresh(age'), id) >= offset
    BY <1>2, <1>3, <2>1, AheadMonotone
  <2> QED
    BY <1>1, <2>1, <2>2, FreshPrimed DEF OwedInv
<1>6. CollectedInv'
  BY <1>1, <1>2 DEF CollectedInv
<1> QED
  BY <1>4, <1>5, <1>6 DEF IInv, TypeInv

LEMMA ReadRowsKeeps ==
  ASSUME IInv, ReadRows
  PROVE  IInv'
<1>1. /\ client = "asking" /\ client' = "waiting" /\ snapshot' = Fresh(age)
      /\ \E names \in Mandatory : missing' = names \ Fresh(age)
      /\ UNCHANGED <<host, answers, age, worker, toAsk, topics, brokerMaster, pollMaster>>
      /\ UNCHANGED <<pageSize, offset, collected, owed, appeared, vanished>>
  BY DEF ReadRows, workerVars
<1>2. IsFiniteSet(Fresh(age)) /\ Fresh(age) \subseteq IDs
  BY FreshFinite DEF IInv, TypeInv, TypeOK, FiniteInv, Fresh
<1>3. TypeOK' /\ FiniteInv' /\ IdleInv'
  BY <1>1, <1>2 DEF IInv, TypeInv, TypeOK, FiniteInv, IdleInv
<1>4. Fresh(age') = Fresh(age)
  BY <1>1
<1>5. OwedInv'
  BY <1>1, <1>4, FreshPrimed DEF IInv, OwedInv, Walking
<1>6. CollectedInv'
  BY <1>1, <1>4, FreshPrimed DEF IInv, CollectedInv, Walking
<1> QED
  BY <1>3, <1>5, <1>6 DEF IInv, TypeInv

\* Where the page ends, and what is on it.
LEMMA PageProperties ==
  ASSUME TypeInv
  PROVE  /\ Cardinality(snapshot) \in Nat /\ offset \in Nat
         /\ PageEnd \in Nat
         /\ PageEnd # Cardinality(snapshot) => offset < PageEnd
         /\ \A id : id \in Page <=> /\ id \in snapshot
                                    /\ Ahead(snapshot, id) >= offset
                                    /\ Ahead(snapshot, id) < PageEnd
<1>1. Cardinality(snapshot) \in Nat /\ offset \in Nat /\ pageSize \in Nat \ {0}
  BY PagesAssumption, FS_CardinalityType DEF TypeInv, TypeOK, FiniteInv
<1>2. PageEnd \in Nat /\ (PageEnd # Cardinality(snapshot) => offset < PageEnd)
  BY <1>1 DEF PageEnd
<1>3. \A id : Position(id) = Ahead(snapshot, id)
  BY DEF Position, Ahead
<1> QED
  BY <1>1, <1>2, <1>3 DEF Page

\* The last page has all that is still owed.
LEMMA LastPage ==
  ASSUME IInv, Answer, client' = "finished", ~vanished
  PROVE  owed \subseteq Page
<1>1. client = "waiting" /\ PageEnd = Cardinality(snapshot)
  BY DEF Answer
<1>2. /\ owed \subseteq snapshot
      /\ \A id \in owed : Ahead(snapshot, id) >= offset
  BY <1>1 DEF IInv, OwedInv, Walking
<1>3. \A id \in snapshot : Ahead(snapshot, id) < PageEnd
  BY <1>1, AheadOfMember DEF IInv, TypeInv, TypeOK, FiniteInv
<1> QED
  BY <1>2, <1>3, PageProperties DEF IInv

\* A page has nothing of the pages before.
LEMMA NewPage ==
  ASSUME IInv, client = "waiting", ~appeared
  PROVE  Page \cap collected = {}
<1>1. \A id \in collected : Ahead(snapshot, id) < offset
  BY DEF IInv, CollectedInv, Walking
<1>2. \A id \in Page : Ahead(snapshot, id) >= offset
  BY PageProperties DEF IInv
<1>3. offset \in Nat /\ \A id : Ahead(snapshot, id) \in Nat
  BY AheadMonotone DEF IInv, TypeInv, TypeOK, FiniteInv
<1> QED
  BY <1>1, <1>2, <1>3

LEMMA AnswerKeeps ==
  ASSUME IInv, Answer
  PROVE  IInv'
<1>1. /\ client = "waiting" /\ snapshot' = {}
      /\ UNCHANGED <<host, answers, age, worker, toAsk, topics, brokerMaster, pollMaster, missing, pageSize>>
  BY DEF Answer, workerVars
<1>2. IsFiniteSet(snapshot')
  BY <1>1, FS_EmptySet
<1>3. CASE PageEnd = Cardinality(snapshot)
  <2>1. /\ client' = "finished" /\ offset' = 0 /\ collected' = {} /\ owed' = {}
        /\ appeared' = FALSE /\ vanished' = FALSE
    BY <1>3 DEF Answer, EndWalk
  <2>2. TypeOK' /\ FiniteInv' /\ IdleInv'
    BY <1>1, <1>2, <2>1 DEF IInv, TypeInv, TypeOK, FiniteInv, IdleInv
  <2>3. OwedInv' /\ CollectedInv'
    BY <2>1 DEF OwedInv, CollectedInv, Walking
  <2> QED
    BY <2>2, <2>3 DEF IInv, TypeInv
<1>4. CASE PageEnd # Cardinality(snapshot)
  <2>1. /\ client' = "asking" /\ offset' = PageEnd
        /\ collected' = collected \cup Page /\ owed' = owed \ Page
        /\ appeared' = appeared /\ vanished' = vanished
    BY <1>4 DEF Answer
  <2>2. /\ Cardinality(snapshot) \in Nat /\ offset \in Nat /\ PageEnd \in Nat
        /\ offset < PageEnd
        /\ \A id : id \in Page <=> /\ id \in snapshot
                                   /\ Ahead(snapshot, id) >= offset
                                   /\ Ahead(snapshot, id) < PageEnd
    BY <1>4, PageProperties DEF IInv
  <2>3. IsFiniteSet(Fresh(age)) /\ IsFiniteSet(snapshot) /\ Fresh(age') = Fresh(age)
    BY <1>1, FreshFinite DEF IInv, TypeInv, TypeOK, FiniteInv
  <2>4. TypeOK' /\ FiniteInv' /\ IdleInv'
    <3>1. Page \subseteq IDs
      BY <2>2 DEF IInv, TypeInv, TypeOK
    <3> QED
      BY <1>1, <1>2, <2>1, <2>2, <3>1 DEF IInv, TypeInv, TypeOK, FiniteInv, IdleInv
  <2>5. OwedInv'
    <3> SUFFICES ASSUME ~vanished
                 PROVE  /\ owed \ Page \subseteq Fresh(age)
                        /\ \A id \in owed \ Page : Ahead(Fresh(age), id) >= PageEnd
      BY <1>1, <2>1, <2>3, FreshPrimed DEF OwedInv
    <3>1. /\ owed \subseteq Fresh(age) /\ owed \subseteq snapshot
          /\ snapshot \subseteq Fresh(age)
          /\ \A id \in owed : Ahead(snapshot, id) >= offset
      BY <1>1 DEF IInv, OwedInv, Walking
    <3>2. ASSUME NEW id \in owed \ Page PROVE Ahead(Fresh(age), id) >= PageEnd
      <4>1. ~(Ahead(snapshot, id) < PageEnd)
        BY <2>2, <3>1
      <4>2. /\ Ahead(snapshot, id) \in Nat /\ Ahead(Fresh(age), id) \in Nat
            /\ Ahead(snapshot, id) <= Ahead(Fresh(age), id)
        BY <2>3, <3>1, AheadMonotone
      <4> QED
        BY <2>2, <4>1, <4>2
    <3> QED
      BY <3>1, <3>2
  <2>6. CollectedInv'
    <3> SUFFICES ASSUME ~appeared, NEW id \in collected \cup Page
                 PROVE  Ahead(Fresh(age), id) < PageEnd
      BY <1>1, <2>1, <2>3, FreshPrimed DEF CollectedInv
    <3>1. /\ Fresh(age) \subseteq snapshot
          /\ \A i \in collected : Ahead(snapshot, i) < offset
      BY <1>1 DEF IInv, CollectedInv, Walking
    <3>2. /\ Ahead(snapshot, id) \in Nat /\ Ahead(Fresh(age), id) \in Nat
          /\ Ahead(Fresh(age), id) <= Ahead(snapshot, id)
      BY <2>3, <3>1, AheadMonotone
    <3>3. Ahead(snapshot, id) < PageEnd
      BY <2>2, <3>1, <3>2
    <3> QED
      BY <2>2, <3>2, <3>3
  <2> QED
    BY <2>4, <2>5, <2>6 DEF IInv, TypeInv
<1> QED
  BY <1>3, <1>4

-----------------------------------------------------------------------------
(* The theorems *)

LEMMA InitInv == Init => IInv
<1> SUFFICES ASSUME Init PROVE IInv
  OBVIOUS
<1>1. {id \in IDs : age[id] # NoRow} = {}
  BY DEF Init
<1>2. FiniteInv /\ IdleInv
  BY <1>1, FS_EmptySet DEF Init, FiniteInv, IdleInv
<1>3. TypeOK
  <2>1. NoRow \in 0..NoRow
    BY ExpiryAssumption DEF NoRow
  <2>2. age \in [IDs -> 0..NoRow]
    BY <2>1 DEF Init
  <2> QED
    BY <2>2 DEF Init, TypeOK
<1>4. OwedInv /\ CollectedInv
  BY DEF Init, OwedInv, CollectedInv, Walking
<1> QED
  BY <1>2, <1>3, <1>4 DEF IInv, TypeInv

LEMMA NextInv == IInv /\ [Next]_vars => IInv'
<1> SUFFICES ASSUME IInv, [Next]_vars PROVE IInv'
  OBVIOUS
<1>1. CASE Outage \/ \E t \in Topics : Rehost(t)
  BY <1>1, ClusterKeeps
<1>2. CASE Tick
  BY <1>2, TickKeeps
<1>3. CASE WorkerNext
  BY <1>3, WorkerKeeps
<1>4. CASE ClientNext
  BY <1>4, BeginWalkKeeps, ReadRowsKeeps, AnswerKeeps, FetchMandatoryKeeps DEF ClientNext
<1>5. CASE UNCHANGED vars
  <2>1. UNCHANGED walkVars /\ Stores
    BY <1>5 DEF vars, handlerVars, clientVars, walkVars, Stores
  <2>2. WorkerTypes'
    BY <1>5 DEF vars, workerVars, handlerVars, WorkerTypes, IInv, TypeInv, TypeOK
  <2> QED
    BY <2>1, <2>2, StoresKeeps
<1> QED
  BY <1>1, <1>2, <1>3, <1>4, <1>5 DEF Next

\* Only an answer ends the waiting of the client.
LEMMA AnswersAreAnswer ==
  ASSUME [Next]_vars, Answers
  PROVE  Answer
<1>1. client' # client /\ client = "waiting"
  BY DEF Answers
<1>2. client' = client \/ Answer \/ BeginWalk \/ ReadRows
  <2>1. UNCHANGED vars => client' = client
    BY DEF vars, clientVars
  <2>2. Outage \/ Tick \/ WorkerNext \/ (\E t \in Topics : Rehost(t)) => client' = client
    BY DEF Outage, Tick, Rehost, WorkerNext, StartPoll, EndBroker, EndPoll, Ask, StoreTopic, clientVars
  <2>3. (\E name \in UNION Mandatory : FetchMandatory(name)) => client' = client
    BY DEF FetchMandatory, clientVars
  <2> QED
    BY <2>1, <2>2, <2>3 DEF Next, ClientNext
<1> QED
  BY <1>1, <1>2 DEF BeginWalk, ReadRows

\* The state of the table, the worker, the handler and the client is what the
\* code can hold, however many rows there come to be.
THEOREM TypeCorrect == Spec => []TypeOK
<1>1. IInv => TypeOK
  BY DEF IInv, TypeInv
<1> QED
  BY <1>1, InitInv, NextInv, PTL DEF Spec

\* A client that paged to the end has every topic that was listed when it began,
\* if no row expired on the way, whatever the worker and the mandatory lists add
\* between the pages (PaginateTopicStats).
THEOREM WalksAreComplete == Spec => WalkComplete
<1>1. IInv /\ [Next]_vars => (Answers /\ client' = "finished" /\ ~vanished => owed \subseteq Page)
  BY AnswersAreAnswer, LastPage
<1> QED
  BY <1>1, InitInv, NextInv, PTL DEF Spec, WalkComplete

\* No topic is on two pages of a walk during which no row was added, whatever
\* rows expired on the way (PaginateTopicStats).
THEOREM WalksAreDistinct == Spec => WalkDistinct
<1>1. IInv /\ [Next]_vars => (Answers /\ ~appeared => Page \cap collected = {})
  BY NewPage DEF Answers
<1> QED
  BY <1>1, InitInv, NextInv, PTL DEF Spec, WalkDistinct
===============================================================================
