--------------------------- MODULE FunctionMapProofs ---------------------------
(***************************************************************************)
(* Proofs about FunctionMap, for every set of functions and workers, every *)
(* topic, and any number of requests, errors of the reader and restarts.   *)
(***************************************************************************)
EXTENDS FunctionMap, FiniteSetTheorems, SequenceTheorems, TLAPS

-----------------------------------------------------------------------------
(* Types.  A handler goes on with the entry of its function, so it has to   *)
(* be known that the entry is there.                                        *)

RequestsKnown ==
  \A h \in Handlers : pc[h] \in {"asking", "storing", "calling"} => request[h] \in Functions /\ KeyOf(request[h]) \in Known

TypeInv == TypeOK /\ RequestsKnown

LEMMA KeyInKeys ==
  ASSUME NEW f \in Functions
  PROVE  KeyOf(f) \in Keys
BY DEF Keys

\* What is known of an entry that is there.
LEMMA KnownEntry ==
  ASSUME TypeOK, NEW k \in Known
  PROVE  /\ k \in Keys /\ functionMap[k].fn \in Functions /\ functionMap[k].component \in Components
         /\ functionMap[k].status \in Statuses
         /\ functionMap[k] = [fn |-> functionMap[k].fn, component |-> functionMap[k].component,
                              status |-> functionMap[k].status]
BY DEF TypeOK, Known, Entries

LEMMA EntryIsKnown ==
  ASSUME NEW f \in Functions, NEW c, NEW s
  PROVE  [fn |-> f, component |-> c, status |-> s] # NoEntry
BY NoneAssumption DEF NoEntry

\* ReadRecord adds the entry of the record's key, or leaves the map as it is.
LEMMA ReadRecordMap ==
  ASSUME TypeOK, ReadRecord
  PROVE  /\ pos + 1 \in 1..Len(topic) /\ topic[pos + 1].fn \in Functions
         /\ functionMap' \in [Keys -> Entries]
         /\ Known' = Known \cup {KeyOf(topic[pos + 1].fn)}
         /\ \A k \in Known : functionMap'[k] = functionMap[k]
         /\ \A k \in Known' \ Known :
              /\ k = KeyOf(topic[pos + 1].fn)
              /\ functionMap'[k] = [fn |-> topic[pos + 1].fn, component |-> topic[pos + 1].component,
                                    status |-> NoStatus]
<1> DEFINE r == topic[pos + 1]
           entry == [fn |-> r.fn, component |-> r.component, status |-> NoStatus]
<1>1. pos + 1 \in 1..Len(topic) /\ r \in [fn : Functions, component : Components]
  <2>1. topic \in Seq([fn : Functions, component : Components]) /\ pos \in 0..Len(topic)
    BY DEF TypeOK
  <2>2. pos + 1 \in 1..Len(topic)
    <3>1. Len(topic) \in Nat /\ pos < Len(topic)
      BY <2>1 DEF ReadRecord
    <3> QED
      BY <2>1, <3>1
  <2> QED
    BY <2>1, <2>2, ElementOfSeq
<1>2. r.fn \in Functions /\ r.component \in Components /\ KeyOf(r.fn) \in Keys
  BY <1>1, KeyInKeys
<1>3. NoStatus \in Statuses
  BY FunctionBoundsAssumption DEF NoStatus, Statuses
<1>4. entry \in Entries /\ entry # NoEntry
  BY <1>2, <1>3, EntryIsKnown DEF Entries
<1>5. functionMap' = IF KeyOf(r.fn) \in Known THEN functionMap
                     ELSE [functionMap EXCEPT ![KeyOf(r.fn)] = entry]
  BY DEF ReadRecord, WriteFunctionMapIfNotExist
<1> HIDE DEF r, entry
<1>6. functionMap \in [Keys -> Entries] /\ Known \subseteq Keys
  BY DEF TypeOK, Known
<1>7. CASE KeyOf(r.fn) \in Known
  BY <1>1, <1>2, <1>5, <1>6, <1>7 DEF Known, r
<1>8. CASE KeyOf(r.fn) \notin Known
  <2>1. functionMap' = [functionMap EXCEPT ![KeyOf(r.fn)] = entry]
    BY <1>5, <1>8
  <2>2. functionMap' \in [Keys -> Entries]
    BY <1>4, <1>6, <2>1
  <2>3. functionMap'[KeyOf(r.fn)] = entry
    BY <1>2, <1>6, <2>1
  <2>4. \A k \in Keys : k # KeyOf(r.fn) => functionMap'[k] = functionMap[k]
    BY <1>6, <2>1
  <2>5. Known' = Known \cup {KeyOf(r.fn)}
    BY <1>2, <1>4, <2>3, <2>4 DEF Known
  <2> QED
    BY <1>1, <1>2, <1>6, <1>8, <2>2, <2>3, <2>4, <2>5 DEF r, entry
<1> QED
  BY <1>7, <1>8

\* StoreWorker only changes the status of the entry of its request.
LEMMA StoreWorkerMap ==
  ASSUME TypeInv, NEW h \in Handlers, StoreWorker(h)
  PROVE  LET key == KeyOf(request[h])
         IN  /\ key \in Known
             /\ functionMap'[key] = [functionMap[key] EXCEPT !.status = [worker |-> workerID[h], age |-> 0]]
             /\ \A k \in Keys : k # key => functionMap'[k] = functionMap[k]
             /\ functionMap' \in [Keys -> Entries] /\ Known' = Known
<1> DEFINE key == KeyOf(request[h])
           status == [worker |-> workerID[h], age |-> 0]
<1>1. key \in Known /\ key \in Keys
  BY DEF StoreWorker, TypeInv, RequestsKnown, Known
<1>2. functionMap \in [Keys -> Entries]
  BY DEF TypeInv, TypeOK
<1>3. functionMap' = [functionMap EXCEPT ![key].status = status]
  BY DEF StoreWorker
<1>4. status \in Statuses
  BY FunctionBoundsAssumption DEF TypeInv, TypeOK, Statuses
<1> HIDE DEF key, status
<1>5. functionMap'[key] = [functionMap[key] EXCEPT !.status = status]
  BY <1>1, <1>2, <1>3
<1>6. \A k \in Keys : k # key => functionMap'[k] = functionMap[k]
  BY <1>2, <1>3
<1>7. functionMap'[key] \in Entries /\ functionMap'[key] # NoEntry
  <2>1. /\ functionMap[key].fn \in Functions /\ functionMap[key].component \in Components
        /\ functionMap[key] = [fn |-> functionMap[key].fn, component |-> functionMap[key].component,
                               status |-> functionMap[key].status]
    BY <1>1, KnownEntry DEF TypeInv
  <2>2. functionMap'[key] = [fn |-> functionMap[key].fn, component |-> functionMap[key].component,
                             status |-> status]
    BY <1>5, <2>1
  <2> QED
    BY <1>4, <2>1, <2>2, EntryIsKnown DEF Entries
<1>8. functionMap' = [functionMap EXCEPT ![key] = functionMap'[key]]
  BY <1>2, <1>3, <1>5
<1>9. functionMap' \in [Keys -> Entries]
  BY <1>2, <1>7, <1>8
<1>10. Known' = Known
  BY <1>1, <1>6, <1>7 DEF Known
<1> QED
  BY <1>1, <1>5, <1>6, <1>9, <1>10 DEF key, status

\* Time only changes the age of a status.
LEMMA TickMap ==
  ASSUME TypeOK, Tick
  PROVE  /\ functionMap' \in [Keys -> Entries] /\ Known' = Known
         /\ \A k \in Known : /\ functionMap'[k].fn = functionMap[k].fn
                             /\ functionMap'[k].component = functionMap[k].component
                             /\ functionMap'[k].status.worker = functionMap[k].status.worker
<1> DEFINE Aged(k) == [functionMap[k] EXCEPT !.status.age = @ + 1]
<1>1. \A k \in Keys : functionMap'[k] = IF functionMap[k].status.age < QueryTimeout
                                        THEN Aged(k) ELSE functionMap[k]
  BY DEF Tick
<1>2. ASSUME NEW k \in Known
      PROVE  /\ functionMap'[k] \in Entries /\ functionMap'[k] # NoEntry
             /\ functionMap'[k].fn = functionMap[k].fn
             /\ functionMap'[k].component = functionMap[k].component
             /\ functionMap'[k].status.worker = functionMap[k].status.worker
  <2>1. /\ k \in Keys /\ functionMap[k].fn \in Functions /\ functionMap[k].component \in Components
        /\ functionMap[k].status \in Statuses
        /\ functionMap[k] = [fn |-> functionMap[k].fn, component |-> functionMap[k].component,
                             status |-> functionMap[k].status]
    BY KnownEntry
  <2>2. CASE functionMap[k].status.age < QueryTimeout
    <3>1. functionMap'[k] = [fn |-> functionMap[k].fn, component |-> functionMap[k].component,
             status |-> [worker |-> functionMap[k].status.worker, age |-> functionMap[k].status.age + 1]]
      BY <1>1, <2>1, <2>2 DEF Statuses
    <3>2. [worker |-> functionMap[k].status.worker, age |-> functionMap[k].status.age + 1] \in Statuses
      BY <2>1, <2>2, FunctionBoundsAssumption DEF Statuses
    <3> HIDE DEF Aged
    <3> QED
      BY <2>1, <3>1, <3>2, EntryIsKnown DEF Entries
  <2>3. CASE ~(functionMap[k].status.age < QueryTimeout)
    BY <1>1, <2>1, <2>3 DEF TypeOK, Known
  <2> QED
    BY <2>2, <2>3
<1>3. ASSUME NEW k \in Keys, k \notin Known
      PROVE  functionMap'[k] = NoEntry
  <2>1. functionMap[k] = NoEntry
    BY <1>3 DEF Known
  <2>2. ~(functionMap[k].status.age < QueryTimeout)
    BY <2>1, FunctionBoundsAssumption DEF NoEntry, NoStatus
  <2> QED
    BY <1>1, <2>1, <2>2
<1>4. \A k \in Keys : functionMap'[k] \in Entries
  BY <1>2, <1>3 DEF Entries
<1>5. functionMap' = [k \in Keys |-> functionMap'[k]]
  BY <1>1 DEF Tick
<1>6. functionMap' \in [Keys -> Entries]
  BY <1>4, <1>5
<1>7. Known' = Known
  BY <1>2, <1>3 DEF Known
<1> QED
  BY <1>2, <1>6, <1>7

LEMMA TypeStep == TypeInv /\ [Next]_vars => TypeInv'
<1> SUFFICES ASSUME TypeInv, [Next]_vars PROVE TypeInv'
  OBVIOUS
<1> USE DEF TypeInv, Steps
<1>0. /\ topic \in Seq([fn : Functions, component : Components]) /\ Len(topic) \in Nat
      /\ pos \in 0..Len(topic) /\ MaxRecords \in Nat /\ Len(topic) <= MaxRecords
      /\ \A h \in Handlers : pc[h] \in Steps
  BY FunctionBoundsAssumption DEF TypeOK
<1>1. ASSUME NEW f \in Functions, Create(f) PROVE TypeInv'
  <2>1. PICK type \in Components, w \in Placement[f] :
           /\ topic' = Append(topic, [fn |-> f, component |-> type])
           /\ runs' = [runs EXCEPT ![f] = [worker |-> w, component |-> type]]
    BY <1>1 DEF Create, Record
  <2>2. w \in Workers
    BY FunctionsAssumption
  <2>3. /\ topic' \in Seq([fn : Functions, component : Components])
        /\ Len(topic') = Len(topic) + 1
    BY <1>0, <2>1, AppendProperties
  <2>4. Len(topic') <= MaxRecords /\ pos \in 0..Len(topic')
    BY <1>0, <1>1, <2>3 DEF Create
  <2>5. runs' \in [Functions -> [worker : Workers, component : Components] \cup {NoInstance}]
    BY <2>1, <2>2 DEF TypeOK
  <2> QED
    BY <1>1, <2>3, <2>4, <2>5 DEF Create, readerVars, handlerVars, TypeOK, RequestsKnown, Known
<1>2. ASSUME NEW f \in Functions, Delete(f) PROVE TypeInv'
  <2>1. /\ topic' = Append(topic, [fn |-> f, component |-> runs[f].component])
        /\ runs' = [runs EXCEPT ![f] = NoInstance]
    BY <1>2 DEF Delete, Record
  <2>2. runs[f].component \in Components
    BY <1>2 DEF TypeOK, Delete
  <2>3. /\ topic' \in Seq([fn : Functions, component : Components])
        /\ Len(topic') = Len(topic) + 1
    BY <1>0, <2>1, <2>2, AppendProperties
  <2>4. Len(topic') <= MaxRecords /\ pos \in 0..Len(topic')
    BY <1>0, <1>2, <2>3 DEF Delete
  <2> QED
    BY <1>2, <2>1, <2>3, <2>4 DEF Delete, readerVars, handlerVars, TypeOK, RequestsKnown, Known
<1>3. ASSUME NEW f \in Functions, Move(f) PROVE TypeInv'
  <2>1. PICK w \in Placement[f] : runs' = [runs EXCEPT ![f].worker = w]
    BY <1>3 DEF Move
  <2>2. w \in Workers
    BY FunctionsAssumption
  <2>3. runs[f] \in [worker : Workers, component : Components]
    BY <1>3 DEF Move, TypeOK
  <2>4. runs' \in [Functions -> [worker : Workers, component : Components] \cup {NoInstance}]
    BY <2>1, <2>2, <2>3 DEF TypeOK
  <2> QED
    BY <1>3, <2>4 DEF Move, readerVars, handlerVars, TypeOK, RequestsKnown, Known
<1>4. CASE OpenReader \/ Watchdog
  BY <1>0, <1>4 DEF OpenReader, Watchdog, pulsarVars, handlerVars, TypeOK, RequestsKnown, Known
<1>5. CASE ReaderError
  <2>1. errors' \in 0..MaxErrors
    BY <1>5, FunctionBoundsAssumption DEF ReaderError, TypeOK
  <2> QED
    BY <1>0, <1>5, <2>1 DEF ReaderError, pulsarVars, handlerVars, TypeOK, RequestsKnown, Known
<1>6. CASE ReadRecord
  <2>1. functionMap' \in [Keys -> Entries] /\ Known \subseteq Known' /\ pos' \in 0..Len(topic')
    BY <1>0, <1>6, ReadRecordMap DEF ReadRecord, pulsarVars
  <2> QED
    BY <1>6, <2>1 DEF ReadRecord, pulsarVars, handlerVars, TypeOK, RequestsKnown
<1>7. CASE Tick
  <2>1. functionMap' \in [Keys -> Entries] /\ Known' = Known
    BY <1>7, TickMap
  <2> QED
    BY <1>7, <2>1 DEF Tick, pulsarVars, readerVars, handlerVars, TypeOK, RequestsKnown
<1>8. CASE Crash
  <2>1. functionMap' \in [Keys -> Entries] /\ crashes' \in 0..MaxCrashes
    BY <1>8, FunctionBoundsAssumption DEF Crash, TypeOK, Entries
  <2> QED
    BY <1>0, <1>8, <2>1 DEF Crash, pulsarVars, TypeOK, RequestsKnown
<1>9. ASSUME NEW h \in Handlers, StatusAnswered(h) PROVE TypeInv'
  <2>1. KeyOf(request[h]) \in Known
    BY <1>9 DEF StatusAnswered, RequestsKnown
  <2>2. functionMap[KeyOf(request[h])].fn \in Functions
    BY <2>1, KnownEntry
  <2>3. workerID' \in [Handlers -> Workers \cup {None}]
    BY <1>9, <2>2 DEF StatusAnswered, TypeOK
  <2>4. pc' = [pc EXCEPT ![h] = "storing"]
    BY <1>9 DEF StatusAnswered, Goto
  <2> QED
    BY <1>9, <2>3, <2>4 DEF StatusAnswered, pulsarVars, readerVars, TypeOK, RequestsKnown, Known
<1>10. ASSUME NEW h \in Handlers, Done(h)
       PROVE  /\ pc' = [pc EXCEPT ![h] = "idle"]
              /\ pc' \in [Handlers -> Steps]
              /\ request' \in [Handlers -> Functions \cup {NoFunction}]
              /\ workerID' \in [Handlers -> Workers \cup {None}]
              /\ \A g \in Handlers : g # h => request'[g] = request[g]
  BY <1>10 DEF Done, Goto, TypeOK
<1>11. ASSUME NEW h \in Handlers, StatusFails(h) PROVE TypeInv'
  BY <1>10, <1>11 DEF StatusFails, pulsarVars, readerVars, TypeOK, RequestsKnown, Known
<1>12. ASSUME NEW h \in Handlers, StoreWorker(h) PROVE TypeInv'
  <2>1. functionMap' \in [Keys -> Entries] /\ Known' = Known
    BY <1>12, StoreWorkerMap
  <2>2. pc' = [pc EXCEPT ![h] = "calling"] /\ pc[h] = "storing"
    BY <1>12 DEF StoreWorker, Goto
  <2> QED
    BY <1>12, <2>1, <2>2 DEF StoreWorker, pulsarVars, readerVars, TypeOK, RequestsKnown
<1>13. ASSUME NEW h \in Handlers, NEW f \in Functions, AskStatus(h, f) PROVE TypeInv'
  <2>1. pc' = [pc EXCEPT ![h] = "asking"] /\ request' = [request EXCEPT ![h] = f]
    BY <1>13 DEF AskStatus, Goto
  <2> QED
    BY <1>13, <2>1 DEF AskStatus, pulsarVars, readerVars, TypeOK, RequestsKnown, Known
<1>14. CASE UNCHANGED vars
  BY <1>14 DEF vars, pulsarVars, readerVars, handlerVars, TypeOK, RequestsKnown, Known
<1>15. ASSUME NEW h \in Handlers, Return(h) PROVE TypeInv'
  BY <1>10, <1>15 DEF Return, pulsarVars, readerVars, TypeOK, RequestsKnown, Known
<1>16. ASSUME NEW h \in Handlers, NEW f \in Functions, NEW w \in Workers,
              NEW label \in {"named", "calling"}, Call(h, f, w, label),
              label = "calling" => KeyOf(f) \in Known
       PROVE  TypeInv'
  <2>1. /\ pc' = [pc EXCEPT ![h] = label] /\ request' = [request EXCEPT ![h] = f]
        /\ workerID' = [workerID EXCEPT ![h] = w]
    BY <1>16 DEF Call, Goto
  <2>2. pc' \in [Handlers -> Steps] /\ request' \in [Handlers -> Functions \cup {NoFunction}]
        /\ workerID' \in [Handlers -> Workers \cup {None}]
    BY <1>16, <2>1 DEF TypeOK
  <2>3. RequestsKnown'
    BY <1>16, <2>1 DEF Call, RequestsKnown, Known, TypeOK, KeyOf
  <2> QED
    BY <1>16, <2>2, <2>3 DEF Call, pulsarVars, readerVars, TypeOK
<1>17. ASSUME NEW h \in Handlers, NEW f \in Functions, CallNamed(h, f) \/ CallKnown(h, f)
       PROVE  TypeInv'
  <2>1. CASE CallNamed(h, f)
    <3>1. PICK w \in Named : Call(h, f, w, "named")
      BY <2>1 DEF CallNamed
    <3>2. w \in Workers /\ "named" \in {"named", "calling"} /\ "named" # "calling"
      BY FunctionsAssumption
    <3> QED
      BY <1>16, <3>1, <3>2
  <2>2. CASE CallKnown(h, f)
    <3>1. KeyOf(f) \in Known /\ functionMap[KeyOf(f)].status.worker \in Workers
      BY <2>2, KnownEntry DEF CallKnown, Usable, Statuses
    <3>2. Call(h, f, functionMap[KeyOf(f)].status.worker, "calling")
      BY <2>2 DEF CallKnown
    <3> QED
      BY <1>16, <3>1, <3>2
  <2> QED
    BY <1>17, <2>1, <2>2
<1> QED
  BY <1>1, <1>2, <1>3, <1>4, <1>5, <1>6, <1>7, <1>8, <1>9, <1>11, <1>12, <1>13, <1>14, <1>15, <1>17
  DEF Next, ReaderNext, HandlerNext, Request

LEMMA TypeInit == Init => TypeInv
<1> SUFFICES ASSUME Init PROVE TypeInv
  OBVIOUS
<1>1. <<>> \in Seq([fn : Functions, component : Components]) /\ Len(<<>>) = 0
  OBVIOUS
<1> QED
  BY <1>1, FunctionBoundsAssumption DEF Init, TypeInv, TypeOK, RequestsKnown, Entries, Steps

\* Every variable keeps its type, and a handler that waits for Pulsar or is
\* about to store a worker finds the entry of its function in the map
\* (UpdateWorkerIDInFunctionMap).
THEOREM TypeCorrect == Spec => []TypeInv
BY TypeInit, TypeStep, PTL DEF Spec

-----------------------------------------------------------------------------
(* The inductive invariant: a record the reader is past is in the map, an   *)
(* entry is the first record of its key, a worker is one of the entry's     *)
(* function, and what runs in Pulsar has a record.                          *)

IsFirst(i, k) ==
  /\ KeyOf(topic[i].fn) = k
  /\ \A j \in 1..(i - 1) : KeyOf(topic[j].fn) # k

ReplayedKnown == reader = "reading" => \A i \in 1..pos : KeyOf(topic[i].fn) \in Known

EntriesFirst ==
  \A k \in Known : \E i \in 1..Len(topic) :
    /\ IsFirst(i, k)
    /\ functionMap[k].fn = topic[i].fn /\ functionMap[k].component = topic[i].component

WorkerOfEntry ==
  /\ \A k \in Known : functionMap[k].status.worker # None =>
       functionMap[k].status.worker \in Placement[functionMap[k].fn]
  /\ \A h \in Handlers : pc[h] \in {"storing", "calling"} =>
       workerID[h] \in Placement[functionMap[KeyOf(request[h])].fn]

RunningRecorded ==
  \A f \in Functions : runs[f] # NoInstance =>
    /\ runs[f].worker \in Placement[f]
    /\ \E i \in 1..Len(topic) : topic[i].fn = f

Inv == TypeInv /\ ReplayedKnown /\ EntriesFirst /\ WorkerOfEntry /\ RunningRecorded

LEMMA InvInit == Init => Inv
<1> SUFFICES ASSUME Init PROVE Inv
  OBVIOUS
<1>1. Known = {} /\ \A f \in Functions : runs[f] = NoInstance
  BY DEF Init, Known
<1> QED
  BY <1>1, TypeInit DEF Init, Inv, ReplayedKnown, EntriesFirst, WorkerOfEntry, RunningRecorded

\* A record that is added changes nothing about the records before.
LEMMA RecordAdded ==
  ASSUME TypeOK, NEW f \in Functions, NEW type \in Components, Record(f, type)
  PROVE  /\ Len(topic') = Len(topic) + 1 /\ Len(topic) \in Nat
         /\ \A i \in 1..Len(topic) : topic'[i] = topic[i]
         /\ topic'[Len(topic) + 1].fn = f
         /\ \A i \in 1..Len(topic) : \A k : IsFirst(i, k) => IsFirst(i, k)'
<1>1. topic \in Seq([fn : Functions, component : Components])
  BY DEF TypeOK
<1>2. topic' = Append(topic, [fn |-> f, component |-> type])
  BY DEF Record
<1>3. /\ Len(topic') = Len(topic) + 1 /\ Len(topic) \in Nat
      /\ \A i \in 1..Len(topic) : topic'[i] = topic[i]
      /\ topic'[Len(topic) + 1] = [fn |-> f, component |-> type]
  BY <1>1, <1>2, AppendProperties
<1>4. ASSUME NEW i \in 1..Len(topic), NEW k, IsFirst(i, k)
      PROVE  KeyOf(topic'[i].fn) = k /\ \A j \in 1..(i - 1) : KeyOf(topic'[j].fn) # k
  <2>1. \A j \in 1..(i - 1) : j \in 1..Len(topic)
    BY <1>3
  <2> QED
    BY <1>3, <1>4, <2>1 DEF IsFirst
<1> QED
  BY <1>3, <1>4 DEF IsFirst, KeyOf

\* What a new record leaves of the invariant, whatever has become of the function.
LEMMA RecordStep ==
  ASSUME Inv, NEW f \in Functions, NEW type \in Components, Record(f, type),
         UNCHANGED <<readerVars, functionMap, handlerVars>>
  PROVE  ReplayedKnown' /\ EntriesFirst' /\ WorkerOfEntry'
<1>1. Known' = Known
  BY DEF Known
<1>2. /\ Len(topic') = Len(topic) + 1 /\ Len(topic) \in Nat
      /\ \A i \in 1..Len(topic) : topic'[i] = topic[i] /\ i \in 1..Len(topic')
      /\ \A i \in 1..Len(topic) : \A k : IsFirst(i, k) => IsFirst(i, k)'
  BY RecordAdded DEF Inv, TypeInv
<1>3. ReplayedKnown'
  <2>1. pos' = pos /\ reader' = reader /\ pos \in 0..Len(topic)
    BY DEF readerVars, Inv, TypeInv, TypeOK
  <2>2. \A i \in 1..pos : topic'[i] = topic[i]
    BY <1>2, <2>1
  <2> QED
    BY <1>1, <2>1, <2>2 DEF ReplayedKnown, Inv, KeyOf
<1>4. EntriesFirst'
  <2> SUFFICES ASSUME NEW k \in Known
               PROVE  \E i \in 1..Len(topic') :
                        /\ IsFirst(i, k)' /\ functionMap[k].fn = topic'[i].fn
                        /\ functionMap[k].component = topic'[i].component
    BY <1>1 DEF EntriesFirst
  <2>1. PICK i \in 1..Len(topic) :
           /\ IsFirst(i, k) /\ functionMap[k].fn = topic[i].fn
           /\ functionMap[k].component = topic[i].component
    BY DEF Inv, EntriesFirst
  <2> QED
    BY <1>2, <2>1
<1>5. WorkerOfEntry'
  BY <1>1 DEF Inv, WorkerOfEntry, handlerVars, KeyOf
<1> QED
  BY <1>3, <1>4, <1>5

\* Nothing of the topic, of the instances or of what is in the map has changed
\* but the reader and the handlers may have.
LEMMA SameEntries ==
  ASSUME Inv, Known' = Known, UNCHANGED pulsarVars,
         \A k \in Known : /\ functionMap'[k].fn = functionMap[k].fn
                          /\ functionMap'[k].component = functionMap[k].component
  PROVE  EntriesFirst' /\ RunningRecorded'
BY DEF Inv, EntriesFirst, RunningRecorded, pulsarVars, IsFirst, KeyOf

LEMMA InvStep == Inv /\ [Next]_vars => Inv'
<1> SUFFICES ASSUME Inv, [Next]_vars PROVE Inv'
  OBVIOUS
<1> USE DEF Inv
<1>0. TypeInv' /\ TypeOK
  BY TypeStep DEF TypeInv
<1>1. ASSUME NEW f \in Functions, Create(f) PROVE Inv'
  <2>1. PICK type \in Components, w \in Placement[f] :
           /\ Record(f, type)
           /\ runs' = [runs EXCEPT ![f] = [worker |-> w, component |-> type]]
    BY <1>1 DEF Create
  <2>2. RunningRecorded'
    <3> SUFFICES ASSUME NEW g \in Functions, runs'[g] # NoInstance
                 PROVE  /\ runs'[g].worker \in Placement[g]
                        /\ \E i \in 1..Len(topic') : topic'[i].fn = g
      BY DEF RunningRecorded
    <3>1. CASE g = f
      <4>1. runs'[g].worker = w
        BY <2>1, <3>1, <1>0 DEF TypeOK
      <4>2. Len(topic) + 1 \in 1..Len(topic') /\ topic'[Len(topic) + 1].fn = f
        BY <1>0, <2>1, RecordAdded
      <4> QED
        BY <3>1, <4>1, <4>2
    <3>2. CASE g # f
      <4>1. runs'[g] = runs[g]
        BY <1>0, <2>1, <3>2 DEF TypeOK
      <4>2. PICK i \in 1..Len(topic) : topic[i].fn = g
        BY <4>1 DEF RunningRecorded
      <4>3. topic'[i].fn = g /\ i \in 1..Len(topic')
        BY <1>0, <2>1, <4>2, RecordAdded
      <4> QED
        BY <4>1, <4>3 DEF RunningRecorded
    <3> QED
      BY <3>1, <3>2
  <2> QED
    BY <1>0, <1>1, <2>1, <2>2, RecordStep DEF Create
<1>2. ASSUME NEW f \in Functions, Delete(f) PROVE Inv'
  <2>1. Record(f, runs[f].component) /\ runs' = [runs EXCEPT ![f] = NoInstance]
    BY <1>2 DEF Delete
  <2>2. runs[f].component \in Components
    BY <1>0, <1>2 DEF TypeOK, Delete
  <2>3. RunningRecorded'
    <3> SUFFICES ASSUME NEW g \in Functions, runs'[g] # NoInstance
                 PROVE  /\ runs'[g].worker \in Placement[g]
                        /\ \E i \in 1..Len(topic') : topic'[i].fn = g
      BY DEF RunningRecorded
    <3>1. runs'[g] = runs[g]
      BY <1>0, <2>1 DEF TypeOK
    <3>2. PICK i \in 1..Len(topic) : topic[i].fn = g
      BY <3>1 DEF RunningRecorded
    <3>3. topic'[i].fn = g /\ i \in 1..Len(topic')
      BY <1>0, <2>1, <2>2, <3>2, RecordAdded
    <3> QED
      BY <3>1, <3>3 DEF RunningRecorded
  <2> QED
    BY <1>0, <1>2, <2>1, <2>2, <2>3, RecordStep DEF Delete
<1>3. ASSUME NEW f \in Functions, Move(f) PROVE Inv'
  <2>1. PICK w \in Placement[f] : runs' = [runs EXCEPT ![f].worker = w]
    BY <1>3 DEF Move
  <2>2. /\ runs[f] \in [worker : Workers, component : Components] /\ runs[f] # NoInstance
        /\ runs'[f].worker = w
    BY <1>0, <1>3, <2>1 DEF Move, TypeOK
  <2>3. \A g \in Functions : g # f => runs'[g] = runs[g]
    BY <1>0, <2>1 DEF TypeOK
  <2>4. RunningRecorded'
    BY <1>3, <2>2, <2>3 DEF RunningRecorded, Move
  <2> QED
    BY <1>0, <1>3, <2>4 DEF Move, readerVars, handlerVars, ReplayedKnown, EntriesFirst,
       WorkerOfEntry, Known, IsFirst, KeyOf
<1>4. ASSUME reader' # "reading" \/ pos' = 0, UNCHANGED <<pulsarVars, functionMap, handlerVars>>
      PROVE  Inv'
  <2>1. Known' = Known
    BY <1>4 DEF Known
  <2>2. ReplayedKnown'
    BY <1>4 DEF ReplayedKnown
  <2> QED
    BY <1>0, <1>4, <2>1, <2>2, SameEntries DEF handlerVars, WorkerOfEntry, KeyOf
<1>5. CASE OpenReader \/ Watchdog \/ ReaderError
  BY <1>4, <1>5 DEF OpenReader, Watchdog, ReaderError
<1>6. CASE ReadRecord
  <2> DEFINE r == topic[pos + 1]
  <2>1. /\ pos + 1 \in 1..Len(topic) /\ Known' = Known \cup {KeyOf(r.fn)}
        /\ \A k \in Known : functionMap'[k] = functionMap[k]
        /\ \A k \in Known' \ Known :
             /\ k = KeyOf(r.fn)
             /\ functionMap'[k] = [fn |-> r.fn, component |-> r.component, status |-> NoStatus]
    BY <1>0, <1>6, ReadRecordMap
  <2>2. /\ topic' = topic /\ runs' = runs /\ pos' = pos + 1 /\ pos \in Nat
        /\ reader = "reading" /\ UNCHANGED handlerVars
    BY <1>0, <1>6 DEF ReadRecord, pulsarVars, TypeOK
  <2>3. ReplayedKnown'
    <3>1. \A i \in 1..(pos + 1) : i \in 1..pos \/ i = pos + 1
      BY <2>2
    <3> QED
      BY <2>1, <2>2, <3>1 DEF ReplayedKnown, KeyOf
  <2>4. EntriesFirst'
    <3> SUFFICES ASSUME NEW k \in Known'
                 PROVE  \E i \in 1..Len(topic) :
                          /\ IsFirst(i, k) /\ functionMap'[k].fn = topic[i].fn
                          /\ functionMap'[k].component = topic[i].component
      BY <2>2 DEF EntriesFirst, IsFirst, KeyOf
    <3>1. CASE k \in Known
      BY <2>1, <3>1 DEF EntriesFirst
    <3>2. CASE k \notin Known
      <4>1. k = KeyOf(r.fn) /\ functionMap'[k].fn = r.fn /\ functionMap'[k].component = r.component
        BY <2>1, <3>2
      <4>2. \A j \in 1..((pos + 1) - 1) : KeyOf(topic[j].fn) # k
        BY <2>2, <3>2 DEF ReplayedKnown
      <4> QED
        BY <2>1, <4>1, <4>2 DEF IsFirst
    <3> QED
      BY <3>1, <3>2
  <2>5. WorkerOfEntry'
    <3>1. ASSUME NEW k \in Known', functionMap'[k].status.worker # None
          PROVE  functionMap'[k].status.worker \in Placement[functionMap'[k].fn]
      BY <2>1, <3>1 DEF WorkerOfEntry, NoStatus
    <3>2. ASSUME NEW h \in Handlers, pc[h] \in {"storing", "calling"}
          PROVE  workerID[h] \in Placement[functionMap'[KeyOf(request[h])].fn]
      BY <2>1, <3>2 DEF WorkerOfEntry, TypeInv, RequestsKnown
    <3> QED
      BY <2>2, <3>1, <3>2 DEF WorkerOfEntry, handlerVars, KeyOf
  <2>6. RunningRecorded'
    BY <2>2 DEF RunningRecorded
  <2> QED
    BY <1>0, <2>3, <2>4, <2>5, <2>6
<1>7. CASE Tick
  <2>1. /\ Known' = Known
        /\ \A k \in Known : /\ functionMap'[k].fn = functionMap[k].fn
                            /\ functionMap'[k].component = functionMap[k].component
                            /\ functionMap'[k].status.worker = functionMap[k].status.worker
    BY <1>0, <1>7, TickMap
  <2>2. UNCHANGED <<pulsarVars, readerVars, handlerVars>>
    BY <1>7 DEF Tick
  <2>3. \A h \in Handlers : pc[h] \in {"storing", "calling"} => KeyOf(request[h]) \in Known
    BY DEF TypeInv, RequestsKnown
  <2>4. WorkerOfEntry'
    BY <2>1, <2>2, <2>3 DEF WorkerOfEntry, handlerVars, KeyOf
  <2>5. ReplayedKnown'
    BY <2>1, <2>2 DEF ReplayedKnown, readerVars, pulsarVars, KeyOf
  <2> QED
    BY <1>0, <2>1, <2>2, <2>4, <2>5, SameEntries
<1>8. CASE Crash
  <2>1. Known' = {}
    BY <1>8 DEF Crash, Known
  <2>2. RunningRecorded' /\ ReplayedKnown'
    BY <1>8 DEF Crash, pulsarVars, RunningRecorded, ReplayedKnown
  <2>3. \A h \in Handlers : pc'[h] = "idle"
    BY <1>8 DEF Crash
  <2> QED
    BY <1>0, <2>1, <2>2, <2>3 DEF EntriesFirst, WorkerOfEntry
<1>9. ASSUME NEW h \in Handlers, StatusAnswered(h) PROVE Inv'
  <2>1. KeyOf(request[h]) \in Known
    BY <1>9 DEF StatusAnswered, TypeInv, RequestsKnown
  <2> DEFINE fn == functionMap[KeyOf(request[h])].fn
  <2>2. fn \in Functions /\ runs[fn] # NoInstance
    BY <1>0, <1>9, <2>1, KnownEntry DEF StatusAnswered
  <2>3. runs[fn].worker \in Placement[fn]
    BY <2>2 DEF RunningRecorded
  <2>4. /\ workerID' = [workerID EXCEPT ![h] = runs[fn].worker]
        /\ pc' = [pc EXCEPT ![h] = "storing"] /\ request' = request
        /\ UNCHANGED <<pulsarVars, readerVars, functionMap>>
    BY <1>9 DEF StatusAnswered, Goto
  <2>5. Known' = Known
    BY <2>4 DEF Known
  <2>6. ASSUME NEW g \in Handlers, pc'[g] \in {"storing", "calling"}
        PROVE  workerID'[g] \in Placement[functionMap[KeyOf(request[g])].fn]
    <3>1. CASE g = h
      BY <1>0, <2>3, <2>4, <3>1 DEF TypeOK
    <3>2. CASE g # h
      BY <1>0, <2>4, <2>6, <3>2 DEF TypeOK, WorkerOfEntry
    <3> QED
      BY <3>1, <3>2
  <2>7. WorkerOfEntry'
    BY <2>4, <2>5, <2>6 DEF WorkerOfEntry, KeyOf
  <2>8. ReplayedKnown'
    BY <2>4, <2>5 DEF ReplayedKnown, readerVars, pulsarVars, KeyOf
  <2> QED
    BY <1>0, <2>4, <2>5, <2>7, <2>8, SameEntries
<1>10. ASSUME NEW h \in Handlers, Done(h), NEW g \in Handlers, pc'[g] \in {"storing", "calling"}
       PROVE  /\ g # h /\ pc[g] \in {"storing", "calling"}
              /\ workerID'[g] = workerID[g] /\ request'[g] = request[g]
  BY <1>0, <1>10 DEF Done, Goto, TypeOK
<1>11. ASSUME NEW h \in Handlers, StatusFails(h) PROVE Inv'
  <2>1. UNCHANGED <<pulsarVars, readerVars, functionMap>> /\ Known' = Known
    BY <1>11 DEF StatusFails, Known
  <2>2. WorkerOfEntry'
    BY <1>10, <1>11, <2>1 DEF StatusFails, WorkerOfEntry, KeyOf
  <2>3. ReplayedKnown'
    BY <2>1 DEF ReplayedKnown, readerVars, pulsarVars, KeyOf
  <2> QED
    BY <1>0, <2>1, <2>2, <2>3, SameEntries
<1>12. ASSUME NEW h \in Handlers, StoreWorker(h) PROVE Inv'
  <2> DEFINE key == KeyOf(request[h])
  <2>1. /\ key \in Known /\ Known' = Known /\ Known \subseteq Keys
        /\ functionMap'[key] = [functionMap[key] EXCEPT !.status = [worker |-> workerID[h], age |-> 0]]
        /\ \A k \in Keys : k # key => functionMap'[k] = functionMap[k]
    BY <1>12, StoreWorkerMap DEF Known
  <2>2. /\ functionMap[key] = [fn |-> functionMap[key].fn, component |-> functionMap[key].component,
                               status |-> functionMap[key].status]
    BY <1>0, <2>1, KnownEntry
  <2>3. /\ functionMap'[key].fn = functionMap[key].fn
        /\ functionMap'[key].component = functionMap[key].component
        /\ functionMap'[key].status.worker = workerID[h]
    BY <2>1, <2>2
  <2>4. \A k \in Known : /\ functionMap'[k].fn = functionMap[k].fn
                         /\ functionMap'[k].component = functionMap[k].component
    BY <2>1, <2>3
  <2>5. /\ UNCHANGED <<pulsarVars, readerVars, request, workerID>>
        /\ pc' = [pc EXCEPT ![h] = "calling"] /\ pc[h] = "storing"
    BY <1>12 DEF StoreWorker, Goto
  <2>6. workerID[h] \in Placement[functionMap[key].fn]
    BY <2>5 DEF WorkerOfEntry
  <2> HIDE DEF key
  <2>7. ASSUME NEW k \in Known, functionMap'[k].status.worker # None
        PROVE  functionMap'[k].status.worker \in Placement[functionMap'[k].fn]
    <3>1. CASE k = key
      BY <2>3, <2>6, <3>1
    <3>2. CASE k # key
      BY <2>1, <2>7, <3>2 DEF WorkerOfEntry
    <3> QED
      BY <3>1, <3>2
  <2>8. ASSUME NEW g \in Handlers, pc'[g] \in {"storing", "calling"}
        PROVE  workerID'[g] \in Placement[functionMap'[KeyOf(request'[g])].fn]
    <3>1. /\ pc[g] \in {"storing", "calling"} /\ KeyOf(request[g]) \in Known
          /\ workerID'[g] = workerID[g] /\ request'[g] = request[g]
      BY <1>0, <2>5, <2>8 DEF TypeInv, TypeOK, RequestsKnown
    <3> QED
      BY <2>4, <3>1 DEF WorkerOfEntry
  <2>9. WorkerOfEntry'
    BY <2>1, <2>7, <2>8 DEF WorkerOfEntry, KeyOf
  <2>10. ReplayedKnown'
    BY <2>1, <2>5 DEF ReplayedKnown, readerVars, pulsarVars, KeyOf
  <2> QED
    BY <1>0, <2>1, <2>4, <2>5, <2>9, <2>10, SameEntries
<1>13. ASSUME NEW h \in Handlers, NEW f \in Functions, AskStatus(h, f) PROVE Inv'
  <2>1. /\ pc' = [pc EXCEPT ![h] = "asking"] /\ request' = [request EXCEPT ![h] = f]
        /\ workerID' = workerID /\ UNCHANGED <<pulsarVars, readerVars, functionMap>>
    BY <1>13 DEF AskStatus, Goto
  <2>2. Known' = Known
    BY <2>1 DEF Known
  <2>3. \A g \in Handlers : pc'[g] \in {"storing", "calling"} =>
          pc[g] \in {"storing", "calling"} /\ request'[g] = request[g]
    BY <1>0, <2>1 DEF TypeOK
  <2>4. WorkerOfEntry'
    BY <2>1, <2>2, <2>3 DEF WorkerOfEntry, KeyOf
  <2>5. ReplayedKnown'
    BY <2>1, <2>2 DEF ReplayedKnown, readerVars, pulsarVars, KeyOf
  <2> QED
    BY <1>0, <2>1, <2>2, <2>4, <2>5, SameEntries
<1>14. CASE UNCHANGED vars
  <2>1. /\ UNCHANGED <<pulsarVars, readerVars, functionMap, handlerVars>> /\ Known' = Known
    BY <1>14 DEF vars, Known
  <2>2. WorkerOfEntry' /\ ReplayedKnown'
    BY <2>1 DEF WorkerOfEntry, ReplayedKnown, readerVars, pulsarVars, handlerVars, KeyOf
  <2> QED
    BY <1>0, <2>1, <2>2, SameEntries
<1>15. ASSUME NEW h \in Handlers, Return(h) PROVE Inv'
  <2>1. UNCHANGED <<pulsarVars, readerVars, functionMap>> /\ Known' = Known
    BY <1>15 DEF Return, Known
  <2>2. WorkerOfEntry'
    BY <1>10, <1>15, <2>1 DEF Return, WorkerOfEntry, KeyOf
  <2>3. ReplayedKnown'
    BY <2>1 DEF ReplayedKnown, readerVars, pulsarVars, KeyOf
  <2> QED
    BY <1>0, <2>1, <2>2, <2>3, SameEntries
<1>16. ASSUME NEW h \in Handlers, NEW f \in Functions, NEW w \in Workers,
              NEW label \in {"named", "calling"}, Call(h, f, w, label),
              label = "calling" => w \in Placement[functionMap[KeyOf(f)].fn]
       PROVE  Inv'
  <2>1. /\ pc' = [pc EXCEPT ![h] = label] /\ request' = [request EXCEPT ![h] = f]
        /\ workerID' = [workerID EXCEPT ![h] = w]
        /\ UNCHANGED <<pulsarVars, readerVars, functionMap>>
    BY <1>16 DEF Call, Goto
  <2>2. Known' = Known
    BY <2>1 DEF Known
  <2>3. ASSUME NEW g \in Handlers, pc'[g] \in {"storing", "calling"}
        PROVE  workerID'[g] \in Placement[functionMap[KeyOf(request'[g])].fn]
    <3>1. CASE g = h
      BY <1>0, <1>16, <2>1, <2>3, <3>1 DEF TypeOK
    <3>2. CASE g # h
      BY <1>0, <2>1, <2>3, <3>2 DEF TypeOK, WorkerOfEntry
    <3> QED
      BY <3>1, <3>2
  <2>4. WorkerOfEntry'
    BY <2>1, <2>2, <2>3 DEF WorkerOfEntry, KeyOf
  <2>5. ReplayedKnown'
    BY <2>1, <2>2 DEF ReplayedKnown, readerVars, pulsarVars, KeyOf
  <2> QED
    BY <1>0, <2>1, <2>2, <2>4, <2>5, SameEntries
<1>17. ASSUME NEW h \in Handlers, NEW f \in Functions, CallNamed(h, f) \/ CallKnown(h, f)
       PROVE  Inv'
  <2>1. CASE CallNamed(h, f)
    <3>1. PICK w \in Named : Call(h, f, w, "named")
      BY <2>1 DEF CallNamed
    <3>2. w \in Workers /\ "named" \in {"named", "calling"} /\ "named" # "calling"
      BY FunctionsAssumption
    <3> QED
      BY <1>16, <3>1, <3>2
  <2>2. CASE CallKnown(h, f)
    <3>1. /\ functionMap[KeyOf(f)].status.worker \in Placement[functionMap[KeyOf(f)].fn]
          /\ Call(h, f, functionMap[KeyOf(f)].status.worker, "calling")
      BY <2>2 DEF CallKnown, Usable, WorkerOfEntry
    <3>2. functionMap[KeyOf(f)].status.worker \in Workers /\ "calling" \in {"named", "calling"}
      BY <1>0, <2>2, KnownEntry DEF CallKnown, Usable, Statuses
    <3> QED
      BY <1>16, <3>1, <3>2
  <2> QED
    BY <1>17, <2>1, <2>2
<1> QED
  BY <1>1, <1>2, <1>3, <1>5, <1>6, <1>7, <1>8, <1>9, <1>11, <1>12, <1>13, <1>14, <1>15, <1>17
  DEF Next, ReaderNext, HandlerNext, Request

LEMMA InvCorrect == Spec => []Inv
BY InvInit, InvStep, PTL DEF Spec

-----------------------------------------------------------------------------
(* The properties *)

\* The first of a key's records is one record.
LEMMA FirstRecordIs ==
  ASSUME TypeOK, NEW i \in 1..Len(topic), NEW k, IsFirst(i, k)
  PROVE  FirstRecord(k) = topic[i]
<1>1. Len(topic) \in Nat
  BY DEF TypeOK
<1>2. ASSUME NEW j \in 1..Len(topic), IsFirst(j, k) PROVE j = i
  <2>1. ~(j < i) /\ ~(i < j)
    BY <1>1, <1>2 DEF IsFirst
  <2> QED
    BY <1>1, <2>1
<1>3. i = CHOOSE j \in 1..Len(topic) :
            KeyOf(topic[j].fn) = k /\ \A l \in 1..(j - 1) : KeyOf(topic[l].fn) # k
  BY <1>2 DEF IsFirst
<1> QED
  BY <1>3 DEF FirstRecord

\* What the map has of a function is its first record, whichever reader, replay
\* or process put it there (WriteFunctionMapIfNotExist).
THEOREM FirstRecordIsKept == Spec => []FirstRecordKept
<1>1. ASSUME Inv PROVE FirstRecordKept
  <2> SUFFICES ASSUME NEW k \in Known
               PROVE  /\ \E i \in 1..Len(topic) : KeyOf(topic[i].fn) = k
                      /\ functionMap[k].fn = FirstRecord(k).fn
                      /\ functionMap[k].component = FirstRecord(k).component
    BY DEF FirstRecordKept
  <2>1. PICK i \in 1..Len(topic) :
           /\ IsFirst(i, k)
           /\ functionMap[k].fn = topic[i].fn /\ functionMap[k].component = topic[i].component
    BY <1>1 DEF Inv, EntriesFirst
  <2>2. FirstRecord(k) = topic[i]
    BY <1>1, <2>1, FirstRecordIs DEF Inv, TypeInv
  <2> QED
    BY <2>1, <2>2 DEF IsFirst
<1> QED
  BY <1>1, InvCorrect, PTL

\* The worker remembered in an entry, or about to be, is one of the function the
\* entry is for, also where two functions share a key (UpdateWorkerIDInFunctionMap).
THEOREM WorkerOfEntryCorrect == Spec => []WorkerOfEntry
BY InvCorrect, PTL DEF Inv

\* The entry of a function that shares its key with none is about this function.
LEMMA EntryOfFunction ==
  ASSUME Inv, NEW f \in Functions, Unshared(f), KeyOf(f) \in Known
  PROVE  functionMap[KeyOf(f)].fn = f
<1>1. KeyOf(functionMap[KeyOf(f)].fn) = KeyOf(f)
  BY DEF Inv, EntriesFirst, IsFirst
<1>2. functionMap[KeyOf(f)].fn \in Functions
  BY KnownEntry DEF Inv, TypeInv
<1> QED
  BY <1>1, <1>2 DEF Unshared, KeyOf

\* A log request that names no worker goes to a worker of its own function,
\* whichever requests the worker id came from and whatever functions other tenants
\* have, unless the function shares its key with another (GetFunctionWorkerID).
THEOREM WorkerIsOfFunction == Spec => []WorkerOfFunction
<1>1. ASSUME Inv PROVE WorkerOfFunction
  <2> SUFFICES ASSUME NEW h \in Handlers, pc[h] = "calling", Unshared(request[h])
               PROVE  workerID[h] \in Placement[request[h]]
    BY DEF WorkerOfFunction
  <2>1. request[h] \in Functions /\ KeyOf(request[h]) \in Known
    BY <1>1 DEF Inv, TypeInv, RequestsKnown
  <2> QED
    BY <1>1, <2>1, EntryOfFunction DEF Inv, WorkerOfEntry
<1> QED
  BY <1>1, InvCorrect, PTL

LEMMA KeysFinite == IsFiniteSet(Keys)
<1> DEFINE key == [f \in Functions |-> KeyOf(f)]
<1>1. key \in Surjection(Functions, Keys)
  BY DEF Surjection, Keys
<1> QED
  BY <1>1, FunctionsAssumption, FS_Surjection

\* The number that is compared with the limit of a plan is not below the number of
\* functions the tenant has, but for those that share their key, as soon as the
\* reader is at the end of the topic (TenantFunctionCount).
THEOREM CountCoversRunningFunctions == Spec => []CountCoversRunning
<1>1. ASSUME Inv PROVE CountCoversRunning
  <2> SUFFICES ASSUME reader = "reading", pos = Len(topic), NEW t \in Tenants
               PROVE  TenantFunctionCount(t)
                        >= Cardinality({f \in Functions :
                              f[1] = t /\ runs[f] # NoInstance /\ Unshared(f)})
    BY DEF CountCoversRunning
  <2> DEFINE Running == {f \in Functions : f[1] = t /\ runs[f] # NoInstance /\ Unshared(f)}
             Counted == {k \in Known : functionMap[k].fn[1] = t}
             key == [f \in Running |-> KeyOf(f)]
  <2>1. ASSUME NEW f \in Running PROVE KeyOf(f) \in Counted
    <3>1. PICK i \in 1..Len(topic) : topic[i].fn = f
      BY <1>1 DEF Inv, RunningRecorded
    <3>2. KeyOf(f) \in Known
      BY <1>1, <3>1 DEF Inv, ReplayedKnown
    <3> QED
      BY <1>1, <3>2, EntryOfFunction
  <2>2. key \in Injection(Running, Counted)
    BY <2>1 DEF Injection, IsInjective, Unshared, KeyOf
  <2>3. IsFiniteSet(Counted)
    <3>1. Counted \subseteq Keys
      BY DEF Known
    <3> QED
      BY <3>1, KeysFinite, FS_Subset
  <2>4. IsFiniteSet(Running) /\ Cardinality(Running) <= Cardinality(Counted)
    BY <2>2, <2>3, FS_Injection
  <2>5. Cardinality(Running) \in Nat /\ Cardinality(Counted) \in Nat
    BY <2>3, <2>4, FS_CardinalityType
  <2> QED
    BY <2>4, <2>5 DEF TenantFunctionCount
<1> QED
  BY <1>1, InvCorrect, PTL
=============================================================================
