----------------------------- MODULE FunctionMap -----------------------------
(***************************************************************************)
(* The function map of src/src/logclient/reader.go: a reader replays the   *)
(* topic in which Pulsar records functions, a watchdog starts it again     *)
(* when it ends, and the handlers of function logs look a function up, ask *)
(* Pulsar for its worker, remember the worker for three minutes and call   *)
(* the log server there, or the one on the worker that the URL names       *)
(* (GetFunctionLog).  Functions are created, deleted and moved to other    *)
(* workers meanwhile.                                                      *)
(*                                                                         *)
(* Data abstraction.  A function is <<tenant, name>>, its name including   *)
(* the namespace, with one instance.  Of its details only the component    *)
(* type is kept.  A worker id's age is counted in ticks; QueryTimeout      *)
(* stands for the three minutes.  What the log server answers is the       *)
(* subject of LogServer.                                                   *)
(*                                                                         *)
(* The maps of the process are partly read without their lock: a look-up   *)
(* or a count (TenantFunctionCount) that overlaps a write may end the      *)
(* process, and so may a record without metadata; see Crash.               *)
(***************************************************************************)
EXTENDS Naturals, Sequences, FiniteSets

CONSTANTS Functions, Tenants,
          Concat,       \* Concat[f]: tenant, namespace and name in one string
          Components,   \* functions, sources, sinks
          Workers,
          Placement,    \* Placement[f]: the workers Pulsar may run f on
          Named,        \* the workers that URLs name
          Handlers,     \* requests under way at the same time
          QueryTimeout,
          MaxRecords,   \* bound: records in the topic
          MaxErrors,    \* bound: errors of the reader
          MaxCrashes    \* bound: restarts of the process

ASSUME FunctionsAssumption ==
  /\ IsFiniteSet(Functions) /\ \A f \in Functions : f = <<f[1], f[2]>> /\ f[1] \in Tenants
  /\ DOMAIN Concat = Functions
  /\ Placement \in [Functions -> SUBSET Workers] /\ Named \subseteq Workers
ASSUME FunctionBoundsAssumption ==
  /\ QueryTimeout \in Nat \ {0}
  /\ MaxRecords \in Nat /\ MaxErrors \in Nat /\ MaxCrashes \in Nat

\* No component or worker; no function.
None == "none"
NoFunction == <<None, None>>
ASSUME NoneAssumption == None \notin Components \cup Workers /\ NoFunction \notin Functions

VARIABLES topic,     \* the metadata topic: records [fn, component]
          runs,      \* runs[f]: the worker and the component type of f, in Pulsar
          reader,    \* "opening", "reading" or "dead"
          pos,       \* number of records the reader has read
          functionMap, \* functionMap[key]: the entry, with Instances[0] in it
          pc,        \* pc[h]: where the request of h is
          request,   \* request[h]: the function of the URL
          workerID,  \* workerID[h]: the worker Pulsar, the map or the URL has told it
          errors, crashes

pulsarVars == <<topic, runs>>
readerVars == <<reader, pos, errors>>
handlerVars == <<pc, request, workerID>>
vars == <<pulsarVars, readerVars, functionMap, handlerVars, crashes>>

\* Mutant: the tenant is not part of the key.
KeyOf_NameOnly(f) == f[2]

\* The key of a function in the map.
KeyOf(f) == Concat[f]

Keys == {KeyOf(f) : f \in Functions}
NoInstance == [worker |-> None, component |-> None]
NoStatus == [worker |-> None, age |-> QueryTimeout]
NoEntry == [fn |-> NoFunction, component |-> None, status |-> NoStatus]
Known == {k \in Keys : functionMap[k] # NoEntry}

\* A request asks for the status and stores the worker, then calls the log server
\* there ("calling"), or calls it on the worker of the URL ("named") at once.
Steps == {"idle", "asking", "storing", "calling", "named"}

Statuses == [worker : Workers \cup {None}, age : 0..QueryTimeout]
Entries ==
  [fn : Functions, component : Components, status : Statuses] \cup {NoEntry}

TypeOK ==
  /\ topic \in Seq([fn : Functions, component : Components]) /\ Len(topic) <= MaxRecords
  /\ runs \in [Functions -> [worker : Workers, component : Components] \cup {NoInstance}]
  /\ reader \in {"opening", "reading", "dead"} /\ pos \in 0..Len(topic)
  /\ functionMap \in [Keys -> Entries]
  /\ pc \in [Handlers -> Steps]
  /\ request \in [Handlers -> Functions \cup {NoFunction}]
  /\ workerID \in [Handlers -> Workers \cup {None}]
  /\ errors \in 0..MaxErrors /\ crashes \in 0..MaxCrashes

Init ==
  /\ topic = <<>> /\ runs = [f \in Functions |-> NoInstance]
  /\ reader = "opening" /\ pos = 0 /\ errors = 0 /\ crashes = 0
  /\ functionMap = [k \in Keys |-> NoEntry]
  /\ pc = [h \in Handlers |-> "idle"] /\ request = [h \in Handlers |-> NoFunction]
  /\ workerID = [h \in Handlers |-> None]

-----------------------------------------------------------------------------
(* Pulsar *)

Record(f, type) == topic' = Append(topic, [fn |-> f, component |-> type])

\* A function is created and gets a worker.
Create(f) ==
  /\ runs[f] = NoInstance /\ Len(topic) < MaxRecords
  /\ \E type \in Components, w \in Placement[f] :
       /\ Record(f, type)
       /\ runs' = [runs EXCEPT ![f] = [worker |-> w, component |-> type]]
  /\ UNCHANGED <<readerVars, functionMap, handlerVars, crashes>>

\* A function is deleted; the record carries its details, too.
Delete(f) ==
  /\ runs[f] # NoInstance /\ Len(topic) < MaxRecords
  /\ Record(f, runs[f].component)
  /\ runs' = [runs EXCEPT ![f] = NoInstance]
  /\ UNCHANGED <<readerVars, functionMap, handlerVars, crashes>>

\* A function gets another worker.
Move(f) ==
  /\ runs[f] # NoInstance
  /\ \E w \in Placement[f] \ {runs[f].worker} :
       runs' = [runs EXCEPT ![f].worker = w]
  /\ UNCHANGED <<topic, readerVars, functionMap, handlerVars, crashes>>

-----------------------------------------------------------------------------
(* ReaderLoop and FunctionTopicWatchDog *)

\* Mutant: the reader begins at the latest record.
OpenReader_Latest ==
  /\ reader = "opening"
  /\ reader' = "reading" /\ pos' = Len(topic)
  /\ UNCHANGED <<pulsarVars, errors, functionMap, handlerVars, crashes>>

\* NewClient and CreateReader, from the earliest record.
OpenReader ==
  /\ reader = "opening"
  /\ reader' = "reading" /\ pos' = 0
  /\ UNCHANGED <<pulsarVars, errors, functionMap, handlerVars, crashes>>

\* The connection or reader.Next fails; ReaderLoop ends.
ReaderError ==
  /\ reader \in {"opening", "reading"} /\ errors < MaxErrors
  /\ reader' = "dead" /\ pos' = 0 /\ errors' = errors + 1
  /\ UNCHANGED <<pulsarVars, functionMap, handlerVars, crashes>>

\* Mutant: the reader is not started again after the last error.
Watchdog_Once ==
  /\ reader = "dead" /\ errors < MaxErrors
  /\ reader' = "opening"
  /\ UNCHANGED <<pulsarVars, pos, errors, functionMap, handlerVars, crashes>>

\* FunctionTopicWatchDog receives the signal and starts another ReaderLoop.
Watchdog ==
  /\ reader = "dead"
  /\ reader' = "opening"
  /\ UNCHANGED <<pulsarVars, pos, errors, functionMap, handlerVars, crashes>>

\* Mutant: the last record of a function wins.
WriteFunctionMapIfNotExist_Overwrites(key, entry) ==
  functionMap' = [functionMap EXCEPT ![key] = entry]

WriteFunctionMapIfNotExist(key, entry) ==
  functionMap' = IF key \in Known THEN functionMap
                 ELSE [functionMap EXCEPT ![key] = entry]

\* ParseServiceRequest: creations, updates and deletions alike.
ReadRecord ==
  /\ reader = "reading" /\ pos < Len(topic)
  /\ pos' = pos + 1
  /\ LET r == topic[pos + 1]
     IN  WriteFunctionMapIfNotExist(KeyOf(r.fn),
           [fn |-> r.fn, component |-> r.component, status |-> NoStatus])
  /\ UNCHANGED <<pulsarVars, reader, errors, handlerVars, crashes>>

-----------------------------------------------------------------------------
(* The handlers *)

Goto(h, label) == pc' = [pc EXCEPT ![h] = label]

Done(h) ==
  /\ Goto(h, "idle")
  /\ request' = [request EXCEPT ![h] = NoFunction]
  /\ workerID' = [workerID EXCEPT ![h] = None]

\* Mutant: a worker id that was found once is used ever after.
Usable_AnyAge(status) == status.worker # None

Usable(status) == status.worker # None /\ status.age < QueryTimeout

Call(h, f, w, label) ==
  /\ pc[h] = "idle"
  /\ Goto(h, label)
  /\ request' = [request EXCEPT ![h] = f]
  /\ workerID' = [workerID EXCEPT ![h] = w]
  /\ UNCHANGED <<pulsarVars, readerVars, functionMap, crashes>>

\* FunctionLogsHandler and GetFunctionLog for a URL with a "workerid": the log
\* server on this worker is called, whether or not the function is there or known.
CallNamed(h, f) == \E w \in Named : Call(h, f, w, "named")

\* Otherwise GetFunctionWorkerID looks the function up (404 if it is not known):
\* the worker may be known still.
CallKnown(h, f) ==
  /\ KeyOf(f) \in Known
  /\ LET status == functionMap[KeyOf(f)].status
     IN  Usable(status) /\ Call(h, f, status.worker, "calling")

\* If not, Pulsar is asked.
AskStatus(h, f) ==
  /\ pc[h] = "idle" /\ KeyOf(f) \in Known
  /\ ~Usable(functionMap[KeyOf(f)].status)
  /\ Goto(h, "asking")
  /\ request' = [request EXCEPT ![h] = f]
  /\ UNCHANGED <<pulsarVars, readerVars, functionMap, workerID, crashes>>

\* GetFunctionStatus asks for the function of the entry, as the component it is
\* in the entry.
StatusAnswered(h) ==
  LET entry == functionMap[KeyOf(request[h])]
      instance == runs[entry.fn]
  IN  /\ pc[h] = "asking"
      /\ instance # NoInstance /\ instance.component = entry.component
      /\ Goto(h, "storing")
      /\ workerID' = [workerID EXCEPT ![h] = instance.worker]
      /\ UNCHANGED <<pulsarVars, readerVars, functionMap, request, crashes>>

\* The request for the status fails, or Pulsar knows no such function: 404 or 500.
StatusFails(h) ==
  /\ pc[h] = "asking"
  /\ Done(h)
  /\ UNCHANGED <<pulsarVars, readerVars, functionMap, crashes>>

\* UpdateWorkerIDInFunctionMap; then the log server of this worker is called.
StoreWorker(h) ==
  LET key == KeyOf(request[h])
  IN  /\ pc[h] = "storing"
      /\ functionMap' = [functionMap EXCEPT ![key].status = [worker |-> workerID[h], age |-> 0]]
      /\ Goto(h, "calling")
      /\ UNCHANGED <<pulsarVars, readerVars, request, workerID, crashes>>

\* The log server answers, or fails to.
Return(h) ==
  /\ pc[h] \in {"calling", "named"}
  /\ Done(h)
  /\ UNCHANGED <<pulsarVars, readerVars, functionMap, crashes>>

\* The number of entries of a tenant, for a request to create a function.
TenantFunctionCount(t) ==
  Cardinality({k \in Known : functionMap[k].fn[1] = t})

Tick ==
  /\ functionMap' = [k \in Keys |->
       IF functionMap[k].status.age < QueryTimeout
       THEN [functionMap[k] EXCEPT !.status.age = @ + 1] ELSE functionMap[k]]
  /\ functionMap' # functionMap
  /\ UNCHANGED <<pulsarVars, readerVars, handlerVars, crashes>>

\* The process ends and is started again with an empty map.  Instances is read,
\* and the map counted, without the lock under which UpdateWorkerIDInFunctionMap
\* and the reader write: a runtime that notices ends the process.
Crash ==
  /\ crashes < MaxCrashes
  /\ crashes' = crashes + 1
  /\ reader' = "opening" /\ pos' = 0
  /\ functionMap' = [k \in Keys |-> NoEntry]
  /\ pc' = [h \in Handlers |-> "idle"] /\ request' = [h \in Handlers |-> NoFunction]
  /\ workerID' = [h \in Handlers |-> None]
  /\ UNCHANGED <<pulsarVars, errors>>

Request(h, f) == CallNamed(h, f) \/ CallKnown(h, f) \/ AskStatus(h, f)

HandlerNext(h) == StatusAnswered(h) \/ StatusFails(h) \/ StoreWorker(h) \/ Return(h)

ReaderNext == OpenReader \/ Watchdog \/ ReadRecord

Next ==
  \/ \E f \in Functions : Create(f) \/ Delete(f) \/ Move(f)
  \/ ReaderNext \/ ReaderError \/ Tick \/ Crash
  \/ \E h \in Handlers : HandlerNext(h)
  \/ \E h \in Handlers, f \in Functions : Request(h, f)

Spec == Init /\ [][Next]_vars

(* Reader and watchdog are scheduled and time passes.  Nothing is assumed   *)
(* of the handlers and of how soon Pulsar answers them.                     *)
FairSpec == Spec /\ WF_vars(ReaderNext) /\ WF_vars(Tick)

-----------------------------------------------------------------------------
(* Properties *)

\* No other function has the same string of tenant, namespace and name: there is
\* no separator between them, and with it the function would share its key.
Unshared(f) == \A g \in Functions : Concat[g] = Concat[f] => g = f

FirstRecord(k) ==
  LET i == CHOOSE i \in 1..Len(topic) :
             KeyOf(topic[i].fn) = k /\ \A j \in 1..(i - 1) : KeyOf(topic[j].fn) # k
  IN  topic[i]

\* An entry is the first record of its key, also when later records were read
\* before the entry (WriteFunctionMapIfNotExist over the replays of a reader
\* that starts again, and over restarts of the process): what every process
\* shows of a function is the same, at all times.
FirstRecordKept ==
  \A k \in Known :
    /\ \E i \in 1..Len(topic) : KeyOf(topic[i].fn) = k
    /\ functionMap[k].fn = FirstRecord(k).fn
    /\ functionMap[k].component = FirstRecord(k).component

\* A log request that names no worker itself is sent to a worker of the function
\* it is for, not of a function of the same name of another tenant, whichever
\* requests and records the worker id and the entry came from; unless the
\* function shares its key with another (GetFunctionLog, GetFunctionWorkerID).
WorkerOfFunction ==
  \A h \in Handlers :
    pc[h] = "calling" /\ Unshared(request[h]) => workerID[h] \in Placement[request[h]]

\* Once the reader is at the end of the topic the count for the limit of a plan
\* has at least the functions the tenant has, but those that share their key,
\* whatever was read before and however often the reader or the process began
\* anew (TenantFunctionCount).
CountCoversRunning ==
  (reader = "reading" /\ pos = Len(topic)) =>
    \A t \in Tenants :
      TenantFunctionCount(t) >=
        Cardinality({f \in Functions : f[1] = t /\ runs[f] # NoInstance /\ Unshared(f)})

\* A function is found some time after its record is in the topic, also after a
\* crash of the process or the death of a reader (FunctionTopicWatchDog).
EventuallyKnown ==
  \A f \in Functions : runs[f] # NoInstance ~> KeyOf(f) \in Known

\* When a function that shares its key with none stays on its worker, the map
\* finally gives no other worker, though an answer from before the move may be
\* stored late and restart the three minutes (GetFunctionWorkerID).
EventuallyRightWorker ==
  \A f \in {g \in Functions : Unshared(g)} : \A w \in Placement[f] :
    <>[](runs[f].worker = w) =>
      <>[](Usable(functionMap[KeyOf(f)].status) => functionMap[KeyOf(f)].status.worker = w)
===============================================================================
