--------------------------- MODULE PromMetricsProofs ---------------------------
(***************************************************************************)
(* Proofs about PromMetrics, for every number of tenants and requests, and *)
(* any interval of the cache and timeout of a scrape; and about            *)
(* TenantUsage, for any topics, brokers and tenants.                       *)
(***************************************************************************)
EXTENDS PromMetrics, TenantUsage, FiniteSetTheorems, SequenceTheorems,
        WellFoundedInduction, TLAPS

-----------------------------------------------------------------------------
(* Types.  A request that writes the list is not past the end of its own.   *)

WithinNames == \A r \in Requests : req[r] # Idle => req[r].at <= Len(req[r].names)

TypeInv == TypeOK /\ WithinNames

LEMMA AgeBounds ==
  /\ scrapeInterval \in Nat /\ scrapeInterval > 0 /\ ScrapeTimeout \in Nat
  /\ MaxAge \in Nat /\ ScrapeTimeout < MaxAge /\ MaxAge = scrapeInterval + ScrapeTimeout
BY PromAssumption DEF MaxAge

LEMMA TenantsCounted ==
  ASSUME NEW S \in SUBSET Tenants
  PROVE  /\ IsFiniteSet(S) /\ Cardinality(S) \in Nat /\ Cardinality(Tenants) \in Nat
         /\ Cardinality(S) <= Cardinality(Tenants)
BY PromAssumption, FS_Subset, FS_CardinalityType

\* A list of tenants has each of them once.
LEMMA ListOf ==
  ASSUME NEW S \in SUBSET Tenants, NEW names \in SetToSeqs(S)
  PROVE  /\ names \in Seq(Tenants) /\ Len(names) = Cardinality(S)
         /\ names \in SetToAllKPermutations(Tenants)
         /\ \A t \in S : Contains(names, t)
<1> DEFINE n == Cardinality(S)
<1>1. IsFiniteSet(S) /\ n \in Nat
  BY TenantsCounted
<1>2. names \in [1..n -> S] /\ \A i, j \in 1..n : i # j => names[i] # names[j]
  BY DEF SetToSeqs
<1>3. names \in Seq(S) /\ names \in Seq(Tenants) /\ Len(names) = n
  BY <1>1, <1>2
<1>4. IsFiniteSet(1..n) /\ Cardinality(1..n) = n
  BY <1>1, FS_Interval
<1>5. names \in Injection(1..n, S)
  BY <1>2 DEF Injection, IsInjective
<1>6. names \in Surjection(1..n, S)
  BY <1>1, <1>4, <1>5, FS_Injection
<1>7. \A t \in S : Contains(names, t)
  BY <1>3, <1>6 DEF Surjection, Contains
<1> QED
  BY <1>3, <1>7 DEF SetToAllKPermutations

LEMMA NamesAre ==
  ASSUME NEW names \in SetToAllKPermutations(Tenants)
  PROVE  names \in Seq(Tenants) /\ Len(names) \in Nat /\ Len(names) <= Cardinality(Tenants)
<1>1. PICK S \in SUBSET Tenants : names \in SetToSeqs(S)
  BY DEF SetToAllKPermutations
<1> QED
  BY <1>1, ListOf, TenantsCounted

Stages == {"scraping", "sampled", "serving", "asking", "decoding", "rechecking", "200", "404", "500"}

LEMMA EmptyData == NoEntry.data \in Data /\ NoEntry \in [age : 0..scrapeInterval, data : Data]
BY AgeBounds DEF NoEntry, Data

LEMMA NewType ==
  ASSUME NEW stage \in Stages, NEW n \in Names, NEW data \in Data
  PROVE  /\ New(stage, n, data) \in Requested /\ New(stage, n, data) # Idle
         /\ New(stage, n, data).at <= Len(New(stage, n, data).names)
<1>1. <<>> \in SetToSeqs({})
  BY FS_EmptySet DEF SetToSeqs
<1>2. <<>> \in SetToAllKPermutations(Tenants) /\ Len(<<>>) = 0
  BY <1>1, ListOf
<1>3. 0 \in 0..ScrapeTimeout /\ 0 \in 0..Cardinality(Tenants)
  BY AgeBounds, TenantsCounted
<1>4. New(stage, n, data) \in Requested
  BY <1>2, <1>3 DEF New, Requested, Stages
<1> QED
  BY <1>2, <1>4 DEF New, Requested, Idle

\* A request under way is a record of its fields.
LEMMA RequestedFields ==
  ASSUME NEW q \in Requested
  PROVE  /\ q # Idle
         /\ q.stage \in Stages /\ q.name \in Names /\ q.waited \in 0..ScrapeTimeout
         /\ q.data \in Data /\ q.excuse \in BOOLEAN
         /\ q.names \in SetToAllKPermutations(Tenants) /\ q.at \in 0..Cardinality(Tenants)
BY DEF Requested, Stages, Idle

LEMMA UnderWay ==
  ASSUME TypeOK, NEW r \in Requests, req[r].stage # "idle"
  PROVE  req[r] \in Requested
BY DEF TypeOK, Idle

\* One request goes on, the others stay where they are.
LEMMA SetRequest ==
  ASSUME TypeInv, NEW r \in Requests, NEW q \in Requested, q.at <= Len(q.names), Set(r, q)
  PROVE  /\ req' \in [Requests -> {Idle} \cup Requested] /\ WithinNames'
         /\ req'[r] = q /\ \A o \in Requests : o # r => req'[o] = req[o]
<1>1. /\ req' \in [Requests -> {Idle} \cup Requested] /\ req'[r] = q
      /\ \A o \in Requests : o # r => req'[o] = req[o]
  BY DEF TypeInv, TypeOK, Set
<1> QED
  BY <1>1 DEF TypeInv, WithinNames

\* A request whose other fields stay.
LEMMA Changed ==
  ASSUME NEW q \in Requested, NEW stage \in Stages, NEW waited \in 0..ScrapeTimeout,
         NEW data \in Data, NEW excuse \in BOOLEAN,
         NEW names \in SetToAllKPermutations(Tenants), NEW at \in 0..Cardinality(Tenants)
  PROVE  [q EXCEPT !.stage = stage, !.waited = waited, !.data = data, !.excuse = excuse,
                   !.names = names, !.at = at] \in Requested
BY DEF Requested, Stages

LEMMA OlderType ==
  ASSUME NEW data \in Data
  PROVE  /\ Older(data) \in Data /\ Older(data).age <= data.age + 1 /\ Older(data).any = data.any
BY AgeBounds DEF Data, Older

\* The list with one more element written has no more elements than there are tenants.
LEMMA WrittenType ==
  ASSUME TypeInv, NEW names \in SetToAllKPermutations(Tenants), NEW at \in Nat, at < Len(names)
  PROVE  /\ at + 1 \in 0..Cardinality(Tenants)
         /\ Written(at + 1, names[at + 1]) \in Seq(Tenants)
         /\ Len(Written(at + 1, names[at + 1])) <= Cardinality(Tenants)
<1>1. /\ names \in Seq(Tenants) /\ Len(names) \in Nat /\ Len(names) <= Cardinality(Tenants)
      /\ Cardinality(Tenants) \in Nat
  BY NamesAre, TenantsCounted
<1>2. at + 1 \in 1..Len(names) /\ at + 1 \in 0..Cardinality(Tenants)
  BY <1>1
<1>3. names[at + 1] \in Tenants
  BY <1>1, <1>2, ElementOfSeq
<1>4. list \in Seq(Tenants) /\ Len(list) \in Nat /\ Len(list) <= Cardinality(Tenants)
  BY DEF TypeInv, TypeOK
<1>5. CASE at + 1 <= Len(list)
  BY <1>2, <1>3, <1>4, <1>5, ExceptSeq DEF Written
<1>6. CASE ~(at + 1 <= Len(list))
  BY <1>1, <1>2, <1>3, <1>4, <1>6, AppendProperties DEF Written
<1> QED
  BY <1>2, <1>5, <1>6

\* The rest of the list is cut off.
LEMMA CutType ==
  ASSUME TypeInv, NEW n \in Nat
  PROVE  LET cut == SubSeq(list, 1, IF Len(list) < n THEN Len(list) ELSE n)
         IN  /\ cut \in Seq(Tenants) /\ Len(cut) <= Cardinality(Tenants)
             /\ Len(list) >= n => Len(cut) = n /\ \A j \in 1..n : cut[j] = list[j]
<1> DEFINE m == IF Len(list) < n THEN Len(list) ELSE n
<1>1. list \in Seq(Tenants) /\ Len(list) \in Nat /\ Len(list) <= Cardinality(Tenants)
  BY DEF TypeInv, TypeOK
<1>2. m \in Nat /\ m <= Len(list) /\ (Len(list) >= n => m = n)
  BY <1>1
<1> HIDE DEF m
<1>3. 1 \in Int /\ m \in Int /\ (1 <= m => m <= Len(list))
  BY <1>2
<1>4. \A i \in 1..m : list[i] \in Tenants
  BY <1>1, <1>2, ElementOfSeq
<1>5. /\ SubSeq(list, 1, m) \in Seq(Tenants) /\ Len(SubSeq(list, 1, m)) = m
      /\ \A j \in 1..m : SubSeq(list, 1, m)[j] = list[j]
  BY <1>1, <1>2, <1>4
<1> QED
  BY <1>1, <1>2, <1>5, TenantsCounted DEF m

\* What a step of the decoder does to the requests: the others get an excuse.
LEMMA DecodeRequests ==
  ASSUME TypeInv, NEW r \in Requests, Decode(r)
  PROVE  LET q == IF Decoded(req[r].names, req[r].at)
                  THEN [req[r] EXCEPT !.stage = "rechecking", !.names = <<>>, !.at = 0]
                  ELSE [req[r] EXCEPT !.at = req[r].at + 1]
         IN  /\ req[r] \in Requested /\ q \in Requested /\ q.at <= Len(q.names)
             /\ req'[r] = q
             /\ \A o \in Requests : o # r =>
                  req'[o] = IF req[o].stage \in {"asking", "decoding", "rechecking"}
                            THEN [req[o] EXCEPT !.excuse = TRUE] ELSE req[o]
<1> DEFINE q == IF Decoded(req[r].names, req[r].at)
                THEN [req[r] EXCEPT !.stage = "rechecking", !.names = <<>>, !.at = 0]
                ELSE [req[r] EXCEPT !.at = req[r].at + 1]
<1>1. req[r] \in Requested /\ req[r].stage = "decoding"
  BY UnderWay DEF Decode, TypeInv
<1>2. /\ req[r].at \in Nat /\ Len(req[r].names) \in Nat /\ req[r].at <= Len(req[r].names)
      /\ Len(req[r].names) <= Cardinality(Tenants) /\ Cardinality(Tenants) \in Nat
  BY <1>1, NamesAre, RequestedFields, TenantsCounted DEF TypeInv, WithinNames
<1>3. q \in Requested /\ q.at <= Len(q.names)
  <2>1. CASE Decoded(req[r].names, req[r].at)
    <3>1. <<>> \in SetToAllKPermutations(Tenants) /\ Len(<<>>) = 0
      <4>1. <<>> \in SetToSeqs({})
        BY FS_EmptySet DEF SetToSeqs
      <4> QED
        BY <4>1, ListOf
    <3>2. q = [req[r] EXCEPT !.stage = "rechecking", !.names = <<>>, !.at = 0]
      BY <2>1
    <3>3. 0 \in 0..Cardinality(Tenants)
      BY <1>2
    <3> HIDE DEF q
    <3>4. q \in Requested
      BY <1>1, <3>1, <3>2, <3>3 DEF Requested
    <3>5. q.at = 0 /\ q.names = <<>>
      BY <1>1, <3>2 DEF Requested
    <3> QED
      BY <3>1, <3>4, <3>5
  <2>2. CASE ~Decoded(req[r].names, req[r].at)
    <3>1. req[r].at + 1 \in 0..Cardinality(Tenants) /\ req[r].at + 1 <= Len(req[r].names)
      BY <1>2, <2>2 DEF Decoded
    <3> QED
      BY <1>1, <2>2, <3>1 DEF Requested
  <2> QED
    BY <2>1, <2>2
<1>4. \A o \in Requests : o # r =>
        req'[o] = IF req[o].stage \in {"asking", "decoding", "rechecking"}
                  THEN [req[o] EXCEPT !.excuse = TRUE] ELSE req[o]
  BY DEF Decode
<1>5. req'[r] = q
  BY DEF Decode
<1> QED
  BY <1>1, <1>3, <1>4, <1>5

-----------------------------------------------------------------------------
(* The inductive invariant *)

\* The data of an entry is older than the entry at most by a scrape.
DataOfEntries == \A n \in Names : cache[n].data.age <= cache[n].age + ScrapeTimeout

\* A sample is not older than its scrape; what is being served is younger than
\* MaxAge.
DataOf(request) ==
  /\ request.stage = "sampled" => request.data.age <= request.waited
  /\ request.stage \in {"serving", "asking", "decoding", "rechecking", "200"} =>
       request.data.age < MaxAge

\* What a look-up without an excuse has got so far.
LookUp(request) ==
  /\ request.stage = "asking" => request.at = 0
  /\ ~request.excuse =>
       /\ request.stage = "asking" => request.name \in exists
       /\ request.stage = "decoding" =>
            /\ Contains(request.names, request.name)
            /\ request.at <= Len(list)
            /\ \A j \in 1..request.at : list[j] = request.names[j]
       /\ request.stage = "rechecking" => Listed(request.name)
       /\ request.stage # "404"

RequestsRight == \A r \in Requests : req[r] # Idle => DataOf(req[r]) /\ LookUp(req[r])

Inv == TypeInv /\ DataOfEntries /\ RequestsRight

LEMMA InvInit == Init => Inv
<1> SUFFICES ASSUME Init PROVE Inv
  OBVIOUS
<1>1. <<>> \in Seq(Tenants) /\ Len(<<>>) = 0 /\ 0 <= Cardinality(Tenants)
  BY TenantsCounted
<1>2. TypeOK
  BY <1>1, EmptyData DEF Init, TypeOK
<1>3. DataOfEntries
  BY AgeBounds DEF Init, DataOfEntries, NoEntry
<1> QED
  BY <1>2, <1>3 DEF Init, Inv, TypeInv, WithinNames, RequestsRight

\* One request goes on, and neither the tenants nor their list change.
LEMMA OneRequest ==
  ASSUME Inv, NEW r \in Requests, NEW q \in Requested, Set(r, q),
         q.at <= Len(q.names), DataOf(q), LookUp(q),
         UNCHANGED <<exists, metered, list>>,
         cache' \in [Names -> [age : 0..scrapeInterval, data : Data]], DataOfEntries'
  PROVE  Inv'
<1>1. /\ req' \in [Requests -> {Idle} \cup Requested] /\ WithinNames'
      /\ req'[r] = q /\ \A o \in Requests : o # r => req'[o] = req[o]
  BY SetRequest DEF Inv
<1>2. TypeInv'
  BY <1>1 DEF Inv, TypeInv, TypeOK
<1>3. RequestsRight'
  <2> SUFFICES ASSUME NEW o \in Requests, req'[o] # Idle
               PROVE  (DataOf(req[o]) /\ LookUp(req[o]))'
    BY DEF RequestsRight
  <2>1. CASE o = r
    BY <1>1, <2>1 DEF DataOf, LookUp, Listed
  <2>2. CASE o # r
    BY <1>1, <2>2 DEF Inv, RequestsRight, DataOf, LookUp, Listed
  <2> QED
    BY <2>1, <2>2
<1> QED
  BY <1>2, <1>3 DEF Inv

\* The same when the cache stays, too.
LEMMA OneRequestOnly ==
  ASSUME Inv, NEW r \in Requests, NEW q \in Requested, Set(r, q),
         q.at <= Len(q.names), DataOf(q), LookUp(q),
         UNCHANGED <<exists, metered, cache, list>>
  PROVE  Inv'
<1>1. cache' \in [Names -> [age : 0..scrapeInterval, data : Data]] /\ DataOfEntries'
  BY DEF Inv, TypeInv, TypeOK, DataOfEntries
<1> QED
  BY <1>1, OneRequest

\* A request that has just come to a stage has no sample and no list.
LEMMA NewRight ==
  ASSUME NEW stage \in Stages, NEW n \in Names, NEW data \in Data,
         stage \notin {"sampled", "asking", "decoding", "rechecking", "404"},
         stage \in {"serving", "200"} => data.age < MaxAge
  PROVE  DataOf(New(stage, n, data)) /\ LookUp(New(stage, n, data))
BY DEF New, DataOf, LookUp

LEMMA ArriveStep ==
  ASSUME Inv, NEW r \in Requests, NEW n \in Names, Arrive(r, n)
  PROVE  Inv'
<1>1. /\ cache[n] \in [age : 0..scrapeInterval, data : Data]
      /\ cache[n].data.age <= cache[n].age + ScrapeTimeout
  BY DEF Inv, TypeInv, TypeOK, DataOfEntries
<1>2. CASE Fresh(n)
  <2>1. cache[n].data \in Data /\ cache[n].data.age < MaxAge
    BY <1>1, <1>2, AgeBounds DEF Fresh, Data
  <2>2. Set(r, New("serving", n, cache[n].data))
    BY <1>2 DEF Arrive
  <2> QED
    BY <2>1, <2>2, NewType, NewRight, OneRequestOnly DEF Arrive, Stages
<1>3. CASE ~Fresh(n)
  <2>1. Set(r, New("scraping", n, NoEntry.data))
    BY <1>3 DEF Arrive
  <2> QED
    BY <2>1, EmptyData, NewType, NewRight, OneRequestOnly DEF Arrive, Stages
<1> QED
  BY <1>2, <1>3

LEMMA TakeSampleStep ==
  ASSUME Inv, NEW r \in Requests, TakeSample(r)
  PROVE  Inv'
<1> DEFINE data == [age |-> 0, any |-> req[r].name \in metered]
           q == [req[r] EXCEPT !.stage = "sampled", !.data = data]
<1>1. req[r] \in Requested /\ req[r].at <= Len(req[r].names)
  BY UnderWay, RequestedFields DEF TakeSample, Inv, TypeInv, WithinNames
<1>2. data \in Data /\ data.age = 0
  BY AgeBounds DEF Data
<1> HIDE DEF data
<1>3. /\ q \in Requested /\ q.stage = "sampled" /\ q.data.age = 0 /\ q.waited \in Nat
      /\ q.at = req[r].at /\ q.names = req[r].names
  <2>1. /\ q.stage = "sampled" /\ q.data = data /\ q.waited = req[r].waited
        /\ q.at = req[r].at /\ q.names = req[r].names
    BY <1>1 DEF Requested
  <2>2. q \in Requested
    BY <1>1, <1>2 DEF Requested
  <2> QED
    BY <1>1, <1>2, <2>1, <2>2, RequestedFields
<1>4. Set(r, q)
  BY DEF TakeSample, data
<1> HIDE DEF q
<1>5. DataOf(q) /\ LookUp(q)
  BY <1>3 DEF DataOf, LookUp
<1> QED
  BY <1>1, <1>3, <1>4, <1>5, OneRequestOnly DEF TakeSample

LEMMA EndScrapeStep ==
  ASSUME Inv, NEW r \in Requests, EndScrape(r)
  PROVE  Inv'
<1> DEFINE q == [req[r] EXCEPT !.stage = "serving", !.waited = 0]
           entry == [age |-> 0, data |-> req[r].data]
<1>1. req[r] \in Requested /\ req[r].at <= Len(req[r].names) /\ req[r].stage = "sampled"
  BY UnderWay, RequestedFields DEF EndScrape, Inv, TypeInv, WithinNames
<1>2. /\ req[r].data \in Data /\ req[r].data.age \in Nat
      /\ req[r].data.age <= ScrapeTimeout /\ req[r].name \in Names
  <2>1. req[r].data.age <= req[r].waited
    BY <1>1, RequestedFields DEF Inv, RequestsRight, DataOf
  <2>2. req[r].waited \in 0..ScrapeTimeout /\ req[r].data \in Data /\ req[r].name \in Names
    BY <1>1, RequestedFields
  <2> QED
    BY <2>1, <2>2, AgeBounds DEF Data
<1>3. /\ q \in Requested /\ q.stage = "serving" /\ q.data = req[r].data
      /\ q.at = req[r].at /\ q.names = req[r].names
  <2>1. 0 \in 0..ScrapeTimeout
    BY AgeBounds
  <2>2. q \in Requested
    BY <1>1, <2>1 DEF Requested
  <2> QED
    BY <1>1, <2>2 DEF Requested
<1>4. Set(r, q) /\ cache' = [cache EXCEPT ![req[r].name] = entry]
  BY DEF EndScrape
<1>5. entry \in [age : 0..scrapeInterval, data : Data]
  BY <1>2, AgeBounds
<1>6. entry.age = 0 /\ entry.data.age <= 0 + ScrapeTimeout
  BY <1>2, AgeBounds
<1> HIDE DEF q, entry
<1>7. cache' \in [Names -> [age : 0..scrapeInterval, data : Data]] /\ DataOfEntries'
  BY <1>4, <1>5, <1>6 DEF Inv, TypeInv, TypeOK, DataOfEntries
<1>8. DataOf(q) /\ LookUp(q)
  BY <1>2, <1>3, AgeBounds DEF DataOf, LookUp
<1> QED
  BY <1>1, <1>3, <1>4, <1>7, <1>8, OneRequest DEF EndScrape

LEMMA ScrapeFailsStep ==
  ASSUME Inv, NEW r \in Requests, ScrapeFails(r)
  PROVE  Inv'
<1>1. req[r].name \in Names
  BY UnderWay, RequestedFields DEF ScrapeFails, Inv, TypeInv
<1> QED
  BY <1>1, EmptyData, NewType, NewRight, OneRequestOnly DEF ScrapeFails, Stages

LEMMA ServeStep ==
  ASSUME Inv, NEW r \in Requests, Serve(r)
  PROVE  Inv'
<1> DEFINE n == req[r].name
           data == req[r].data
           q == [New("asking", n, NoEntry.data) EXCEPT !.excuse = n \notin exists]
<1>1. req[r] \in Requested /\ req[r].stage = "serving" /\ req[r] # Idle
  BY UnderWay, RequestedFields DEF Serve, Inv, TypeInv
<1>2. n \in Names /\ data \in Data /\ data.any \in BOOLEAN /\ data.age < MaxAge
  BY <1>1, RequestedFields DEF Inv, RequestsRight, DataOf, Data
<1>3. CASE Set(r, New("200", n, data))
  BY <1>2, <1>3, NewType, NewRight, OneRequestOnly DEF Serve, Stages
<1>4. CASE Set(r, New("500", n, NoEntry.data))
  BY <1>2, <1>4, EmptyData, NewType, NewRight, OneRequestOnly DEF Serve, Stages
<1>5. CASE Set(r, q)
  <2>1. New("asking", n, NoEntry.data) \in Requested
    BY <1>2, EmptyData, NewType DEF Stages
  <2>2. /\ q.stage = "asking" /\ q.name = n /\ q.data = NoEntry.data
        /\ q.excuse = (n \notin exists) /\ q.at = 0 /\ q.names = <<>>
    BY DEF New
  <2>3. q \in Requested
    BY <2>1 DEF Requested
  <2> HIDE DEF q
  <2>4. q.at <= Len(q.names)
    BY <2>2
  <2>5. q.data.age = 0
    BY <2>2 DEF NoEntry
  <2>6. DataOf(q)
    BY <2>2, <2>5, AgeBounds DEF DataOf
  <2>7. ~q.excuse => q.name \in exists
    BY <2>2
  <2>8. LookUp(q)
    BY <2>2, <2>7 DEF LookUp
  <2> QED
    BY <1>5, <2>3, <2>4, <2>6, <2>8, OneRequestOnly DEF Serve
<1> QED
  BY <1>2, <1>3, <1>4, <1>5 DEF Serve

LEMMA GetTenantsStep ==
  ASSUME Inv, NEW r \in Requests, GetTenants(r)
  PROVE  Inv'
<1>1. PICK names \in SetToSeqs(exists) :
         Set(r, [req[r] EXCEPT !.stage = "decoding", !.names = names])
  BY DEF GetTenants
<1> DEFINE q == [req[r] EXCEPT !.stage = "decoding", !.names = names]
<1>2. req[r] \in Requested /\ req[r].stage = "asking" /\ exists \in SUBSET Tenants
  BY UnderWay DEF GetTenants, Inv, TypeInv, TypeOK
<1>3. /\ names \in SetToAllKPermutations(Tenants) /\ Len(names) \in Nat
      /\ \A t \in exists : Contains(names, t)
  BY <1>2, ListOf, NamesAre
<1>4. q \in Requested
  BY <1>2, <1>3 DEF Requested
<1>5. /\ q.stage = "decoding" /\ q.names = names /\ q.at = req[r].at /\ q.data = req[r].data
      /\ q.excuse = req[r].excuse /\ q.name = req[r].name
  BY <1>2 DEF Requested
<1>6. Set(r, q)
  BY <1>1
<1> HIDE DEF q
<1>7. req[r].at = 0
  BY <1>2, RequestedFields DEF Inv, RequestsRight, LookUp
<1>8. DataOf(q) /\ LookUp(q)
  BY <1>2, <1>3, <1>5, <1>7, RequestedFields DEF Inv, RequestsRight, DataOf, LookUp
<1>9. q.at <= Len(q.names)
  BY <1>3, <1>5, <1>7
<1> QED
  BY <1>4, <1>6, <1>8, <1>9, OneRequestOnly DEF GetTenants

LEMMA GetTenantsFailsStep ==
  ASSUME Inv, NEW r \in Requests, GetTenantsFails(r)
  PROVE  Inv'
<1> DEFINE q == [req[r] EXCEPT !.stage = "rechecking", !.excuse = TRUE]
<1>1. req[r] \in Requested /\ req[r].stage = "asking" /\ req[r] # Idle
  BY UnderWay, RequestedFields DEF GetTenantsFails, Inv, TypeInv
<1>2. q \in Requested
  BY <1>1 DEF Requested
<1>3. /\ q.stage = "rechecking" /\ q.excuse = TRUE /\ q.data = req[r].data
      /\ q.at = req[r].at /\ q.names = req[r].names
  BY <1>1 DEF Requested
<1>4. Set(r, q) /\ q.at <= Len(q.names)
  BY <1>1, <1>3 DEF GetTenantsFails, Inv, TypeInv, WithinNames
<1> HIDE DEF q
<1>5. DataOf(q) /\ LookUp(q)
  BY <1>1, <1>3 DEF Inv, RequestsRight, DataOf, LookUp
<1> QED
  BY <1>2, <1>4, <1>5, OneRequestOnly DEF GetTenantsFails

LEMMA RecheckStep ==
  ASSUME Inv, NEW r \in Requests, Recheck(r)
  PROVE  Inv'
<1> DEFINE q == [req[r] EXCEPT !.stage = IF Listed(req[r].name) THEN "200" ELSE "404"]
<1>1. req[r] \in Requested /\ req[r].stage = "rechecking" /\ req[r] # Idle
  BY UnderWay, RequestedFields DEF Recheck, Inv, TypeInv
<1>2. q \in Requested
  BY <1>1 DEF Requested
<1>3. /\ q.stage = (IF Listed(req[r].name) THEN "200" ELSE "404")
      /\ q.excuse = req[r].excuse /\ q.data = req[r].data
      /\ q.at = req[r].at /\ q.names = req[r].names
  BY <1>1 DEF Requested
<1>4. Set(r, q) /\ q.at <= Len(q.names)
  BY <1>1, <1>3 DEF Recheck, Inv, TypeInv, WithinNames
<1> HIDE DEF q
<1>5. DataOf(q) /\ LookUp(q)
  BY <1>1, <1>3 DEF Inv, RequestsRight, DataOf, LookUp
<1> QED
  BY <1>2, <1>4, <1>5, OneRequestOnly DEF Recheck

LEMMA FinishStep ==
  ASSUME Inv, NEW r \in Requests, Finish(r)
  PROVE  Inv'
<1>1. /\ req' = [req EXCEPT ![r] = Idle] /\ req \in [Requests -> {Idle} \cup Requested]
      /\ UNCHANGED <<exists, metered, cache, list>>
  BY DEF Finish, Set, Inv, TypeInv, TypeOK
<1>2. /\ req' \in [Requests -> {Idle} \cup Requested]
      /\ \A o \in Requests : req'[o] # Idle => req'[o] = req[o]
  BY <1>1
<1>3. TypeInv' /\ DataOfEntries'
  BY <1>1, <1>2 DEF Inv, TypeInv, TypeOK, WithinNames, DataOfEntries
<1>4. ASSUME NEW o \in Requests, req'[o] # Idle
      PROVE  (DataOf(req[o]) /\ LookUp(req[o]))'
  <2>1. req'[o] = req[o] /\ DataOf(req[o]) /\ LookUp(req[o])
    BY <1>2, <1>4 DEF Inv, RequestsRight
  <2> QED
    BY <1>1, <2>1 DEF DataOf, LookUp, Listed
<1>5. RequestsRight'
  BY <1>4 DEF RequestsRight
<1> QED
  BY <1>3, <1>5 DEF Inv

LEMMA DecodeStep ==
  ASSUME Inv, NEW r \in Requests, Decode(r)
  PROVE  Inv'
<1> DEFINE names == req[r].names
           at == req[r].at
           q == IF Decoded(names, at)
                THEN [req[r] EXCEPT !.stage = "rechecking", !.names = <<>>, !.at = 0]
                ELSE [req[r] EXCEPT !.at = at + 1]
<1>1. /\ req[r] \in Requested /\ q \in Requested /\ q.at <= Len(q.names) /\ req'[r] = q
      /\ \A o \in Requests : o # r =>
           req'[o] = IF req[o].stage \in {"asking", "decoding", "rechecking"}
                     THEN [req[o] EXCEPT !.excuse = TRUE] ELSE req[o]
  BY DecodeRequests DEF Inv
<1>2. /\ req[r].stage = "decoding" /\ req[r] # Idle
      /\ UNCHANGED <<exists, metered, cache>>
      /\ IF Decoded(names, at)
         THEN list' = SubSeq(list, 1, IF Len(list) < Len(names) THEN Len(list) ELSE Len(names))
         ELSE list' = Written(at + 1, names[at + 1])
  BY <1>1, RequestedFields DEF Decode
<1>3. /\ names \in SetToAllKPermutations(Tenants) /\ names \in Seq(Tenants) /\ Len(names) \in Nat
      /\ at \in Nat /\ at <= Len(names)
  BY <1>1, <1>2, RequestedFields, NamesAre, TenantsCounted DEF Inv, TypeInv, WithinNames
<1>4. list \in Seq(Tenants) /\ Len(list) \in Nat
  BY DEF Inv, TypeInv, TypeOK
<1>5. ASSUME NEW o \in Requests, o # r, req[o] # Idle
      PROVE  /\ req[o] \in Requested
             /\ req'[o] \in Requested /\ req'[o].stage = req[o].stage /\ req'[o].data = req[o].data
             /\ req'[o].waited = req[o].waited
             /\ req'[o].at = req[o].at /\ req'[o].names = req[o].names
             /\ IF req[o].stage \in {"asking", "decoding", "rechecking"}
                THEN req'[o].excuse = TRUE ELSE req'[o] = req[o]
  <2>1. req[o] \in Requested
    BY <1>5 DEF Inv, TypeInv, TypeOK
  <2>2. [req[o] EXCEPT !.excuse = TRUE] \in Requested
    BY <2>1 DEF Requested
  <2>3. CASE req[o].stage \in {"asking", "decoding", "rechecking"}
    BY <1>1, <1>5, <2>1, <2>2, <2>3 DEF Requested
  <2>4. CASE req[o].stage \notin {"asking", "decoding", "rechecking"}
    BY <1>1, <1>5, <2>1, <2>4
  <2> QED
    BY <2>3, <2>4
<1>6. ASSUME NEW o \in Requests, o # r, req[o] = Idle
      PROVE  req'[o] = Idle
  BY <1>1, <1>6 DEF Idle
<1>7. req' \in [Requests -> {Idle} \cup Requested]
  <2>1. req' = [o \in Requests |-> req'[o]]
    BY DEF Decode
  <2>2. ASSUME NEW o \in Requests PROVE req'[o] \in {Idle} \cup Requested
    <3>1. CASE o = r
      <4> HIDE DEF q
      <4> QED
        BY <1>1, <3>1
    <3>2. CASE o # r
      BY <1>5, <1>6, <3>2
    <3> QED
      BY <3>1, <3>2
  <2> QED
    BY <2>1, <2>2
<1>8. WithinNames'
  BY <1>1, <1>5, <1>6 DEF WithinNames, Inv, TypeInv
<1>9. list' \in Seq(Tenants) /\ Len(list') <= Cardinality(Tenants)
  <2>1. CASE Decoded(names, at)
    BY <1>2, <1>3, <2>1, CutType DEF Inv
  <2>2. CASE ~Decoded(names, at)
    <3>1. at < Len(names)
      BY <1>3, <2>2 DEF Decoded
    <3> QED
      BY <1>2, <1>3, <2>2, <3>1, WrittenType DEF Inv
  <2> QED
    BY <2>1, <2>2
<1>10. (DataOf(req[r]) /\ LookUp(req[r]))'
  <2>1. CASE Decoded(names, at)
    <3>1. /\ q.stage = "rechecking" /\ q.data = req[r].data /\ q.excuse = req[r].excuse
          /\ q.name = req[r].name
      BY <1>1, <2>1 DEF Requested
    <3>2. q.data.age < MaxAge
      BY <1>2, <3>1 DEF Inv, RequestsRight, DataOf
    <3>3. ASSUME ~req[r].excuse
          PROVE  \E i \in 1..Len(list') : list'[i] = req[r].name
      <4>1. /\ Contains(names, req[r].name) /\ at = Len(names) /\ at <= Len(list)
            /\ \A j \in 1..at : list[j] = names[j]
        BY <1>2, <2>1, <3>3 DEF Inv, RequestsRight, LookUp, Decoded
      <4>2. Len(list') = Len(names) /\ \A j \in 1..Len(names) : list'[j] = list[j]
        BY <1>2, <1>3, <2>1, <4>1, CutType DEF Inv
      <4> QED
        BY <4>1, <4>2 DEF Contains
    <3> HIDE DEF q
    <3> QED
      BY <1>1, <3>1, <3>2, <3>3 DEF DataOf, LookUp, Listed, Contains
  <2>2. CASE ~Decoded(names, at)
    <3>1. /\ q.stage = "decoding" /\ q.data = req[r].data /\ q.excuse = req[r].excuse
          /\ q.name = req[r].name /\ q.names = names /\ q.at = at + 1
      BY <1>1, <1>2, <2>2 DEF Requested
    <3>2. q.data.age < MaxAge
      BY <1>2, <3>1 DEF Inv, RequestsRight, DataOf
    <3>3. ASSUME ~req[r].excuse
          PROVE  /\ Contains(names, req[r].name) /\ at + 1 <= Len(list')
                 /\ \A j \in 1..(at + 1) : list'[j] = names[j]
      <4>1. /\ Contains(names, req[r].name) /\ at <= Len(list)
            /\ \A j \in 1..at : list[j] = names[j]
        BY <1>2, <3>3 DEF Inv, RequestsRight, LookUp
      <4>2. names[at + 1] \in Tenants
        <5>1. at + 1 \in 1..Len(names)
          BY <1>3, <2>2 DEF Decoded
        <5> QED
          BY <1>3, <5>1, ElementOfSeq
      <4>3. CASE at + 1 <= Len(list)
        <5>1. list' = [list EXCEPT ![at + 1] = names[at + 1]]
          BY <1>2, <2>2, <4>3 DEF Written
        <5>2. Len(list') = Len(list) /\ \A j \in 1..Len(list) :
                list'[j] = IF j = at + 1 THEN names[at + 1] ELSE list[j]
          BY <1>3, <1>4, <4>2, <4>3, <5>1
        <5> QED
          BY <1>3, <1>4, <4>1, <4>3, <5>2
      <4>4. CASE ~(at + 1 <= Len(list))
        <5>1. list' = Append(list, names[at + 1]) /\ Len(list) = at
          BY <1>2, <1>3, <1>4, <2>2, <4>1, <4>4 DEF Written
        <5>2. /\ Len(list') = at + 1 /\ list'[at + 1] = names[at + 1]
              /\ \A j \in 1..at : list'[j] = list[j]
          BY <1>4, <4>2, <5>1, AppendProperties
        <5>3. ASSUME NEW j \in 1..(at + 1) PROVE list'[j] = names[j]
          <6>1. j \in 1..at \/ j = at + 1
            BY <1>3
          <6> QED
            BY <4>1, <5>2, <6>1
        <5> QED
          BY <1>3, <4>1, <5>2, <5>3
      <4> QED
        BY <4>3, <4>4
    <3> HIDE DEF q
    <3> QED
      BY <1>1, <3>1, <3>2, <3>3 DEF DataOf, LookUp
  <2> QED
    BY <2>1, <2>2
<1>11. ASSUME NEW o \in Requests, o # r, req[o] # Idle
       PROVE  (DataOf(req[o]) /\ LookUp(req[o]))'
  <2>1. DataOf(req[o]) /\ LookUp(req[o])
    BY <1>11 DEF Inv, RequestsRight
  <2>2. \/ req'[o].excuse = TRUE
        \/ req'[o] = req[o] /\ req[o].stage \notin {"asking", "decoding", "rechecking"}
    BY <1>5, <1>11
  <2>3. DataOf(req[o])'
    BY <1>5, <1>11, <2>1 DEF DataOf
  <2>4. LookUp(req[o])'
    BY <1>5, <1>11, <2>1, <2>2 DEF LookUp
  <2> QED
    BY <2>3, <2>4
<1>12. RequestsRight'
  BY <1>6, <1>10, <1>11 DEF RequestsRight
<1> QED
  BY <1>2, <1>7, <1>8, <1>9, <1>12 DEF Inv, TypeInv, TypeOK, DataOfEntries

LEMMA TickStep ==
  ASSUME Inv, Tick
  PROVE  Inv'
<1>1. /\ cache \in [Names -> [age : 0..scrapeInterval, data : Data]]
      /\ req \in [Requests -> {Idle} \cup Requested]
  BY DEF Inv, TypeInv, TypeOK
<1>2. ASSUME NEW n \in Names
      PROVE  /\ cache'[n] \in [age : 0..scrapeInterval, data : Data]
             /\ cache'[n].data.age <= cache'[n].age + ScrapeTimeout
  <2>1. cache'[n] = IF cache[n].age + 1 >= scrapeInterval THEN NoEntry
                    ELSE [age |-> cache[n].age + 1, data |-> Older(cache[n].data)]
    BY DEF Tick
  <2>2. CASE cache[n].age + 1 >= scrapeInterval
    BY <2>1, <2>2, EmptyData, AgeBounds DEF NoEntry
  <2>3. CASE ~(cache[n].age + 1 >= scrapeInterval)
    <3>1. /\ cache[n].age \in 0..scrapeInterval /\ cache[n].data \in Data
          /\ cache[n].data.age \in Nat
          /\ cache[n].data.age <= cache[n].age + ScrapeTimeout
      BY <1>1 DEF Data, Inv, DataOfEntries
    <3>2. /\ Older(cache[n].data) \in Data /\ Older(cache[n].data).age \in Nat
          /\ Older(cache[n].data).age <= cache[n].data.age + 1
      BY <3>1, OlderType, AgeBounds DEF Data
    <3>3. cache[n].age + 1 \in 0..scrapeInterval
      BY <2>3, <3>1, AgeBounds
    <3> QED
      BY <2>1, <2>3, <3>1, <3>2, <3>3, AgeBounds
  <2> QED
    BY <2>2, <2>3
<1>3. cache' \in [Names -> [age : 0..scrapeInterval, data : Data]] /\ DataOfEntries'
  <2>1. cache' = [n \in Names |-> cache'[n]]
    BY DEF Tick
  <2>2. cache' \in [Names -> [age : 0..scrapeInterval, data : Data]]
    BY <1>2, <2>1
  <2> QED
    BY <1>2, <2>2 DEF DataOfEntries
<1>4. ASSUME NEW r \in Requests, req[r] = Idle
      PROVE  req'[r] = Idle
  BY <1>4 DEF Tick, Idle
<1>5. ASSUME NEW r \in Requests, req[r] # Idle
      PROVE  /\ req'[r] \in Requested /\ req'[r].at <= Len(req'[r].names)
             /\ (DataOf(req[r]) /\ LookUp(req[r]))'
  <2>1. /\ req[r] \in Requested /\ req[r].at <= Len(req[r].names)
        /\ DataOf(req[r]) /\ LookUp(req[r])
    BY <1>1, <1>5 DEF Inv, TypeInv, WithinNames, RequestsRight
  <2>2. UNCHANGED <<exists, metered, list>>
    BY DEF Tick
  <2>3. CASE req[r].stage = "scraping"
    <3>1. req'[r] = [req[r] EXCEPT !.waited = req[r].waited + 1]
      BY <2>3 DEF Tick
    <3>2. req[r].waited + 1 \in 0..ScrapeTimeout
      <4>1. req[r].waited < ScrapeTimeout
        BY <2>3 DEF Tick
      <4>2. req[r].waited \in 0..ScrapeTimeout
        BY <2>1, RequestedFields
      <4> QED
        BY <4>1, <4>2, AgeBounds
    <3>3. req'[r] \in Requested
      BY <2>1, <3>1, <3>2 DEF Requested
    <3>4. req'[r].stage = "scraping" /\ req'[r].at = req[r].at /\ req'[r].names = req[r].names
      BY <2>1, <2>3, <3>1 DEF Requested
    <3> QED
      BY <2>1, <3>3, <3>4 DEF DataOf, LookUp
  <2>4. CASE req[r].stage = "sampled"
    <3> DEFINE older == Older(req[r].data)
    <3>1. req'[r] = [req[r] EXCEPT !.waited = req[r].waited + 1, !.data = older]
      BY <2>4 DEF Tick
    <3>2. req[r].waited + 1 \in 0..ScrapeTimeout /\ req[r].waited \in Nat
      <4>1. req[r].waited < ScrapeTimeout
        BY <2>4 DEF Tick
      <4>2. req[r].waited \in 0..ScrapeTimeout
        BY <2>1, RequestedFields
      <4> QED
        BY <4>1, <4>2, AgeBounds
    <3>3. /\ older \in Data /\ older.age <= req[r].data.age + 1
          /\ older.age \in Nat /\ req[r].data.age \in Nat
      <4>1. req[r].data \in Data
        BY <2>1, RequestedFields
      <4>2. older \in Data /\ older.age <= req[r].data.age + 1
        BY <4>1, OlderType
      <4> QED
        BY <4>1, <4>2, AgeBounds DEF Data
    <3> HIDE DEF older
    <3>4. req'[r] \in Requested
      BY <2>1, <3>1, <3>2, <3>3 DEF Requested
    <3>5. /\ req'[r].stage = "sampled" /\ req'[r].at = req[r].at /\ req'[r].names = req[r].names
          /\ req'[r].waited = req[r].waited + 1 /\ req'[r].data = older
      BY <2>1, <2>4, <3>1 DEF Requested
    <3>6. older.age <= req[r].waited + 1
      BY <2>1, <2>4, <3>2, <3>3 DEF DataOf
    <3> QED
      BY <2>1, <3>4, <3>5, <3>6 DEF DataOf, LookUp
  <2>5. CASE req[r].stage \notin {"scraping", "sampled"}
    <3>1. req'[r] = req[r]
      BY <2>5 DEF Tick
    <3> QED
      BY <2>1, <2>2, <3>1 DEF DataOf, LookUp, Listed
  <2> QED
    BY <2>3, <2>4, <2>5
<1>6. req' \in [Requests -> {Idle} \cup Requested]
  <2>1. req' = [r \in Requests |-> req'[r]]
    BY DEF Tick
  <2>2. \A r \in Requests : req'[r] \in {Idle} \cup Requested
    BY <1>4, <1>5
  <2> QED
    BY <2>1, <2>2
<1>7. WithinNames' /\ RequestsRight'
  BY <1>4, <1>5 DEF WithinNames, RequestsRight
<1> QED
  BY <1>3, <1>6, <1>7 DEF Inv, TypeInv, TypeOK, Tick

LEMMA ChangeTenantsStep ==
  ASSUME Inv, NEW t \in Tenants, ChangeTenants(t)
  PROVE  Inv'
<1> DEFINE Misled(r) == /\ req[r].stage \in {"asking", "decoding", "rechecking"}
                        /\ req[r].name = t /\ t \in exists
<1>1. /\ req \in [Requests -> {Idle} \cup Requested]
      /\ UNCHANGED <<cache, list>> /\ metered' = metered \ {t}
      /\ exists' = IF t \in exists THEN exists \ {t} ELSE exists \cup {t}
      /\ req' = [r \in Requests |-> IF Misled(r) THEN [req[r] EXCEPT !.excuse = TRUE] ELSE req[r]]
  BY DEF Inv, TypeInv, TypeOK, ChangeTenants
<1>2. ASSUME NEW r \in Requests, req[r] = Idle
      PROVE  req'[r] = Idle
  BY <1>1, <1>2 DEF Idle
<1>3. ASSUME NEW r \in Requests, req[r] # Idle
      PROVE  /\ req'[r] \in Requested /\ req'[r].at <= Len(req'[r].names)
             /\ (DataOf(req[r]) /\ LookUp(req[r]))'
  <2>1. /\ req[r] \in Requested /\ req[r].at <= Len(req[r].names)
        /\ DataOf(req[r]) /\ LookUp(req[r])
    BY <1>1, <1>3 DEF Inv, TypeInv, WithinNames, RequestsRight
  <2>2. CASE Misled(r)
    <3>1. req'[r] = [req[r] EXCEPT !.excuse = TRUE]
      BY <1>1, <2>2
    <3>2. /\ req'[r].stage = req[r].stage /\ req'[r].data = req[r].data
          /\ req'[r].waited = req[r].waited /\ req'[r].excuse = TRUE
          /\ req'[r].at = req[r].at /\ req'[r].names = req[r].names
      BY <2>1, <3>1 DEF Requested
    <3>3. req'[r] \in Requested
      BY <2>1, <3>1 DEF Requested
    <3> QED
      BY <2>1, <3>2, <3>3 DEF DataOf, LookUp
  <2>3. CASE ~Misled(r)
    <3>1. req'[r] = req[r]
      BY <1>1, <2>3
    <3>2. req[r].stage = "asking" /\ req[r].name \in exists => req[r].name \in exists'
      BY <1>1, <2>3
    <3> HIDE DEF Misled
    <3> QED
      BY <1>1, <2>1, <3>1, <3>2 DEF DataOf, LookUp, Listed
  <2> QED
    BY <2>2, <2>3
<1>4. req' \in [Requests -> {Idle} \cup Requested]
  <2>1. req' = [r \in Requests |-> req'[r]]
    BY <1>1
  <2>2. \A r \in Requests : req'[r] \in {Idle} \cup Requested
    BY <1>2, <1>3
  <2> QED
    BY <2>1, <2>2
<1>5. WithinNames' /\ RequestsRight'
  BY <1>2, <1>3 DEF WithinNames, RequestsRight
<1>6. exists' \subseteq Tenants /\ metered' \subseteq Names
  BY <1>1 DEF Inv, TypeInv, TypeOK
<1> QED
  BY <1>1, <1>4, <1>5, <1>6 DEF Inv, TypeInv, TypeOK, DataOfEntries

LEMMA InvStep == Inv /\ [Next]_vars => Inv'
<1> SUFFICES ASSUME Inv, [Next]_vars PROVE Inv'
  OBVIOUS
<1>1. ASSUME UNCHANGED <<exists, cache, list, req>>, metered' \subseteq Names
      PROVE  Inv'
  BY <1>1 DEF Inv, TypeInv, TypeOK, WithinNames, DataOfEntries, RequestsRight, DataOf, LookUp, Listed
<1>2. ASSUME NEW n \in Names, ChangeTopics(n) PROVE Inv'
  <2>1. metered' \subseteq Names
    BY <1>2 DEF ChangeTopics, Inv, TypeInv, TypeOK
  <2> QED
    BY <1>1, <1>2, <2>1 DEF ChangeTopics
<1>3. CASE UNCHANGED vars
  <2>1. metered' \subseteq Names /\ UNCHANGED <<exists, cache, list, req>>
    BY <1>3 DEF vars, Inv, TypeInv, TypeOK
  <2> QED
    BY <1>1, <2>1
<1> QED
  BY <1>2, <1>3, TickStep, ChangeTenantsStep, ArriveStep, TakeSampleStep, EndScrapeStep,
     ScrapeFailsStep, ServeStep, GetTenantsStep, GetTenantsFailsStep, DecodeStep, RecheckStep,
     FinishStep
  DEF Next, RequestNext

-----------------------------------------------------------------------------
(* The properties *)

LEMMA InvCorrect == Spec => []Inv
BY InvInit, InvStep, PTL DEF Spec

\* Every variable keeps its type: the list, which requests write without a lock,
\* never has more elements than there are tenants (updateTenants).
THEOREM TypeCorrect == Spec => []TypeOK
BY InvCorrect, PTL DEF Inv, TypeInv

\* However scrapes overlap, metrics are answered that were true less than a
\* scrape and an interval of the cache ago (GetTenantPromMetrics).
THEOREM MetricsServedFresh == Spec => []ServedFresh
<1>1. Inv => ServedFresh
  BY DEF Inv, RequestsRight, DataOf, ServedFresh, Idle
<1> QED
  BY <1>1, InvCorrect, PTL

\* A tenant is only said not to be there for a reason, whatever requests write to
\* the list at the same time (IsTenant, tenantFederatedPrometheus).
THEOREM NotFoundIsExcused == Spec => []NotFoundExcused
<1>1. Inv => NotFoundExcused
  BY DEF Inv, RequestsRight, LookUp, NotFoundExcused, Idle
<1> QED
  BY <1>1, InvCorrect, PTL

-----------------------------------------------------------------------------
(* Sums over finite sets, for TenantUsage.  The induction is over the size   *)
(* of a set that a sum is wrong of: there is no least one.                   *)

\* A set of naturals that is not empty has a least element.
LEMMA LeastNat ==
  ASSUME NEW S \in SUBSET Nat, S # {}
  PROVE  \E x \in S : \A y \in S : x <= y
<1>1. \E x \in S : \A y \in S : ~(<<y, x>> \in OpToRel(<, Nat))
  BY NatLessThanWellFounded, WFMin
<1>2. PICK x \in S : \A y \in S : ~(<<y, x>> \in OpToRel(<, Nat))
  BY <1>1
<1>3. ASSUME NEW y \in S PROVE x <= y
  <2>1. y \in Nat /\ x \in Nat
    OBVIOUS
  <2>2. ~(<<y, x>> \in OpToRel(<, Nat))
    BY <1>2
  <2> QED
    BY <2>1, <2>2 DEF OpToRel
<1> QED
  BY <1>3

\* The element that a sum takes first.
First(s) == CHOOSE x \in s : TRUE

\* g has the sums of f over the sets of C.
SumsOver(f, C, g) ==
  g = [s \in C |-> IF s = {} THEN 0 ELSE f[First(s)] + g[s \ {First(s)}]]

\* Without its first element a set is smaller by one.
LEMMA FirstElement ==
  ASSUME NEW s, s # {}, IsFiniteSet(s)
  PROVE  /\ First(s) \in s /\ IsFiniteSet(s \ {First(s)})
         /\ Cardinality(s) \in Nat /\ Cardinality(s) > 0
         /\ Cardinality(s \ {First(s)}) = Cardinality(s) - 1
<1>1. First(s) \in s
  BY DEF First
<1>2. Cardinality(s) \in Nat /\ Cardinality(s) # 0
  BY FS_CardinalityType, FS_EmptySet
<1> QED
  BY <1>1, <1>2, FS_RemoveElement

\* The subsets of S that have no more than n elements.
UpTo(S, n) == {s \in SUBSET S : Cardinality(s) <= n}

\* There is a function that has the sums over all subsets of a finite set: the
\* recursion by which the community modules define a sum is well founded.
LEMMA SumsExist ==
  ASSUME NEW f, NEW S, IsFiniteSet(S)
  PROVE  \E g : SumsOver(f, SUBSET S, g)
<1> DEFINE Missing == {n \in Nat : ~\E g : SumsOver(f, UpTo(S, n), g)}
<1>1. 0 \notin Missing
  <2> DEFINE g == [s \in UpTo(S, 0) |-> 0]
  <2>1. \A s \in UpTo(S, 0) : s = {}
    <3> SUFFICES ASSUME NEW s \in UpTo(S, 0) PROVE s = {}
      OBVIOUS
    <3>1. IsFiniteSet(s) /\ Cardinality(s) \in Nat /\ Cardinality(s) <= 0
      BY FS_Subset, FS_CardinalityType DEF UpTo
    <3> QED
      BY <3>1, FS_EmptySet
  <2>2. SumsOver(f, UpTo(S, 0), g)
    BY <2>1 DEF SumsOver
  <2> QED
    BY <2>2
<1>2. ASSUME NEW n \in Nat, n \notin Missing PROVE n + 1 \notin Missing
  <2>1. PICK g : SumsOver(f, UpTo(S, n), g)
    BY <1>2
  <2> DEFINE h == [s \in UpTo(S, n + 1) |->
                     IF s = {} THEN 0 ELSE f[First(s)] + g[s \ {First(s)}]]
  <2>2. ASSUME NEW s \in UpTo(S, n + 1), s # {}
        PROVE  s \ {First(s)} \in UpTo(S, n) /\ s \ {First(s)} \in UpTo(S, n + 1)
    <3>1. IsFiniteSet(s)
      BY FS_Subset DEF UpTo
    <3>2. /\ Cardinality(s) \in Nat /\ Cardinality(s) <= n + 1
          /\ Cardinality(s \ {First(s)}) = Cardinality(s) - 1
      BY <2>2, <3>1, FirstElement DEF UpTo
    <3>3. Cardinality(s \ {First(s)}) <= n /\ Cardinality(s \ {First(s)}) <= n + 1
      BY <3>2
    <3> QED
      BY <3>3 DEF UpTo
  <2>3. \A s \in UpTo(S, n) : h[s] = g[s]
    <3>1. \A s \in UpTo(S, n) : s \in UpTo(S, n + 1)
      <4> SUFFICES ASSUME NEW s \in UpTo(S, n) PROVE s \in UpTo(S, n + 1)
        OBVIOUS
      <4>1. Cardinality(s) \in Nat
        BY FS_Subset, FS_CardinalityType DEF UpTo
      <4> QED
        BY <4>1 DEF UpTo
    <3> QED
      BY <2>1, <3>1 DEF SumsOver
  <2>4. SumsOver(f, UpTo(S, n + 1), h)
    BY <2>2, <2>3 DEF SumsOver
  <2> QED
    BY <2>4
<1>3. Missing = {}
  <2> SUFFICES ASSUME Missing # {} PROVE FALSE
    OBVIOUS
  <2>1. PICK n \in Missing : \A m \in Missing : n <= m
    BY LeastNat
  <2>2. n \in Nat /\ n # 0
    BY <1>1
  <2> HIDE DEF Missing
  <2>3. n - 1 \in Nat /\ n - 1 \notin Missing /\ (n - 1) + 1 = n
    BY <2>1, <2>2
  <2> QED
    BY <1>2, <2>1, <2>3
<1>4. Cardinality(S) \in Nat /\ UpTo(S, Cardinality(S)) = SUBSET S
  BY FS_CardinalityType, FS_Subset DEF UpTo
<1>5. Cardinality(S) \notin Missing
  BY <1>3
<1>6. \E g : SumsOver(f, UpTo(S, Cardinality(S)), g)
  BY <1>4, <1>5
<1> QED
  BY <1>4, <1>6

\* Do two functions have the same sum over T?
Agree(g, h, T) == g[T] = h[T]

\* Sums over the subsets of a set do not depend on what else is summed.
LEMMA SumsAgree ==
  ASSUME NEW f, NEW S, NEW T, NEW g, NEW h, T \subseteq S, IsFiniteSet(T),
         SumsOver(f, SUBSET S, g), SumsOver(f, SUBSET T, h)
  PROVE  Agree(g, h, T)
<1> DEFINE Bad == {n \in Nat : \E s \in SUBSET T : Cardinality(s) = n /\ g[s] # h[s]}
<1>1. Bad = {}
  <2> SUFFICES ASSUME Bad # {} PROVE FALSE
    OBVIOUS
  <2>1. PICK n \in Bad : \A m \in Bad : n <= m
    BY LeastNat
  <2>2. PICK s \in SUBSET T : Cardinality(s) = n /\ g[s] # h[s]
    BY <2>1
  <2>3. IsFiniteSet(s) /\ s \in SUBSET S /\ s \in SUBSET T
    BY FS_Subset
  <2>4. s # {}
    BY <2>2, <2>3 DEF SumsOver
  <2>5. /\ Cardinality(s \ {First(s)}) \in Nat
        /\ Cardinality(s \ {First(s)}) < n
    <3>1. PICK c : c = Cardinality(s \ {First(s)})
      OBVIOUS
    <3>2. Cardinality(s) \in Nat /\ Cardinality(s) > 0 /\ c = Cardinality(s) - 1
      BY <2>3, <2>4, <3>1, FirstElement
    <3> QED
      BY <2>2, <3>1, <3>2
  <2>6. g[s \ {First(s)}] = h[s \ {First(s)}]
    BY <2>1, <2>5
  <2>7. /\ g[s] = f[First(s)] + g[s \ {First(s)}]
        /\ h[s] = f[First(s)] + h[s \ {First(s)}]
    BY <2>3, <2>4 DEF SumsOver
  <2> QED
    BY <2>2, <2>6, <2>7
<1>2. Cardinality(T) \in Nat
  BY FS_CardinalityType
<1> QED
  BY <1>1, <1>2 DEF Agree

\* A sum is what such a function has of the set itself.
LEMMA SumIsLast ==
  ASSUME NEW f, NEW S, IsFiniteSet(S)
  PROVE  \E g : SumsOver(f, SUBSET S, g) /\ SumFunctionOnSet(f, S) = g[S]
<1> DEFINE iter == CHOOSE g : SumsOver(f, SUBSET S, g)
<1>1. SumsOver(f, SUBSET S, iter)
  BY SumsExist
<1>2. SumFunctionOnSet(f, S) = iter[S]
  BY DEF SumFunctionOnSet, FoldFunctionOnSet, MapThenFoldSet, SumsOver, First
<1> QED
  BY <1>1, <1>2

\* The empty sum.
LEMMA SumEmpty ==
  ASSUME NEW f
  PROVE  SumFunctionOnSet(f, {}) = 0
<1>1. PICK g : SumsOver(f, SUBSET {}, g) /\ SumFunctionOnSet(f, {}) = g[{}]
  BY FS_EmptySet, SumIsLast
<1> QED
  BY <1>1 DEF SumsOver

\* The recursion of a sum.
LEMMA SumOfFirst ==
  ASSUME NEW f, NEW S, IsFiniteSet(S), S # {}
  PROVE  SumFunctionOnSet(f, S) = f[First(S)] + SumFunctionOnSet(f, S \ {First(S)})
<1>1. PICK T : T = S \ {First(S)}
  OBVIOUS
<1>6. IsFiniteSet(T) /\ T \subseteq S
  BY <1>1, FirstElement
<1>2. PICK g : SumsOver(f, SUBSET S, g) /\ SumFunctionOnSet(f, S) = g[S]
  BY SumIsLast
<1>3. PICK h : SumsOver(f, SUBSET T, h) /\ SumFunctionOnSet(f, T) = h[T]
  BY <1>6, SumIsLast
<1>4. Agree(g, h, T)
  BY <1>2, <1>3, <1>6, SumsAgree
<1>5. g[S] = f[First(S)] + g[T]
  BY <1>1, <1>2 DEF SumsOver
<1> QED
  BY <1>1, <1>2, <1>3, <1>4, <1>5 DEF Agree

\* Sums of naturals.
LEMMA SumNat ==
  ASSUME NEW f, NEW S, IsFiniteSet(S), \A x \in S : f[x] \in Nat
  PROVE  SumFunctionOnSet(f, S) \in Nat
<1> DEFINE Bad == {n \in Nat : \E s \in SUBSET S : Cardinality(s) = n
                                                   /\ SumFunctionOnSet(f, s) \notin Nat}
<1>1. Bad = {}
  <2> SUFFICES ASSUME Bad # {} PROVE FALSE
    OBVIOUS
  <2>1. PICK n \in Bad : \A m \in Bad : n <= m
    BY LeastNat
  <2>2. PICK s \in SUBSET S : Cardinality(s) = n /\ SumFunctionOnSet(f, s) \notin Nat
    BY <2>1
  <2>3. IsFiniteSet(s)
    BY FS_Subset
  <2>4. s # {}
    BY <2>2, SumEmpty
  <2>5. /\ First(s) \in s /\ Cardinality(s \ {First(s)}) \in Nat
        /\ Cardinality(s \ {First(s)}) < n
    BY <2>2, <2>3, <2>4, FirstElement
  <2>6. SumFunctionOnSet(f, s \ {First(s)}) \in Nat
    BY <2>1, <2>5
  <2>7. f[First(s)] \in Nat
    BY <2>5
  <2> QED
    BY <2>2, <2>3, <2>4, <2>6, <2>7, SumOfFirst
<1>2. Cardinality(S) \in Nat
  BY FS_CardinalityType
<1> QED
  BY <1>1, <1>2

\* Without one of its elements a set is smaller.
LEMMA OneLess ==
  ASSUME NEW s, IsFiniteSet(s), NEW a \in s
  PROVE  /\ IsFiniteSet(s \ {a}) /\ Cardinality(s \ {a}) \in Nat
         /\ Cardinality(s) \in Nat /\ Cardinality(s \ {a}) < Cardinality(s)
<1>1. IsFiniteSet(s \ {a}) /\ Cardinality(s \ {a}) = Cardinality(s) - 1
  BY FS_RemoveElement
<1>2. Cardinality(s) \in Nat /\ Cardinality(s \ {a}) \in Nat
  BY <1>1, FS_CardinalityType
<1> QED
  BY <1>1, <1>2

\* Is f's sum over s another when y is taken out first?
Splits(f, s, y) == SumFunctionOnSet(f, s) = f[y] + SumFunctionOnSet(f, s \ {y})

\* Any element may be taken out of a sum.
LEMMA SumRemove ==
  ASSUME NEW f, NEW S, IsFiniteSet(S), \A x \in S : f[x] \in Nat, NEW x \in S
  PROVE  SumFunctionOnSet(f, S) = f[x] + SumFunctionOnSet(f, S \ {x})
<1> DEFINE Bad == {n \in Nat : \E s \in SUBSET S : Cardinality(s) = n /\ \E y \in s : ~Splits(f, s, y)}
<1>1. Bad = {}
  <2> SUFFICES ASSUME Bad # {} PROVE FALSE
    OBVIOUS
  <2>1. PICK n \in Bad : \A m \in Bad : n <= m
    BY LeastNat
  <2>16. PICK s \in SUBSET S : Cardinality(s) = n /\ \E y \in s : ~Splits(f, s, y)
    BY <2>1
  <2>2. PICK y \in s : Cardinality(s) = n /\ ~Splits(f, s, y)
    BY <2>16
  <2>3. IsFiniteSet(s)
    BY FS_Subset
  <2>4. PICK z \in s : Splits(f, s, z)
    BY <2>3, FirstElement, SumOfFirst DEF Splits
  <2>5. y # z
    BY <2>2, <2>4
  <2>6. ASSUME NEW a \in s, NEW b \in s \ {a} PROVE Splits(f, s \ {a}, b)
    <3>1. Cardinality(s \ {a}) \in Nat /\ Cardinality(s \ {a}) < n
      BY <2>2, <2>3, OneLess
    <3>2. n \in Nat /\ Cardinality(s \ {a}) \notin Bad
      BY <3>1, <2>1
    <3>3. s \ {a} \in SUBSET S
      OBVIOUS
    <3> QED
      BY <3>1, <3>2, <3>3
  <2>7. Splits(f, s \ {y}, z) /\ Splits(f, s \ {z}, y)
    BY <2>5, <2>6
  <2>8. PICK r : r = SumFunctionOnSet(f, (s \ {z}) \ {y})
    OBVIOUS
  <2>9. (s \ {y}) \ {z} = (s \ {z}) \ {y}
    OBVIOUS
  <2>10. SumFunctionOnSet(f, (s \ {y}) \ {z}) = r
    BY <2>8, <2>9
  <2>11. r \in Nat
    <3>1. IsFiniteSet((s \ {z}) \ {y}) /\ \A a \in (s \ {z}) \ {y} : f[a] \in Nat
      BY <2>3, FS_Subset
    <3> QED
      BY <2>8, <3>1, SumNat
  <2>12. f[y] \in Nat /\ f[z] \in Nat
    OBVIOUS
  <2>13. SumFunctionOnSet(f, s \ {y}) = f[z] + r /\ SumFunctionOnSet(f, s \ {z}) = f[y] + r
    BY <2>7, <2>8, <2>10 DEF Splits
  <2>14. SumFunctionOnSet(f, s) = f[z] + (f[y] + r)
    BY <2>4, <2>13 DEF Splits
  <2>15. f[z] + (f[y] + r) = f[y] + (f[z] + r)
    BY <2>11, <2>12
  <2> QED
    BY <2>2, <2>13, <2>14, <2>15 DEF Splits
<1>2. Cardinality(S) \in Nat
  BY FS_CardinalityType
<1>3. Splits(f, S, x)
  BY <1>1, <1>2
<1> QED
  BY <1>3 DEF Splits

\* A sum whose terms are covered by different terms of another is not greater.
LEMMA SumCovered ==
  ASSUME NEW f, NEW S, IsFiniteSet(S), \A x \in S : f[x] \in Nat,
         NEW h, NEW T, IsFiniteSet(T), \A y \in T : h[y] \in Nat,
         NEW j, \A x \in S : j[x] \in T /\ f[x] <= h[j[x]],
         \A x, y \in S : j[x] = j[y] => x = y
  PROVE  SumFunctionOnSet(f, S) <= SumFunctionOnSet(h, T)
<1> DEFINE Within(s, t) == s \in SUBSET S /\ t \in SUBSET T /\ \A x \in s : j[x] \in t
           Wrong(s, t) == ~(SumFunctionOnSet(f, s) <= SumFunctionOnSet(h, t))
           Bad == {n \in Nat : \E s, t : Within(s, t) /\ Cardinality(s) = n /\ Wrong(s, t)}
<1>1. Bad = {}
  <2> SUFFICES ASSUME Bad # {} PROVE FALSE
    OBVIOUS
  <2>1. PICK n \in Bad : \A m \in Bad : n <= m
    BY LeastNat
  <2>2. PICK s, t : Within(s, t) /\ Cardinality(s) = n /\ Wrong(s, t)
    BY <2>1
  <2>3. /\ IsFiniteSet(s) /\ IsFiniteSet(t)
        /\ SumFunctionOnSet(f, s) \in Nat /\ SumFunctionOnSet(h, t) \in Nat
    <3>1. IsFiniteSet(s) /\ IsFiniteSet(t)
      BY <2>2, FS_Subset
    <3>2. (\A x \in s : f[x] \in Nat) /\ (\A y \in t : h[y] \in Nat)
      BY <2>2
    <3> QED
      BY <3>1, <3>2, SumNat
  <2>4. s # {}
    <3>1. PICK a, b : a = SumFunctionOnSet(f, s) /\ b = SumFunctionOnSet(h, t)
      OBVIOUS
    <3>2. ~(a <= b) /\ a \in Nat /\ b \in Nat
      BY <2>2, <2>3, <3>1
    <3>3. a # 0
      BY <3>2
    <3>4. SumFunctionOnSet(f, {}) = 0
      BY SumEmpty, Zenon
    <3> HIDE DEF Bad
    <3> QED
      BY <3>1, <3>3, <3>4
  <2>5. PICK x \in s : TRUE
    BY <2>4
  <2>6. j[x] \in t /\ f[x] <= h[j[x]] /\ f[x] \in Nat /\ h[j[x]] \in Nat
    BY <2>2, <2>5
  <2>7. /\ IsFiniteSet(s \ {x}) /\ Cardinality(s \ {x}) \in Nat /\ Cardinality(s \ {x}) < n
    <3> HIDE DEF Bad, Within, Wrong
    <3> QED
      BY <2>2, <2>3, <2>5, OneLess
  <2>8. Within(s \ {x}, t \ {j[x]})
    BY <2>2, <2>5
  <2>9. ~Wrong(s \ {x}, t \ {j[x]})
    <3> HIDE DEF Wrong, Within
    <3> QED
      BY <2>1, <2>7, <2>8
  <2>10. /\ SumFunctionOnSet(f, s) = f[x] + SumFunctionOnSet(f, s \ {x})
         /\ SumFunctionOnSet(h, t) = h[j[x]] + SumFunctionOnSet(h, t \ {j[x]})
    <3>1. (\A y \in s : f[y] \in Nat) /\ (\A y \in t : h[y] \in Nat)
      BY <2>2
    <3> QED
      BY <2>3, <2>5, <2>6, <3>1, SumRemove
  <2>11. SumFunctionOnSet(f, s \ {x}) \in Nat /\ SumFunctionOnSet(h, t \ {j[x]}) \in Nat
    <3>1. (\A y \in s \ {x} : f[y] \in Nat) /\ (\A y \in t \ {j[x]} : h[y] \in Nat)
      BY <2>2
    <3>2. IsFiniteSet(t \ {j[x]})
      BY <2>3, FS_Subset
    <3> QED
      BY <2>7, <3>1, <3>2, SumNat
  <2>12. SumFunctionOnSet(f, s \ {x}) <= SumFunctionOnSet(h, t \ {j[x]})
    BY <2>9
  <2>13. SumFunctionOnSet(f, s) <= SumFunctionOnSet(h, t)
    BY <2>6, <2>10, <2>11, <2>12
  <2> QED
    BY <2>2, <2>13
<1>2. Cardinality(S) \in Nat /\ Within(S, T)
  BY FS_CardinalityType
<1> QED
  BY <1>1, <1>2

\* With no term smaller the sum is not smaller.
LEMMA SumMonotone ==
  ASSUME NEW f, NEW h, NEW S, IsFiniteSet(S),
         \A x \in S : f[x] \in Nat /\ h[x] \in Nat /\ f[x] <= h[x]
  PROVE  SumFunctionOnSet(f, S) <= SumFunctionOnSet(h, S)
<1> DEFINE j == [x \in S |-> x]
<1>1. /\ \A x \in S : j[x] \in S /\ f[x] <= h[j[x]]
      /\ \A x, y \in S : j[x] = j[y] => x = y
  OBVIOUS
<1> HIDE DEF j
<1> QED
  BY <1>1, SumCovered

\* With the same terms it is the same.
LEMMA SumSame ==
  ASSUME NEW f, NEW h, NEW S, IsFiniteSet(S),
         \A x \in S : f[x] \in Nat /\ h[x] = f[x]
  PROVE  SumFunctionOnSet(h, S) = SumFunctionOnSet(f, S)
<1>1. /\ SumFunctionOnSet(f, S) <= SumFunctionOnSet(h, S)
      /\ SumFunctionOnSet(h, S) <= SumFunctionOnSet(f, S)
  BY SumMonotone
<1>2. SumFunctionOnSet(f, S) \in Nat /\ SumFunctionOnSet(h, S) \in Nat
  BY SumNat
<1> QED
  BY <1>1, <1>2

\* What one term adds, the sum has more.
LEMMA SumChange ==
  ASSUME NEW f, NEW h, NEW S, IsFiniteSet(S), NEW x \in S,
         \A y \in S : f[y] \in Nat /\ h[y] \in Nat /\ (y # x => h[y] = f[y])
  PROVE  /\ SumFunctionOnSet(f, S) \in Nat
         /\ SumFunctionOnSet(h, S) = SumFunctionOnSet(f, S) - f[x] + h[x]
<1>1. IsFiniteSet(S \ {x})
  BY FS_RemoveElement
<1>2. /\ SumFunctionOnSet(f, S) = f[x] + SumFunctionOnSet(f, S \ {x})
      /\ SumFunctionOnSet(h, S) = h[x] + SumFunctionOnSet(h, S \ {x})
  BY SumRemove
<1>3. SumFunctionOnSet(h, S \ {x}) = SumFunctionOnSet(f, S \ {x})
  BY <1>1, SumSame
<1>4. SumFunctionOnSet(f, S \ {x}) \in Nat /\ f[x] \in Nat /\ h[x] \in Nat
  BY <1>1, SumNat
<1> QED
  BY <1>2, <1>3, <1>4

\* A sum of zeros.
LEMMA SumZero ==
  ASSUME NEW f, NEW S, IsFiniteSet(S), \A x \in S : f[x] = 0
  PROVE  SumFunctionOnSet(f, S) = 0
<1> DEFINE Bad == {n \in Nat : \E s \in SUBSET S : Cardinality(s) = n /\ SumFunctionOnSet(f, s) # 0}
<1>1. Bad = {}
  <2> SUFFICES ASSUME Bad # {} PROVE FALSE
    OBVIOUS
  <2>1. PICK n \in Bad : \A m \in Bad : n <= m
    BY LeastNat
  <2>2. PICK s \in SUBSET S : Cardinality(s) = n /\ SumFunctionOnSet(f, s) # 0
    BY <2>1
  <2>3. IsFiniteSet(s) /\ s # {}
    BY <2>2, FS_Subset, SumEmpty
  <2>4. PICK x \in s : TRUE
    BY <2>3
  <2>5. Cardinality(s \ {x}) \in Nat /\ Cardinality(s \ {x}) < n
    BY <2>2, <2>3, OneLess
  <2>6. s \ {x} \in SUBSET S /\ Cardinality(s \ {x}) \notin Bad
    BY <2>1, <2>5
  <2>7. SumFunctionOnSet(f, s \ {x}) = 0
    BY <2>5, <2>6
  <2>8. SumFunctionOnSet(f, s) = f[x] + SumFunctionOnSet(f, s \ {x})
    <3>1. \A y \in s : f[y] \in Nat
      OBVIOUS
    <3> QED
      BY <2>3, <3>1, SumRemove
  <2>9. f[x] = 0
    OBVIOUS
  <2> QED
    BY <2>2, <2>7, <2>8, <2>9
<1>2. Cardinality(S) \in Nat
  BY FS_CardinalityType
<1> QED
  BY <1>1, <1>2

\* With a term that is greater by one the sum is.
LEMMA SumOneMore ==
  ASSUME NEW f, NEW h, NEW S, IsFiniteSet(S), NEW x \in S,
         \A y \in S : f[y] \in Nat /\ h[y] = IF y = x THEN f[y] + 1 ELSE f[y]
  PROVE  SumFunctionOnSet(h, S) = SumFunctionOnSet(f, S) + 1
<1>1. \A y \in S : f[y] \in Nat /\ h[y] \in Nat /\ (y # x => h[y] = f[y])
  OBVIOUS
<1>2. /\ SumFunctionOnSet(f, S) \in Nat
      /\ SumFunctionOnSet(h, S) = SumFunctionOnSet(f, S) - f[x] + h[x]
  BY <1>1, SumChange
<1>3. f[x] \in Nat /\ h[x] = f[x] + 1
  OBVIOUS
<1> QED
  BY <1>2, <1>3

-----------------------------------------------------------------------------
(* TenantUsage: what a row can hold.  A ledger has the messages that each    *)
(* broker received of each topic; it is not in the code, and some ledger     *)
(* covers all rows, wherever they are on their way to the table.             *)

PairsOf(tenant) == {tb \in Topics \X Brokers : TenantOf[tb[1]] = tenant}
TopicsOf(tenant) == {t \in Topics : TenantOf[t] = tenant}

\* No row of a set has more than its topic got while its broker served it.
Counted(rows, at) == \A row \in rows : row.total <= at[<<row.topic, row.broker>>]

\* at[t, b]: the messages of t that b received, as far as any row goes.
Ledger(at) ==
  /\ at \in [Topics \X Brokers -> Nat]
  /\ \A tenant \in UsageTenants :
       SumFunctionOnSet(at, PairsOf(tenant)) <= SumFunctionOnSet(received, TopicsOf(tenant))
  /\ \A t \in Topics : counter[t] <= at[<<t, owner[t]>>]
  /\ Counted(superCache, at) /\ Counted(todo, at)
  /\ \A p \in Processes : Counted(scrape[p], at)
  /\ \A k \in DOMAIN usageDb : Counted({usageDb[k]}, at)

\* A broker has counted no more than its topic got.
UsageTypeInv == UsageTypeOK /\ \A t \in Topics : counter[t] <= received[t]

UsageInv == UsageTypeInv /\ \E at : Ledger(at)

-----------------------------------------------------------------------------
\* A table with no rows.
LEMMA Emptied ==
  ASSUME usageDb = <<>>
  PROVE  DOMAIN usageDb = {}
OBVIOUS

\* A process that starts, in a cluster that starts.
LEMMA UsageInit_Type == UsageInit => UsageTypeInv
<1> SUFFICES ASSUME UsageInit PROVE UsageTypeInv
  OBVIOUS
<1>1. Cardinality({}) <= 1
  BY FS_EmptySet
<1>2. DOMAIN usageDb = {}
  BY DEF UsageInit
<1>3. /\ owner \in [Topics -> Brokers] /\ counter \in [Topics -> 0..MaxReceived]
      /\ received \in [Topics -> 0..MaxReceived] /\ moves \in 0..MaxMoves
      /\ errors \in 0..MaxErrors /\ crashes \in 0..MaxCrashes
      /\ \A t \in Topics : counter[t] <= received[t]
  BY UsageBoundsAssumption DEF UsageInit
<1>4. /\ superCache \subseteq Rows /\ scrape \in [Processes -> SUBSET Rows]
      /\ todo \subseteq Rows /\ unlisted \subseteq UsageTenants /\ Cardinality(unlisted) <= 1
      /\ tenants \subseteq UsageTenants /\ listing \in BOOLEAN
  BY <1>1 DEF UsageInit, NoData
<1> QED
  BY <1>2, <1>3, <1>4 DEF UsageTypeInv, UsageTypeOK

\* A sample has a row per topic.
LEMMA SampleRows ==
  ASSUME UsageTypeOK
  PROVE  /\ Sample \subseteq Rows
         /\ \A row \in Sample : \E t \in Topics :
              row.topic = t /\ row.broker = owner[t] /\ row.total = counter[t]
BY DEF UsageTypeOK, Sample, Rows

\* Every step keeps the types.
LEMMA UsageType_Step ==
  ASSUME UsageTypeInv, [UsageNext]_meteringVars
  PROVE  UsageTypeInv'
<1> USE UsageBoundsAssumption DEF UsageTypeOK, UsageTypeInv
<1>1. ASSUME NEW t \in Topics, Receive(t) PROVE UsageTypeInv'
  BY <1>1 DEF Receive, scrapeVars, usageVars
<1>2. ASSUME NEW t \in Topics, NEW b \in Brokers, Load(t, b) PROVE UsageTypeInv'
  BY <1>2 DEF Load, scrapeVars, usageVars
<1>3. ASSUME NEW p \in Processes, BeginSuperScrape(p) PROVE UsageTypeInv'
  BY <1>3, SampleRows DEF BeginSuperScrape, clusterVars, usageVars
<1>4. ASSUME NEW p \in Processes, EndSuperScrape(p) PROVE UsageTypeInv'
  BY <1>4 DEF EndSuperScrape, clusterVars, NoData
<1>5. ASSUME NEW p \in Processes, SuperScrapeFails(p) PROVE UsageTypeInv'
  BY <1>5 DEF SuperScrapeFails, clusterVars, usageVars, NoData
<1>6. CASE Expire
  BY <1>6 DEF Expire, clusterVars, usageVars, NoData
<1>7. CASE BuildFromCache
  BY <1>7 DEF BuildFromCache, clusterVars, scrapeVars
<1>8. CASE Insert
  <2>1. PICK row \in todo :
          /\ usageDb' = [k \in DOMAIN usageDb \cup {KeyOf(row)} |->
                           IF k = KeyOf(row) THEN Stored(row) ELSE usageDb[k]]
          /\ unlisted' = NewlyUnlisted(row)
          /\ todo' = todo \ {row}
    BY <1>8 DEF Insert
  <2>2. row \in Rows /\ Stored(row) = row /\ KeyOf(row) \in Keys /\ TenantOf[row.topic] \in UsageTenants
    BY UsageAssumption DEF Rows, Keys, KeyOf, Stored
  <2>3. /\ DOMAIN usageDb' \subseteq Keys
        /\ \A k \in DOMAIN usageDb' : usageDb'[k] \in Rows /\ KeyOf(usageDb'[k]) = k
    BY <2>1, <2>2
  <2>4. unlisted' \subseteq UsageTenants /\ Cardinality(unlisted') <= 1
    <3>1. unlisted' = {TenantOf[row.topic]}
      BY <2>1 DEF NewlyUnlisted
    <3>2. Cardinality({TenantOf[row.topic]}) = 1
      BY FS_Singleton
    <3> QED
      BY <2>2, <3>1, <3>2
  <2> QED
    BY <1>8, <2>1, <2>3, <2>4 DEF Insert, clusterVars, scrapeVars, KeyOf
<1>9. CASE ListTenant
  BY <1>9, FS_EmptySet DEF ListTenant, clusterVars, scrapeVars
<1>10. CASE BeginListing \/ EndListing
  BY <1>10 DEF BeginListing, EndListing, clusterVars, scrapeVars, usageVars
<1>11. CASE Crash
  <2>1. DOMAIN usageDb' = {}
    BY <1>11 DEF Crash
  <2>2. unlisted' = {} /\ Cardinality({}) <= 1
    BY <1>11, FS_EmptySet DEF Crash
  <2>3. /\ superCache' = {} /\ todo' = {} /\ tenants' = {} /\ listing' = FALSE
        /\ scrape' = [p \in Processes |-> {}]
    BY <1>11 DEF Crash, NoData
  <2>4. UNCHANGED <<owner, counter, received, moves, errors>> /\ crashes' \in 0..MaxCrashes
    BY <1>11 DEF Crash, clusterVars
  <2> QED
    BY <2>1, <2>2, <2>3, <2>4
<1>12. CASE UNCHANGED meteringVars
  BY <1>12 DEF meteringVars, clusterVars, scrapeVars, usageVars
<1> QED
  BY <1>1, <1>2, <1>3, <1>4, <1>5, <1>6, <1>7, <1>8, <1>9, <1>10, <1>11, <1>12
  DEF UsageNext, BuilderNext

\* Sums over a tenant are over finite sets.
LEMMA PairsFinite ==
  ASSUME NEW tenant
  PROVE  IsFiniteSet(PairsOf(tenant)) /\ IsFiniteSet(TopicsOf(tenant))
<1>1. IsFiniteSet(Topics \X Brokers)
  BY UsageAssumption, FS_Product
<1>2. PairsOf(tenant) \subseteq Topics \X Brokers /\ TopicsOf(tenant) \subseteq Topics
  BY DEF PairsOf, TopicsOf
<1> QED
  BY <1>1, <1>2, FS_Subset, UsageAssumption

\* The two sums that a ledger compares.
LEMMA LedgerNat ==
  ASSUME UsageTypeInv, NEW at, Ledger(at), NEW tenant
  PROVE  /\ SumFunctionOnSet(at, PairsOf(tenant)) \in Nat
         /\ SumFunctionOnSet(received, TopicsOf(tenant)) \in Nat
<1>1. (\A x \in PairsOf(tenant) : at[x] \in Nat) /\ \A x \in TopicsOf(tenant) : received[x] \in Nat
  BY UsageBoundsAssumption DEF PairsOf, TopicsOf, Ledger, UsageTypeInv, UsageTypeOK
<1> QED
  BY <1>1, PairsFinite, SumNat

\* What a ledger covers, one with more in it does.
LEMMA CountedMore ==
  ASSUME NEW at \in [Topics \X Brokers -> Nat], NEW more \in [Topics \X Brokers -> Nat],
         \A x \in Topics \X Brokers : at[x] <= more[x],
         NEW rows \in SUBSET Rows, Counted(rows, at)
  PROVE  Counted(rows, more)
<1> SUFFICES ASSUME NEW row \in rows PROVE row.total <= more[<<row.topic, row.broker>>]
  BY DEF Counted
<1>1. PICK x : x = <<row.topic, row.broker>>
  OBVIOUS
<1>2. x \in Topics \X Brokers /\ row.total \in Nat
  BY <1>1, UsageBoundsAssumption DEF Rows
<1>3. row.total <= at[x]
  BY <1>1 DEF Counted
<1>4. at[x] <= more[x] /\ at[x] \in Nat /\ more[x] \in Nat
  BY <1>2
<1>5. row.total <= more[x]
  BY <1>2, <1>3, <1>4
<1> QED
  BY <1>1, <1>5

\* In the beginning nothing is received.
LEMMA InitLedger == UsageInit => \E at : Ledger(at)
<1> SUFFICES ASSUME UsageInit PROVE \E at : Ledger(at)
  OBVIOUS
<1>1. PICK at : at = [tb \in Topics \X Brokers |-> 0]
  OBVIOUS
<1>2. ASSUME NEW tenant \in UsageTenants
      PROVE  SumFunctionOnSet(at, PairsOf(tenant)) <= SumFunctionOnSet(received, TopicsOf(tenant))
  <2>1. \A tb \in PairsOf(tenant) : at[tb] = 0
    BY <1>1 DEF PairsOf
  <2>2. \A t \in TopicsOf(tenant) : received[t] = 0
    BY DEF UsageInit, TopicsOf
  <2>3. /\ SumFunctionOnSet(at, PairsOf(tenant)) = 0
        /\ SumFunctionOnSet(received, TopicsOf(tenant)) = 0
    BY <2>1, <2>2, PairsFinite, SumZero
  <2> QED
    BY <2>3
<1>3. /\ at \in [Topics \X Brokers -> Nat]
      /\ \A t \in Topics : counter[t] <= at[<<t, owner[t]>>]
  BY <1>1 DEF UsageInit
<1>4. /\ Counted(superCache, at) /\ Counted(todo, at)
      /\ \A p \in Processes : Counted(scrape[p], at)
  BY DEF UsageInit, NoData, Counted
<1>5. DOMAIN usageDb = {}
  BY Emptied DEF UsageInit
<1>6. Ledger(at)
  BY <1>2, <1>3, <1>4, <1>5 DEF Ledger
<1> QED
  BY <1>6

\* A message more is in the ledger of its topic's broker.
LEMMA ReceiveLedger ==
  ASSUME UsageTypeInv, NEW at, Ledger(at), NEW t \in Topics, Receive(t)
  PROVE  \E a : Ledger(a)'
<1> PICK tb : tb = <<t, owner[t]>>
  OBVIOUS
<1>1. tb \in Topics \X Brokers /\ tb[1] = t /\ at \in [Topics \X Brokers -> Nat]
  BY DEF UsageTypeInv, UsageTypeOK, Ledger
<1>2. PICK more : more = [at EXCEPT ![tb] = @ + 1]
  OBVIOUS
<1>3. /\ more \in [Topics \X Brokers -> Nat]
      /\ \A x \in Topics \X Brokers : at[x] <= more[x] /\ more[x] = IF x = tb THEN at[x] + 1 ELSE at[x]
  BY <1>1, <1>2
<1>4. /\ received \in [Topics -> Nat] /\ received' \in [Topics -> Nat]
      /\ \A x \in Topics : received'[x] = IF x = t THEN received[x] + 1 ELSE received[x]
  BY UsageBoundsAssumption DEF UsageTypeInv, UsageTypeOK, Receive
<1>5. ASSUME NEW tenant \in UsageTenants
      PROVE  SumFunctionOnSet(more, PairsOf(tenant)) <= SumFunctionOnSet(received', TopicsOf(tenant))
  <2>1. SumFunctionOnSet(at, PairsOf(tenant)) <= SumFunctionOnSet(received, TopicsOf(tenant))
    BY DEF Ledger
  <2>2. CASE TenantOf[t] = tenant
    <3>1. tb \in PairsOf(tenant) /\ t \in TopicsOf(tenant)
      BY <1>1, <2>2 DEF PairsOf, TopicsOf
    <3>2. SumFunctionOnSet(more, PairsOf(tenant)) = SumFunctionOnSet(at, PairsOf(tenant)) + 1
      <4>1. \A x \in PairsOf(tenant) : at[x] \in Nat /\ more[x] = IF x = tb THEN at[x] + 1 ELSE at[x]
        BY <1>1, <1>3 DEF PairsOf
      <4> QED
        BY <3>1, <4>1, PairsFinite, SumOneMore
    <3>3. SumFunctionOnSet(received', TopicsOf(tenant)) = SumFunctionOnSet(received, TopicsOf(tenant)) + 1
      <4>1. \A x \in TopicsOf(tenant) :
              received[x] \in Nat /\ received'[x] = IF x = t THEN received[x] + 1 ELSE received[x]
        BY <1>4 DEF TopicsOf
      <4> QED
        BY <3>1, <4>1, PairsFinite, SumOneMore
    <3>4. /\ SumFunctionOnSet(at, PairsOf(tenant)) \in Nat
          /\ SumFunctionOnSet(received, TopicsOf(tenant)) \in Nat
      BY LedgerNat
    <3> QED
      BY <2>1, <3>2, <3>3, <3>4
  <2>3. CASE TenantOf[t] # tenant
    <3>1. tb \notin PairsOf(tenant) /\ t \notin TopicsOf(tenant)
      BY <1>1, <2>3 DEF PairsOf, TopicsOf
    <3>2. SumFunctionOnSet(more, PairsOf(tenant)) = SumFunctionOnSet(at, PairsOf(tenant))
      <4>1. \A x \in PairsOf(tenant) : at[x] \in Nat /\ more[x] = at[x]
        BY <1>1, <1>3, <3>1 DEF PairsOf
      <4> QED
        BY <4>1, PairsFinite, SumSame
    <3>3. SumFunctionOnSet(received', TopicsOf(tenant)) = SumFunctionOnSet(received, TopicsOf(tenant))
      <4>1. \A x \in TopicsOf(tenant) : received[x] \in Nat /\ received'[x] = received[x]
        BY <1>4, <3>1 DEF TopicsOf
      <4> QED
        BY <4>1, PairsFinite, SumSame
    <3> QED
      BY <2>1, <3>2, <3>3
  <2> QED
    BY <2>2, <2>3
<1>6. \A x \in Topics : counter'[x] <= more[<<x, owner'[x]>>]
  <2> SUFFICES ASSUME NEW x \in Topics PROVE counter'[x] <= more[<<x, owner'[x]>>]
    OBVIOUS
  <2>1. PICK xb : xb = <<x, owner[x]>>
    OBVIOUS
  <2>2. /\ xb \in Topics \X Brokers /\ owner' = owner /\ counter[x] \in Nat
        /\ counter'[x] = IF x = t THEN counter[x] + 1 ELSE counter[x]
        /\ (x = t => xb = tb)
    BY <2>1 DEF UsageTypeInv, UsageTypeOK, Receive
  <2>3. counter[x] <= at[xb] /\ at[xb] \in Nat
    BY <1>1, <2>1, <2>2 DEF Ledger
  <2>4. /\ more[xb] \in Nat /\ at[xb] <= more[xb]
        /\ (x = t => more[xb] = at[xb] + 1)
    BY <1>3, <2>2
  <2>5. counter'[x] <= more[xb]
    BY <2>2, <2>3, <2>4
  <2> QED
    BY <2>1, <2>2, <2>5
<1>7. ASSUME NEW rows \in SUBSET Rows, Counted(rows, at) PROVE Counted(rows, more)
  BY <1>7, <1>3, <1>1, CountedMore
<1>8. /\ superCache \in SUBSET Rows /\ todo \in SUBSET Rows
      /\ \A p \in Processes : scrape[p] \in SUBSET Rows
      /\ \A k \in DOMAIN usageDb : {usageDb[k]} \in SUBSET Rows
  BY DEF UsageTypeInv, UsageTypeOK
<1>9. /\ Counted(superCache, more) /\ Counted(todo, more)
      /\ \A p \in Processes : Counted(scrape[p], more)
      /\ \A k \in DOMAIN usageDb : Counted({usageDb[k]}, more)
  BY <1>7, <1>8 DEF Ledger
<1>10. UNCHANGED <<superCache, todo, scrape, usageDb>>
  BY DEF Receive, scrapeVars, usageVars
<1>11. Ledger(more)'
  BY <1>3, <1>5, <1>6, <1>9, <1>10 DEF Ledger
<1> QED
  BY <1>11

\* Any other step copies rows, samples counters or starts them again.
LEMMA LedgerKept ==
  ASSUME UsageTypeInv, NEW at, Ledger(at), received' = received,
         \A t \in Topics : counter'[t] <= at[<<t, owner'[t]>>],
         Counted(superCache', at), Counted(todo', at),
         \A p \in Processes : Counted(scrape'[p], at),
         \A k \in DOMAIN usageDb' : Counted({usageDb'[k]}, at)
  PROVE  Ledger(at)'
BY DEF Ledger, Counted

\* No rows need no ledger.
LEMMA NothingCounted == ASSUME NEW at PROVE Counted({}, at)
BY DEF Counted

\* Every step keeps some ledger.
LEMMA LedgerStep ==
  ASSUME UsageTypeInv, NEW at, Ledger(at), [UsageNext]_meteringVars
  PROVE  \E a : Ledger(a)'
<1> SUFFICES ASSUME ~\E t \in Topics : Receive(t) PROVE Ledger(at)'
  BY ReceiveLedger
<1>1. /\ \A t \in Topics : counter[t] <= at[<<t, owner[t]>>]
      /\ Counted(superCache, at) /\ Counted(todo, at)
      /\ \A p \in Processes : Counted(scrape[p], at)
      /\ \A k \in DOMAIN usageDb : Counted({usageDb[k]}, at)
  BY DEF Ledger
<1>2. Counted(NoData, at)
  BY NothingCounted DEF NoData
<1>3. ASSUME NEW t \in Topics, NEW b \in Brokers, Load(t, b) PROVE Ledger(at)'
  <2>1. \A x \in Topics : counter'[x] <= at[<<x, owner'[x]>>]
    <3> SUFFICES ASSUME NEW x \in Topics PROVE counter'[x] <= at[<<x, owner'[x]>>]
      OBVIOUS
    <3>1. CASE x = t
      <4>1. PICK xb : xb = <<x, owner'[x]>>
        OBVIOUS
      <4>2. xb \in Topics \X Brokers /\ counter'[x] = 0
        BY <1>3, <3>1, <4>1 DEF Load, UsageTypeInv, UsageTypeOK
      <4>3. at[xb] \in Nat
        BY <4>2 DEF Ledger
      <4> QED
        BY <4>1, <4>2, <4>3
    <3>2. CASE x # t
      <4>1. counter'[x] = counter[x] /\ owner'[x] = owner[x]
        BY <1>3, <3>2 DEF Load, UsageTypeInv, UsageTypeOK
      <4> QED
        BY <1>1, <4>1
    <3> QED
      BY <3>1, <3>2
  <2>2. UNCHANGED <<received, superCache, todo, scrape, usageDb>>
    BY <1>3 DEF Load, scrapeVars, usageVars
  <2> QED
    BY <1>1, <2>1, <2>2, LedgerKept
<1>4. ASSUME NEW p \in Processes, BeginSuperScrape(p) PROVE Ledger(at)'
  <2>1. Counted(Sample, at)
    <3> SUFFICES ASSUME NEW row \in Sample PROVE row.total <= at[<<row.topic, row.broker>>]
      BY DEF Counted
    <3>1. PICK t \in Topics : row.topic = t /\ row.broker = owner[t] /\ row.total = counter[t]
      BY SampleRows DEF UsageTypeInv
    <3> QED
      BY <1>1, <3>1
  <2>2. \A q \in Processes : scrape'[q] = Sample \/ scrape'[q] = scrape[q]
    BY <1>4 DEF BeginSuperScrape, UsageTypeInv, UsageTypeOK
  <2>3. \A q \in Processes : Counted(scrape'[q], at)
    BY <1>1, <2>1, <2>2
  <2>4. UNCHANGED <<received, counter, owner, superCache, todo, usageDb>>
    BY <1>4 DEF BeginSuperScrape, clusterVars, usageVars
  <2> QED
    BY <1>1, <2>3, <2>4, LedgerKept
<1>5. ASSUME NEW p \in Processes, EndSuperScrape(p) PROVE Ledger(at)'
  <2>1. /\ superCache' = scrape[p] /\ (todo' = scrape[p] \/ todo' = todo)
        /\ \A q \in Processes : scrape'[q] = NoData \/ scrape'[q] = scrape[q]
    BY <1>5 DEF EndSuperScrape, UsageTypeInv, UsageTypeOK
  <2>2. /\ Counted(superCache', at) /\ Counted(todo', at)
        /\ \A q \in Processes : Counted(scrape'[q], at)
    BY <1>1, <1>2, <2>1
  <2>3. UNCHANGED <<received, counter, owner, usageDb>>
    BY <1>5 DEF EndSuperScrape, clusterVars
  <2> QED
    BY <1>1, <2>2, <2>3, LedgerKept
<1>6. ASSUME NEW p \in Processes, SuperScrapeFails(p) PROVE Ledger(at)'
  <2>1. \A q \in Processes : scrape'[q] = NoData \/ scrape'[q] = scrape[q]
    BY <1>6 DEF SuperScrapeFails, UsageTypeInv, UsageTypeOK
  <2>2. \A q \in Processes : Counted(scrape'[q], at)
    BY <1>1, <1>2, <2>1
  <2>3. UNCHANGED <<received, counter, owner, superCache, todo, usageDb>>
    BY <1>6 DEF SuperScrapeFails, clusterVars, usageVars
  <2> QED
    BY <1>1, <2>2, <2>3, LedgerKept
<1>7. CASE Expire
  <2>1. superCache' = NoData /\ UNCHANGED <<received, counter, owner, scrape, todo, usageDb>>
    BY <1>7 DEF Expire, clusterVars, usageVars
  <2> QED
    BY <1>1, <1>2, <2>1, LedgerKept
<1>8. CASE BuildFromCache
  <2>1. todo' = superCache /\ UNCHANGED <<received, counter, owner, superCache, scrape, usageDb>>
    BY <1>8 DEF BuildFromCache, clusterVars, scrapeVars
  <2> QED
    BY <1>1, <2>1, LedgerKept
<1>9. CASE Insert
  <2>1. PICK row \in todo :
          /\ usageDb' = [k \in DOMAIN usageDb \cup {KeyOf(row)} |->
                           IF k = KeyOf(row) THEN Stored(row) ELSE usageDb[k]]
          /\ todo' = todo \ {row}
    BY <1>9 DEF Insert
  <2>2. Counted({row}, at) /\ Counted(todo', at)
    BY <1>1, <2>1 DEF Counted
  <2>3. \A k \in DOMAIN usageDb' :
          usageDb'[k] = row \/ (k \in DOMAIN usageDb /\ usageDb'[k] = usageDb[k])
    BY <2>1 DEF Stored
  <2>4. \A k \in DOMAIN usageDb' : Counted({usageDb'[k]}, at)
    BY <1>1, <2>2, <2>3
  <2>5. UNCHANGED <<received, counter, owner, superCache, scrape>>
    BY <1>9 DEF Insert, clusterVars, scrapeVars
  <2> QED
    BY <1>1, <2>2, <2>4, <2>5, LedgerKept
<1>10. CASE ListTenant \/ BeginListing \/ EndListing \/ UNCHANGED meteringVars
  <2>1. UNCHANGED <<received, counter, owner, superCache, scrape, todo, usageDb>>
    BY <1>10 DEF ListTenant, BeginListing, EndListing, meteringVars, clusterVars, scrapeVars, usageVars
  <2> QED
    BY <1>1, <2>1, LedgerKept
<1>11. CASE Crash
  <2>1. DOMAIN usageDb' = {}
    BY <1>11 DEF Crash
  <2>2. /\ superCache' = NoData /\ todo' = NoData
        /\ \A q \in Processes : scrape'[q] = NoData
    BY <1>11 DEF Crash, NoData
  <2>3. UNCHANGED <<received, counter, owner>>
    BY <1>11 DEF Crash, clusterVars
  <2> QED
    BY <1>1, <1>2, <2>1, <2>2, <2>3, LedgerKept
<1> QED
  BY <1>3, <1>4, <1>5, <1>6, <1>7, <1>8, <1>9, <1>10, <1>11 DEF UsageNext, BuilderNext

\* The inductive invariant of the metering.
LEMMA UsageInvCorrect == UsageSpec => []UsageInv
<1>1. UsageInit => UsageInv
  BY UsageInit_Type, InitLedger DEF UsageInv
<1>2. UsageInv /\ [UsageNext]_meteringVars => UsageInv'
  <2> SUFFICES ASSUME UsageInv, [UsageNext]_meteringVars PROVE UsageInv'
    OBVIOUS
  <2>1. UsageTypeInv'
    BY UsageType_Step DEF UsageInv
  <2>2. PICK at : Ledger(at)
    BY DEF UsageInv
  <2>3. \E a : Ledger(a)'
    BY <2>2, LedgerStep DEF UsageInv
  <2> QED
    BY <2>1, <2>3 DEF UsageInv
<1> QED
  BY <1>1, <1>2, PTL DEF UsageSpec

\* Every row of a tenant is covered by the entry of its topic and broker, and
\* no two rows by the same.
LEMMA RowsCovered ==
  ASSUME UsageTypeInv, NEW at, Ledger(at), NEW tenant \in UsageTenants
  PROVE  /\ TotalMessagesIn(tenant) \in Nat
         /\ TotalMessagesIn(tenant) <= SumFunctionOnSet(at, PairsOf(tenant))
<1>1. PICK S : S = {k \in DOMAIN usageDb : TenantOf[usageDb[k].topic] = tenant}
  OBVIOUS
<1>2. PICK f : f = [k \in DOMAIN usageDb |-> usageDb[k].total]
  OBVIOUS
<1>3. PICK T : T = PairsOf(tenant)
  OBVIOUS
<1>4. PICK j : j = [k \in DOMAIN usageDb |-> <<usageDb[k].topic, usageDb[k].broker>>]
  OBVIOUS
<1>5. ASSUME NEW k \in S
      PROVE  /\ j[k] \in T /\ f[k] \in Nat /\ f[k] <= at[j[k]] /\ Concat[j[k]] = k
  <2>1. /\ k \in DOMAIN usageDb /\ usageDb[k] \in Rows /\ KeyOf(usageDb[k]) = k
        /\ TenantOf[usageDb[k].topic] = tenant
    BY <1>1 DEF UsageTypeInv, UsageTypeOK
  <2>2. PICK row : row = usageDb[k]
    OBVIOUS
  <2>3. j[k] = <<row.topic, row.broker>> /\ f[k] = row.total
    BY <1>2, <1>4, <2>1, <2>2
  <2>4. row.topic \in Topics /\ row.broker \in Brokers /\ row.total \in Nat
    BY <2>1, <2>2, UsageBoundsAssumption DEF Rows
  <2>5. Concat[<<row.topic, row.broker>>] = k
    BY <2>1, <2>2 DEF KeyOf
  <2>6. row.total <= at[<<row.topic, row.broker>>]
    BY <2>1, <2>2 DEF Ledger, Counted
  <2>7. <<row.topic, row.broker>> \in T
    BY <1>3, <2>1, <2>2, <2>4 DEF PairsOf
  <2> QED
    BY <2>3, <2>4, <2>5, <2>6, <2>7
<1>6. \A x, y \in S : j[x] = j[y] => x = y
  <2> SUFFICES ASSUME NEW x \in S, NEW y \in S, j[x] = j[y] PROVE x = y
    OBVIOUS
  <2>1. Concat[j[x]] = x /\ Concat[j[y]] = y
    BY <1>5
  <2> QED
    BY <2>1
<1>7. IsFiniteSet(T) /\ \A x \in T : at[x] \in Nat
  BY <1>3, PairsFinite DEF Ledger, PairsOf
<1>8. IsFiniteSet(S)
  <2> DEFINE i == [k \in S |-> j[k]]
  <2>1. i \in Injection(S, T)
    BY <1>5, <1>6 DEF Injection, IsInjective
  <2> QED
    BY <1>7, <2>1, FS_Injection
<1>9. SumFunctionOnSet(f, S) <= SumFunctionOnSet(at, T)
  <2>1. /\ \A x \in S : f[x] \in Nat /\ j[x] \in T /\ f[x] <= at[j[x]]
    BY <1>5
  <2> QED
    BY <1>6, <1>7, <1>8, <2>1, SumCovered
<1>10. SumFunctionOnSet(f, S) \in Nat
  BY <1>5, <1>8, SumNat
<1> QED
  BY <1>1, <1>2, <1>3, <1>9, <1>10 DEF TotalMessagesIn

\* The state of the metering is what the code can hold (BuildTenantUsage and
\* UpdatePerBrokerTenantUsage).
THEOREM UsageTypeCorrect == UsageSpec => []UsageTypeOK
<1>1. UsageInv => UsageTypeOK
  BY DEF UsageInv, UsageTypeInv
<1> QED
  BY <1>1, UsageInvCorrect, PTL

\* No tenant is charged for more than was sent to its topics, for any topics,
\* brokers and tenants, wherever topics move, however often counters begin again
\* and whichever samples, old or late, the rows are of: also where the names of
\* two topics and brokers put together are one key, and a row replaces another's
\* (GetTenantUsage).
THEOREM NoUsageOverstated == UsageSpec => []NeverOverstated
<1>1. UsageInv => NeverOverstated
  <2> SUFFICES ASSUME UsageInv, NEW tenant \in UsageTenants
               PROVE  TotalMessagesIn(tenant) <= SumFunctionOnSet(received, TopicsOf(tenant))
    BY DEF NeverOverstated, TopicsOf
  <2>1. PICK at : Ledger(at)
    BY DEF UsageInv
  <2>2. PICK total : total = TotalMessagesIn(tenant)
    OBVIOUS
  <2>3. total <= SumFunctionOnSet(at, PairsOf(tenant))
    BY <2>1, <2>2, RowsCovered DEF UsageInv
  <2>4. SumFunctionOnSet(at, PairsOf(tenant)) <= SumFunctionOnSet(received, TopicsOf(tenant))
    BY <2>1 DEF Ledger
  <2>5. /\ SumFunctionOnSet(at, PairsOf(tenant)) \in Nat
        /\ SumFunctionOnSet(received, TopicsOf(tenant)) \in Nat
    BY <2>1, LedgerNat DEF UsageInv
  <2>6. total \in Nat
    BY <2>1, <2>2, RowsCovered DEF UsageInv
  <2> QED
    BY <2>2, <2>3, <2>4, <2>5, <2>6
<1> QED
  BY <1>1, UsageInvCorrect, PTL
==============================================================================
