-------------------------- MODULE BrokerStatsProofs --------------------------
(***************************************************************************)
(* Proofs about BrokerStats, for every set of brokers, order in which they *)
(* are listed, page size and number of calls.                              *)
(***************************************************************************)
EXTENDS BrokerStats, SequenceTheorems, FunctionTheorems, FiniteSetTheorems, TLAPS

NoRepeat(s) == \A i, j \in 1..Len(s) : s[i] = s[j] => i = j

\* The brokers of the page, if l is listed.
PageOf(l) == SubSeq(l, offset + 1, PageEnd(Len(l)))

\* The results of the current call, received or still in its channel.
Gathered == brokerStats \o respChan[calls]

\* The page that is waited for was cut from a listing.
PageInv ==
  client = "waiting" =>
    /\ calls \in Calls
    /\ \E l \in Listings : /\ ~Refused(l) /\ page[calls] = PageOf(l)
                           /\ ~reordered => l = listing
                           /\ ~changed => Members(l) = Members(listing)

\* Only brokers of the page are asked, and a result comes from one goroutine,
\* whatever those of the calls before still send.
GatherInv ==
  client = "waiting" =>
    /\ \A b \in Brokers : query[calls][b] # "none" => b \in Members(page[calls])
    /\ \A i \in 1..Len(Gathered) : query[calls][Gathered[i]] = "ended"
    /\ NoRepeat(Gathered)

\* The channels of later calls are not there yet.
UnusedInv == \A c \in Calls : c > calls => page[c] = <<>> /\ respChan[c] = <<>>

\* The client has the brokers listed up to its offset, in the order that was kept;
\* or all of them, or none, if it asks for all at once.
OrderInv ==
  ~reordered =>
    /\ offset <= Len(listing)
    /\ Len(collected) = offset
    /\ Members(collected) = {listing[i] : i \in 1..offset}
    /\ client = "finished" => offset = Len(listing)

AllInv ==
  limit = 0 /\ ~changed =>
    /\ offset = 0 => collected = <<>> /\ client # "finished"
    /\ offset # 0 => Members(collected) = Members(listing) /\ Len(collected) = Len(listing)

ClientInv == OrderInv /\ AllInv

IInv == TypeOK /\ PageInv /\ GatherInv /\ UnusedInv /\ ClientInv

-----------------------------------------------------------------------------
(* Sequences without repetition *)

LEMMA Bijective ==
  ASSUME NEW S, NEW s \in Seq(S), NoRepeat(s)
  PROVE  /\ IsFiniteSet(Members(s))
         /\ Cardinality(Members(s)) = Len(s)
<1>1. Len(s) \in Nat /\ s \in [1..Len(s) -> S]
  BY LenProperties
<1>2. s \in [1..Len(s) -> Members(s)]
  BY <1>1 DEF Members
<1>3. s \in Bijection(1..Len(s), Members(s))
  BY <1>2, Fun_IsBij DEF NoRepeat, Members
<1>4. IsFiniteSet(1..Len(s)) /\ Cardinality(1..Len(s)) = Len(s)
  BY <1>1, FS_Interval
<1> QED
  BY <1>3, <1>4, FS_Bijection DEF ExistsBijection

\* A sequence that draws from another without repeating has all of it when it
\* is as long.
LEMMA SameMembers ==
  ASSUME NEW S, NEW s \in Seq(S), NEW t \in Seq(S), NoRepeat(s), NoRepeat(t),
         Members(s) \subseteq Members(t), Len(s) = Len(t)
  PROVE  Members(s) = Members(t)
BY Bijective, FS_Subset

LEMMA ListingLength ==
  ASSUME NEW l \in Listings
  PROVE  /\ l \in Seq(Brokers) /\ NoRepeat(l)
         /\ Len(l) \in 0..Cardinality(Brokers)
<1>1. l \in Seq(Brokers) /\ NoRepeat(l)
  BY ListingsAssumption DEF NoRepeat
<1>2. Members(l) \subseteq Brokers
  BY <1>1, LenProperties DEF Members
<1>3. Cardinality(Members(l)) <= Cardinality(Brokers)
  BY <1>2, BrokersAssumption, FS_Subset
<1>4. Cardinality(Members(l)) = Len(l) /\ Len(l) \in Nat
  BY <1>1, Bijective, LenProperties
<1>5. Cardinality(Brokers) \in Nat
  BY BrokersAssumption, FS_CardinalityType
<1> QED
  BY <1>1, <1>3, <1>4, <1>5

-----------------------------------------------------------------------------
(* Pages *)

LEMMA PageProperties ==
  ASSUME TypeOK, NEW l \in Listings, ~Refused(l)
  PROVE  /\ PageOf(l) \in Seq(Brokers) /\ NoRepeat(PageOf(l))
         /\ Len(PageOf(l)) \in Nat /\ offset + Len(PageOf(l)) <= Len(l)
         /\ \A i \in 1..Len(PageOf(l)) : PageOf(l)[i] = l[offset + i]
<1>1. l \in Seq(Brokers) /\ NoRepeat(l) /\ Len(l) \in Nat
  BY ListingLength
<1>2. offset \in Nat /\ limit \in Nat
  BY ParamsAssumption, BrokersAssumption, FS_CardinalityType DEF TypeOK
<1> DEFINE end == PageEnd(Len(l))
<1>3. end \in Nat /\ offset < end /\ end <= Len(l)
  BY <1>1, <1>2 DEF PageEnd, Refused
<1> HIDE DEF end
<1>4. \A i \in offset + 1 .. end : l[i] \in Brokers
  BY <1>1, <1>2, <1>3, ElementOfSeq
<1>5. /\ SubSeq(l, offset + 1, end) \in Seq(Brokers)
      /\ Len(SubSeq(l, offset + 1, end)) = end - offset
      /\ \A i \in 1..(end - offset) : SubSeq(l, offset + 1, end)[i] = l[offset + i]
  <2>1. offset + 1 \in Int /\ end \in Int /\ offset + 1 <= end
    BY <1>2, <1>3
  <2>2. end - (offset + 1) + 1 = end - offset
    BY <1>2, <1>3
  <2>3. \A i \in 1..(end - offset) : (offset + 1) + i - 1 = offset + i
    BY <1>2, <1>3
  <2> QED
    BY <1>4, <2>1, <2>2, <2>3, SubSeqProperties
<1>6. PageOf(l) = SubSeq(l, offset + 1, end)
  BY DEF PageOf, end
<1>7. \A i \in 1..(end - offset) : offset + i \in 1..Len(l)
  BY <1>1, <1>2, <1>3
<1>8. \A i, j \in 1..(end - offset) : offset + i = offset + j => i = j
  BY <1>1, <1>2, <1>3
<1>9. NoRepeat(PageOf(l))
  <2>1. \A i, j \in 1..(end - offset) : l[offset + i] = l[offset + j] => offset + i = offset + j
    BY <1>1, <1>7 DEF NoRepeat
  <2>2. \A i, j \in 1..(end - offset) : PageOf(l)[i] = PageOf(l)[j] => i = j
    BY <1>5, <1>6, <1>8, <2>1
  <2> QED
    BY <1>5, <1>6, <2>2 DEF NoRepeat
<1> QED
  BY <1>2, <1>3, <1>5, <1>6, <1>9

\* What the client waits for.
LEMMA WaitingPage ==
  ASSUME TypeOK, PageInv, client = "waiting"
  PROVE  /\ calls \in Calls
         /\ page[calls] \in Seq(Brokers) /\ NoRepeat(page[calls])
         /\ Len(page[calls]) \in Nat
         /\ offset + Len(page[calls]) \in 0..Cardinality(Brokers)
<1>1. PICK l \in Listings : ~Refused(l) /\ page[calls] = PageOf(l)
  BY DEF PageInv
<1>2. Len(l) \in 0..Cardinality(Brokers)
  BY ListingLength
<1>3. offset \in Nat /\ Cardinality(Brokers) \in Nat
  BY BrokersAssumption, FS_CardinalityType DEF TypeOK
<1>4. /\ page[calls] \in Seq(Brokers) /\ NoRepeat(page[calls])
      /\ Len(page[calls]) \in Nat /\ offset + Len(page[calls]) <= Len(l)
  BY <1>1, PageProperties
<1>5. offset + Len(page[calls]) \in 0..Cardinality(Brokers)
  BY <1>2, <1>3, <1>4
<1> QED
  BY <1>4, <1>5 DEF PageInv

-----------------------------------------------------------------------------
(* Results *)

LEMMA GatheredTypes ==
  ASSUME TypeOK, calls \in Calls
  PROVE  /\ brokerStats \in Seq(Brokers) /\ respChan[calls] \in Seq(Brokers)
         /\ Len(brokerStats) \in Nat /\ Len(respChan[calls]) \in Nat
         /\ Gathered \in Seq(Brokers)
         /\ Len(Gathered) = Len(brokerStats) + Len(respChan[calls])
         /\ \A i \in 1..Len(Gathered) :
              Gathered[i] = IF i <= Len(brokerStats) THEN brokerStats[i]
                            ELSE respChan[calls][i - Len(brokerStats)]
<1>1. brokerStats \in Seq(Brokers) /\ respChan[calls] \in Seq(Brokers)
  BY DEF TypeOK
<1> QED
  BY <1>1, LenProperties, ConcatProperties DEF Gathered

\* Receiving a result does not change what there is of the page.
LEMMA ReceivedInOrder ==
  ASSUME TypeOK, calls \in Calls, respChan[calls] # <<>>,
         NEW results, results = Append(brokerStats, Head(respChan[calls]))
  PROVE  /\ results \in Seq(Brokers)
         /\ Len(results) = Len(brokerStats) + 1
         /\ Len(results) <= Len(Gathered)
         /\ \A i \in 1..Len(results) : results[i] = Gathered[i]
         /\ Tail(respChan[calls]) \in Seq(Brokers)
         /\ results \o Tail(respChan[calls]) = Gathered
<1> DEFINE bs == brokerStats
           rc == respChan[calls]
           rest == Tail(respChan[calls])
<1>1. /\ bs \in Seq(Brokers) /\ rc \in Seq(Brokers) /\ Len(bs) \in Nat /\ Len(rc) \in Nat
      /\ Gathered \in Seq(Brokers) /\ Len(Gathered) = Len(bs) + Len(rc)
      /\ \A i \in 1..Len(Gathered) :
           Gathered[i] = IF i <= Len(bs) THEN bs[i] ELSE rc[i - Len(bs)]
  BY GatheredTypes
<1>2. /\ Head(rc) \in Brokers /\ Head(rc) = rc[1] /\ Len(rc) >= 1
      /\ rest \in Seq(Brokers) /\ Len(rest) = Len(rc) - 1
      /\ \A i \in 1..Len(rest) : rest[i] = rc[i + 1]
  BY <1>1, HeadTailProperties, EmptySeq
<1> HIDE DEF bs, rc, rest
<1>3. /\ results \in Seq(Brokers) /\ Len(results) = Len(bs) + 1
      /\ \A i \in 1..Len(bs) : results[i] = bs[i]
      /\ results[Len(bs) + 1] = rc[1]
  BY <1>1, <1>2, AppendProperties DEF bs, rc
<1>len. /\ Len(bs) \in Nat /\ Len(rc) \in Nat \ {0} /\ Len(rest) = Len(rc) - 1
      /\ Len(results) = Len(bs) + 1 /\ Len(Gathered) = Len(bs) + Len(rc)
  <2>1. Len(rc) \in Nat \ {0}
    BY <1>1, <1>2
  <2> QED
    BY <2>1, <1>1, <1>2, <1>3
<1>4. Len(results) <= Len(Gathered)
  BY <1>len
<1>5. ASSUME NEW i \in 1..Len(results) PROVE results[i] = Gathered[i]
  <2>1. CASE i <= Len(bs)
    BY <2>1, <1>1, <1>2, <1>3
  <2>2. CASE i = Len(bs) + 1
    <3>1. i - Len(bs) = 1 /\ ~(i <= Len(bs)) /\ i \in 1..Len(Gathered)
      BY <2>2, <1>1, <1>2
    <3> QED
      BY <2>2, <3>1, <1>1, <1>3
  <2> QED
    BY <2>1, <2>2, <1>1, <1>3
<1>6. /\ results \o rest \in Seq(Brokers)
      /\ Len(results \o rest) = Len(Gathered)
      /\ \A i \in 1..Len(Gathered) :
           (results \o rest)[i] = IF i <= Len(results) THEN results[i]
                                      ELSE rest[i - Len(results)]
  <2>1. Len(results) + Len(rest) = Len(Gathered)
    BY <1>len
  <2> QED
    BY <2>1, <1>2, <1>3, ConcatProperties
<1>7. ASSUME NEW i \in 1..Len(Gathered) PROVE (results \o rest)[i] = Gathered[i]
  <2>1. CASE i <= Len(results)
    BY <2>1, <1>1, <1>3, <1>5, <1>6
  <2>2. CASE ~(i <= Len(results))
    <3>1. i - Len(results) \in 1..Len(rest) /\ (i - Len(results)) + 1 = i - Len(bs)
          /\ ~(i <= Len(bs))
      BY <2>2, <1>len
    <3>2. rest[i - Len(results)] = rc[i - Len(bs)]
      BY <3>1, <1>2
    <3> QED
      BY <2>2, <3>1, <3>2, <1>1, <1>6
  <2> QED
    BY <2>1, <2>2
<1>8. results \o rest = Gathered
  BY <1>1, <1>6, <1>7, SeqEqual
<1> QED
  BY <1>2, <1>3, <1>4, <1>5, <1>8 DEF bs, rc, rest

\* As many results as the page has brokers are those of all its brokers.
LEMMA PageComplete ==
  ASSUME TypeOK, PageInv, GatherInv, client = "waiting", respChan[calls] # <<>>,
         NEW results, results = Append(brokerStats, Head(respChan[calls])),
         Len(results) = Len(page[calls])
  PROVE  Members(results) = Members(page[calls])
<1>1. calls \in Calls /\ page[calls] \in Seq(Brokers) /\ NoRepeat(page[calls])
  BY WaitingPage
<1>2. /\ results \in Seq(Brokers) /\ Len(results) <= Len(Gathered)
      /\ \A i \in 1..Len(results) : results[i] = Gathered[i]
  BY <1>1, ReceivedInOrder
<1>3. Len(results) \in Nat /\ Len(Gathered) \in Nat /\ Gathered \in Seq(Brokers)
  BY <1>1, <1>2, GatheredTypes, LenProperties
<1>4. \A i \in 1..Len(results) : i \in 1..Len(Gathered)
  BY <1>2, <1>3
<1>5. NoRepeat(results)
  BY <1>2, <1>4 DEF NoRepeat, GatherInv
<1>6. Members(results) \subseteq Members(page[calls])
  <2>1. ASSUME NEW i \in 1..Len(results) PROVE results[i] \in Members(page[calls])
    <3>1. Gathered[i] \in Brokers /\ query[calls][Gathered[i]] = "ended"
      BY <1>3, <1>4, ElementOfSeq DEF GatherInv
    <3> QED
      BY <1>2, <3>1 DEF GatherInv
  <2> QED
    BY <2>1 DEF Members
<1> QED
  BY <1>1, <1>2, <1>5, <1>6, SameMembers

LEMMA AppendBehind ==
  ASSUME NEW S, NEW s \in Seq(S), NEW t \in Seq(S), NEW e \in S
  PROVE  s \o Append(t, e) = Append(s \o t, e)
<1>1. <<e>> \in Seq(S) /\ s \o t \in Seq(S)
  BY ConcatProperties
<1>2. Append(t, e) = t \o <<e>> /\ Append(s \o t, e) = (s \o t) \o <<e>>
  BY <1>1, AppendIsConcat
<1>3. (s \o t) \o <<e>> = s \o (t \o <<e>>)
  BY <1>1, ConcatAssociative
<1> QED
  BY <1>2, <1>3

LEMMA MembersConcat ==
  ASSUME NEW S, NEW s \in Seq(S), NEW t \in Seq(S)
  PROVE  Members(s \o t) = Members(s) \cup Members(t)
<1>1. PICK n \in Nat : n = Len(s)
  BY LenProperties
<1>2. PICK m \in Nat : m = Len(t)
  BY LenProperties
<1>3. /\ Len(s \o t) = n + m
      /\ \A i \in 1..(n + m) : (s \o t)[i] = IF i <= n THEN s[i] ELSE t[i - n]
  BY <1>1, <1>2, ConcatProperties
<1>4. \A i \in 1..n : i \in 1..(n + m) /\ i <= n
  OBVIOUS
<1>5. \A j \in 1..m : j + n \in 1..(n + m) /\ ~(j + n <= n) /\ (j + n) - n = j
  OBVIOUS
<1>6. \A i \in 1..(n + m) : IF i <= n THEN i \in 1..n ELSE i - n \in 1..m
  OBVIOUS
<1>7. ASSUME NEW x \in Members(s \o t) PROVE x \in Members(s) \cup Members(t)
  <2>1. PICK i \in 1..(n + m) : x = (s \o t)[i]
    BY <1>3, <1>7 DEF Members
  <2> QED
    BY <2>1, <1>1, <1>2, <1>3, <1>6 DEF Members
<1>8. ASSUME NEW x \in Members(s) PROVE x \in Members(s \o t)
  <2>1. PICK i \in 1..n : x = s[i]
    BY <1>1, <1>8 DEF Members
  <2>2. i \in 1..(n + m) /\ x = (s \o t)[i]
    BY <2>1, <1>3, <1>4
  <2> QED
    BY <2>2, <1>3 DEF Members
<1>9. ASSUME NEW x \in Members(t) PROVE x \in Members(s \o t)
  <2>1. PICK j \in 1..m : x = t[j]
    BY <1>2, <1>9 DEF Members
  <2>2. j + n \in 1..(n + m) /\ x = (s \o t)[j + n]
    BY <2>1, <1>3, <1>5
  <2> QED
    BY <2>2, <1>3 DEF Members
<1> QED
  BY <1>7, <1>8, <1>9

-----------------------------------------------------------------------------
(* The inductive invariant *)

LEMMA InitInv == Init => IInv
<1> SUFFICES ASSUME Init PROVE IInv
  OBVIOUS
<1>1. TypeOK
  <2>1. 0 \in 0..Cardinality(Brokers) /\ 0 \in 0..MaxCalls
    BY BoundsAssumption, BrokersAssumption, FS_CardinalityType
  <2>2. /\ page \in [Calls -> Seq(Brokers)] /\ respChan \in [Calls -> Seq(Brokers)]
        /\ query \in [Calls -> [Brokers -> {"none", "running", "sending", "ended"}]]
        /\ brokerStats \in Seq(Brokers) /\ collected \in Seq(Brokers)
    BY DEF Init
  <2> QED
    BY <2>1, <2>2 DEF Init, TypeOK
<1>2. PageInv /\ GatherInv /\ UnusedInv
  BY DEF Init, PageInv, GatherInv, UnusedInv
<1>3. ClientInv
  <2>1. Len(listing) \in Nat
    BY ListingLength DEF Init
  <2> QED
    BY <2>1 DEF Init, ClientInv, OrderInv, AllInv, Members
<1> QED
  BY <1>1, <1>2, <1>3 DEF IInv

\* What the client has is not touched by most steps.
LEMMA ClientKept ==
  ASSUME ClientInv, UNCHANGED <<listing, changed, reordered, limit, offset, collected>>,
         client' = "finished" => client = "finished"
  PROVE  ClientInv'
<1>1. Members(collected)' = Members(collected) /\ Members(listing)' = Members(listing)
  BY DEF Members
<1>2. OrderInv'
  BY <1>1 DEF ClientInv, OrderInv
<1>3. AllInv'
  BY <1>1 DEF ClientInv, AllInv
<1> QED
  BY <1>2, <1>3 DEF ClientInv

\* Where a page ends depends on the offset and the limit.
LEMMA PageKept ==
  ASSUME UNCHANGED <<offset, limit>>, NEW l
  PROVE  PageOf(l)' = PageOf(l) /\ Refused(l)' = Refused(l)
BY DEF PageOf, PageEnd, Refused

LEMMA StartCallKeeps == IInv /\ StartCall => IInv'
<1> SUFFICES ASSUME IInv, StartCall PROVE IInv'
  OBVIOUS
<1> DEFINE c == calls + 1
<1>1. c \in Calls /\ c > calls /\ calls \in Nat
  BY BoundsAssumption DEF IInv, TypeOK, StartCall, Calls
<1> HIDE DEF c
<1>2. /\ ~Refused(listing) /\ calls' = c /\ client' = "waiting"
      /\ page' = [page EXCEPT ![c] = PageOf(listing)]
      /\ query' = [query EXCEPT ![c] = [b \in Brokers |->
                     IF b \in Members(PageOf(listing)) THEN "running" ELSE "none"]]
      /\ brokerStats' = <<>>
      /\ UNCHANGED <<listing, changes, changed, reordered, limit, offset, respChan, collected>>
  <2>1. \A b : b \in Members(PageOf(listing)) <=>
                 \E i \in 1..Len(PageOf(listing)) : PageOf(listing)[i] = b
    BY DEF Members
  <2>2. [b \in Brokers |-> IF b \in Members(PageOf(listing)) THEN "running" ELSE "none"]
          = [b \in Brokers |-> IF \E i \in 1..Len(PageOf(listing)) : PageOf(listing)[i] = b
                               THEN "running" ELSE "none"]
    BY <2>1
  <2> QED
    BY <2>2 DEF StartCall, c, PageOf, listVars
<1>3. PageOf(listing) \in Seq(Brokers) /\ listing \in Listings
  BY <1>2, PageProperties DEF IInv, TypeOK
<1>4. page'[c] = PageOf(listing)
  BY <1>1, <1>2 DEF IInv, TypeOK
<1>5. TypeOK'
  BY <1>1, <1>2, <1>3 DEF IInv, TypeOK, Calls
<1>6. PageInv'
  BY <1>1, <1>2, <1>3, <1>4, PageKept DEF PageInv
<1>7. GatherInv'
  <2>1. respChan'[c] = <<>>
    BY <1>1, <1>2 DEF IInv, UnusedInv
  <2>2. Gathered' = <<>>
    BY <1>2, <2>1, ConcatEmptySeq, EmptySeq DEF Gathered
  <2>3. \A b \in Brokers : query'[c][b] = IF b \in Members(PageOf(listing)) THEN "running" ELSE "none"
    BY <1>1, <1>2 DEF IInv, TypeOK
  <2>4. \A b \in Brokers : query'[calls'][b] # "none" => b \in Members(page'[calls'])
    BY <1>2, <1>4, <2>3
  <2>5. NoRepeat(<<>>) /\ 1..Len(<<>>) = {}
    BY DEF NoRepeat
  <2> QED
    BY <2>2, <2>4, <2>5 DEF GatherInv, Members, NoRepeat
<1>8. UnusedInv'
  <2>1. ASSUME NEW d \in Calls, d > c PROVE page'[d] = <<>> /\ respChan'[d] = <<>>
    <3>1. d > calls /\ d # c
      BY <1>1, <2>1 DEF Calls, c
    <3> QED
      BY <3>1, <1>2 DEF IInv, UnusedInv, TypeOK
  <2> QED
    BY <1>2, <2>1 DEF UnusedInv
<1>9. ClientInv'
  BY <1>2, ClientKept DEF IInv
<1> QED
  BY <1>5, <1>6, <1>7, <1>8, <1>9 DEF IInv

LEMMA RefuseCallKeeps == IInv /\ RefuseCall => IInv'
<1> SUFFICES ASSUME IInv, RefuseCall PROVE IInv'
  OBVIOUS
<1>1. /\ client = "asking" /\ calls < MaxCalls /\ calls' = calls + 1
      /\ UNCHANGED <<listing, changes, changed, reordered, limit, client, offset, brokerStats, collected, page, query, respChan>>
  BY DEF RefuseCall, listVars, callVars
<1>2. calls' \in 0..MaxCalls /\ \A d \in Calls : d > calls' => d > calls
  BY <1>1, BoundsAssumption DEF IInv, TypeOK, Calls
<1>3. TypeOK'
  BY <1>1, <1>2 DEF IInv, TypeOK
<1>4. PageInv' /\ GatherInv'
  BY <1>1 DEF PageInv, GatherInv
<1>5. UnusedInv'
  BY <1>1, <1>2 DEF IInv, UnusedInv
<1>6. ClientInv'
  BY <1>1, ClientKept DEF IInv
<1> QED
  BY <1>3, <1>4, <1>5, <1>6 DEF IInv

LEMMA TimeoutKeeps == IInv /\ Timeout => IInv'
<1> SUFFICES ASSUME IInv, Timeout PROVE IInv'
  OBVIOUS
<1>1. /\ client' = "asking" /\ brokerStats' = <<>>
      /\ UNCHANGED <<listing, changes, changed, reordered, limit, offset, calls, collected, page, query, respChan>>
  BY DEF Timeout, listVars, callVars
<1>2. TypeOK'
  BY <1>1 DEF IInv, TypeOK
<1>3. PageInv' /\ GatherInv'
  BY <1>1 DEF PageInv, GatherInv
<1>4. UnusedInv'
  BY <1>1 DEF IInv, UnusedInv
<1>5. ClientInv'
  BY <1>1, ClientKept DEF IInv
<1> QED
  BY <1>2, <1>3, <1>4, <1>5 DEF IInv

LEMMA RelistKeeps == IInv /\ Relist => IInv'
<1> SUFFICES ASSUME IInv, Relist PROVE IInv'
  OBVIOUS
<1>1. /\ changes' = changes + 1 /\ listing' \in Listings /\ reordered' = TRUE
      /\ changed' = (changed \/ Members(listing') # Members(listing))
      /\ UNCHANGED <<limit, client, offset, calls, brokerStats, collected, page, query, respChan>>
  BY DEF Relist, callVars, clientVars
<1>2. changes' \in Nat /\ changed' \in BOOLEAN /\ reordered' \in BOOLEAN
  BY <1>1 DEF IInv, TypeOK
<1>3. TypeOK'
  BY <1>1, <1>2 DEF IInv, TypeOK
<1>4. ~changed' => ~changed /\ Members(listing') = Members(listing)
  BY <1>1
<1>5. PageInv'
  <2> SUFFICES ASSUME client = "waiting" PROVE PageInv'
    BY <1>1 DEF PageInv
  <2>1. PICK l \in Listings : /\ ~Refused(l) /\ page[calls] = PageOf(l)
                              /\ ~changed => Members(l) = Members(listing)
    BY DEF IInv, PageInv
  <2>2. PageOf(l)' = PageOf(l) /\ Refused(l)' = Refused(l)
    BY <1>1, PageKept
  <2>3. Members(l)' = Members(l) /\ Members(listing)' = Members(listing')
    BY DEF Members
  <2> QED
    BY <1>1, <1>4, <2>1, <2>2, <2>3 DEF IInv, PageInv
<1>6. GatherInv'
  BY <1>1 DEF IInv, GatherInv, Gathered, Members, NoRepeat
<1>7. UnusedInv'
  BY <1>1 DEF IInv, UnusedInv
<1>8. OrderInv'
  BY <1>1 DEF OrderInv
<1>9. AllInv'
  <2> SUFFICES ASSUME limit = 0, ~changed' PROVE AllInv'
    BY <1>1 DEF AllInv
  <2>1. Len(listing') = Len(listing)
    <3>1. listing \in Seq(Brokers) /\ NoRepeat(listing) /\ listing' \in Seq(Brokers) /\ NoRepeat(listing')
      BY <1>1, ListingLength DEF IInv, TypeOK
    <3> QED
      BY <1>4, <3>1, Bijective
  <2>2. Members(collected)' = Members(collected) /\ Members(listing)' = Members(listing)
    BY <1>1, <1>4 DEF Members
  <2>3. AllInv
    BY DEF IInv, ClientInv
  <2> QED
    BY <1>1, <1>4, <2>1, <2>2, <2>3 DEF AllInv
<1> QED
  BY <1>3, <1>5, <1>6, <1>7, <1>8, <1>9 DEF IInv, ClientInv

LEMMA RespondKeeps ==
  ASSUME NEW c \in Calls, NEW b \in Brokers
  PROVE  IInv /\ Respond(c, b) => IInv'
<1> SUFFICES ASSUME IInv, Respond(c, b) PROVE IInv'
  OBVIOUS
<1>1. /\ query[c][b] = "running"
      /\ query' = [query EXCEPT ![c][b] = "sending"]
      /\ UNCHANGED <<listing, changes, changed, reordered, limit, client, offset, calls, brokerStats, collected, page, respChan>>
  BY DEF Respond, listVars, clientVars
<1>2. TypeOK'
  BY <1>1 DEF IInv, TypeOK
<1>3. PageInv'
  BY <1>1, PageKept DEF IInv, PageInv
<1>4. ASSUME client = "waiting" PROVE GatherInv'
  <2>1. calls \in Calls
    BY <1>4 DEF IInv, PageInv
  <2>2. \A x \in Brokers : query'[calls][x] = query[calls][x]
                             \/ (c = calls /\ x = b /\ query'[calls][x] = "sending")
    BY <1>1, <2>1 DEF IInv, TypeOK
  <2>3. \A x \in Brokers : query[calls][x] = "ended" => query'[calls][x] = "ended"
    BY <1>1, <2>2
  <2>4. \A x \in Brokers : query'[calls][x] # "none" => query[calls][x] # "none"
    BY <1>1, <2>2
  <2>5. Gathered \in Seq(Brokers) /\ Gathered' = Gathered
    BY <1>1, <2>1, GatheredTypes DEF IInv, Gathered
  <2>6. \A i \in 1..Len(Gathered) : Gathered[i] \in Brokers
    BY <2>5, ElementOfSeq
  <2> QED
    BY <1>1, <1>4, <2>3, <2>4, <2>5, <2>6 DEF IInv, GatherInv, Members, NoRepeat
<1>5. UnusedInv'
  BY <1>1 DEF IInv, UnusedInv
<1>6. ClientInv'
  BY <1>1, ClientKept DEF IInv
<1>7. GatherInv'
  BY <1>1, <1>4 DEF GatherInv
<1> QED
  BY <1>2, <1>3, <1>5, <1>6, <1>7 DEF IInv

\* A result is sent behind those of the page, by the one goroutine that has it.
LEMMA SendResultKeeps ==
  ASSUME NEW c \in Calls, NEW b \in Brokers
  PROVE  IInv /\ SendResult(c, b) => IInv'
<1> SUFFICES ASSUME IInv, SendResult(c, b) PROVE IInv'
  OBVIOUS
<1>1. /\ query[c][b] = "sending" /\ Len(respChan[c]) < Len(page[c])
      /\ query' = [query EXCEPT ![c][b] = "ended"]
      /\ respChan' = [respChan EXCEPT ![c] = Append(respChan[c], b)]
      /\ UNCHANGED <<listing, changes, changed, reordered, limit, client, offset, calls, brokerStats, collected, page>>
  BY DEF SendResult, listVars, clientVars
<1>2. respChan[c] \in Seq(Brokers) /\ Append(respChan[c], b) \in Seq(Brokers)
  BY AppendProperties DEF IInv, TypeOK
<1>3. TypeOK'
  BY <1>1, <1>2 DEF IInv, TypeOK
<1>4. PageInv'
  BY <1>1, PageKept DEF IInv, PageInv
<1>5. ASSUME client = "waiting" PROVE GatherInv'
  <2>1. calls \in Calls
    BY <1>5 DEF IInv, PageInv
  <2>2. \A x \in Brokers : query'[calls][x] = query[calls][x]
                             \/ (c = calls /\ x = b /\ query'[calls][x] = "ended")
    BY <1>1, <2>1 DEF IInv, TypeOK
  <2>3. \A x \in Brokers : query[calls][x] = "ended" => query'[calls][x] = "ended"
    BY <1>1, <2>2
  <2>4. \A x \in Brokers : query'[calls][x] # "none" => query[calls][x] # "none"
    BY <1>1, <2>2
  <2>5. /\ Gathered \in Seq(Brokers) /\ Len(Gathered) \in Nat
        /\ \A i \in 1..Len(Gathered) : Gathered[i] \in Brokers
    BY <2>1, GatheredTypes, ElementOfSeq, LenProperties DEF IInv
  <2>6. \A i \in 1..Len(Gathered) : query'[calls][Gathered[i]] = "ended"
    BY <1>5, <2>3, <2>5 DEF IInv, GatherInv
  <2>7. CASE c # calls
    <3>1. Gathered' = Gathered
      BY <1>1, <2>1, <2>7 DEF Gathered, IInv, TypeOK
    <3> QED
      BY <1>1, <1>5, <2>4, <2>6, <3>1 DEF IInv, GatherInv, Members, NoRepeat
  <2>8. CASE c = calls
    <3>1. Gathered' = Append(Gathered, b)
      <4>1. respChan'[calls] = Append(respChan[calls], b)
        BY <1>1, <2>1, <2>8 DEF IInv, TypeOK
      <4>2. brokerStats \in Seq(Brokers) /\ respChan[calls] \in Seq(Brokers)
        BY <1>2, <2>8 DEF IInv, TypeOK
      <4>3. brokerStats \o Append(respChan[calls], b) = Append(brokerStats \o respChan[calls], b)
        BY <4>2, AppendBehind
      <4> QED
        BY <1>1, <4>1, <4>3 DEF Gathered
    <3>2. /\ Len(Gathered') = Len(Gathered) + 1
          /\ \A i \in 1..Len(Gathered) : Gathered'[i] = Gathered[i]
          /\ Gathered'[Len(Gathered) + 1] = b
      BY <2>5, <3>1, AppendProperties
    <3>3. \A i \in 1..(Len(Gathered) + 1) : i \in 1..Len(Gathered) \/ i = Len(Gathered) + 1
      BY <2>5
    <3>4. query'[calls][b] = "ended"
      BY <1>1, <2>1, <2>8 DEF IInv, TypeOK
    <3>5. \A i \in 1..Len(Gathered') : query'[calls][Gathered'[i]] = "ended"
      BY <2>6, <3>2, <3>3, <3>4
    <3>6. \A i \in 1..Len(Gathered) : Gathered[i] # b
      BY <1>1, <1>5, <2>8 DEF IInv, GatherInv
    <3>7. NoRepeat(Gathered')
      <4>1. \A i, j \in 1..Len(Gathered) : Gathered[i] = Gathered[j] => i = j
        BY <1>5 DEF IInv, GatherInv, NoRepeat
      <4>2. \A i, j \in 1..(Len(Gathered) + 1) : Gathered'[i] = Gathered'[j] => i = j
        BY <3>2, <3>3, <3>6, <4>1
      <4> QED
        BY <3>2, <4>2 DEF NoRepeat
    <3>8. \A x \in Brokers : query'[calls][x] # "none" => x \in Members(page[calls])
      BY <1>5, <2>4 DEF IInv, GatherInv
    <3> QED
      BY <1>1, <3>5, <3>7, <3>8 DEF GatherInv, Members, NoRepeat
  <2> QED
    BY <2>7, <2>8
<1>6. UnusedInv'
  <2>1. ASSUME NEW d \in Calls, d > calls PROVE d # c
    <3>1. page[d] = <<>>
      BY <2>1 DEF IInv, UnusedInv
    <3>2. Len(respChan[c]) \in Nat /\ Len(<<>>) = 0
      BY <1>2, LenProperties
    <3> QED
      BY <1>1, <3>1, <3>2
  <2> QED
    BY <1>1, <2>1 DEF IInv, UnusedInv, TypeOK
<1>7. ClientInv'
  BY <1>1, ClientKept DEF IInv
<1>8. GatherInv'
  BY <1>1, <1>5 DEF GatherInv
<1> QED
  BY <1>3, <1>4, <1>6, <1>7, <1>8 DEF IInv

\* A result that is not the last of its page moves from the channel.
LEMMA CollectSome ==
  ASSUME IInv, Collect,
         Len(Append(brokerStats, Head(respChan[calls]))) # Len(page[calls])
  PROVE  IInv'
<1> DEFINE results == Append(brokerStats, Head(respChan[calls]))
<1>1. /\ client = "waiting" /\ respChan[calls] # <<>>
      /\ respChan' = [respChan EXCEPT ![calls] = Tail(respChan[calls])]
      /\ brokerStats' = results
      /\ UNCHANGED <<listing, changes, changed, reordered, limit, client, offset, calls, collected, page, query>>
  BY DEF Collect, listVars
<1>2. calls \in Calls
  BY <1>1 DEF IInv, PageInv
<1>3. /\ results \in Seq(Brokers) /\ Tail(respChan[calls]) \in Seq(Brokers)
      /\ results \o Tail(respChan[calls]) = Gathered
  BY <1>1, <1>2, ReceivedInOrder DEF IInv
<1> HIDE DEF results
<1>4. TypeOK'
  BY <1>1, <1>2, <1>3 DEF IInv, TypeOK
<1>5. PageInv'
  BY <1>1, PageKept DEF IInv, PageInv
<1>6. Gathered' = Gathered
  <2>1. respChan'[calls'] = Tail(respChan[calls])
    BY <1>1, <1>2 DEF IInv, TypeOK
  <2> QED
    BY <1>1, <1>3, <2>1 DEF Gathered
<1>7. GatherInv'
  BY <1>1, <1>6 DEF IInv, GatherInv, Members, NoRepeat
<1>8. UnusedInv'
  <2>1. \A d \in Calls : d > calls => d # calls
    BY <1>2 DEF Calls
  <2> QED
    BY <1>1, <2>1 DEF IInv, UnusedInv, TypeOK
<1>9. ClientInv'
  BY <1>1, ClientKept DEF IInv
<1> QED
  BY <1>4, <1>5, <1>7, <1>8, <1>9 DEF IInv

\* The last result of a page brings the client to the end of it.
LEMMA CollectLast ==
  ASSUME IInv, Collect,
         Len(Append(brokerStats, Head(respChan[calls]))) = Len(page[calls])
  PROVE  IInv'
<1> DEFINE results == Append(brokerStats, Head(respChan[calls]))
<1>1. /\ client = "waiting" /\ respChan[calls] # <<>>
      /\ respChan' = [respChan EXCEPT ![calls] = Tail(respChan[calls])]
      /\ collected' = collected \o results
      /\ offset' = offset + Len(page[calls])
      /\ client' = IF offset' >= Len(listing) THEN "finished" ELSE "asking"
      /\ brokerStats' = <<>>
      /\ UNCHANGED <<listing, changes, changed, reordered, limit, calls, page, query>>
  BY DEF Collect, NextPage, listVars
<1>2. /\ calls \in Calls /\ offset' \in 0..Cardinality(Brokers)
      /\ Len(page[calls]) \in Nat
  BY <1>1, WaitingPage DEF IInv
<1>3. results \in Seq(Brokers) /\ Tail(respChan[calls]) \in Seq(Brokers)
  BY <1>1, <1>2, ReceivedInOrder DEF IInv
<1>4. Members(results) = Members(page[calls])
  BY <1>1, PageComplete DEF IInv
<1>5. Len(results) = Len(page[calls])
  OBVIOUS
<1> HIDE DEF results
<1>6. collected \in Seq(Brokers) /\ collected \o results \in Seq(Brokers)
      /\ Len(collected \o results) = Len(collected) + Len(page[calls])
  <2>1. collected \in Seq(Brokers)
    BY DEF IInv, TypeOK
  <2>2. collected \o results \in Seq(Brokers) /\ Len(collected \o results) = Len(collected) + Len(results)
    BY <1>3, <2>1, ConcatProperties
  <2> QED
    BY <1>5, <2>1, <2>2
<1>7. TypeOK'
  BY <1>1, <1>2, <1>3, <1>6 DEF IInv, TypeOK
<1>8. PageInv' /\ GatherInv'
  BY <1>1 DEF PageInv, GatherInv
<1>9. UnusedInv'
  <2>1. \A d \in Calls : d > calls => d # calls
    BY <1>2 DEF Calls
  <2> QED
    BY <1>1, <2>1 DEF IInv, UnusedInv, TypeOK
<1>10. ASSUME ~reordered
       PROVE  /\ offset' <= Len(listing)
              /\ Len(collected') = offset'
              /\ Members(collected') = {listing[i] : i \in 1..offset'}
  <2>1. PICK n \in Nat : n = Len(page[calls])
    BY <1>2
  <2>2. PICK k \in Nat : k = offset
    BY BrokersAssumption, FS_CardinalityType DEF IInv, TypeOK
  <2>3. /\ listing \in Listings /\ ~Refused(listing) /\ page[calls] = PageOf(listing)
    BY <1>1, <1>10 DEF IInv, PageInv, TypeOK
  <2>4. k + n <= Len(listing) /\ \A i \in 1..n : page[calls][i] = listing[k + i]
    BY <2>1, <2>2, <2>3, PageProperties DEF IInv
  <2>5. offset' = k + n /\ Len(collected) = k /\ Len(collected') = k + n
    BY <1>1, <1>6, <1>10, <2>1, <2>2 DEF IInv, ClientInv, OrderInv
  <2>6. Members(collected') = {listing[i] : i \in 1..k} \cup {listing[k + i] : i \in 1..n}
    <3>1. Members(collected') = Members(collected) \cup Members(page[calls])
      BY <1>1, <1>3, <1>4, <1>6, MembersConcat
    <3>2. Members(page[calls]) = {listing[k + i] : i \in 1..n}
      BY <2>1, <2>4 DEF Members
    <3> QED
      BY <1>10, <2>2, <3>1, <3>2 DEF IInv, ClientInv, OrderInv
  <2>7. {listing[i] : i \in 1..k} \cup {listing[k + i] : i \in 1..n} = {listing[i] : i \in 1..(k + n)}
    <3>1. \A i \in 1..k : i \in 1..(k + n)
      OBVIOUS
    <3>2. \A i \in 1..n : k + i \in 1..(k + n)
      OBVIOUS
    <3>3. \A i \in 1..(k + n) : i \in 1..k \/ (i - k \in 1..n /\ i = k + (i - k))
      OBVIOUS
    <3> QED
      BY <3>1, <3>2, <3>3
  <2> QED
    BY <2>4, <2>5, <2>6, <2>7
<1>11. OrderInv'
  <2>1. listing \in Listings
    BY DEF IInv, TypeOK
  <2>2. Len(listing) \in Nat
    BY <2>1, ListingLength
  <2>3. ~reordered /\ client' = "finished" => offset' = Len(listing)
    BY <1>1, <1>2, <1>10, <2>2
  <2>4. reordered' = reordered /\ listing' = listing
    BY <1>1
  <2> QED
    BY <1>10, <2>3, <2>4 DEF OrderInv, Members
<1>12. AllInv'
  <2> SUFFICES ASSUME limit = 0, ~changed
               PROVE  /\ offset' # 0
                      /\ Members(collected') = Members(listing) /\ Len(collected') = Len(listing)
    <3>1. limit' = limit /\ changed' = changed /\ listing' = listing
      BY <1>1
    <3>2. Members(collected)' = Members(collected') /\ Members(listing)' = Members(listing')
      BY DEF Members
    <3> QED
      BY <3>1, <3>2 DEF AllInv
  <2>1. PICK l \in Listings : /\ ~Refused(l) /\ page[calls] = PageOf(l)
                              /\ Members(l) = Members(listing)
    BY <1>1 DEF IInv, PageInv
  <2>2. l \in Seq(Brokers) /\ NoRepeat(l) /\ Len(l) \in Nat
    BY ListingLength
  <2>3. offset = 0 /\ Len(l) > 0 /\ PageEnd(Len(l)) = Len(l)
    BY <2>1, <2>2 DEF Refused, PageEnd
  <2>4. page[calls] = l
    <3>1. l = SubSeq(l, 1, Len(l))
      BY <2>2
    <3> QED
      BY <2>1, <2>3, <3>1 DEF PageOf
  <2>5. collected = <<>>
    BY <2>3 DEF IInv, ClientInv, AllInv
  <2>6. Members(collected') = Members(l)
    <3>1. Members(collected') = Members(collected) \cup Members(page[calls])
      BY <1>1, <1>3, <1>4, <1>6, MembersConcat
    <3>2. Members(collected) = {}
      BY <2>5 DEF Members
    <3> QED
      BY <2>4, <3>1, <3>2
  <2>7. Len(l) = Len(listing)
    <3>1. listing \in Seq(Brokers) /\ NoRepeat(listing)
      BY ListingLength DEF IInv, TypeOK
    <3> QED
      BY <2>1, <2>2, <3>1, Bijective
  <2>8. Len(collected') = Len(l) /\ offset' = Len(l)
    BY <1>1, <1>6, <2>2, <2>3, <2>4, <2>5
  <2> QED
    BY <2>1, <2>2, <2>3, <2>6, <2>7, <2>8
<1> QED
  BY <1>7, <1>8, <1>9, <1>11, <1>12 DEF IInv, ClientInv

LEMMA NextInv == IInv /\ [Next]_vars => IInv'
<1> SUFFICES ASSUME IInv, [Next]_vars PROVE IInv'
  OBVIOUS
<1>1. CASE StartCall
  BY <1>1, StartCallKeeps
<1>2. CASE RefuseCall
  BY <1>2, RefuseCallKeeps
<1>3. CASE Collect
  BY <1>3, CollectSome, CollectLast
<1>4. CASE Timeout
  BY <1>4, TimeoutKeeps
<1>5. CASE Relist
  BY <1>5, RelistKeeps
<1>6. ASSUME NEW c \in Calls, NEW b \in Brokers, Respond(c, b) \/ SendResult(c, b)
      PROVE  IInv'
  BY <1>6, RespondKeeps, SendResultKeeps
<1>7. CASE UNCHANGED vars
  <2>1. UNCHANGED <<listing, changes, changed, reordered, limit, client, offset, calls, brokerStats, collected, page, query, respChan>>
    BY <1>7 DEF vars, listVars, clientVars, callVars
  <2>2. TypeOK'
    BY <2>1 DEF IInv, TypeOK
  <2>3. PageInv'
    BY <2>1, PageKept DEF IInv, PageInv
  <2>4. GatherInv'
    BY <2>1 DEF IInv, GatherInv, Gathered, Members, NoRepeat
  <2>5. UnusedInv' /\ ClientInv'
    BY <2>1, ClientKept DEF IInv, UnusedInv
  <2> QED
    BY <2>2, <2>3, <2>4, <2>5 DEF IInv
<1> QED
  BY <1>1, <1>2, <1>3, <1>4, <1>5, <1>6, <1>7 DEF Next

-----------------------------------------------------------------------------
\* The state of the aggregator, its channels and its client is what the code
\* can hold (AggregateBrokersStats and GetBrokers).
THEOREM TypeCorrect == Spec => []TypeOK
<1>1. IInv => TypeOK
  BY DEF IInv
<1> QED
  BY <1>1, InitInv, NextInv, PTL DEF Spec

\* A client that got to the last page while the brokers stayed the same has each of
\* them once, however many there are and whatever calls timed out: if it asked for
\* all at once, in whatever order they are listed, and if it paged, as long as the
\* order in which they are listed does not change (AggregateBrokersStats' paging).
THEOREM PagesCoverBrokers == Spec => []EveryBrokerOnce
<1>1. IInv => EveryBrokerOnce
  <2> SUFFICES ASSUME IInv, client = "finished", ~changed, limit = 0 \/ ~reordered
               PROVE  Members(collected) = Members(listing) /\ Len(collected) = Len(listing)
    BY DEF EveryBrokerOnce
  <2>1. CASE ~reordered
    BY <2>1 DEF IInv, ClientInv, OrderInv, Members
  <2>2. CASE limit = 0
    BY <2>2 DEF IInv, ClientInv, AllInv
  <2> QED
    BY <2>1, <2>2
<1> QED
  BY <1>1, InitInv, NextInv, PTL DEF Spec
==============================================================================
