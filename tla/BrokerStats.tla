----------------------------- MODULE BrokerStats -----------------------------
(***************************************************************************)
(* The /broker-stats aggregator (AggregateBrokersStats, GetBrokers and     *)
(* brokerStatsQuery in src/src/policy/topic-stats.go) and a client that    *)
(* pages through it.  A call asks the brokers of one page concurrently and *)
(* collects their answers from a channel until all are there or the ticker *)
(* fires; the goroutines of a call that timed out live on beside the next  *)
(* calls.                                                                  *)
(*                                                                         *)
(* Data abstraction.  The statistics of a broker are left out; one that    *)
(* cannot be reached or answers nonsense is sent to the channel like the   *)
(* others, without data.  The order of a list is the one the admin API     *)
(* answers: GetBrokers returns sort.StringSlice(brokers), a conversion of  *)
(* the type, which sorts nothing.                                          *)
(***************************************************************************)
EXTENDS Naturals, Sequences, FiniteSets

CONSTANTS Brokers,     \* the brokers there may be
          Listings,    \* what the admin API may list, each in every order it may have
          LimitParams, \* "limit" query parameters; 0 if it is not given
          MaxCalls,    \* bound: calls the client makes
          MaxChanges   \* bound: changes of what is listed, or of its order

ASSUME BrokersAssumption == IsFiniteSet(Brokers)
ASSUME ListingsAssumption ==
  \A l \in Listings : l \in Seq(Brokers) /\ \A i, j \in 1..Len(l) : l[i] = l[j] => i = j
ASSUME ParamsAssumption == LimitParams \subseteq Nat
ASSUME BoundsAssumption == MaxCalls \in Nat /\ MaxChanges \in Nat

Calls == 1..MaxCalls

VARIABLES listing,   \* the brokers of the cluster, as the admin API would list them
          changes,
          changed,   \* history: other brokers were listed
          reordered, \* history: the list changed, be it in its order alone
          limit,     \* the limit parameter the client uses
          client,    \* "asking" for the next page, "waiting" for it, or "finished"
          offset,    \* offset of the page
          calls,     \* calls made so far; the last one is under way
          page,      \* page[c]: the brokers call c asks
          query,     \* query[c][b]: the goroutine that asks b for call c
          respChan,  \* respChan[c]: the results on the channel of call c
          brokerStats, \* the results collected by the current call
          collected  \* what the client has got so far, over all pages

callVars == <<page, query, respChan>>
clientVars == <<limit, client, offset, calls, brokerStats, collected>>
listVars == <<listing, changes, changed, reordered>>
vars == <<listVars, clientVars, callVars>>

TypeOK ==
  /\ listing \in Listings
  /\ changes \in Nat /\ changed \in BOOLEAN /\ reordered \in BOOLEAN
  /\ limit \in LimitParams
  /\ client \in {"asking", "waiting", "finished"}
  /\ offset \in 0..Cardinality(Brokers)
  /\ calls \in 0..MaxCalls
  /\ page \in [Calls -> Seq(Brokers)]
  /\ query \in [Calls -> [Brokers -> {"none", "running", "sending", "ended"}]]
  /\ respChan \in [Calls -> Seq(Brokers)]
  /\ brokerStats \in Seq(Brokers)
  /\ collected \in Seq(Brokers)

Init ==
  /\ listing \in Listings /\ changes = 0 /\ changed = FALSE /\ reordered = FALSE
  /\ limit \in LimitParams
  /\ client = "asking" /\ offset = 0 /\ calls = 0
  /\ page = [c \in Calls |-> <<>>]
  /\ query = [c \in Calls |-> [b \in Brokers |-> "none"]]
  /\ respChan = [c \in Calls |-> <<>>]
  /\ brokerStats = <<>> /\ collected = <<>>

-----------------------------------------------------------------------------
\* AggregateBrokersStats: is the request refused with 422?
Refused(brokers) ==
  \/ offset >= Len(brokers)
  \/ limit = 0 /\ offset # 0

\* newOffset.
PageEnd(total) ==
  IF offset + limit = 0 \/ offset + limit > total THEN total ELSE offset + limit

\* GetBrokers gave the list: the goroutines of the page are started.
StartCall ==
  LET c == calls + 1
      brokers == SubSeq(listing, offset + 1, PageEnd(Len(listing)))
  IN  /\ client = "asking" /\ calls < MaxCalls
      /\ ~Refused(listing)
      /\ calls' = c
      /\ client' = "waiting"
      /\ page' = [page EXCEPT ![c] = brokers]
      /\ query' = [query EXCEPT ![c] = [b \in Brokers |->
                     IF \E i \in 1..Len(brokers) : brokers[i] = b THEN "running" ELSE "none"]]
      /\ brokerStats' = <<>>
      /\ UNCHANGED <<listVars, limit, offset, respChan, collected>>

\* GetBrokers failed, which looks like no brokers, or the page is not there: 422.
\* The client asks again.
RefuseCall ==
  /\ client = "asking" /\ calls < MaxCalls
  /\ \E brokers \in {listing, <<>>} : Refused(brokers)
  /\ calls' = calls + 1
  /\ UNCHANGED <<listVars, limit, client, offset, brokerStats, collected, callVars>>

\* The http.Client of brokerStatsQuery returns, with an answer or an error.
Respond(c, b) ==
  /\ query[c][b] = "running"
  /\ query' = [query EXCEPT ![c][b] = "sending"]
  /\ UNCHANGED <<listVars, clientVars, page, respChan>>

\* Mutant: the channel is not buffered, a result waits for its receiver.
SendResult_Unbuffered(c, b) ==
  /\ query[c][b] = "sending"
  /\ c = calls /\ client = "waiting" /\ respChan[c] = <<>>
  /\ query' = [query EXCEPT ![c][b] = "ended"]
  /\ respChan' = [respChan EXCEPT ![c] = Append(@, b)]
  /\ UNCHANGED <<listVars, clientVars, page>>

\* respChan <- brokerStats, on a channel with room for the whole page.
SendResult(c, b) ==
  /\ query[c][b] = "sending"
  /\ Len(respChan[c]) < Len(page[c])
  /\ query' = [query EXCEPT ![c][b] = "ended"]
  /\ respChan' = [respChan EXCEPT ![c] = Append(@, b)]
  /\ UNCHANGED <<listVars, clientVars, page>>

\* The offset of the answer, from which the client goes on.
NextPage(c) == offset + Len(page[c])

\* case result := <-resultChan; the last one makes the answer.
Collect ==
  LET c == calls
      results == Append(brokerStats, Head(respChan[c]))
  IN  /\ client = "waiting"
      /\ respChan[c] # <<>>
      /\ respChan' = [respChan EXCEPT ![c] = Tail(@)]
      /\ IF Len(results) = Len(page[c])
         THEN /\ collected' = collected \o results
              /\ offset' = NextPage(c)
              /\ client' = IF NextPage(c) >= Len(listing) THEN "finished" ELSE "asking"
              /\ brokerStats' = <<>>
         ELSE /\ brokerStats' = results
              /\ UNCHANGED <<collected, offset, client>>
      /\ UNCHANGED <<listVars, limit, calls, page, query>>

\* Mutant: an answer is made of the results there are.
Timeout_PartialAnswer ==
  /\ client = "waiting"
  /\ collected' = collected \o brokerStats
  /\ offset' = NextPage(calls)
  /\ client' = IF NextPage(calls) >= Len(listing) THEN "finished" ELSE "asking"
  /\ brokerStats' = <<>>
  /\ UNCHANGED <<listVars, limit, calls, callVars>>

\* Mutant: the timeout is logged and the loop goes on.
Timeout_OnlyLogged ==
  /\ client = "waiting"
  /\ UNCHANGED vars

\* case <-ticker.C: 500 and no data; the client asks for the page again.
Timeout ==
  /\ client = "waiting"
  /\ client' = "asking"
  /\ brokerStats' = <<>>
  /\ UNCHANGED <<listVars, limit, offset, calls, collected, callVars>>

Members(s) == {s[i] : i \in 1..Len(s)}

\* Brokers join, leave or come back, or the admin API answers in another order.
Relist ==
  /\ changes < MaxChanges
  /\ changes' = changes + 1
  /\ listing' \in Listings \ {listing}
  /\ changed' = (changed \/ Members(listing') # Members(listing))
  /\ reordered' = TRUE
  /\ UNCHANGED <<clientVars, callVars>>

Next ==
  \/ StartCall \/ RefuseCall \/ Collect \/ Timeout \/ Relist
  \/ \E c \in Calls, b \in Brokers : Respond(c, b) \/ SendResult(c, b)

Spec == Init /\ [][Next]_vars

(* Goroutines are scheduled and the ticker fires.  Nothing is assumed of   *)
(* the brokers: the http.Client has no timeout.                            *)
FairSpec ==
  /\ Spec
  /\ WF_vars(Collect) /\ WF_vars(Timeout)
  /\ \A c \in Calls, b \in Brokers : WF_vars(SendResult(c, b))

-----------------------------------------------------------------------------
(* Properties *)

\* A client that got to the last page while the brokers stayed the same has the
\* statistics of each of them, and of none twice, whatever calls timed out and were
\* repeated on the way: in any order if it asked for all at once, and over several
\* pages if every call found them listed in the same order (AggregateBrokersStats;
\* nothing in GetBrokers makes the order the same).
EveryBrokerOnce ==
  (client = "finished" /\ ~changed /\ (limit = 0 \/ ~reordered)) =>
    /\ Members(collected) = Members(listing)
    /\ Len(collected) = Len(listing)

\* Every goroutine that has its broker's answer ends, also when its call has
\* timed out and nobody reads the channel (make(chan BrokerStats, size)).
QueriesEnd == \A c \in Calls, b \in Brokers : query[c][b] = "sending" ~> query[c][b] = "ended"

\* Every call is answered though brokers may never answer (the ticker).
Answered == client = "waiting" ~> client # "waiting"
==============================================================================
