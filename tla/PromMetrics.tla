----------------------------- MODULE PromMetrics -----------------------------
(***************************************************************************)
(* The federated metrics of a tenant: PulsarFederatedPrometheusHandler and *)
(* tenantFederatedPrometheus (src/src/route/handlers.go) answer from a     *)
(* cache per tenant, or scrape (GetTenantPromMetrics in                    *)
(* src/src/metrics/federated-prometheus.go); for a tenant without metrics  *)
(* they ask the list of tenants (src/src/policy/tenant.go), which is       *)
(* fetched again when the tenant is not on it.  Requests share the cache   *)
(* under its lock, and the list without one.                               *)
(*                                                                         *)
(* Data abstraction.  Of metrics their age is kept, and whether there are  *)
(* any.  Ages are counted in ticks.  Pulsar lists tenants in any order.    *)
(***************************************************************************)
EXTENDS Naturals, Sequences, SequencesExt

CONSTANTS Requests,       \* requests under way at the same time
          Tenants,
          SuperRole,      \* the metrics of all tenants
          Names,          \* the tenants, or SuperRole, whose metrics are asked for
          scrapeInterval, \* ticks an entry of the cache is served
          ScrapeTimeout   \* ticks, http.Client.Timeout of scrapeJob

ASSUME PromAssumption ==
  /\ IsFiniteSet(Tenants) /\ SuperRole \notin Tenants /\ Names \subseteq Tenants \cup {SuperRole}
  /\ scrapeInterval \in Nat \ {0} /\ ScrapeTimeout \in Nat

\* The oldest data can be: scraped slowly and then kept.
MaxAge == scrapeInterval + ScrapeTimeout

VARIABLES exists,  \* the tenants in Pulsar
          metered, \* the names for which Prometheus has metrics
          cache,   \* cache[n]: an entry
          list,    \* policy.Tenants
          req      \* req[r]: the request of r

vars == <<exists, metered, cache, list, req>>

NoEntry == [age |-> scrapeInterval, data |-> [age |-> 0, any |-> FALSE]]
Idle == [stage |-> "idle"]
Data == [age : 0..MaxAge, any : BOOLEAN]
\* waited: ticks since the scrape began; excuse: was there a reason, since the
\* request looks the tenant up, not to find it; names: Pulsar's list, written
\* up to the index at.
Requested ==
  [stage : {"scraping", "sampled", "serving", "asking", "decoding", "rechecking", "200", "404", "500"},
   name : Names, waited : 0..ScrapeTimeout, data : Data, excuse : BOOLEAN,
   names : SetToAllKPermutations(Tenants), at : 0..Cardinality(Tenants)]

TypeOK ==
  /\ exists \subseteq Tenants /\ metered \subseteq Names
  /\ cache \in [Names -> [age : 0..scrapeInterval, data : Data]]
  /\ list \in Seq(Tenants) /\ Len(list) <= Cardinality(Tenants)
  /\ req \in [Requests -> {Idle} \cup Requested]

Init ==
  /\ exists \in SUBSET Tenants
  /\ metered \in {M \in SUBSET Names : M \ {SuperRole} \subseteq exists}
  /\ cache = [n \in Names |-> NoEntry] /\ list = <<>>
  /\ req = [r \in Requests |-> Idle]

-----------------------------------------------------------------------------
(* Meanwhile *)

\* An answer is on its way as soon as it is made.
Answered(r) == req[r].stage \in {"serving", "200", "404", "500"}

Older(data) == [data EXCEPT !.age = IF @ = MaxAge THEN @ ELSE @ + 1]

\* Time passes, but not past the timeout of a scrape; an entry that is too old is
\* as good as none.
Tick ==
  /\ \A r \in Requests :
       /\ ~Answered(r)
       /\ req[r].stage \in {"scraping", "sampled"} => req[r].waited < ScrapeTimeout
  /\ cache' = [n \in Names |->
       IF cache[n].age + 1 >= scrapeInterval THEN NoEntry
       ELSE [age |-> cache[n].age + 1, data |-> Older(cache[n].data)]]
  /\ req' = [r \in Requests |->
       CASE req[r].stage = "scraping" -> [req[r] EXCEPT !.waited = @ + 1]
         [] req[r].stage = "sampled"  -> [req[r] EXCEPT !.waited = @ + 1, !.data = Older(@)]
         [] OTHER -> req[r]]
  /\ UNCHANGED <<exists, metered, list>>

\* A tenant is created, or deleted with its topics; requests that look for a
\* tenant that is not there have a reason not to find it.
ChangeTenants(t) ==
  /\ exists' = IF t \in exists THEN exists \ {t} ELSE exists \cup {t}
  /\ metered' = metered \ {t}
  /\ req' = [r \in Requests |->
       IF req[r].stage \in {"asking", "decoding", "rechecking"} /\ req[r].name = t /\ t \in exists
       THEN [req[r] EXCEPT !.excuse = TRUE] ELSE req[r]]
  /\ UNCHANGED <<cache, list>>

\* The first topics of a tenant are created, or the last ones deleted.
ChangeTopics(n) ==
  /\ n \in exists \cup {SuperRole}
  /\ metered' = IF n \in metered THEN metered \ {n} ELSE metered \cup {n}
  /\ UNCHANGED <<exists, cache, list, req>>

-----------------------------------------------------------------------------
(* GetTenantPromMetrics *)

Set(r, request) == req' = [req EXCEPT ![r] = request]
New(stage, n, data) ==
  [stage |-> stage, name |-> n, waited |-> 0, data |-> data, excuse |-> FALSE,
   names |-> <<>>, at |-> 0]

\* GetCache
Fresh(n) == cache[n].age < scrapeInterval

\* Mutant: an entry that is read counts as new.
Arrive_Renews(r, n) ==
  /\ req[r] = Idle
  /\ Set(r, IF Fresh(n) THEN New("serving", n, cache[n].data)
            ELSE New("scraping", n, NoEntry.data))
  /\ cache' = IF Fresh(n) THEN [cache EXCEPT ![n].age = 0] ELSE cache
  /\ UNCHANGED <<exists, metered, list>>

\* A request arrives: from the cache, or with a scrape.
Arrive(r, n) ==
  /\ req[r] = Idle
  /\ Set(r, IF Fresh(n) THEN New("serving", n, cache[n].data)
            ELSE New("scraping", n, NoEntry.data))
  /\ UNCHANGED <<exists, metered, cache, list>>

\* Prometheus takes the metrics at some time while it is scraped.
TakeSample(r) ==
  /\ req[r].stage = "scraping"
  /\ Set(r, [req[r] EXCEPT !.stage = "sampled", !.data = [age |-> 0, any |-> req[r].name \in metered]])
  /\ UNCHANGED <<exists, metered, cache, list>>

\* SetCache, whatever the cache has got meanwhile, and the answer goes on.
EndScrape(r) ==
  /\ req[r].stage = "sampled"
  /\ cache' = [cache EXCEPT ![req[r].name] = [age |-> 0, data |-> req[r].data]]
  /\ Set(r, [req[r] EXCEPT !.stage = "serving", !.waited = 0])
  /\ UNCHANGED <<exists, metered, list>>

\* An error, a status above 299 or the timeout.
ScrapeFails(r) ==
  /\ req[r].stage \in {"scraping", "sampled"}
  /\ Set(r, New("500", req[r].name, NoEntry.data))
  /\ UNCHANGED <<exists, metered, cache, list>>

-----------------------------------------------------------------------------
(* tenantFederatedPrometheus *)

\* isTenant
Listed(t) == Contains(list, t)

\* Metrics are served; all of them missing is an error; a tenant that is listed
\* gets an empty answer.
Serve(r) ==
  /\ req[r].stage = "serving"
  /\ LET n == req[r].name IN
     CASE req[r].data.any -> Set(r, New("200", n, req[r].data))
       [] ~req[r].data.any /\ n = SuperRole -> Set(r, New("500", n, NoEntry.data))
       [] OTHER -> IF Listed(n) THEN Set(r, New("200", n, req[r].data))
                   ELSE Set(r, [New("asking", n, NoEntry.data) EXCEPT !.excuse = n \notin exists])
  /\ UNCHANGED <<exists, metered, cache, list>>

\* updateTenants: Pulsar answers.
GetTenants(r) ==
  /\ req[r].stage = "asking"
  /\ \E names \in SetToSeqs(exists) :
       Set(r, [req[r] EXCEPT !.stage = "decoding", !.names = names])
  /\ UNCHANGED <<exists, metered, cache, list>>

\* It does not: the list stays as it is.
GetTenantsFails(r) ==
  /\ req[r].stage = "asking"
  /\ Set(r, [req[r] EXCEPT !.stage = "rechecking", !.excuse = TRUE])
  /\ UNCHANGED <<exists, metered, cache, list>>

\* Mutant: the last element is not written.
Decoded_ButLast(names, at) == at >= Len(names) - 1

Decoded(names, at) == at = Len(names)

\* The list with its i-th element written.
Written(i, name) == IF i <= Len(list) THEN [list EXCEPT ![i] = name] ELSE Append(list, name)

\* json.Unmarshal into the list itself: one element after the other is replaced
\* or appended, in the end the rest is cut off.
Decode(r) ==
  /\ req[r].stage = "decoding"
  /\ LET names == req[r].names
         i == req[r].at + 1
         others == {o \in Requests \ {r} : req[o].stage \in {"asking", "decoding", "rechecking"}}
     IN IF Decoded(names, req[r].at)
        THEN /\ list' = SubSeq(list, 1, IF Len(list) < Len(names) THEN Len(list) ELSE Len(names))
             /\ req' = [o \in Requests |->
                  CASE o = r -> [req[r] EXCEPT !.stage = "rechecking", !.names = <<>>, !.at = 0]
                    [] o \in others -> [req[o] EXCEPT !.excuse = TRUE]
                    [] OTHER -> req[o]]
        ELSE /\ list' = Written(i, names[i])
             /\ req' = [o \in Requests |->
                  CASE o = r -> [req[r] EXCEPT !.at = i]
                    [] o \in others -> [req[o] EXCEPT !.excuse = TRUE]
                    [] OTHER -> req[o]]
  /\ UNCHANGED <<exists, metered, cache>>

\* isTenant again.
Recheck(r) ==
  /\ req[r].stage = "rechecking"
  /\ Set(r, [req[r] EXCEPT !.stage = IF Listed(req[r].name) THEN "200" ELSE "404"])
  /\ UNCHANGED <<exists, metered, cache, list>>

Finish(r) ==
  /\ req[r].stage \in {"200", "404", "500"}
  /\ Set(r, Idle)
  /\ UNCHANGED <<exists, metered, cache, list>>

RequestNext(r) ==
  \/ TakeSample(r) \/ EndScrape(r) \/ ScrapeFails(r)
  \/ Serve(r) \/ GetTenants(r) \/ GetTenantsFails(r) \/ Decode(r) \/ Recheck(r) \/ Finish(r)

Next ==
  \/ Tick
  \/ \E t \in Tenants : ChangeTenants(t)
  \/ \E n \in Names : ChangeTopics(n) \/ \E r \in Requests : Arrive(r, n)
  \/ \E r \in Requests : RequestNext(r)

Spec == Init /\ [][Next]_vars

-----------------------------------------------------------------------------
(* Properties *)

\* Metrics are answered that were true less than a scrape and an interval of
\* the cache ago, though scrapes overlap and the older one may be stored last.
ServedFresh ==
  \A r \in Requests : req[r].stage = "200" /\ req[r].data.any => req[r].data.age < MaxAge

\* A tenant without metrics is only said not to be there (404) if it was not, at
\* some time of the look-up, if Pulsar did not answer, or if another request
\* was writing to the list at the same time.
NotFoundExcused == \A r \in Requests : req[r].stage = "404" => req[r].excuse
==============================================================================
