--------------------------- MODULE AdminProxyProofs ---------------------------
(***************************************************************************)
(* Proofs about AdminProxy, for any requests, tenants, plans and limits,   *)
(* and any number of requests under way; and about RateLimit, the limiter  *)
(* in front of the router.                                                 *)
(***************************************************************************)
EXTENDS AdminProxy, RateLimit, FiniteSetTheorems, SequenceTheorems, WellFoundedInduction, TLAPS

-----------------------------------------------------------------------------
(* The routes.  Only one of them holds a tenant to its number of            *)
(* namespaces; it is the first that matches the creation of a namespace.    *)

LEMMA OwnTable ==
  /\ Len(OwnRoutes) = 12
  /\ \A i \in 1..12 : OwnRoutes[i].handler = "Own" /\ "PUT" \notin OwnRoutes[i].methods
<1>1. Len(OwnRoutes) = 12
  BY DEF OwnRoutes
<1>2. \A i \in 1..12 : OwnRoutes[i].handler = "Own"
  BY DEF OwnRoutes, Path, Prefix
<1>3. \A i \in 1..12 : "PUT" \notin OwnRoutes[i].methods
  BY DEF OwnRoutes, Path, Prefix, GET, POST, DELETE
<1> QED
  BY <1>1, <1>2, <1>3

LEMMA ClusterTable ==
  /\ Len(ClusterRoutes) = 3
  /\ \A i \in 1..3 : /\ ClusterRoutes[i].handler \in {"Own", "Direct"}
                     /\ Len(ClusterRoutes[i].pattern) = 1
                     /\ ClusterRoutes[i].pattern[1] # {}
                     /\ "namespaces" \notin ClusterRoutes[i].pattern[1]
BY DEF ClusterRoutes, Prefix

LEMMA RestrictedPolicyTable ==
  /\ Len(RestrictedPolicyRoutes) = 9
  /\ \A i \in 1..9 : /\ RestrictedPolicyRoutes[i].handler \in {"NamespacePolicy", "Direct"}
                     /\ Len(RestrictedPolicyRoutes[i].pattern) \in {4, 5}
                     /\ ~RestrictedPolicyRoutes[i].exact
<1>1. Len(RestrictedPolicyRoutes) = 9
  BY DEF RestrictedPolicyRoutes
<1>2. \A i \in 1..9 : RestrictedPolicyRoutes[i].handler \in {"NamespacePolicy", "Direct"}
  BY DEF RestrictedPolicyRoutes, Prefix
<1>3. \A i \in 1..9 : Len(RestrictedPolicyRoutes[i].pattern) \in {4, 5}
  BY DEF RestrictedPolicyRoutes, Prefix
<1>4. \A i \in 1..9 : ~RestrictedPolicyRoutes[i].exact
  BY DEF RestrictedPolicyRoutes, Prefix
<1> QED
  BY <1>1, <1>2, <1>3, <1>4

LEMMA BundleTable ==
  /\ Len(BundleRoutes) = 3
  /\ \A i \in 1..3 : /\ BundleRoutes[i].handler = "Direct"
                     /\ Len(BundleRoutes[i].pattern) \in {4, 5, 6}
                     /\ ~BundleRoutes[i].exact
<1>1. Len(BundleRoutes) = 3
  BY DEF BundleRoutes
<1>2. \A i \in 1..3 : BundleRoutes[i].handler = "Direct" /\ ~BundleRoutes[i].exact
  BY DEF BundleRoutes, Prefix
<1>3. \A i \in 1..3 : Len(BundleRoutes[i].pattern) \in {4, 5, 6}
  BY DEF BundleRoutes, Prefix
<1> QED
  BY <1>1, <1>2, <1>3

LEMMA NamespaceTable ==
  /\ Len(NamespaceRoutes) = 9
  /\ \A i \in 1..6 : Len(NamespaceRoutes[i].pattern) = 4 /\ ~NamespaceRoutes[i].exact
  /\ \A i \in 1..9 : i # 7 => NamespaceRoutes[i].handler = "Direct"
  /\ NamespaceRoutes[7] = Prefix(<<{"namespaces"}, {}, {}>>, GET \cup PUT \cup DELETE \cup POST,
                                 "AuthVerifyTenantJWT", "NamespaceLimitEnforce")
<1>1. Len(NamespaceRoutes) = 9
  BY DEF NamespaceRoutes
<1>2. \A i \in 1..6 : Len(NamespaceRoutes[i].pattern) = 4
  BY DEF NamespaceRoutes, Prefix
<1>3. \A i \in 1..6 : ~NamespaceRoutes[i].exact
  BY DEF NamespaceRoutes, Prefix
<1>4. \A i \in 1..9 : i # 7 => NamespaceRoutes[i].handler = "Direct"
  BY DEF NamespaceRoutes, Prefix
<1>5. NamespaceRoutes[7] = Prefix(<<{"namespaces"}, {}, {}>>, GET \cup PUT \cup DELETE \cup POST,
                                  "AuthVerifyTenantJWT", "NamespaceLimitEnforce")
  BY DEF NamespaceRoutes
<1> QED
  BY <1>1, <1>2, <1>3, <1>4, <1>5

LEMMA OtherTables ==
  /\ Len(TopicRoutes) = 6 /\ \A i \in 1..6 : TopicRoutes[i].handler # "NamespaceLimitEnforce"
  /\ Len(FunctionRoutes) = 4 /\ \A i \in 1..4 : FunctionRoutes[i].handler # "NamespaceLimitEnforce"
<1>1. Len(TopicRoutes) = 6 /\ Len(FunctionRoutes) = 4
  BY DEF TopicRoutes, FunctionRoutes
<1>2. \A i \in 1..6 : TopicRoutes[i].handler # "NamespaceLimitEnforce"
  BY DEF TopicRoutes, Prefix
<1>3. \A i \in 1..4 : FunctionRoutes[i].handler # "NamespaceLimitEnforce"
  BY DEF FunctionRoutes, Prefix
<1> QED
  BY <1>1, <1>2, <1>3

\* s is a sequence of n elements of S.
Has(S, s, n) == s \in Seq(S) /\ Len(s) = n

\* c is a sequence of m elements of S that begins with s and goes on with the n
\* elements of t.
Joins(S, c, s, m, t, n) ==
  /\ Has(S, c, m + n)
  /\ \A i \in 1..m : c[i] = s[i]
  /\ \A i \in 1..n : c[m + i] = t[i]

LEMMA ConcatJoins ==
  ASSUME NEW S, NEW s, NEW t, NEW m \in Nat, NEW n \in Nat, Has(S, s, m), Has(S, t, n)
  PROVE  Joins(S, s \o t, s, m, t, n)
<1>1. s \in Seq(S) /\ t \in Seq(S) /\ Len(s) = m /\ Len(t) = n
  BY DEF Has
<1>2. s \o t \in Seq(S) /\ Len(s \o t) = m + n
  BY <1>1, ConcatProperties
<1>3. ASSUME NEW i \in 1..m PROVE (s \o t)[i] = s[i]
  BY <1>1, ConcatProperties
<1>4. ASSUME NEW i \in 1..n PROVE (s \o t)[m + i] = t[i]
  BY <1>1, ConcatProperties
<1> QED
  BY <1>2, <1>3, <1>4 DEF Joins, Has

Elements(s) == {s[i] : i \in DOMAIN s}

\* A tuple is a sequence of its elements.
LEMMA TupleOf3 ==
  \A a1, a2, a3 :
    <<a1, a2, a3>> \in Seq(Elements(<<a1, a2, a3>>))
BY DEF Elements

LEMMA TupleOf4 ==
  \A a1, a2, a3, a4 :
    <<a1, a2, a3, a4>> \in Seq(Elements(<<a1, a2, a3, a4>>))
BY DEF Elements

LEMMA TupleOf6 ==
  \A a1, a2, a3, a4, a5, a6 :
    <<a1, a2, a3, a4, a5, a6>> \in Seq(Elements(<<a1, a2, a3, a4, a5, a6>>))
BY DEF Elements

LEMMA TupleOf9 ==
  \A a1, a2, a3, a4, a5, a6, a7, a8, a9 :
    <<a1, a2, a3, a4, a5, a6, a7, a8, a9>> \in Seq(Elements(<<a1, a2, a3, a4, a5, a6, a7, a8, a9>>))
BY DEF Elements

LEMMA TupleOf12 ==
  \A a1, a2, a3, a4, a5, a6, a7, a8, a9, a10, a11, a12 :
    <<a1, a2, a3, a4, a5, a6, a7, a8, a9, a10, a11, a12>> \in Seq(Elements(<<a1, a2, a3, a4, a5, a6, a7, a8, a9, a10, a11, a12>>))
BY DEF Elements

LEMMA TablesAreSeqs ==
  /\ OwnRoutes \in Seq(Elements(OwnRoutes)) /\ ClusterRoutes \in Seq(Elements(ClusterRoutes))
  /\ RestrictedPolicyRoutes \in Seq(Elements(RestrictedPolicyRoutes))
  /\ BundleRoutes \in Seq(Elements(BundleRoutes))
  /\ NamespaceRoutes \in Seq(Elements(NamespaceRoutes))
  /\ TopicRoutes \in Seq(Elements(TopicRoutes)) /\ FunctionRoutes \in Seq(Elements(FunctionRoutes))
<1>1. OwnRoutes \in Seq(Elements(OwnRoutes))
  BY TupleOf12 DEF OwnRoutes
<1>2. ClusterRoutes \in Seq(Elements(ClusterRoutes))
  BY TupleOf3 DEF ClusterRoutes
<1>3. RestrictedPolicyRoutes \in Seq(Elements(RestrictedPolicyRoutes))
  BY TupleOf9 DEF RestrictedPolicyRoutes
<1>4. BundleRoutes \in Seq(Elements(BundleRoutes))
  BY TupleOf3 DEF BundleRoutes
<1>5. NamespaceRoutes \in Seq(Elements(NamespaceRoutes))
  BY TupleOf9 DEF NamespaceRoutes
<1>6. TopicRoutes \in Seq(Elements(TopicRoutes))
  BY TupleOf6 DEF TopicRoutes
<1>7. FunctionRoutes \in Seq(Elements(FunctionRoutes))
  BY TupleOf4 DEF FunctionRoutes
<1> QED
  BY <1>1, <1>2, <1>3, <1>4, <1>5, <1>6, <1>7

\* The table as one sequence: 27 routes before the namespaces' own.
LEMMA TableIndices ==
  /\ Len(Routes) = 46
  /\ \A i \in 1..12 : Routes[i] = OwnRoutes[i]
  /\ \A i \in 1..3 : Routes[12 + i] = ClusterRoutes[i]
  /\ \A i \in 1..9 : Routes[15 + i] = RestrictedPolicyRoutes[i]
  /\ \A i \in 1..3 : Routes[24 + i] = BundleRoutes[i]
  /\ \A i \in 1..9 : Routes[27 + i] = NamespaceRoutes[i]
  /\ \A i \in 1..6 : Routes[36 + i] = TopicRoutes[i]
  /\ \A i \in 1..4 : Routes[42 + i] = FunctionRoutes[i]
<1> DEFINE S == UNION {Elements(OwnRoutes), Elements(ClusterRoutes),
                       Elements(RestrictedPolicyRoutes), Elements(BundleRoutes),
                       Elements(NamespaceRoutes), Elements(TopicRoutes), Elements(FunctionRoutes)}
           A == OwnRoutes \o ClusterRoutes
           B == A \o RestrictedPolicyRoutes
           C == B \o BundleRoutes
           D == C \o NamespaceRoutes
           E == D \o TopicRoutes
<1>1. /\ OwnRoutes \in Seq(S) /\ ClusterRoutes \in Seq(S) /\ RestrictedPolicyRoutes \in Seq(S)
      /\ BundleRoutes \in Seq(S) /\ NamespaceRoutes \in Seq(S)
      /\ TopicRoutes \in Seq(S) /\ FunctionRoutes \in Seq(S)
  <2>1. /\ Elements(OwnRoutes) \subseteq S /\ Elements(ClusterRoutes) \subseteq S
        /\ Elements(RestrictedPolicyRoutes) \subseteq S /\ Elements(BundleRoutes) \subseteq S
        /\ Elements(NamespaceRoutes) \subseteq S /\ Elements(TopicRoutes) \subseteq S
        /\ Elements(FunctionRoutes) \subseteq S
    OBVIOUS
  <2> HIDE DEF S
  <2> QED
    BY <2>1, TablesAreSeqs, SeqMonotonic
<1> HIDE DEF S
<1>2. /\ Has(S, A, 15)
      /\ \A i \in 1..12 : A[i] = OwnRoutes[i]
      /\ \A i \in 1..3 : A[12 + i] = ClusterRoutes[i]
  <2>1. Has(S, OwnRoutes, 12) /\ Has(S, ClusterRoutes, 3)
    BY <1>1, OwnTable, ClusterTable DEF Has
  <2>2. Joins(S, OwnRoutes \o ClusterRoutes, OwnRoutes, 12, ClusterRoutes, 3)
    BY <2>1, ConcatJoins
  <2>3. A = OwnRoutes \o ClusterRoutes
    BY DEF A
  <2>4. Joins(S, A, OwnRoutes, 12, ClusterRoutes, 3) /\ 12 + 3 = 15
    BY <2>2, <2>3
  <2> HIDE DEF A
  <2> QED
    BY <2>4 DEF Joins
<1> HIDE DEF A
<1>3. /\ Has(S, B, 24)
      /\ \A i \in 1..15 : B[i] = A[i]
      /\ \A i \in 1..9 : B[15 + i] = RestrictedPolicyRoutes[i]
  <2>1. Has(S, A, 15) /\ Has(S, RestrictedPolicyRoutes, 9)
    BY <1>1, <1>2, RestrictedPolicyTable DEF Has
  <2>2. Joins(S, A \o RestrictedPolicyRoutes, A, 15, RestrictedPolicyRoutes, 9)
    BY <2>1, ConcatJoins
  <2>3. B = A \o RestrictedPolicyRoutes
    BY DEF B
  <2>4. Joins(S, B, A, 15, RestrictedPolicyRoutes, 9) /\ 15 + 9 = 24
    BY <2>2, <2>3
  <2> HIDE DEF B
  <2> QED
    BY <2>4 DEF Joins
<1> HIDE DEF B
<1>4. /\ Has(S, C, 27)
      /\ \A i \in 1..24 : C[i] = B[i]
      /\ \A i \in 1..3 : C[24 + i] = BundleRoutes[i]
  <2>1. Has(S, B, 24) /\ Has(S, BundleRoutes, 3)
    BY <1>1, <1>3, BundleTable DEF Has
  <2>2. Joins(S, B \o BundleRoutes, B, 24, BundleRoutes, 3)
    BY <2>1, ConcatJoins
  <2>3. C = B \o BundleRoutes
    BY DEF C
  <2>4. Joins(S, C, B, 24, BundleRoutes, 3) /\ 24 + 3 = 27
    BY <2>2, <2>3
  <2> HIDE DEF C
  <2> QED
    BY <2>4 DEF Joins
<1> HIDE DEF C
<1>5. /\ Has(S, D, 36)
      /\ \A i \in 1..27 : D[i] = C[i]
      /\ \A i \in 1..9 : D[27 + i] = NamespaceRoutes[i]
  <2>1. Has(S, C, 27) /\ Has(S, NamespaceRoutes, 9)
    BY <1>1, <1>4, NamespaceTable DEF Has
  <2>2. Joins(S, C \o NamespaceRoutes, C, 27, NamespaceRoutes, 9)
    BY <2>1, ConcatJoins
  <2>3. D = C \o NamespaceRoutes
    BY DEF D
  <2>4. Joins(S, D, C, 27, NamespaceRoutes, 9) /\ 27 + 9 = 36
    BY <2>2, <2>3
  <2> HIDE DEF D
  <2> QED
    BY <2>4 DEF Joins
<1> HIDE DEF D
<1>6. /\ Has(S, E, 42)
      /\ \A i \in 1..36 : E[i] = D[i]
      /\ \A i \in 1..6 : E[36 + i] = TopicRoutes[i]
  <2>1. Has(S, D, 36) /\ Has(S, TopicRoutes, 6)
    BY <1>1, <1>5, OtherTables DEF Has
  <2>2. Joins(S, D \o TopicRoutes, D, 36, TopicRoutes, 6)
    BY <2>1, ConcatJoins
  <2>3. E = D \o TopicRoutes
    BY DEF E
  <2>4. Joins(S, E, D, 36, TopicRoutes, 6) /\ 36 + 6 = 42
    BY <2>2, <2>3
  <2> HIDE DEF E
  <2> QED
    BY <2>4 DEF Joins
<1> HIDE DEF E
<1>7. /\ Has(S, Routes, 46)
      /\ \A i \in 1..42 : Routes[i] = E[i]
      /\ \A i \in 1..4 : Routes[42 + i] = FunctionRoutes[i]
  <2>1. Has(S, E, 42) /\ Has(S, FunctionRoutes, 4)
    BY <1>1, <1>6, OtherTables DEF Has
  <2>2. Joins(S, E \o FunctionRoutes, E, 42, FunctionRoutes, 4)
    BY <2>1, ConcatJoins
  <2>3. Routes = E \o FunctionRoutes
    BY DEF Routes, A, B, C, D, E
  <2>4. Joins(S, Routes, E, 42, FunctionRoutes, 4) /\ 42 + 4 = 46
    BY <2>2, <2>3
  <2> QED
    BY <2>4 DEF Joins
<1>8. \A i \in 1..12 : Routes[i] = OwnRoutes[i]
  BY <1>2, <1>3, <1>4, <1>5, <1>6, <1>7
<1>9. \A i \in 1..3 : Routes[12 + i] = ClusterRoutes[i]
  <2>1. \A i \in 1..3 : /\ 12 + i \in 1..15 /\ 12 + i \in 1..24 /\ 12 + i \in 1..27
                        /\ 12 + i \in 1..36 /\ 12 + i \in 1..42
    OBVIOUS
  <2> QED
    BY <2>1, <1>2, <1>3, <1>4, <1>5, <1>6, <1>7
<1>10. \A i \in 1..9 : Routes[15 + i] = RestrictedPolicyRoutes[i]
  <2>1. \A i \in 1..9 : /\ 15 + i \in 1..24 /\ 15 + i \in 1..27
                        /\ 15 + i \in 1..36 /\ 15 + i \in 1..42
    OBVIOUS
  <2> QED
    BY <2>1, <1>3, <1>4, <1>5, <1>6, <1>7
<1>11. \A i \in 1..3 : Routes[24 + i] = BundleRoutes[i]
  <2>1. \A i \in 1..3 : 24 + i \in 1..27 /\ 24 + i \in 1..36 /\ 24 + i \in 1..42
    OBVIOUS
  <2> QED
    BY <2>1, <1>4, <1>5, <1>6, <1>7
<1>12. \A i \in 1..9 : Routes[27 + i] = NamespaceRoutes[i]
  <2>1. \A i \in 1..9 : 27 + i \in 1..36 /\ 27 + i \in 1..42
    OBVIOUS
  <2> QED
    BY <2>1, <1>5, <1>6, <1>7
<1>13. \A i \in 1..6 : Routes[36 + i] = TopicRoutes[i]
  <2>1. \A i \in 1..6 : 36 + i \in 1..42
    OBVIOUS
  <2> QED
    BY <2>1, <1>6, <1>7
<1> QED
  BY <1>7, <1>8, <1>9, <1>10, <1>11, <1>12, <1>13 DEF Has

\* No route before the namespaces' own takes the creation of a namespace.
LEMMA NoneBefore ==
  ASSUME NEW path, Len(path) = 3, path[1] = "namespaces", NEW j \in 1..33
  PROVE  ~Matches(Routes[j], "PUT", path)
<1>1. CASE j \in 1..12
  BY <1>1, TableIndices, OwnTable DEF Matches
<1>2. CASE j \in 13..15
  <2>1. PICK i \in 1..3 : j = 12 + i
    <3>1. j - 12 \in 1..3 /\ j = 12 + (j - 12)
      BY <1>2
    <3> QED
      BY <3>1
  <2>2. /\ Routes[j] = ClusterRoutes[i] /\ Len(Routes[j].pattern) = 1
        /\ Routes[j].pattern[1] # {} /\ "namespaces" \notin Routes[j].pattern[1]
    BY <2>1, TableIndices, ClusterTable
  <2>3. 1 \in 1..Len(Routes[j].pattern)
    BY <2>2
  <2> QED
    BY <2>2, <2>3 DEF Matches
<1>3. CASE j \in 16..24
  <2>1. PICK i \in 1..9 : j = 15 + i
    <3>1. j - 15 \in 1..9 /\ j = 15 + (j - 15)
      BY <1>3
    <3> QED
      BY <3>1
  <2>2. Len(Routes[j].pattern) \in {4, 5} /\ ~Routes[j].exact
    BY <2>1, TableIndices, RestrictedPolicyTable
  <2>3. ~(Len(path) >= Len(Routes[j].pattern))
    BY <2>2
  <2> QED
    BY <2>2, <2>3 DEF Matches
<1>4. CASE j \in 25..27
  <2>1. PICK i \in 1..3 : j = 24 + i
    <3>1. j - 24 \in 1..3 /\ j = 24 + (j - 24)
      BY <1>4
    <3> QED
      BY <3>1
  <2>2. Len(Routes[j].pattern) \in {4, 5, 6} /\ ~Routes[j].exact
    BY <2>1, TableIndices, BundleTable
  <2>3. \A n \in {4, 5, 6} : ~(3 >= n)
    OBVIOUS
  <2> QED
    BY <2>2, <2>3 DEF Matches
<1>5. CASE j \in 28..33
  <2>1. PICK i \in 1..6 : j = 27 + i
    <3>1. j - 27 \in 1..6 /\ j = 27 + (j - 27)
      BY <1>5
    <3> QED
      BY <3>1
  <2>2. Routes[j] = NamespaceRoutes[i]
    BY <2>1, TableIndices
  <2>3. Len(Routes[j].pattern) = 4 /\ ~Routes[j].exact
    BY <2>2, NamespaceTable
  <2> QED
    BY <2>3 DEF Matches
<1> QED
  BY <1>1, <1>2, <1>3, <1>4, <1>5

LimitRoute ==
  Prefix(<<{"namespaces"}, {}, {}>>, GET \cup PUT \cup DELETE \cup POST,
         "AuthVerifyTenantJWT", "NamespaceLimitEnforce")

LEMMA LimitRouteFields ==
  /\ LimitRoute.handler = "NamespaceLimitEnforce" /\ LimitRoute.auth = "AuthVerifyTenantJWT"
  /\ "PUT" \in LimitRoute.methods /\ ~LimitRoute.exact
  /\ Len(LimitRoute.pattern) = 3
  /\ LimitRoute.pattern[1] = {"namespaces"}
  /\ LimitRoute.pattern[2] = {} /\ LimitRoute.pattern[3] = {}
BY DEF LimitRoute, Prefix, PUT

LEMMA LimitRouteIndex == 34 \in 1..Len(Routes) /\ Routes[34] = LimitRoute
<1>1. 7 \in 1..9 /\ 27 + 7 = 34
  OBVIOUS
<1> QED
  BY <1>1, TableIndices, NamespaceTable DEF LimitRoute

\* The creation of a namespace is held to the limit, whatever the namespace.
LEMMA CreationRoute ==
  ASSUME NEW path, Len(path) = 3, path[1] = "namespaces"
  PROVE  HasRoute("PUT", path) /\ RouteOf("PUT", path) = LimitRoute
<1> DEFINE First(i) == /\ Matches(Routes[i], "PUT", path)
                       /\ \A j \in 1..(i - 1) : ~Matches(Routes[j], "PUT", path)
<1>1. Matches(Routes[34], "PUT", path)
  <2>1. \A i \in 1..3 : LimitRoute.pattern[i] = {} \/ path[i] \in LimitRoute.pattern[i]
    BY LimitRouteFields
  <2>2. Len(path) >= Len(LimitRoute.pattern)
    BY LimitRouteFields
  <2>3. \A i \in 1..Len(LimitRoute.pattern) :
          LimitRoute.pattern[i] = {} \/ path[i] \in LimitRoute.pattern[i]
    BY <2>1, LimitRouteFields
  <2>4. Matches(LimitRoute, "PUT", path)
    BY <2>2, <2>3, LimitRouteFields DEF Matches
  <2> QED
    BY <2>4, LimitRouteIndex
<1>2. 34 - 1 = 33
  OBVIOUS
<1>3. First(34)
  BY <1>1, <1>2, NoneBefore
<1>4. \A i \in 1..Len(Routes) : First(i) => i = 34
  <2>1. SUFFICES ASSUME NEW i \in 1..Len(Routes), First(i), i # 34 PROVE FALSE
    OBVIOUS
  <2>2. CASE i < 34
    <3>1. i \in 1..33
      BY <2>2
    <3> QED
      BY <2>1, <3>1, NoneBefore
  <2>3. CASE i > 34
    <3>1. 34 \in 1..(i - 1)
      BY <2>3, TableIndices
    <3> QED
      BY <1>1, <2>1, <3>1
  <2> QED
    BY <2>1, <2>2, <2>3, TableIndices
<1>5. RouteOf("PUT", path) = Routes[CHOOSE i \in 1..Len(Routes) : First(i)]
  BY DEF RouteOf
<1> HIDE DEF First
<1>6. (CHOOSE i \in 1..Len(Routes) : First(i)) = 34
  BY <1>3, <1>4, LimitRouteIndex
<1> QED
  BY <1>1, <1>5, <1>6, LimitRouteIndex DEF HasRoute

LEMMA OnlyLimitRoute ==
  ASSUME NEW k \in 1..46, Routes[k].handler = "NamespaceLimitEnforce"
  PROVE  k = 34
<1>1. CASE k \in 1..12
  BY <1>1, TableIndices, OwnTable
<1>2. CASE k \in 13..15
  <2>1. PICK i \in 1..3 : k = 12 + i
    <3>1. k - 12 \in 1..3 /\ k = 12 + (k - 12)
      BY <1>2
    <3> QED
      BY <3>1
  <2> QED
    BY <2>1, TableIndices, ClusterTable
<1>3. CASE k \in 16..24
  <2>1. PICK i \in 1..9 : k = 15 + i
    <3>1. k - 15 \in 1..9 /\ k = 15 + (k - 15)
      BY <1>3
    <3> QED
      BY <3>1
  <2> QED
    BY <2>1, TableIndices, RestrictedPolicyTable
<1>4. CASE k \in 25..27
  <2>1. PICK i \in 1..3 : k = 24 + i
    <3>1. k - 24 \in 1..3 /\ k = 24 + (k - 24)
      BY <1>4
    <3> QED
      BY <3>1
  <2> QED
    BY <2>1, TableIndices, BundleTable
<1>5. CASE k \in 28..36
  <2>1. PICK i \in 1..9 : k = 27 + i
    <3>1. k - 27 \in 1..9 /\ k = 27 + (k - 27)
      BY <1>5
    <3> QED
      BY <3>1
  <2>2. Routes[k] = NamespaceRoutes[i]
    BY <2>1, TableIndices
  <2>3. i = 7
    BY <2>2, NamespaceTable
  <2> QED
    BY <2>1, <2>3
<1>6. CASE k \in 37..42
  <2>1. PICK i \in 1..6 : k = 36 + i
    <3>1. k - 36 \in 1..6 /\ k = 36 + (k - 36)
      BY <1>6
    <3> QED
      BY <3>1
  <2> QED
    BY <2>1, TableIndices, OtherTables
<1>7. CASE k \in 43..46
  <2>1. PICK i \in 1..4 : k = 42 + i
    <3>1. k - 42 \in 1..4 /\ k = 42 + (k - 42)
      BY <1>7
    <3> QED
      BY <3>1
  <2> QED
    BY <2>1, TableIndices, OtherTables
<1> QED
  BY <1>1, <1>2, <1>3, <1>4, <1>5, <1>6, <1>7

LEMMA LeastNat ==
  ASSUME NEW S \in SUBSET Nat, S # {}
  PROVE  \E x \in S : \A y \in S : x <= y
<1>1. \E x \in S : \A y \in S : ~(<<y, x>> \in OpToRel(<, Nat))
  BY NatLessThanWellFounded, WFMin
<1>2. PICK x \in S : \A y \in S : ~(<<y, x>> \in OpToRel(<, Nat))
  BY <1>1
<1>3. ASSUME NEW y \in S PROVE x <= y
  <2>1. y \in Nat /\ x \in Nat
    OBVIOUS
  <2>2. ~(<<y, x>> \in OpToRel(<, Nat))
    BY <1>2
  <2> QED
    BY <2>1, <2>2 DEF OpToRel
<1> QED
  BY <1>3

\* There is a first route that matches if there is one at all.
LEMMA RouteOfMatches ==
  ASSUME NEW method, NEW path, HasRoute(method, path)
  PROVE  \E k \in 1..46 : /\ RouteOf(method, path) = Routes[k] /\ Matches(Routes[k], method, path)
                          /\ \A j \in 1..(k - 1) : ~Matches(Routes[j], method, path)
<1> DEFINE M == {i \in 1..46 : Matches(Routes[i], method, path)}
           First(i) == /\ Matches(Routes[i], method, path)
                       /\ \A j \in 1..(i - 1) : ~Matches(Routes[j], method, path)
<1>1. Len(Routes) = 46
  BY TableIndices
<1>2. M \in SUBSET Nat /\ M # {}
  BY <1>1 DEF HasRoute
<1>3. PICK i \in M : \A j \in M : i <= j
  BY <1>2, LeastNat
<1>4. First(i)
  <2>1. SUFFICES ASSUME NEW j \in 1..(i - 1), Matches(Routes[j], method, path) PROVE FALSE
    OBVIOUS
  <2>2. j \in M /\ ~(i <= j)
    BY <2>1
  <2> QED
    BY <1>3, <2>2
<1>5. RouteOf(method, path) = Routes[CHOOSE k \in 1..46 : First(k)]
  BY <1>1 DEF RouteOf
<1>6. i \in 1..46
  OBVIOUS
<1> DEFINE k == CHOOSE k \in 1..46 : First(k)
<1>7. k \in 1..46 /\ First(k)
  <2> HIDE DEF First
  <2> QED
    BY <1>4, <1>6
<1> QED
  BY <1>5, <1>7

LEMMA LimitedPaths ==
  ASSUME NEW method, NEW path, HasRoute(method, path),
         RouteOf(method, path).handler = "NamespaceLimitEnforce"
  PROVE  Len(path) >= 3 /\ path[1] = "namespaces"
<1>1. PICK k \in 1..46 : RouteOf(method, path) = Routes[k] /\ Matches(Routes[k], method, path)
  BY RouteOfMatches
<1>2. k = 34
  BY <1>1, OnlyLimitRoute
<1>3. Matches(LimitRoute, method, path)
  BY <1>1, <1>2, LimitRouteIndex
<1>4. 1 \in 1..Len(LimitRoute.pattern)
  BY LimitRouteFields
<1>5. Len(path) >= 3
  BY <1>3, LimitRouteFields DEF Matches
<1>6. path[1] \in {"namespaces"}
  BY <1>3, <1>4, LimitRouteFields DEF Matches
<1> QED
  BY <1>5, <1>6

-----------------------------------------------------------------------------
(* The best plan *)

HasGreatest(S) == \E x \in S : \A y \in S : y <= x

LEMMA FiniteHasGreatest ==
  ASSUME NEW S \in SUBSET Int, IsFiniteSet(S), S # {}
  PROVE  HasGreatest(S)
<1> DEFINE Bad(X) == IsFiniteSet(X) /\ X # {} /\ ~HasGreatest(X)
           N == {n \in Nat : \E X \in SUBSET Int : Bad(X) /\ Cardinality(X) = n}
<1>1. SUFFICES ASSUME Bad(S) PROVE FALSE
  OBVIOUS
<1>2. Cardinality(S) \in N
  BY <1>1, FS_CardinalityType
<1>3. PICK n \in N : \A m \in N : n <= m
  <2>1. N \in SUBSET Nat /\ N # {}
    BY <1>2
  <2> HIDE DEF N
  <2> QED
    BY <2>1, LeastNat
<1>4. PICK X \in SUBSET Int : Bad(X) /\ Cardinality(X) = n
  OBVIOUS
<1>5. PICK x \in X : TRUE
  BY <1>4
<1>6. IsFiniteSet(X \ {x}) /\ Cardinality(X \ {x}) = n - 1
  BY <1>4, <1>5, FS_RemoveElement
<1>7. X \ {x} # {}
  <2>1. SUFFICES ASSUME X = {x} PROVE FALSE
    OBVIOUS
  <2>2. HasGreatest(X)
    BY <1>5, <2>1 DEF HasGreatest
  <2> QED
    BY <1>4, <2>2
<1>8. HasGreatest(X \ {x})
  <2>1. SUFFICES ASSUME ~HasGreatest(X \ {x}) PROVE FALSE
    OBVIOUS
  <2>2. n - 1 \in Nat
    BY <1>6, FS_CardinalityType
  <2>3. n - 1 \in N
    BY <1>6, <1>7, <2>1, <2>2
  <2>4. n <= n - 1 /\ n \in Nat
    BY <1>3, <2>3
  <2> QED
    BY <2>4
<1>9. PICK g \in X \ {x} : \A y \in X \ {x} : y <= g
  BY <1>8 DEF HasGreatest
<1>10. x \in Int /\ g \in Int
  OBVIOUS
<1>11. HasGreatest(X)
  <2>1. CASE x <= g
    BY <1>9, <2>1 DEF HasGreatest
  <2>2. CASE g <= x
    <3>1. ASSUME NEW y \in X PROVE y <= x
      <4>1. CASE y = x
        BY <1>10, <4>1
      <4>2. CASE y # x
        <5>1. y <= g /\ y \in Int
          BY <1>9, <4>2
        <5> QED
          BY <1>10, <2>2, <5>1
      <4> QED
        BY <4>1, <4>2
    <3> QED
      BY <1>5, <3>1 DEF HasGreatest
  <2> QED
    BY <1>10, <2>1, <2>2
<1> QED
  BY <1>4, <1>11

LEMMA TopLimitProperties ==
  /\ TopLimit \in Int /\ TopLimit >= 0
  /\ \A l \in Limits : l \in Int /\ l <= TopLimit
<1> DEFINE S == Limits \cup {0}
<1>1. NumOfNamespaces \in Surjection(Plans, Limits)
  BY AdminAssumption DEF Limits, Surjection
<1>2. IsFiniteSet(Limits)
  BY <1>1, AdminAssumption, FS_Surjection
<1>3. IsFiniteSet(S) /\ S # {}
  BY <1>2, FS_AddElement
<1>4. \A l \in Limits : l \in Int
  BY AdminAssumption DEF Limits
<1>5. S \in SUBSET Int
  BY <1>4
<1>6. HasGreatest(S)
  <2> HIDE DEF S
  <2> QED
    BY <1>3, <1>5, FiniteHasGreatest
<1>7. TopLimit = CHOOSE l \in S : \A m \in S : m <= l
  BY DEF TopLimit
<1>8. TopLimit \in S /\ \A m \in S : m <= TopLimit
  <2> HIDE DEF S
  <2> QED
    BY <1>6, <1>7 DEF HasGreatest
<1>9. 0 <= TopLimit
  BY <1>8
<1> QED
  BY <1>4, <1>5, <1>8, <1>9

-----------------------------------------------------------------------------
(* What the handlers do to a request *)

Stages == {"planning", "evaluating", "granted", "answered"}
Statuses == {0, 200, 401, 402, 404, 500}

\* The request r of sub gets from h to one of its stages.
Outcome(h, r, sub) ==
  \E stage \in Stages, limit \in Limits \cup {0}, status \in Statuses :
    /\ req' = [req EXCEPT ![h] = Request(stage, r, sub, limit, status)]
    /\ stage = "evaluating" => limit \in Limits

LEMMA SomeOutcome ==
  ASSUME NEW h, NEW r, NEW sub,
         NEW stage \in Stages, NEW limit \in Limits \cup {0}, NEW status \in Statuses,
         req' = [req EXCEPT ![h] = Request(stage, r, sub, limit, status)],
         stage = "evaluating" => limit \in Limits
  PROVE  Outcome(h, r, sub)
<1> DEFINE Becomes(s, l, u) == req' = [req EXCEPT ![h] = Request(s, r, sub, l, u)]
<1>1. Becomes(stage, limit, status)
  OBVIOUS
<1>2. \/ Outcome(h, r, sub)
      \/ ~\E s \in Stages, l \in Limits \cup {0}, u \in Statuses :
            Becomes(s, l, u) /\ (s = "evaluating" => l \in Limits)
  BY DEF Outcome
<1> HIDE DEF Becomes
<1> QED
  BY <1>1, <1>2

LEMMA GrantOutcome == \A h, r, sub : Grant(h, r, sub) => Outcome(h, r, sub)
<1>1. "granted" \in Stages /\ 0 \in Limits \cup {0} /\ 0 \in Statuses
  BY DEF Stages, Statuses
<1> QED
  BY <1>1, SomeOutcome DEF Grant

LEMMA AnswerOutcome ==
  \A h, r, sub : \A status \in Statuses : Answer(h, r, sub, status) => Outcome(h, r, sub)
BY DEF Answer, Outcome, Stages

LEMMA EnforceOutcome ==
  ASSUME TypeOK, NEW h, NEW r, NEW sub, NEW subs, r[2][2] \in Tenants,
         NamespaceLimitEnforce(h, r, sub, subs)
  PROVE  Outcome(h, r, sub)
<1>1. CASE Grant(h, r, sub)
  BY <1>1, GrantOutcome
<1>2. CASE Answer(h, r, sub, 401)
  BY <1>2, AnswerOutcome DEF Statuses
<1>3. CASE req' = [req EXCEPT ![h] = Request("planning", r, sub, 0, 0)]
  <2>1. "planning" \in Stages /\ 0 \in Limits \cup {0} /\ 0 \in Statuses
    BY DEF Stages, Statuses
  <2> QED
    BY <1>3, <2>1, SomeOutcome
<1>4. CASE /\ plan[r[2][2]] # NoPlan
           /\ req' = [req EXCEPT ![h] =
                        Request("evaluating", r, sub, NumOfNamespaces[plan[r[2][2]]], 0)]
  <2>1. plan[r[2][2]] \in Plans
    BY <1>4 DEF TypeOK
  <2>2. NumOfNamespaces[plan[r[2][2]]] \in Limits
    BY <2>1 DEF Limits
  <2>3. "evaluating" \in Stages /\ 0 \in Statuses
    BY DEF Stages, Statuses
  <2> QED
    BY <1>4, <2>2, <2>3, SomeOutcome
<1> QED
  BY <1>1, <1>2, <1>3, <1>4 DEF NamespaceLimitEnforce

LEMMA OtherOutcomes ==
  ASSUME NEW h, NEW r, NEW sub, NEW subs,
         \/ TopicProxy(h, r, sub, subs) \/ NamespacePolicyProxy(h, r, sub)
         \/ RestrictedTenants(h, r, sub, subs) \/ DirectFunctionProxy(h, r, sub, subs)
  PROVE  Outcome(h, r, sub)
<1>1. \/ Grant(h, r, sub) \/ Answer(h, r, sub, 401)
      \/ \E status \in {200, 402, 404, 500} : Answer(h, r, sub, status)
  <2>1. TopicProxy(h, r, sub, subs) => Grant(h, r, sub) \/ Answer(h, r, sub, 401)
    BY DEF TopicProxy
  <2>2. NamespacePolicyProxy(h, r, sub) => Grant(h, r, sub) \/ Answer(h, r, sub, 200)
    BY DEF NamespacePolicyProxy
  <2>3. RestrictedTenants(h, r, sub, subs) =>
          \/ Answer(h, r, sub, 401) \/ \E status \in {200, 404, 500} : Answer(h, r, sub, status)
    BY DEF RestrictedTenants
  <2>4. DirectFunctionProxy(h, r, sub, subs) =>
          Grant(h, r, sub) \/ Answer(h, r, sub, 401) \/ Answer(h, r, sub, 402)
    BY DEF DirectFunctionProxy
  <2> QED
    BY <2>1, <2>2, <2>3, <2>4
<1> QED
  BY <1>1, GrantOutcome, AnswerOutcome DEF Statuses

\* What the route of a request makes of it.
Handled(h, r, sub, header) ==
  LET route == RouteOf(r[1], r[2])
      subs  == InjectedSubs(route, sub, header)
  IN  IF route.handler = "NamespaceLimitEnforce" THEN NamespaceLimitEnforce(h, r, sub, subs)
      ELSE \/ TopicProxy(h, r, sub, subs) \/ NamespacePolicyProxy(h, r, sub)
           \/ RestrictedTenants(h, r, sub, subs) \/ DirectFunctionProxy(h, r, sub, subs)
           \/ Grant(h, r, sub)

LEMMA ArriveCases ==
  ASSUME NEW h, NEW r \in Requests, NEW sub, NEW header, Arrive(h, r, sub, header)
  PROVE  \/ Answer(h, r, sub, 404) /\ ~HasRoute(r[1], r[2])
         \/ Answer(h, r, sub, 401)
         \/ /\ Handled(h, r, sub, header) /\ HasRoute(r[1], r[2])
            /\ Authenticated(RouteOf(r[1], r[2]), r[2], sub)
<1>1. CASE r \notin DOMAIN RouteTable
  <2>1. ~HasRoute(r[1], r[2])
    BY <1>1 DEF RouteTable
  <2> QED
    BY <1>1, <2>1 DEF Arrive
<1>2. CASE r \in DOMAIN RouteTable
  <2>1. HasRoute(r[1], r[2]) /\ RouteTable[r] = RouteOf(r[1], r[2])
    BY <1>2 DEF RouteTable
  <2> HIDE DEF RouteTable
  <2> QED
    BY <1>2, <2>1 DEF Arrive, Handled
<1> QED
  BY <1>1, <1>2

LEMMA ArriveOutcome ==
  ASSUME TypeOK, NEW h, NEW r \in Requests, NEW sub, NEW header, Arrive(h, r, sub, header)
  PROVE  Outcome(h, r, sub)
<1>1. CASE Answer(h, r, sub, 404) \/ Answer(h, r, sub, 401)
  BY <1>1, AnswerOutcome DEF Statuses
<1>2. CASE Handled(h, r, sub, header) /\ HasRoute(r[1], r[2])
  <2>1. CASE RouteOf(r[1], r[2]).handler = "NamespaceLimitEnforce"
    <3>1. Len(r[2]) >= 3 /\ r[2][1] = "namespaces"
      BY <1>2, <2>1, LimitedPaths
    <3>2. r[2][2] \in Tenants
      BY <3>1, AdminAssumption
    <3>3. PICK subs : NamespaceLimitEnforce(h, r, sub, subs)
      BY <1>2, <2>1 DEF Handled
    <3> QED
      BY <3>2, <3>3, EnforceOutcome
  <2>2. CASE RouteOf(r[1], r[2]).handler # "NamespaceLimitEnforce"
    <3>1. PICK subs : \/ TopicProxy(h, r, sub, subs) \/ NamespacePolicyProxy(h, r, sub)
                      \/ RestrictedTenants(h, r, sub, subs) \/ DirectFunctionProxy(h, r, sub, subs)
                      \/ Grant(h, r, sub)
      BY <1>2, <2>2 DEF Handled
    <3> QED
      BY <3>1, GrantOutcome, OtherOutcomes
  <2> QED
    BY <2>1, <2>2
<1> QED
  BY <1>1, <1>2, ArriveCases

-----------------------------------------------------------------------------
(* Type correctness *)

\* What is known of the requests under way.
RequestsOK ==
  /\ req \in [Handlers -> {Idle} \cup InProgress]
  /\ \A h \in Handlers :
       /\ req[h] # Idle => <<req[h].method, req[h].path>> \in Requests
       /\ req[h].stage = "evaluating" => req[h].limit \in Limits

TypeInv == TypeOK /\ IsFiniteSet(namespaces)

LEMMA TypeOfRequests == TypeOK => RequestsOK
BY DEF TypeOK, RequestsOK

LEMMA BusyRequest ==
  ASSUME TypeOK, NEW h \in Handlers, req[h].stage # "idle"
  PROVE  /\ req[h] \in InProgress /\ <<req[h].method, req[h].path>> \in Requests
         /\ req[h].sub \in Subjects
<1>1. req[h] # Idle
  BY DEF Idle
<1>2. req[h] \in InProgress /\ <<req[h].method, req[h].path>> \in Requests
  BY <1>1 DEF TypeOK
<1> QED
  BY <1>2 DEF InProgress

LEMMA OutcomeType ==
  ASSUME RequestsOK, NEW h \in Handlers, NEW r \in Requests, NEW sub \in Subjects,
         Outcome(h, r, sub)
  PROVE  RequestsOK'
<1>1. PICK stage \in Stages, limit \in Limits \cup {0}, status \in Statuses :
        /\ req' = [req EXCEPT ![h] = Request(stage, r, sub, limit, status)]
        /\ stage = "evaluating" => limit \in Limits
  BY DEF Outcome
<1> DEFINE q == Request(stage, r, sub, limit, status)
<1>2. q \in InProgress
  BY DEF Request, InProgress, Stages, Statuses
<1>3. <<q.method, q.path>> = r
  BY AdminAssumption DEF Request
<1>4. q.stage = "evaluating" => q.limit \in Limits
  BY <1>1 DEF Request
<1>5. req' = [req EXCEPT ![h] = q]
  BY <1>1
<1> HIDE DEF q
<1>6. req' \in [Handlers -> {Idle} \cup InProgress]
  BY <1>2, <1>5 DEF RequestsOK
<1>7. ASSUME NEW g \in Handlers
      PROVE  /\ req'[g] # Idle => <<req'[g].method, req'[g].path>> \in Requests
             /\ req'[g].stage = "evaluating" => req'[g].limit \in Limits
  <2>1. CASE g = h
    <3>1. req'[g] = q
      BY <1>5, <2>1 DEF RequestsOK
    <3> QED
      BY <1>3, <1>4, <3>1
  <2>2. CASE g # h
    <3>1. req'[g] = req[g]
      BY <1>5, <2>2 DEF RequestsOK
    <3> QED
      BY <3>1 DEF RequestsOK
  <2> QED
    BY <2>1, <2>2
<1> QED
  BY <1>6, <1>7 DEF RequestsOK

LEMMA IdleType ==
  ASSUME RequestsOK, NEW h \in Handlers, req' = [req EXCEPT ![h] = Idle]
  PROVE  RequestsOK'
<1>1. req' \in [Handlers -> {Idle} \cup InProgress]
  BY DEF RequestsOK
<1>2. ASSUME NEW g \in Handlers
      PROVE  /\ req'[g] # Idle => <<req'[g].method, req'[g].path>> \in Requests
             /\ req'[g].stage = "evaluating" => req'[g].limit \in Limits
  <2>1. CASE g = h
    BY <2>1 DEF RequestsOK, Idle
  <2>2. CASE g # h
    <3>1. req'[g] = req[g]
      BY <2>2 DEF RequestsOK
    <3> QED
      BY <3>1 DEF RequestsOK
  <2> QED
    BY <2>1, <2>2
<1> QED
  BY <1>1, <1>2 DEF RequestsOK

LEMMA ChangedRecord ==
  ASSUME NEW S, NEW M, NEW P, NEW B, NEW L, NEW T, NEW s \in S, NEW l \in L,
         NEW e \in [stage : S, method : M, path : P, sub : B, limit : L, status : T]
  PROVE  LET q == [e EXCEPT !.stage = s, !.limit = l]
         IN  /\ q \in [stage : S, method : M, path : P, sub : B, limit : L, status : T]
             /\ q.method = e.method /\ q.path = e.path /\ q.limit = l
OBVIOUS

\* A plan is looked up for requests whose tenant is followed, and only for them.
LEMMA CreateFreePlanType ==
  ASSUME TypeInv, NEW h \in Handlers, CreateFreePlan(h)
  PROVE  TypeInv'
<1> USE DEF TypeInv
<1> DEFINE q == [req[h] EXCEPT !.stage = "evaluating", !.limit = NumOfNamespaces[FreeTier]]
<1>1. req[h] \in InProgress /\ <<req[h].method, req[h].path>> \in Requests
  BY BusyRequest DEF CreateFreePlan
<1>2. NumOfNamespaces[FreeTier] \in Limits
  BY AdminAssumption DEF Limits
<1>3. q \in InProgress /\ q.method = req[h].method /\ q.path = req[h].path /\ q.limit \in Limits
  <2> DEFINE M == {r[1] : r \in Requests}
             P == {r[2] : r \in Requests}
             L == Limits \cup {0}
  <2>1. InProgress = [stage : Stages, method : M, path : P, sub : Subjects, limit : L,
                      status : Statuses]
    BY DEF InProgress, Stages, Statuses
  <2>2. "evaluating" \in Stages /\ NumOfNamespaces[FreeTier] \in L
    BY <1>2 DEF Stages
  <2> HIDE DEF M, P, L
  <2> QED
    BY <1>1, <1>2, <2>1, <2>2, ChangedRecord
<1>4. req' = [req EXCEPT ![h] = q]
  BY DEF CreateFreePlan, TypeOK
<1> HIDE DEF q
<1>5. req' \in [Handlers -> {Idle} \cup InProgress]
  BY <1>3, <1>4 DEF TypeOK
<1>6. ASSUME NEW g \in Handlers
      PROVE  /\ req'[g] # Idle => <<req'[g].method, req'[g].path>> \in Requests
             /\ req'[g].stage = "evaluating" => req'[g].limit \in Limits
  <2>1. CASE g = h
    BY <1>1, <1>3, <1>4, <2>1 DEF TypeOK
  <2>2. CASE g # h
    <3>1. req'[g] = req[g]
      BY <1>4, <2>2 DEF TypeOK
    <3> QED
      BY <3>1 DEF TypeOK
  <2> QED
    BY <2>1, <2>2
<1>7. plan' \in [Tenants -> Plans \cup {NoPlan}]
  BY AdminAssumption DEF CreateFreePlan, TypeOK
<1>8. UNCHANGED <<namespaces, bySuper, counted>>
  BY DEF CreateFreePlan
<1> QED
  BY <1>5, <1>6, <1>7, <1>8 DEF TypeOK

LEMMA EvaluateOutcome ==
  ASSUME NEW h, Evaluate(h)
  PROVE  Outcome(h, <<req[h].method, req[h].path>>, req[h].sub)
BY GrantOutcome, AnswerOutcome DEF Evaluate, Statuses

\* What Pulsar makes of a request that it is sent.
Creates(h) ==
  LET path == req[h].path
      name == <<path[2], path[3]>>
  IN  /\ Len(path) = 3 /\ path[1] = "namespaces" /\ req[h].method = "PUT"
      /\ name \notin namespaces
      /\ namespaces' = namespaces \cup {name}
      /\ bySuper' = IF req[h].sub \in SuperRoles THEN bySuper \cup {name} ELSE bySuper
Deletes(h) ==
  \E name : namespaces' = namespaces \ {name} /\ bySuper' = bySuper \ {name}

LEMMA ForwardCases ==
  ASSUME NEW h, Forward(h)
  PROVE  /\ Creates(h) \/ Deletes(h) \/ UNCHANGED <<namespaces, bySuper>>
         /\ req[h].stage = "granted" /\ req' = [req EXCEPT ![h] = Idle]
         /\ UNCHANGED <<plan, counted>>
BY DEF Forward, Creates, Deletes

LEMMA ForwardType ==
  ASSUME TypeInv, NEW h \in Handlers, Forward(h)
  PROVE  TypeInv'
<1>1. RequestsOK'
  BY ForwardCases, IdleType, TypeOfRequests DEF TypeInv
<1>2. /\ namespaces' \subseteq Names /\ bySuper' \subseteq namespaces'
      /\ IsFiniteSet(namespaces')
  <2>1. CASE Creates(h)
    <3> DEFINE name == <<req[h].path[2], req[h].path[3]>>
    <3>1. <<req[h].method, req[h].path>> \in Requests
      BY ForwardCases, BusyRequest DEF TypeInv
    <3>2. name \in Names
      <4> DEFINE r == <<req[h].method, req[h].path>>
      <4>1. r \in Requests /\ Len(r[2]) >= 3
        BY <2>1, <3>1 DEF Creates
      <4>2. <<r[2][2], r[2][3]>> \in Names
        <5> HIDE DEF r
        <5> QED
          BY <4>1 DEF Names
      <4> QED
        BY <4>2
    <3> HIDE DEF name
    <3>3. namespaces' = namespaces \cup {name} /\ bySuper' \subseteq bySuper \cup {name}
      BY <2>1 DEF Creates, name
    <3> QED
      BY <3>2, <3>3, FS_AddElement DEF TypeInv, TypeOK
  <2>2. CASE Deletes(h)
    <3>1. PICK name : namespaces' = namespaces \ {name} /\ bySuper' = bySuper \ {name}
      BY <2>2 DEF Deletes
    <3> QED
      BY <3>1, FS_RemoveElement DEF TypeInv, TypeOK
  <2>3. CASE UNCHANGED <<namespaces, bySuper>>
    BY <2>3 DEF TypeInv, TypeOK
  <2> QED
    BY <2>1, <2>2, <2>3, ForwardCases
<1> QED
  BY <1>1, <1>2, ForwardCases DEF TypeInv, TypeOK, RequestsOK

LEMMA TypeStep == TypeInv /\ [Next]_vars => TypeInv'
<1> SUFFICES ASSUME TypeInv, [Next]_vars PROVE TypeInv'
  OBVIOUS
<1>1. ASSUME NEW h \in Handlers, NEW r \in Requests, NEW sub \in Subjects,
             NEW header \in Subjects, Arrive(h, r, sub, header)
      PROVE  TypeInv'
  <2>1. RequestsOK'
    BY <1>1, ArriveOutcome, OutcomeType, TypeOfRequests DEF TypeInv
  <2>2. UNCHANGED <<namespaces, bySuper, plan, counted>>
    BY <1>1 DEF Arrive
  <2> QED
    BY <2>1, <2>2 DEF TypeInv, TypeOK, RequestsOK
<1>2. ASSUME NEW h \in Handlers, CreateFreePlan(h) PROVE TypeInv'
  BY <1>2, CreateFreePlanType
<1>3. ASSUME NEW h \in Handlers, Evaluate(h) PROVE TypeInv'
  <2>1. <<req[h].method, req[h].path>> \in Requests /\ req[h].sub \in Subjects
    BY <1>3, BusyRequest DEF TypeInv, Evaluate
  <2>2. RequestsOK'
    BY <1>3, <2>1, EvaluateOutcome, OutcomeType, TypeOfRequests DEF TypeInv
  <2>3. UNCHANGED <<namespaces, bySuper, plan, counted>>
    BY <1>3 DEF Evaluate
  <2> QED
    BY <2>2, <2>3 DEF TypeInv, TypeOK, RequestsOK
<1>4. ASSUME NEW h \in Handlers, Forward(h) PROVE TypeInv'
  BY <1>4, ForwardType
<1>5. ASSUME NEW h \in Handlers, Finish(h) PROVE TypeInv'
  <2>1. RequestsOK'
    BY <1>5, IdleType, TypeOfRequests DEF TypeInv, Finish
  <2> QED
    BY <1>5, <2>1 DEF TypeInv, TypeOK, RequestsOK, Finish
<1>6. ASSUME NEW t \in Tenants, ChangePlan(t) PROVE TypeInv'
  <2>1. plan' \in [Tenants -> Plans \cup {NoPlan}]
    BY <1>6 DEF ChangePlan, TypeInv, TypeOK
  <2> QED
    BY <1>6, <2>1 DEF ChangePlan, TypeInv, TypeOK
<1>7. ASSUME NEW t \in Tenants, CountFunction(t) PROVE TypeInv'
  <2>1. counted[t] \in 0..MaxCounted /\ counted[t] < MaxCounted
    BY <1>7 DEF CountFunction, TypeInv, TypeOK
  <2>2. counted[t] + 1 \in 0..MaxCounted
    BY <2>1, AdminAssumption
  <2>3. counted' \in [Tenants -> 0..MaxCounted]
    BY <1>7, <2>2 DEF CountFunction, TypeInv, TypeOK
  <2> QED
    BY <1>7, <2>3 DEF CountFunction, TypeInv, TypeOK
<1>8. CASE UNCHANGED vars
  BY <1>8 DEF vars, TypeInv, TypeOK
<1> QED
  BY <1>1, <1>2, <1>3, <1>4, <1>5, <1>6, <1>7, <1>8 DEF Next, HandlerNext

LEMMA TypeInit == Init => TypeInv
<1> SUFFICES ASSUME Init PROVE TypeInv
  OBVIOUS
<1>1. \A h \in Handlers : req[h] = Idle
  BY DEF Init
<1>2. Idle.stage = "idle"
  BY DEF Idle
<1>3. plan \in [Tenants -> Plans \cup {NoPlan}] /\ counted \in [Tenants -> 0..MaxCounted]
  BY AdminAssumption DEF Init
<1>4. req \in [Handlers -> {Idle} \cup InProgress]
  BY DEF Init
<1>5. namespaces = {} /\ bySuper = {} /\ IsFiniteSet({})
  BY FS_EmptySet DEF Init
<1> QED
  BY <1>1, <1>2, <1>3, <1>4, <1>5 DEF TypeInv, TypeOK

\* Every request under way is one of those that may come, with a limit that is
\* some plan's, and Pulsar's namespaces are named by requests: whatever routes
\* and handlers make of a request, and for any tenants and plans.
THEOREM TypeCorrect == Spec => []TypeOK
<1>1. TypeInv => TypeOK
  BY DEF TypeInv
<1> QED
  BY <1>1, TypeInit, TypeStep, PTL DEF Spec

-----------------------------------------------------------------------------
(* The bound on a tenant's namespaces *)

\* The namespaces that count, and what is to be shown of them.
Held(t) == NamespacesOf(t) \ bySuper
Bounded(t) == Cardinality(Held(t)) + Cardinality(Creating(t))
                <= TopLimit + Cardinality(Handlers) - 1

LEMMA BoundedParts == NamespacesBounded <=> \A t \in Tenants : Bounded(t)
BY DEF NamespacesBounded, Bounded, Held

LEMMA HandlersCount == IsFiniteSet(Handlers) /\ Cardinality(Handlers) \in Nat \ {0}
<1>1. Cardinality(Handlers) \in Nat /\ Cardinality(Handlers) # 0
  BY AdminAssumption, FS_CardinalityType, FS_EmptySet
<1> QED
  BY <1>1, AdminAssumption

\* Both sets of the bound are finite.
LEMMA CountedSets ==
  ASSUME IsFiniteSet(namespaces), NEW t
  PROVE  /\ IsFiniteSet(Held(t)) /\ IsFiniteSet(Creating(t)) /\ IsFiniteSet(NamespacesOf(t))
         /\ Cardinality(Held(t)) \in Nat /\ Cardinality(Creating(t)) \in Nat
         /\ Cardinality(NamespacesOf(t)) \in Nat
         /\ Cardinality(Held(t)) <= Cardinality(NamespacesOf(t))
         /\ Cardinality(Creating(t)) <= Cardinality(Handlers)
<1>1. IsFiniteSet(NamespacesOf(t))
  <2>1. NamespacesOf(t) \subseteq namespaces
    BY DEF NamespacesOf
  <2> QED
    BY <2>1, FS_Subset
<1>2. IsFiniteSet(Held(t)) /\ Cardinality(Held(t)) <= Cardinality(NamespacesOf(t))
  <2>1. Held(t) \subseteq NamespacesOf(t)
    BY DEF Held
  <2> QED
    BY <1>1, <2>1, FS_Subset
<1>3. IsFiniteSet(Creating(t)) /\ Cardinality(Creating(t)) <= Cardinality(Handlers)
  <2>1. Creating(t) \subseteq Handlers
    BY DEF Creating
  <2> QED
    BY <2>1, HandlersCount, FS_Subset
<1> QED
  BY <1>1, <1>2, <1>3, FS_CardinalityType

\* A step that adds to neither set keeps the bound.
LEMMA BoundKept ==
  ASSUME IsFiniteSet(namespaces), IsFiniteSet(namespaces)', NEW t, Bounded(t),
         Held(t)' \subseteq Held(t), Creating(t)' \subseteq Creating(t)
  PROVE  Bounded(t)'
<1>1. Cardinality(Held(t))' <= Cardinality(Held(t))
  BY CountedSets, FS_Subset
<1>2. Cardinality(Creating(t))' <= Cardinality(Creating(t))
  BY CountedSets, FS_Subset
<1>3. /\ Cardinality(Held(t)) \in Nat /\ Cardinality(Creating(t)) \in Nat
      /\ Cardinality(Held(t)') \in Nat /\ Cardinality(Creating(t)') \in Nat
  <2>1. IsFiniteSet(Held(t)') /\ IsFiniteSet(Creating(t)')
    BY CountedSets, FS_Subset
  <2> QED
    BY <2>1, CountedSets, FS_CardinalityType
<1>4. Cardinality(Held(t)') + Cardinality(Creating(t)')
        <= Cardinality(Held(t)) + Cardinality(Creating(t))
  BY <1>1, <1>2, <1>3
<1>5. Cardinality(Held(t)') + Cardinality(Creating(t)')
        <= TopLimit + Cardinality(Handlers) - 1
  BY <1>3, <1>4, TopLimitProperties, HandlersCount DEF Bounded
<1> QED
  BY <1>5 DEF Bounded

\* A step of h that leaves Pulsar's namespaces alone, and after which h is not
\* about to create one of t, adds to neither set of t.
LEMMA NotCreating ==
  ASSUME TypeInv, NEW h \in Handlers, NEW e, req' = [req EXCEPT ![h] = e],
         UNCHANGED <<namespaces, bySuper>>, NEW t,
         ~(/\ e.stage = "granted" /\ e.method = "PUT"
           /\ Len(e.path) = 3 /\ e.path[1] = "namespaces" /\ e.path[2] = t
           /\ e.sub \notin SuperRoles)
  PROVE  Held(t)' \subseteq Held(t) /\ Creating(t)' \subseteq Creating(t)
<1>1. Held(t)' = Held(t)
  BY DEF Held, NamespacesOf
<1>2. req'[h] = e
  BY DEF TypeInv, TypeOK
<1>3. h \notin Creating(t)'
  BY <1>2 DEF Creating
<1>4. ASSUME NEW g \in Creating(t)' PROVE g \in Creating(t)
  <2>1. g \in Handlers /\ g # h
    BY <1>3 DEF Creating
  <2>2. req'[g] = req[g]
    BY <2>1 DEF TypeInv, TypeOK
  <2> QED
    BY <2>1, <2>2 DEF Creating
<1> QED
  BY <1>1, <1>4

\* h holds the request without having granted it.
NotGranted(h, r, sub) ==
  \E stage \in {"planning", "evaluating", "answered"} : \E limit, status :
    req' = [req EXCEPT ![h] = Request(stage, r, sub, limit, status)]

\* A request to create a namespace is not granted at once, but to super users.
LEMMA CreationIsEvaluated ==
  ASSUME LimitsApply, NEW h, NEW r \in Requests, NEW sub \in Subjects, NEW header,
         Arrive(h, r, sub, header),
         r[1] = "PUT", Len(r[2]) = 3, r[2][1] = "namespaces", sub \notin SuperRoles
  PROVE  NotGranted(h, r, sub)
<1> DEFINE Becomes(s, l, u) == req' = [req EXCEPT ![h] = Request(s, r, sub, l, u)]
<1>1. HasRoute(r[1], r[2]) /\ RouteOf(r[1], r[2]) = LimitRoute
  BY CreationRoute
<1>2. InjectedSubs(LimitRoute, sub, header) = sub
  BY LimitRouteFields DEF InjectedSubs, LimitsApply
<1>3. ~IsSuperUser(sub)
  BY DEF LimitsApply
<1>4. CASE \E status : Answer(h, r, sub, status)
  <2>1. PICK status : Becomes("answered", 0, status)
    BY <1>4 DEF Answer
  <2> HIDE DEF Becomes
  <2>2. \E stage \in {"planning", "evaluating", "answered"} : \E l, u : Becomes(stage, l, u)
    BY <2>1
  <2> QED
    BY <2>2 DEF Becomes, NotGranted
<1>5. CASE NamespaceLimitEnforce(h, r, sub, sub)
  <2>1. \/ \E status : Answer(h, r, sub, status)
        \/ Becomes("planning", 0, 0)
        \/ Becomes("evaluating", NumOfNamespaces[plan[r[2][2]]], 0)
    BY <1>3, <1>5 DEF NamespaceLimitEnforce
  <2> HIDE DEF Becomes
  <2>2. CASE Becomes("planning", 0, 0)
    BY <2>2 DEF Becomes, NotGranted
  <2>3. CASE Becomes("evaluating", NumOfNamespaces[plan[r[2][2]]], 0)
    BY <2>3 DEF Becomes, NotGranted
  <2> QED
    BY <1>4, <2>1, <2>2, <2>3
<1> QED
  BY <1>1, <1>2, <1>4, <1>5, ArriveCases, LimitRouteFields DEF Handled

LEMMA ArriveBounded ==
  ASSUME LimitsApply, TypeInv, TypeInv', NEW t, Bounded(t),
         NEW h \in Handlers, NEW r \in Requests, NEW sub \in Subjects, NEW header,
         Arrive(h, r, sub, header)
  PROVE  Bounded(t)'
<1>1. UNCHANGED <<namespaces, bySuper>>
  BY DEF Arrive
<1>2. CASE /\ r[1] = "PUT" /\ Len(r[2]) = 3 /\ r[2][1] = "namespaces" /\ sub \notin SuperRoles
  <2>0. NotGranted(h, r, sub)
    BY <1>2, CreationIsEvaluated
  <2>1. PICK stage \in {"planning", "evaluating", "answered"} : \E limit, status :
          req' = [req EXCEPT ![h] = Request(stage, r, sub, limit, status)]
    BY <2>0 DEF NotGranted
  <2>2. PICK limit, status : req' = [req EXCEPT ![h] = Request(stage, r, sub, limit, status)]
    BY <2>1
  <2> DEFINE e == Request(stage, r, sub, limit, status)
  <2>3. e.stage # "granted"
    BY DEF Request
  <2> HIDE DEF e
  <2>4. Held(t)' \subseteq Held(t) /\ Creating(t)' \subseteq Creating(t)
    BY <1>1, <2>2, <2>3, NotCreating DEF e
  <2> QED
    BY <2>4, BoundKept DEF TypeInv
<1>3. CASE ~(/\ r[1] = "PUT" /\ Len(r[2]) = 3 /\ r[2][1] = "namespaces" /\ sub \notin SuperRoles)
  <2>0. Outcome(h, r, sub)
    BY ArriveOutcome DEF TypeInv
  <2>1. PICK stage \in Stages, limit \in Limits \cup {0}, status \in Statuses :
          req' = [req EXCEPT ![h] = Request(stage, r, sub, limit, status)]
    BY <2>0 DEF Outcome
  <2> DEFINE e == Request(stage, r, sub, limit, status)
  <2>2. e.method = r[1] /\ e.path = r[2] /\ e.sub = sub
    BY DEF Request
  <2> HIDE DEF e
  <2>3. Held(t)' \subseteq Held(t) /\ Creating(t)' \subseteq Creating(t)
    BY <1>1, <1>3, <2>1, <2>2, NotCreating DEF e
  <2> QED
    BY <2>3, BoundKept DEF TypeInv
<1> QED
  BY <1>2, <1>3

LEMMA CreateFreePlanBounded ==
  ASSUME TypeInv, TypeInv', NEW t, Bounded(t), NEW h \in Handlers, CreateFreePlan(h)
  PROVE  Bounded(t)'
<1> DEFINE e == [req[h] EXCEPT !.stage = "evaluating", !.limit = NumOfNamespaces[FreeTier]]
<1>1. e.stage # "granted"
  <2>1. req[h] \in InProgress
    BY BusyRequest DEF CreateFreePlan, TypeInv
  <2> QED
    BY <2>1 DEF InProgress
<1>2. req' = [req EXCEPT ![h] = e] /\ UNCHANGED <<namespaces, bySuper>>
  BY DEF CreateFreePlan, TypeInv, TypeOK
<1> HIDE DEF e
<1>3. Held(t)' \subseteq Held(t) /\ Creating(t)' \subseteq Creating(t)
  BY <1>1, <1>2, NotCreating
<1> QED
  BY <1>3, BoundKept DEF TypeInv

\* Whoever passes the check leaves room for a namespace; all the others under
\* way may have passed it, too.
LEMMA EvaluateBounded ==
  ASSUME TypeInv, TypeInv', NEW t, Bounded(t), NEW h \in Handlers, Evaluate(h)
  PROVE  Bounded(t)'
<1> DEFINE r == <<req[h].method, req[h].path>>
           e(stage, status) == Request(stage, r, req[h].sub, 0, status)
<1>1. UNCHANGED <<namespaces, bySuper>>
  BY DEF Evaluate
<1>2. \/ WithinLimit(h) /\ req' = [req EXCEPT ![h] = e("granted", 0)]
      \/ \E status : req' = [req EXCEPT ![h] = e("answered", status)]
  BY DEF Evaluate, Grant, Answer
<1>3. CASE \E status : req' = [req EXCEPT ![h] = e("answered", status)]
  <2>1. PICK status : req' = [req EXCEPT ![h] = e("answered", status)]
    BY <1>3
  <2> DEFINE f == e("answered", status)
  <2>2. f.stage # "granted"
    BY DEF Request
  <2>3. req' = [req EXCEPT ![h] = f]
    BY <2>1
  <2> HIDE DEF f
  <2>4. Held(t)' \subseteq Held(t) /\ Creating(t)' \subseteq Creating(t)
    BY <1>1, <2>2, <2>3, NotCreating
  <2> QED
    BY <2>4, BoundKept DEF TypeInv
<1>4. CASE WithinLimit(h) /\ req' = [req EXCEPT ![h] = e("granted", 0)]
  <2> DEFINE f == e("granted", 0)
  <2>1. f.path = req[h].path
    BY DEF Request
  <2>2. req' = [req EXCEPT ![h] = f]
    BY <1>4
  <2> HIDE DEF f
  <2>3. CASE req[h].path[2] # t
    <3>1. Held(t)' \subseteq Held(t) /\ Creating(t)' \subseteq Creating(t)
      BY <1>1, <2>1, <2>2, <2>3, NotCreating
    <3> QED
      BY <3>1, BoundKept DEF TypeInv
  <2>4. CASE req[h].path[2] = t
    <3>1. req[h].limit \in Limits
      BY DEF Evaluate, TypeInv, TypeOK
    <3>2. req[h].limit >= Cardinality(NamespacesOf(t)) + 1
      BY <1>4, <2>4 DEF WithinLimit
    <3>3. Cardinality(NamespacesOf(t)) + 1 <= TopLimit
      BY <3>1, <3>2, TopLimitProperties, CountedSets DEF TypeInv
    <3>4. Held(t)' = Held(t)
      BY <1>1 DEF Held, NamespacesOf
    <3>5. Cardinality(Creating(t)') <= Cardinality(Handlers) /\ Cardinality(Creating(t)') \in Nat
      <4>1. Creating(t)' \subseteq Handlers
        BY DEF Creating
      <4> QED
        BY <4>1, HandlersCount, FS_Subset, FS_CardinalityType
    <3>6. Cardinality(Held(t)) <= Cardinality(NamespacesOf(t))
          /\ Cardinality(Held(t)) \in Nat /\ Cardinality(NamespacesOf(t)) \in Nat
      BY CountedSets DEF TypeInv
    <3>7. Cardinality(Held(t)) + Cardinality(Creating(t)') <= TopLimit + Cardinality(Handlers) - 1
      BY <3>3, <3>5, <3>6, TopLimitProperties, HandlersCount
    <3> QED
      BY <3>4, <3>7 DEF Bounded
  <2> QED
    BY <2>3, <2>4
<1> QED
  BY <1>2, <1>3, <1>4

LEMMA CreatesBounded ==
  ASSUME TypeInv, TypeInv', NEW t, Bounded(t), NEW h \in Handlers,
         Creates(h), req[h].stage = "granted", req' = [req EXCEPT ![h] = Idle]
  PROVE  Bounded(t)'
<1> DEFINE name == <<req[h].path[2], req[h].path[3]>>
<1>1. /\ Len(req[h].path) = 3 /\ req[h].path[1] = "namespaces" /\ req[h].method = "PUT"
      /\ namespaces' = namespaces \cup {name}
      /\ bySuper' = IF req[h].sub \in SuperRoles THEN bySuper \cup {name} ELSE bySuper
  BY DEF Creates
<1>2. name[1] = req[h].path[2]
  OBVIOUS
<1> HIDE DEF name
<1>3. Creating(t)' \subseteq Creating(t) \ {h}
  <2>1. req'[h] = Idle /\ Idle.stage = "idle"
    BY DEF TypeInv, TypeOK, Idle
  <2>2. \A g \in Handlers : g # h => req'[g] = req[g]
    BY DEF TypeInv, TypeOK
  <2> QED
    BY <2>1, <2>2 DEF Creating
<1>4. CASE req[h].sub \in SuperRoles \/ req[h].path[2] # t
  <2>1. Held(t)' \subseteq Held(t)
    BY <1>1, <1>2, <1>4 DEF Held, NamespacesOf
  <2>2. Creating(t)' \subseteq Creating(t)
    BY <1>3
  <2> QED
    BY <2>1, <2>2, BoundKept DEF TypeInv
<1>5. CASE req[h].sub \notin SuperRoles /\ req[h].path[2] = t
  <2>1. h \in Creating(t)
    BY <1>1, <1>5 DEF Creating
  <2>2. Held(t)' \subseteq Held(t) \cup {name}
    BY <1>1 DEF Held, NamespacesOf
  <2>3. /\ IsFiniteSet(Held(t)) /\ IsFiniteSet(Creating(t))
        /\ Cardinality(Held(t)) \in Nat /\ Cardinality(Creating(t)) \in Nat
    BY CountedSets DEF TypeInv
  <2>4. /\ IsFiniteSet(Held(t) \cup {name})
        /\ Cardinality(Held(t) \cup {name}) \in Nat
        /\ Cardinality(Held(t) \cup {name}) <= Cardinality(Held(t)) + 1
    <3>1. /\ IsFiniteSet(Held(t) \cup {name})
          /\ \/ Cardinality(Held(t) \cup {name}) = Cardinality(Held(t))
             \/ Cardinality(Held(t) \cup {name}) = Cardinality(Held(t)) + 1
      BY <2>3, FS_AddElement
    <3> QED
      BY <2>3, <3>1
  <2>5. IsFiniteSet(Creating(t) \ {h}) /\ Cardinality(Creating(t) \ {h}) = Cardinality(Creating(t)) - 1
    BY <2>1, <2>3, FS_RemoveElement
  <2>6. IsFiniteSet(Held(t)') /\ Cardinality(Held(t)') <= Cardinality(Held(t) \cup {name})
    BY <2>2, <2>4, FS_Subset
  <2>7. /\ IsFiniteSet(Creating(t)')
        /\ Cardinality(Creating(t)') <= Cardinality(Creating(t) \ {h})
    BY <1>3, <2>5, FS_Subset
  <2>8. Cardinality(Held(t)') \in Nat /\ Cardinality(Creating(t)') \in Nat
    BY <2>6, <2>7, FS_CardinalityType
  <2>9. Cardinality(Held(t)') + Cardinality(Creating(t)')
          <= Cardinality(Held(t)) + Cardinality(Creating(t))
    BY <2>3, <2>4, <2>5, <2>6, <2>7, <2>8
  <2>10. Cardinality(Held(t)') + Cardinality(Creating(t)') <= TopLimit + Cardinality(Handlers) - 1
    BY <2>3, <2>8, <2>9, TopLimitProperties, HandlersCount DEF Bounded
  <2> QED
    BY <2>10 DEF Bounded
<1> QED
  BY <1>4, <1>5

LEMMA ForwardBounded ==
  ASSUME TypeInv, TypeInv', NEW t, Bounded(t), NEW h \in Handlers, Forward(h)
  PROVE  Bounded(t)'
<1>1. req[h].stage = "granted" /\ req' = [req EXCEPT ![h] = Idle]
  BY ForwardCases
<1>2. CASE Creates(h)
  BY <1>1, <1>2, CreatesBounded
<1>3. CASE Deletes(h) \/ UNCHANGED <<namespaces, bySuper>>
  <2>1. Held(t)' \subseteq Held(t)
    BY <1>3 DEF Deletes, Held, NamespacesOf
  <2>2. Creating(t)' \subseteq Creating(t)
    <3>1. req'[h] = Idle /\ Idle.stage = "idle"
      BY <1>1 DEF TypeInv, TypeOK, Idle
    <3>2. \A g \in Handlers : g # h => req'[g] = req[g]
      BY <1>1 DEF TypeInv, TypeOK
    <3> QED
      BY <3>1, <3>2 DEF Creating
  <2> QED
    BY <2>1, <2>2, BoundKept DEF TypeInv
<1> QED
  BY <1>2, <1>3, ForwardCases

LEMMA BoundStep ==
  LimitsApply /\ TypeInv /\ TypeInv' /\ NamespacesBounded /\ [Next]_vars => NamespacesBounded'
<1> SUFFICES ASSUME LimitsApply, TypeInv, TypeInv', NamespacesBounded, [Next]_vars,
                    NEW t \in Tenants
             PROVE  Bounded(t)'
  BY DEF NamespacesBounded, Bounded, Held
<1>1. Bounded(t)
  BY BoundedParts
<1>2. ASSUME NEW h \in Handlers, NEW r \in Requests, NEW sub \in Subjects,
             NEW header \in Subjects, Arrive(h, r, sub, header)
      PROVE  Bounded(t)'
  BY <1>1, <1>2, ArriveBounded
<1>3. ASSUME NEW h \in Handlers, CreateFreePlan(h) PROVE Bounded(t)'
  BY <1>1, <1>3, CreateFreePlanBounded
<1>4. ASSUME NEW h \in Handlers, Evaluate(h) PROVE Bounded(t)'
  BY <1>1, <1>4, EvaluateBounded
<1>5. ASSUME NEW h \in Handlers, Forward(h) PROVE Bounded(t)'
  BY <1>1, <1>5, ForwardBounded
<1>6. ASSUME NEW h \in Handlers, Finish(h) PROVE Bounded(t)'
  <2>1. Idle.stage # "granted"
    BY DEF Idle
  <2>2. Held(t)' \subseteq Held(t) /\ Creating(t)' \subseteq Creating(t)
    BY <1>6, <2>1, NotCreating DEF Finish
  <2> QED
    BY <1>1, <2>2, BoundKept DEF TypeInv
<1>7. CASE UNCHANGED <<namespaces, bySuper, req>>
  <2>1. Held(t)' \subseteq Held(t) /\ Creating(t)' \subseteq Creating(t)
    BY <1>7 DEF Held, NamespacesOf, Creating
  <2> QED
    BY <1>1, <2>1, BoundKept DEF TypeInv
<1>8. ASSUME NEW s \in Tenants, ChangePlan(s) \/ CountFunction(s) PROVE Bounded(t)'
  BY <1>7, <1>8 DEF ChangePlan, CountFunction
<1>9. CASE UNCHANGED vars
  BY <1>7, <1>9 DEF vars
<1> QED
  BY <1>2, <1>3, <1>4, <1>5, <1>6, <1>8, <1>9 DEF Next, HandlerNext

LEMMA BoundInit == Init => NamespacesBounded
<1> SUFFICES ASSUME Init, NEW t \in Tenants PROVE Bounded(t)
  BY BoundedParts
<1>1. Held(t) = {}
  BY DEF Init, Held, NamespacesOf
<1>2. Creating(t) = {}
  BY DEF Init, Creating, Idle
<1>3. Cardinality(Held(t)) = 0 /\ Cardinality(Creating(t)) = 0
  BY <1>1, <1>2, FS_EmptySet
<1> QED
  BY <1>3, TopLimitProperties, HandlersCount DEF Bounded

\* However many requests to create a namespace are checked against the limit
\* before any of them gets to Pulsar, a tenant ends up with no more namespaces
\* than the best plan allows and one for every other request under way: the
\* inexactness of limitEnforceProxyHandler, bounded for any plans, limits,
\* tenants, requests and number of handlers.
THEOREM NamespacesAreBounded ==
  ASSUME LimitsApply
  PROVE  Spec => []NamespacesBounded
<1>1. Init => TypeInv /\ NamespacesBounded
  BY TypeInit, BoundInit
<1>2. TypeInv /\ NamespacesBounded /\ [Next]_vars => TypeInv' /\ NamespacesBounded'
  BY TypeStep, BoundStep, LimitsApply
<1> QED
  BY <1>1, <1>2, PTL DEF Spec

-----------------------------------------------------------------------------
(* What the routes let through *)

Auths == {"NoAuth", "SuperRoleRequired", "AuthVerifyJWT", "AuthVerifyTenantJWT"}

\* The resources of tenants that are read or changed as a whole.
PlainResources == TenantResources \ {"namespaces", "tenant", "tenants"}

\* A word of a pattern: no variable, and words of the set only.
WordsWithin(words, set) == words # {} /\ words \subseteq set

LEMMA OwnAuth ==
  \A i \in 1..12 :
    /\ OwnRoutes[i].auth \in Auths
    /\ OwnRoutes[i].auth = "NoAuth" =>
         OwnRoutes[i].pattern[1] = {"liveness", "metrics"} /\ Len(OwnRoutes[i].pattern) = 1
    /\ OwnRoutes[i].auth = "AuthVerifyJWT" =>
         /\ OwnRoutes[i].pattern[1] = {"pulsarmetrics"} /\ Len(OwnRoutes[i].pattern) = 1
         /\ OwnRoutes[i].exact /\ OwnRoutes[i].methods = {"GET"}
    /\ OwnRoutes[i].auth = "AuthVerifyTenantJWT" =>
         /\ WordsWithin(OwnRoutes[i].pattern[1], TenantResources)
         /\ Len(OwnRoutes[i].pattern) \in {2, 4, 5} /\ OwnRoutes[i].methods = {"GET"}
<1>1. \A i \in 1..12 : OwnRoutes[i].auth \in Auths
  BY DEF OwnRoutes, Path, Prefix, Auths
<1>2. \A i \in 1..12 : OwnRoutes[i].auth = "NoAuth" => i = 1
  BY DEF OwnRoutes, Path, Prefix
<1>3. OwnRoutes[1].pattern[1] = {"liveness", "metrics"} /\ Len(OwnRoutes[1].pattern) = 1
  BY DEF OwnRoutes, Path, Prefix
<1>4. \A i \in 1..12 : OwnRoutes[i].auth = "AuthVerifyJWT" => i = 6
  BY DEF OwnRoutes, Path, Prefix
<1>5. /\ OwnRoutes[6].pattern[1] = {"pulsarmetrics"} /\ Len(OwnRoutes[6].pattern) = 1
      /\ OwnRoutes[6].exact /\ OwnRoutes[6].methods = {"GET"}
  BY DEF OwnRoutes, Path, Prefix, GET
<1>6. \A i \in 1..12 : OwnRoutes[i].auth = "AuthVerifyTenantJWT" => i \in {4, 7, 9, 10, 11, 12}
  BY DEF OwnRoutes, Path, Prefix
<1>7. \A i \in {4, 7, 9, 10, 11, 12} : OwnRoutes[i].methods = {"GET"}
  BY DEF OwnRoutes, Path, Prefix, GET
<1>8. \A i \in {4, 7, 9, 10, 11, 12} : Len(OwnRoutes[i].pattern) \in {2, 4, 5}
  BY DEF OwnRoutes, Path, Prefix
<1>9. \A i \in {4, 7, 9, 10, 11, 12} : WordsWithin(OwnRoutes[i].pattern[1], TenantResources)
  <2>1. /\ OwnRoutes[4].pattern[1] = {"namespacesusage"} /\ OwnRoutes[7].pattern[1] = {"tenant"}
        /\ OwnRoutes[9].pattern[1] = {"stats-topics"}
        /\ OwnRoutes[10].pattern[1] = {"function-logs", "function-status"}
        /\ OwnRoutes[11].pattern[1] = {"function-logs"} /\ OwnRoutes[12].pattern[1] = {"topics"}
    BY DEF OwnRoutes, Path, Prefix
  <2>2. {"namespacesusage", "tenant", "stats-topics", "function-logs", "function-status", "topics"}
          \subseteq TenantResources
    BY DEF TenantResources
  <2> QED
    BY <2>1, <2>2 DEF WordsWithin
<1> QED
  BY <1>1, <1>2, <1>3, <1>4, <1>5, <1>6, <1>7, <1>8, <1>9

LEMMA SuperAuth ==
  /\ \A i \in 1..3 : ClusterRoutes[i].auth = "SuperRoleRequired"
  /\ \A i \in 1..3 : BundleRoutes[i].auth = "SuperRoleRequired"
<1>1. \A i \in 1..3 : ClusterRoutes[i].auth = "SuperRoleRequired"
  BY DEF ClusterRoutes, Prefix
<1>2. \A i \in 1..3 : BundleRoutes[i].auth = "SuperRoleRequired"
  BY DEF BundleRoutes, Prefix
<1> QED
  BY <1>1, <1>2

\* The policies left to operators, whatever the method.
PolicyWords == OperatorPolicies \cup {"offloadThreshold", "unload", "permissions"}

LEMMA RestrictedPolicyAuth ==
  \A i \in 1..9 :
    /\ RestrictedPolicyRoutes[i].auth \in {"SuperRoleRequired", "AuthVerifyTenantJWT"}
    /\ RestrictedPolicyRoutes[i].auth = "AuthVerifyTenantJWT" =>
         /\ RestrictedPolicyRoutes[i].pattern[1] = {"namespaces"}
         /\ Len(RestrictedPolicyRoutes[i].pattern) = 4
         /\ RestrictedPolicyRoutes[i].pattern[4] # {}
         /\ RestrictedPolicyRoutes[i].pattern[4] \cap PolicyWords = {}
         /\ "DELETE" \notin RestrictedPolicyRoutes[i].methods
<1>1. \A i \in 1..9 : RestrictedPolicyRoutes[i].auth \in {"SuperRoleRequired", "AuthVerifyTenantJWT"}
  BY DEF RestrictedPolicyRoutes, Prefix
<1>2. \A i \in 1..9 : RestrictedPolicyRoutes[i].auth = "AuthVerifyTenantJWT" => i \in {4, 5, 6}
  BY DEF RestrictedPolicyRoutes, Prefix
<1>3. \A i \in {4, 5, 6} : /\ RestrictedPolicyRoutes[i].pattern[1] = {"namespaces"}
                           /\ Len(RestrictedPolicyRoutes[i].pattern) = 4
  BY DEF RestrictedPolicyRoutes, Prefix
<1>4. \A i \in {4, 5, 6} : RestrictedPolicyRoutes[i].pattern[4] # {}
  BY DEF RestrictedPolicyRoutes, Prefix
<1>5. \A i \in {4, 5, 6} : RestrictedPolicyRoutes[i].pattern[4] \cap PolicyWords = {}
  BY DEF RestrictedPolicyRoutes, Prefix, PolicyWords, OperatorPolicies
<1>6. \A i \in {4, 5, 6} : "DELETE" \notin RestrictedPolicyRoutes[i].methods
  BY DEF RestrictedPolicyRoutes, Prefix, PUT, POST
<1> QED
  BY <1>1, <1>2, <1>3, <1>4, <1>5, <1>6

LEMMA NamespaceAuth ==
  \A i \in 1..9 :
    /\ NamespaceRoutes[i].auth \in {"SuperRoleRequired", "AuthVerifyTenantJWT"}
    /\ NamespaceRoutes[i].auth = "AuthVerifyTenantJWT" =>
         /\ NamespaceRoutes[i].pattern[1] = {"namespaces"}
         /\ Len(NamespaceRoutes[i].pattern) \in {2, 3, 4}
<1>1. \A i \in 1..9 : NamespaceRoutes[i].auth \in {"SuperRoleRequired", "AuthVerifyTenantJWT"}
  BY DEF NamespaceRoutes, Prefix
<1>2. \A i \in 1..9 : NamespaceRoutes[i].pattern[1] = {"namespaces"}
  BY DEF NamespaceRoutes, Prefix
<1>3. \A i \in 1..9 : NamespaceRoutes[i].auth = "AuthVerifyTenantJWT" => i \in 1..8
  BY DEF NamespaceRoutes, Prefix
<1>4. \A i \in 1..8 : Len(NamespaceRoutes[i].pattern) \in {2, 3, 4}
  BY DEF NamespaceRoutes, Prefix
<1> QED
  BY <1>1, <1>2, <1>3, <1>4

LEMMA TopicAuth ==
  /\ \A i \in 1..6 : TopicRoutes[i].auth \in Auths \ {"NoAuth"}
  /\ \A i \in 1..6 : TopicRoutes[i].auth = "AuthVerifyJWT" => i = 5
  /\ TopicRoutes[5] = Prefix(<<{"tenants"}>>, GET, "AuthVerifyJWT", "RestrictedTenants")
  /\ TopicRoutes[4] = Prefix(<<{"tenants"}, {}>>, GET, "AuthVerifyTenantJWT", "Direct")
  /\ \A i \in 1..6 : TopicRoutes[i].auth = "AuthVerifyTenantJWT" =>
       /\ \/ WordsWithin(TopicRoutes[i].pattern[1], PlainResources)
          \/ TopicRoutes[i].pattern[1] = {"tenants"} /\ TopicRoutes[i].methods = {"GET"}
       /\ Len(TopicRoutes[i].pattern) \in {2, 3}
<1>1. \A i \in 1..6 : TopicRoutes[i].auth \in Auths \ {"NoAuth"}
  BY DEF TopicRoutes, Prefix, Auths
<1>2. \A i \in 1..6 : TopicRoutes[i].auth = "AuthVerifyJWT" => i = 5
  BY DEF TopicRoutes, Prefix
<1>3. TopicRoutes[5] = Prefix(<<{"tenants"}>>, GET, "AuthVerifyJWT", "RestrictedTenants")
  BY DEF TopicRoutes
<1>4. TopicRoutes[4] = Prefix(<<{"tenants"}, {}>>, GET, "AuthVerifyTenantJWT", "Direct")
  BY DEF TopicRoutes
<1>5. \A i \in 1..6 : TopicRoutes[i].auth = "AuthVerifyTenantJWT" => i \in {1, 3, 4}
  BY DEF TopicRoutes, Prefix
<1>6. \A i \in {1, 3} : WordsWithin(TopicRoutes[i].pattern[1], PlainResources)
  <2>1. /\ TopicRoutes[1].pattern[1] = {"persistent", "non-persistent"}
        /\ TopicRoutes[3].pattern[1] = {"schemas"}
    BY DEF TopicRoutes, Prefix
  <2>2. {"persistent", "non-persistent", "schemas"} \subseteq PlainResources
    BY DEF PlainResources, TenantResources
  <2> QED
    BY <2>1, <2>2 DEF WordsWithin
<1>7. TopicRoutes[4].pattern[1] = {"tenants"} /\ TopicRoutes[4].methods = {"GET"}
  BY <1>4 DEF Prefix, GET
<1>8. \A i \in {1, 3, 4} : Len(TopicRoutes[i].pattern) \in {2, 3}
  BY DEF TopicRoutes, Prefix
<1> QED
  BY <1>1, <1>2, <1>3, <1>4, <1>5, <1>6, <1>7, <1>8

LEMMA FunctionAuth ==
  /\ \A i \in 1..4 : FunctionRoutes[i].auth \in Auths \ {"NoAuth"}
  /\ \A i \in 1..4 : FunctionRoutes[i].auth = "AuthVerifyJWT" => i = 2
  /\ FunctionRoutes[2] = Prefix(<<{"sources", "sinks"}, {"builtin"}>>, GET, "AuthVerifyJWT",
                                "DirectFunction")
  /\ \A i \in 1..4 : FunctionRoutes[i].auth = "AuthVerifyTenantJWT" =>
       /\ WordsWithin(FunctionRoutes[i].pattern[1], PlainResources)
       /\ Len(FunctionRoutes[i].pattern) = 2
<1>1. \A i \in 1..4 : FunctionRoutes[i].auth \in Auths \ {"NoAuth"}
  BY DEF FunctionRoutes, Prefix, Auths
<1>2. \A i \in 1..4 : FunctionRoutes[i].auth = "AuthVerifyJWT" => i = 2
  BY DEF FunctionRoutes, Prefix
<1>3. FunctionRoutes[2] = Prefix(<<{"sources", "sinks"}, {"builtin"}>>, GET, "AuthVerifyJWT",
                                 "DirectFunction")
  BY DEF FunctionRoutes
<1>4. \A i \in 1..4 : FunctionRoutes[i].auth = "AuthVerifyTenantJWT" => i \in {1, 4}
  BY DEF FunctionRoutes, Prefix
<1>5. \A i \in {1, 4} : WordsWithin(FunctionRoutes[i].pattern[1], PlainResources)
  <2>1. /\ FunctionRoutes[1].pattern[1] = {"functions"}
        /\ FunctionRoutes[4].pattern[1] = {"sources", "sinks"}
    BY DEF FunctionRoutes, Prefix
  <2>2. {"functions", "sources", "sinks"} \subseteq PlainResources
    BY DEF PlainResources, TenantResources
  <2> QED
    BY <2>1, <2>2 DEF WordsWithin
<1>6. \A i \in {1, 4} : Len(FunctionRoutes[i].pattern) = 2
  BY DEF FunctionRoutes, Prefix
<1> QED
  BY <1>1, <1>2, <1>3, <1>4, <1>5, <1>6

\* A route below a namespace, for the words of its fourth part, and what it takes.
BelowNamespace(route, words, methods) ==
  /\ ~route.exact /\ route.methods = methods
  /\ route.pattern[1] = {"namespaces"} /\ route.pattern[2] = {} /\ route.pattern[3] = {}
  /\ route.pattern[4] = words
  /\ Len(route.pattern) = 4 \/ (Len(route.pattern) = 5 /\ route.pattern[5] = {})

LEMMA MatchesBelow ==
  ASSUME NEW route, NEW words, NEW methods, BelowNamespace(route, words, methods),
         NEW method \in methods, NEW path, Len(path) \in Nat, Len(path) >= 4,
         path[1] = "namespaces", words = {} \/ path[4] \in words,
         Len(route.pattern) = 4 \/ Len(path) >= 5
  PROVE  Matches(route, method, path)
<1>1. Len(path) >= Len(route.pattern)
  BY DEF BelowNamespace
<1>2. ASSUME NEW i \in 1..Len(route.pattern)
      PROVE  route.pattern[i] = {} \/ path[i] \in route.pattern[i]
  <2>1. i \in {1, 2, 3, 4} \/ (i = 5 /\ route.pattern[5] = {})
    <3>1. CASE Len(route.pattern) = 4
      <4>1. i \in 1..4
        BY <3>1
      <4>2. \A x \in 1..4 : x \in {1, 2, 3, 4}
        OBVIOUS
      <4>3. i \in {1, 2, 3, 4}
        BY <4>1, <4>2
      <4> QED
        BY <4>3
    <3>2. CASE Len(route.pattern) = 5 /\ route.pattern[5] = {}
      <4>1. i \in 1..5
        BY <3>2
      <4> QED
        BY <3>2, <4>1
    <3> QED
      BY <3>1, <3>2 DEF BelowNamespace
  <2> QED
    BY <2>1 DEF BelowNamespace
<1> QED
  BY <1>1, <1>2 DEF Matches, BelowNamespace

LEMMA PrefixBelow ==
  ASSUME NEW words, NEW methods, NEW auth, NEW handler, NEW route
  PROVE  /\ route = Prefix(<<{"namespaces"}, {}, {}, words>>, methods, auth, handler) =>
              BelowNamespace(route, words, methods) /\ Len(route.pattern) = 4
         /\ route = Prefix(<<{"namespaces"}, {}, {}, words, {}>>, methods, auth, handler) =>
              BelowNamespace(route, words, methods)
<1>1. ASSUME route = Prefix(<<{"namespaces"}, {}, {}, words>>, methods, auth, handler)
      PROVE  BelowNamespace(route, words, methods) /\ Len(route.pattern) = 4
  <2>1. ~route.exact /\ route.methods = methods
    BY <1>1 DEF Prefix
  <2> DEFINE p == <<{"namespaces"}, {}, {}, words>>
  <2>2. route.pattern = p
    BY <1>1 DEF Prefix
  <2>3. Len(p) = 4 /\ p[1] = {"namespaces"} /\ p[2] = {} /\ p[3] = {} /\ p[4] = words
    OBVIOUS
  <2> HIDE DEF p
  <2> QED
    BY <2>1, <2>2, <2>3 DEF BelowNamespace
<1>2. ASSUME route = Prefix(<<{"namespaces"}, {}, {}, words, {}>>, methods, auth, handler)
      PROVE  BelowNamespace(route, words, methods)
  <2>1. ~route.exact /\ route.methods = methods
    BY <1>2 DEF Prefix
  <2>2. route.pattern = <<{"namespaces"}, {}, {}, words, {}>>
    BY <1>2 DEF Prefix
  <2> QED
    BY <2>1, <2>2 DEF BelowNamespace
<1> QED
  BY <1>1, <1>2

LEMMA OperatorRoutes ==
  /\ /\ BelowNamespace(BundleRoutes[1], {}, DELETE) /\ Len(BundleRoutes[1].pattern) = 4
  /\ /\ BelowNamespace(RestrictedPolicyRoutes[3],
          {"offloadThreshold", "schemaAutoUpdateCompatibilityStrategy"}, PUT)
     /\ Len(RestrictedPolicyRoutes[3].pattern) = 4
  /\ /\ BelowNamespace(RestrictedPolicyRoutes[9], {"unload"}, PUT)
     /\ Len(RestrictedPolicyRoutes[9].pattern) = 4
  /\ /\ BelowNamespace(RestrictedPolicyRoutes[1], {"maxConsumersPerSubscription",
          "maxConsumersPerTopic", "maxProducersPerTopic", "maxUnackedMessagesPerSubscription",
          "messageTTL", "offloadPolicies"}, POST)
     /\ Len(RestrictedPolicyRoutes[1].pattern) = 4
  /\ /\ BelowNamespace(RestrictedPolicyRoutes[8], {"persistence", "replication",
          "replicatorDispatchRate", "retention", "subscribeRate", "subscriptionAuthMode",
          "subscriptionDispatchRate"}, POST)
     /\ Len(RestrictedPolicyRoutes[8].pattern) = 4
  /\ BelowNamespace(RestrictedPolicyRoutes[7], {"permissions"}, POST \cup DELETE)
<1>1. BelowNamespace(BundleRoutes[1], {}, DELETE) /\ Len(BundleRoutes[1].pattern) = 4
  <2>1. BundleRoutes[1] = Prefix(<<{"namespaces"}, {}, {}, {}>>, DELETE, "SuperRoleRequired", "Direct")
    BY DEF BundleRoutes
  <2> QED
    BY <2>1, PrefixBelow, Zenon
<1>2. /\ BelowNamespace(RestrictedPolicyRoutes[3],
           {"offloadThreshold", "schemaAutoUpdateCompatibilityStrategy"}, PUT)
      /\ Len(RestrictedPolicyRoutes[3].pattern) = 4
  <2>1. RestrictedPolicyRoutes[3] = Prefix(<<{"namespaces"}, {}, {}, {"offloadThreshold",
         "schemaAutoUpdateCompatibilityStrategy"}>>,
         PUT, "SuperRoleRequired", "NamespacePolicy")
    BY DEF RestrictedPolicyRoutes
  <2> QED
    BY <2>1, PrefixBelow, Zenon
<1>3. /\ BelowNamespace(RestrictedPolicyRoutes[9], {"unload"}, PUT)
      /\ Len(RestrictedPolicyRoutes[9].pattern) = 4
  <2>1. RestrictedPolicyRoutes[9] = Prefix(<<{"namespaces"}, {}, {}, {"unload"}>>,
         PUT, "SuperRoleRequired", "Direct")
    BY DEF RestrictedPolicyRoutes
  <2> QED
    BY <2>1, PrefixBelow, Zenon
<1>4. /\ BelowNamespace(RestrictedPolicyRoutes[1], {"maxConsumersPerSubscription",
           "maxConsumersPerTopic", "maxProducersPerTopic", "maxUnackedMessagesPerSubscription",
           "messageTTL", "offloadPolicies"}, POST)
      /\ Len(RestrictedPolicyRoutes[1].pattern) = 4
  <2>1. RestrictedPolicyRoutes[1] = Prefix(<<{"namespaces"}, {}, {}, {"maxConsumersPerSubscription",
         "maxConsumersPerTopic", "maxProducersPerTopic", "maxUnackedMessagesPerSubscription",
         "messageTTL", "offloadPolicies"}>>,
         POST, "SuperRoleRequired", "NamespacePolicy")
    BY DEF RestrictedPolicyRoutes
  <2> QED
    BY <2>1, PrefixBelow, Zenon
<1>5. /\ BelowNamespace(RestrictedPolicyRoutes[8], {"persistence", "replication",
           "replicatorDispatchRate", "retention", "subscribeRate", "subscriptionAuthMode",
           "subscriptionDispatchRate"}, POST)
      /\ Len(RestrictedPolicyRoutes[8].pattern) = 4
  <2>1. RestrictedPolicyRoutes[8] = Prefix(<<{"namespaces"}, {}, {}, {"persistence", "replication",
         "replicatorDispatchRate", "retention", "subscribeRate", "subscriptionAuthMode",
         "subscriptionDispatchRate"}>>,
         POST, "SuperRoleRequired", "Direct")
    BY DEF RestrictedPolicyRoutes
  <2> QED
    BY <2>1, PrefixBelow, Zenon
<1>6. BelowNamespace(RestrictedPolicyRoutes[7], {"permissions"}, POST \cup DELETE)
  <2>1. RestrictedPolicyRoutes[7] = Prefix(<<{"namespaces"}, {}, {}, {"permissions"}, {}>>,
         POST \cup DELETE, "SuperRoleRequired", "Direct")
    BY DEF RestrictedPolicyRoutes
  <2> QED
    BY <2>1, PrefixBelow, Zenon
<1> QED
  BY <1>1, <1>2, <1>3, <1>4, <1>5, <1>6

\* What is left to operators is matched before the routes of tenants come.
LEMMA OperatorsFirst ==
  ASSUME NEW method, NEW path, Len(path) \in Nat, Len(path) >= 4,
         path[1] = "namespaces", OperatorOnly(method, path)
  PROVE  \E j \in 1..27 : Matches(Routes[j], method, path)
<1>1. CASE method = "DELETE"
  <2>2. Matches(BundleRoutes[1], method, path)
    BY <1>1, OperatorRoutes, MatchesBelow DEF DELETE
  <2>3. 24 + 1 = 25 /\ 25 \in 1..27 /\ 1 \in 1..3
    OBVIOUS
  <2>4. Routes[25] = BundleRoutes[1]
    BY <2>3, TableIndices
  <2> QED
    BY <2>2, <2>3, <2>4
<1>2. CASE method # "DELETE"
  <2>1. \/ method = "PUT" /\ path[4] \in {"offloadThreshold", "unload"}
        \/ method = "POST" /\ path[4] \in OperatorPolicies
        \/ method = "POST" /\ path[4] = "permissions" /\ Len(path) >= 5
    BY <1>2 DEF OperatorOnly
  <2>2. \E i \in 1..9 : Matches(RestrictedPolicyRoutes[i], method, path)
    <3>1. CASE method = "PUT" /\ path[4] = "offloadThreshold"
      <4>1. Matches(RestrictedPolicyRoutes[3], method, path)
        BY <3>1, OperatorRoutes, MatchesBelow DEF PUT
      <4> QED
        BY <4>1
    <3>2. CASE method = "PUT" /\ path[4] = "unload"
      <4>1. Matches(RestrictedPolicyRoutes[9], method, path)
        BY <3>2, OperatorRoutes, MatchesBelow DEF PUT
      <4> QED
        BY <4>1
    <3>3. CASE method = "POST" /\ path[4] \in {"maxConsumersPerTopic", "messageTTL"}
      <4>1. Matches(RestrictedPolicyRoutes[1], method, path)
        BY <3>3, OperatorRoutes, MatchesBelow DEF POST
      <4> QED
        BY <4>1
    <3>4. CASE method = "POST" /\ path[4] \in {"persistence", "replication", "retention",
                                               "subscribeRate"}
      <4>1. Matches(RestrictedPolicyRoutes[8], method, path)
        BY <3>4, OperatorRoutes, MatchesBelow DEF POST
      <4> QED
        BY <4>1
    <3>5. CASE method = "POST" /\ path[4] = "permissions" /\ Len(path) >= 5
      <4>1. "POST" \in POST \cup DELETE /\ path[4] \in {"permissions"}
        BY <3>5 DEF POST
      <4>2. Matches(RestrictedPolicyRoutes[7], method, path)
        BY <3>5, <4>1, OperatorRoutes, MatchesBelow
      <4> QED
        BY <4>2
    <3> QED
      BY <2>1, <3>1, <3>2, <3>3, <3>4, <3>5 DEF OperatorPolicies
  <2>3. PICK i \in 1..9 : Matches(RestrictedPolicyRoutes[i], method, path)
    BY <2>2
  <2>4. Routes[15 + i] = RestrictedPolicyRoutes[i] /\ 15 + i \in 1..27
    <3>1. Routes[15 + i] = RestrictedPolicyRoutes[i]
      BY TableIndices
    <3>2. 15 + i \in 1..27
      OBVIOUS
    <3> QED
      BY <3>1, <3>2
  <2>5. Matches(Routes[15 + i], method, path)
    BY <2>3, <2>4
  <2> DEFINE k == 15 + i
  <2>6. k \in 1..27 /\ Matches(Routes[k], method, path)
    BY <2>4, <2>5
  <2> HIDE DEF k
  <2> QED
    BY <2>6
<1> QED
  BY <1>1, <1>2

\* What an authentication leaves open, the route has to close.
Closed(auth, method, path) ==
  /\ auth \in Auths
  /\ auth = "NoAuth" => path[1] \in {"liveness", "metrics"}
  /\ auth = "AuthVerifyJWT" =>
       method = "GET" /\ OpenToAll(path)
  /\ auth = "AuthVerifyTenantJWT" =>
       path[1] \in TenantResources /\ Len(path) >= 2 /\ ~OperatorOnly(method, path)

LEMMA MatchedWord ==
  ASSUME NEW route, NEW method, NEW path, Matches(route, method, path), Len(path) \in Nat,
         NEW n \in Nat, Len(route.pattern) = n, NEW i \in 1..n, route.pattern[i] # {}
  PROVE  path[i] \in route.pattern[i] /\ Len(path) >= n /\ method \in route.methods
BY DEF Matches

LEMMA MatchedLength ==
  ASSUME NEW route, NEW method, NEW path, Matches(route, method, path), Len(path) \in Nat,
         NEW n \in Nat, Len(route.pattern) = n
  PROVE  Len(path) >= n /\ method \in route.methods /\ (route.exact => Len(path) = n)
BY DEF Matches

LEMMA Lengths ==
  /\ \A n \in {2, 3, 4, 5} : n \in Nat /\ n >= 2 /\ 1 \in 1..n
  /\ \A n \in Nat : n >= 1 /\ (~(n >= 2) \/ n < 2) => n = 1
  /\ \A m, n \in Nat : m >= n /\ n >= 2 => m >= 2
OBVIOUS

LEMMA OwnClosed ==
  ASSUME NEW method, NEW path, Len(path) \in Nat, NEW i \in 1..12,
         Matches(OwnRoutes[i], method, path)
  PROVE  Closed(OwnRoutes[i].auth, method, path)
<1> DEFINE route == OwnRoutes[i]
<1>1. route.auth \in Auths
  BY OwnAuth
<1>2. ASSUME route.auth = "NoAuth" PROVE path[1] \in {"liveness", "metrics"}
  <2>1. route.pattern[1] = {"liveness", "metrics"} /\ Len(route.pattern) = 1
    BY <1>2, OwnAuth
  <2>2. 1 \in 1..1 /\ 1 \in Nat /\ route.pattern[1] # {}
    BY <2>1
  <2> QED
    BY <2>1, <2>2, MatchedWord
<1>3. ASSUME route.auth = "AuthVerifyJWT"
      PROVE  method = "GET" /\ OpenToAll(path)
  <2>1. /\ route.pattern[1] = {"pulsarmetrics"} /\ Len(route.pattern) = 1
        /\ route.exact /\ route.methods = {"GET"}
    BY <1>3, OwnAuth
  <2>2. 1 \in 1..1 /\ 1 \in Nat /\ route.pattern[1] # {}
    BY <2>1
  <2>3. path[1] \in {"pulsarmetrics"} /\ method \in {"GET"} /\ Len(path) = 1
    BY <2>1, <2>2, MatchedWord, MatchedLength
  <2> QED
    BY <2>3 DEF OpenToAll
<1>4. ASSUME route.auth = "AuthVerifyTenantJWT"
      PROVE  path[1] \in TenantResources /\ Len(path) >= 2 /\ ~OperatorOnly(method, path)
  <2>1. /\ WordsWithin(route.pattern[1], TenantResources)
        /\ Len(route.pattern) \in {2, 4, 5} /\ route.methods = {"GET"}
    BY <1>4, OwnAuth
  <2>2. PICK n \in Nat : n = Len(route.pattern) /\ n >= 2 /\ 1 \in 1..n
    BY <2>1, Lengths
  <2>3. path[1] \in route.pattern[1] /\ Len(path) >= n /\ method \in {"GET"}
    BY <2>1, <2>2, MatchedWord DEF WordsWithin
  <2>4. Len(path) >= 2
    BY <2>2, <2>3, Lengths
  <2> QED
    BY <2>1, <2>3, <2>4 DEF WordsWithin, OperatorOnly
<1> QED
  BY <1>1, <1>2, <1>3, <1>4 DEF Closed

LEMMA SuperClosed ==
  ASSUME NEW route, route.auth = "SuperRoleRequired", NEW method, NEW path
  PROVE  Closed(route.auth, method, path)
BY DEF Closed, Auths

LEMMA RestrictedPolicyClosed ==
  ASSUME NEW method, NEW path, Len(path) \in Nat, NEW i \in 1..9,
         Matches(RestrictedPolicyRoutes[i], method, path)
  PROVE  Closed(RestrictedPolicyRoutes[i].auth, method, path)
<1> DEFINE route == RestrictedPolicyRoutes[i]
<1>1. route.auth \in {"SuperRoleRequired", "AuthVerifyTenantJWT"}
  BY RestrictedPolicyAuth
<1>2. CASE route.auth = "AuthVerifyTenantJWT"
  <2>1. /\ route.pattern[1] = {"namespaces"} /\ Len(route.pattern) = 4
        /\ route.pattern[4] # {} /\ route.pattern[4] \cap PolicyWords = {}
        /\ "DELETE" \notin route.methods
    BY <1>2, RestrictedPolicyAuth
  <2>2. 1 \in 1..4 /\ 4 \in 1..4 /\ 4 \in Nat /\ route.pattern[1] # {}
    BY <2>1
  <2>3. path[1] = "namespaces" /\ method # "DELETE"
    <3>1. path[1] \in {"namespaces"} /\ method \in route.methods
      BY <2>1, <2>2, MatchedWord
    <3> QED
      BY <2>1, <3>1
  <2>4. path[1] = "namespaces" /\ path[4] \notin PolicyWords /\ Len(path) >= 2
    <3>1. path[4] \in route.pattern[4] /\ Len(path) >= 4
      BY <2>1, <2>2, MatchedWord
    <3> QED
      BY <2>1, <2>3, <3>1
  <2>5. ~OperatorOnly(method, path)
    BY <2>3, <2>4 DEF OperatorOnly, PolicyWords
  <2>6. path[1] \in TenantResources
    BY <2>4 DEF TenantResources
  <2> QED
    BY <1>2, <2>4, <2>5, <2>6 DEF Closed, Auths
<1> QED
  BY <1>1, <1>2, SuperClosed

\* The routes of namespaces come after those that are left to operators.
LEMMA NamespaceClosed ==
  ASSUME NEW method, NEW path, Len(path) \in Nat, NEW i \in 1..9,
         Matches(NamespaceRoutes[i], method, path),
         \A j \in 1..27 : ~Matches(Routes[j], method, path)
  PROVE  Closed(NamespaceRoutes[i].auth, method, path)
<1> DEFINE route == NamespaceRoutes[i]
<1>1. route.auth \in {"SuperRoleRequired", "AuthVerifyTenantJWT"}
  BY NamespaceAuth
<1>2. CASE route.auth = "AuthVerifyTenantJWT"
  <2>1. route.pattern[1] = {"namespaces"} /\ Len(route.pattern) \in {2, 3, 4}
    BY <1>2, NamespaceAuth
  <2>2. PICK n \in Nat : n = Len(route.pattern) /\ n >= 2 /\ 1 \in 1..n
    BY <2>1, Lengths
  <2>3. path[1] \in {"namespaces"} /\ Len(path) >= n
    <3>1. route.pattern[1] # {}
      BY <2>1
    <3>2. Matches(route, method, path)
      OBVIOUS
    <3> HIDE DEF route
    <3>3. path[1] \in route.pattern[1] /\ Len(path) >= n
      BY <2>2, <3>1, <3>2, MatchedWord
    <3> QED
      BY <2>1, <3>3
  <2>4. path[1] = "namespaces" /\ Len(path) >= 2
    BY <2>2, <2>3, Lengths
  <2>5. ~OperatorOnly(method, path)
    <3>1. CASE Len(path) >= 4
      BY <2>4, <3>1, OperatorsFirst
    <3>2. CASE ~(Len(path) >= 4)
      BY <2>4, <3>2 DEF OperatorOnly
    <3> QED
      BY <3>1, <3>2
  <2>6. path[1] \in TenantResources
    BY <2>4 DEF TenantResources
  <2> QED
    BY <1>2, <2>4, <2>5, <2>6 DEF Closed, Auths
<1> QED
  BY <1>1, <1>2, SuperClosed

LEMMA PlainClosed ==
  ASSUME NEW method, NEW path, path[1] \in PlainResources
  PROVE  path[1] \in TenantResources /\ ~OperatorOnly(method, path)
BY DEF PlainResources, OperatorOnly

LEMMA TopicClosed ==
  ASSUME NEW method, NEW path, Len(path) \in Nat, NEW i \in 1..6,
         Matches(TopicRoutes[i], method, path), i > 4 => ~Matches(TopicRoutes[4], method, path)
  PROVE  Closed(TopicRoutes[i].auth, method, path)
<1> DEFINE route == TopicRoutes[i]
<1>1. route.auth \in Auths \ {"NoAuth"}
  BY TopicAuth
<1>2. ASSUME route.auth = "AuthVerifyJWT"
      PROVE  method = "GET" /\ OpenToAll(path)
  <2>1. i = 5
    BY <1>2, TopicAuth
  <2>2. route.pattern = <<{"tenants"}>> /\ route.methods = {"GET"}
    BY <2>1, TopicAuth DEF Prefix, GET
  <2>3. Len(route.pattern) = 1 /\ route.pattern[1] = {"tenants"} /\ 1 \in 1..1 /\ 1 \in Nat
    BY <2>2
  <2>4. path[1] = "tenants" /\ Len(path) >= 1 /\ method = "GET"
    <3>1. path[1] \in {"tenants"} /\ Len(path) >= 1 /\ method \in {"GET"}
      BY <2>2, <2>3, MatchedWord
    <3> QED
      BY <3>1
  <2>5. ASSUME Len(path) >= 2 PROVE FALSE
    <3> DEFINE p == <<{"tenants"}, {}>>
    <3>1. Len(p) = 2 /\ \A j \in 1..2 : p[j] = {} \/ path[j] \in p[j]
      BY <2>4
    <3>2. TopicRoutes[4].pattern = p /\ "GET" \in TopicRoutes[4].methods /\ ~TopicRoutes[4].exact
      BY TopicAuth DEF Prefix, GET
    <3> HIDE DEF p
    <3>3. Matches(TopicRoutes[4], method, path)
      BY <2>4, <2>5, <3>1, <3>2 DEF Matches
    <3> QED
      BY <2>1, <3>3
  <2>6. Len(path) = 1
    BY <2>4, <2>5, Lengths
  <2> QED
    BY <2>4, <2>6 DEF OpenToAll
<1>3. ASSUME route.auth = "AuthVerifyTenantJWT"
      PROVE  path[1] \in TenantResources /\ Len(path) >= 2 /\ ~OperatorOnly(method, path)
  <2>1. /\ \/ WordsWithin(route.pattern[1], PlainResources)
           \/ route.pattern[1] = {"tenants"} /\ route.methods = {"GET"}
        /\ Len(route.pattern) \in {2, 3}
    BY <1>3, TopicAuth
  <2>2. PICK n \in Nat : n = Len(route.pattern) /\ n >= 2 /\ 1 \in 1..n
    BY <2>1, Lengths
  <2>3. route.pattern[1] # {}
    BY <2>1 DEF WordsWithin
  <2>4. path[1] \in route.pattern[1] /\ Len(path) >= n /\ method \in route.methods
    BY <2>2, <2>3, MatchedWord
  <2>5. Len(path) >= 2
    BY <2>2, <2>4, Lengths
  <2>6. CASE WordsWithin(route.pattern[1], PlainResources)
    <3>1. path[1] \in PlainResources
      BY <2>4, <2>6 DEF WordsWithin
    <3> QED
      BY <2>5, <3>1, PlainClosed
  <2>7. CASE route.pattern[1] = {"tenants"} /\ route.methods = {"GET"}
    <3>1. path[1] = "tenants" /\ method = "GET"
      BY <2>4, <2>7
    <3> QED
      BY <2>5, <3>1 DEF OperatorOnly, TenantResources
  <2> QED
    BY <2>1, <2>6, <2>7
<1> QED
  BY <1>1, <1>2, <1>3 DEF Closed

LEMMA FunctionClosed ==
  ASSUME NEW method, NEW path, Len(path) \in Nat, NEW i \in 1..4,
         Matches(FunctionRoutes[i], method, path)
  PROVE  Closed(FunctionRoutes[i].auth, method, path)
<1> DEFINE route == FunctionRoutes[i]
<1>1. route.auth \in Auths \ {"NoAuth"}
  BY FunctionAuth
<1>2. ASSUME route.auth = "AuthVerifyJWT"
      PROVE  method = "GET" /\ OpenToAll(path)
  <2>1. i = 2
    BY <1>2, FunctionAuth
  <2> DEFINE p == <<{"sources", "sinks"}, {"builtin"}>>
  <2>2. route.pattern = p /\ route.methods = {"GET"}
    BY <2>1, FunctionAuth DEF Prefix, GET
  <2>3. Len(p) = 2 /\ p[1] = {"sources", "sinks"} /\ p[2] = {"builtin"}
    OBVIOUS
  <2> HIDE DEF p
  <2>4. 1 \in 1..2 /\ 2 \in 1..2 /\ 2 \in Nat
    OBVIOUS
  <2>5. /\ path[1] \in {"sources", "sinks"} /\ path[2] \in {"builtin"} /\ method \in {"GET"}
        /\ Len(path) >= 2
    BY <2>2, <2>3, <2>4, MatchedWord
  <2> QED
    BY <2>5 DEF OpenToAll
<1>3. ASSUME route.auth = "AuthVerifyTenantJWT"
      PROVE  path[1] \in TenantResources /\ Len(path) >= 2 /\ ~OperatorOnly(method, path)
  <2>1. WordsWithin(route.pattern[1], PlainResources) /\ Len(route.pattern) = 2
    BY <1>3, FunctionAuth
  <2>2. 1 \in 1..2 /\ 2 \in Nat /\ route.pattern[1] # {}
    BY <2>1 DEF WordsWithin
  <2>3. path[1] \in route.pattern[1] /\ Len(path) >= 2
    BY <2>1, <2>2, MatchedWord
  <2>4. path[1] \in PlainResources
    BY <2>1, <2>3 DEF WordsWithin
  <2> QED
    BY <2>3, <2>4, PlainClosed
<1> QED
  BY <1>1, <1>2, <1>3 DEF Closed

\* The first route that matches closes what its authentication leaves open.
LEMMA RouteClosed ==
  ASSUME NEW method, NEW path, Len(path) \in Nat, HasRoute(method, path)
  PROVE  Closed(RouteOf(method, path).auth, method, path)
<1>0. PICK k \in 1..46 : /\ RouteOf(method, path) = Routes[k] /\ Matches(Routes[k], method, path)
                         /\ \A j \in 1..(k - 1) : ~Matches(Routes[j], method, path)
  BY RouteOfMatches
<1>1. CASE k \in 1..12
  <2>1. Routes[k] = OwnRoutes[k]
    BY <1>1, TableIndices
  <2> QED
    BY <1>0, <1>1, <2>1, OwnClosed
<1>2. CASE k \in 13..15
  <2>1. PICK i \in 1..3 : k = 12 + i
    <3>1. k - 12 \in 1..3 /\ k = 12 + (k - 12)
      BY <1>2
    <3> QED
      BY <3>1
  <2>2. Routes[k] = ClusterRoutes[i]
    BY <2>1, TableIndices
  <2> QED
    BY <1>0, <2>2, SuperAuth, SuperClosed
<1>3. CASE k \in 16..24
  <2>1. PICK i \in 1..9 : k = 15 + i
    <3>1. k - 15 \in 1..9 /\ k = 15 + (k - 15)
      BY <1>3
    <3> QED
      BY <3>1
  <2>2. Routes[k] = RestrictedPolicyRoutes[i]
    BY <2>1, TableIndices
  <2> QED
    BY <1>0, <2>2, RestrictedPolicyClosed
<1>4. CASE k \in 25..27
  <2>1. PICK i \in 1..3 : k = 24 + i
    <3>1. k - 24 \in 1..3 /\ k = 24 + (k - 24)
      BY <1>4
    <3> QED
      BY <3>1
  <2>2. Routes[k] = BundleRoutes[i]
    BY <2>1, TableIndices
  <2> QED
    BY <1>0, <2>2, SuperAuth, SuperClosed
<1>5. CASE k \in 28..36
  <2>1. PICK i \in 1..9 : k = 27 + i
    <3>1. k - 27 \in 1..9 /\ k = 27 + (k - 27)
      BY <1>5
    <3> QED
      BY <3>1
  <2>2. Routes[k] = NamespaceRoutes[i]
    BY <2>1, TableIndices
  <2>3. \A j \in 1..27 : j \in 1..(k - 1)
    BY <1>5
  <2> QED
    BY <1>0, <2>2, <2>3, NamespaceClosed
<1>6. CASE k \in 37..42
  <2>1. PICK i \in 1..6 : k = 36 + i
    <3>1. k - 36 \in 1..6 /\ k = 36 + (k - 36)
      BY <1>6
    <3> QED
      BY <3>1
  <2>2. Routes[k] = TopicRoutes[i]
    BY <2>1, TableIndices
  <2>3. ASSUME i > 4 PROVE ~Matches(TopicRoutes[4], method, path)
    <3>1. 36 + 4 \in 1..(k - 1) /\ 4 \in 1..6
      BY <2>1, <2>3
    <3>2. Routes[36 + 4] = TopicRoutes[4]
      BY <3>1, TableIndices
    <3> QED
      BY <1>0, <3>1, <3>2
  <2> QED
    BY <1>0, <2>2, <2>3, TopicClosed
<1>7. CASE k \in 43..46
  <2>1. PICK i \in 1..4 : k = 42 + i
    <3>1. k - 42 \in 1..4 /\ k = 42 + (k - 42)
      BY <1>7
    <3> QED
      BY <3>1
  <2>2. Routes[k] = FunctionRoutes[i]
    BY <2>1, TableIndices
  <2> QED
    BY <1>0, <2>2, FunctionClosed
<1> QED
  BY <1>1, <1>2, <1>3, <1>4, <1>5, <1>6, <1>7

\* The subjects that VerifySubject matches with a tenant are the tenant's own.
LEMMA SubjectsBelong ==
  ASSUME NEW sub \in Seq(STRING), sub # NoSubject, NEW t \in DOMAIN WordsOf,
         VerifySubject(WordsOf[t], sub), sub \notin SuperRoles
  PROVE  BelongsTo(sub, t)
<1> DEFINE n == Len(sub)
           w == WordsOf[t]
<1>1. n \in Nat /\ n >= 1
  BY EmptySeq DEF NoSubject
<1>2. PICK i \in 1..2 : w = ExtractTenant(sub)[i]
  BY DEF VerifySubject
<1>3. CASE n < 2
  <2>1. n = 1
    BY <1>1, <1>3, Lengths
  <2>2. ExtractTenant(sub) = <<sub, sub>>
    BY <2>1 DEF ExtractTenant
  <2>3. w = sub
    BY <1>2, <2>2
  <2> QED
    BY <2>1, <2>3 DEF BelongsTo
<1>4. CASE n >= 2
  <2>1. \/ w = SubSeq(sub, 1, n - 1)
        \/ w = SubSeq(sub, 1, n - 2) /\ sub[n - 1] \in {"client", "admin"}
    BY <1>2, <1>4 DEF ExtractTenant
  <2>2. \A m \in 1..n : sub[m] \in STRING
    BY ElementOfSeq
  <2>3. CASE w = SubSeq(sub, 1, n - 1)
    <3>1. \A m \in 1..(n - 1) : sub[m] \in STRING
      BY <1>1, <2>2
    <3>2. n - 1 \in Int /\ 1 <= n - 1 /\ (n - 1) - 1 + 1 = n - 1
      BY <1>1, <1>4
    <3>3. Len(w) = n - 1
      BY <2>3, <3>1, <3>2, SubSeqProperties
    <3>4. 1 \in 1..2 /\ n = Len(w) + 1 /\ SubSeq(sub, 1, Len(w)) = w /\ (1 = 2 => FALSE)
      BY <1>1, <2>3, <3>3
    <3> QED
      BY <3>4 DEF BelongsTo
  <2>4. CASE w = SubSeq(sub, 1, n - 2) /\ sub[n - 1] \in {"client", "admin"}
    <3>1. \A m \in 1..(n - 2) : sub[m] \in STRING
      BY <1>1, <2>2
    <3>2. n - 2 \in Int /\ 0 <= n - 2
      BY <1>1, <1>4
    <3>3. Len(w) = n - 2
      <4>1. Len(SubSeq(sub, 1, n - 2)) = IF 1 <= n - 2 THEN (n - 2) - 1 + 1 ELSE 0
        BY <3>1, <3>2, SubSeqProperties
      <4>2. \A m \in Nat : m >= 2 => (IF 1 <= m - 2 THEN (m - 2) - 1 + 1 ELSE 0) = m - 2
        OBVIOUS
      <4> QED
        BY <1>1, <1>4, <2>4, <4>1, <4>2
    <3>4. 2 \in 1..2 /\ n = Len(w) + 2 /\ SubSeq(sub, 1, Len(w)) = w
      BY <1>1, <2>4, <3>3
    <3> QED
      BY <2>4, <3>4 DEF BelongsTo
  <2> QED
    BY <2>1, <2>3, <2>4
<1> QED
  BY <1>1, <1>3, <1>4

\* Whoever is authenticated for a route is permitted what it opens.
LEMMA AuthPermits ==
  ASSUME NEW route, NEW method, NEW path, Closed(route.auth, method, path),
         NEW sub \in Seq(STRING), Authenticated(route, path, sub),
         route.auth = "AuthVerifyTenantJWT" => path[2] \in DOMAIN WordsOf
  PROVE  Permitted(method, path, sub)
<1>1. CASE ~PulsarJWTEnabled \/ sub \in SuperRoles
  BY <1>1 DEF Permitted
<1>2. CASE PulsarJWTEnabled /\ sub \notin SuperRoles
  <2>1. CASE route.auth = "NoAuth"
    BY <2>1 DEF Closed, Permitted
  <2>2. CASE route.auth = "AuthVerifyJWT"
    <3>1. sub # NoSubject
      BY <1>2, <2>2 DEF Authenticated
    <3> QED
      BY <2>2, <3>1 DEF Closed, Permitted
  <2>3. CASE route.auth = "AuthVerifyTenantJWT"
    <3>1. sub # NoSubject /\ VerifySubject(WordsOf[path[2]], sub)
      BY <1>2, <2>3 DEF Authenticated
    <3>2. BelongsTo(sub, path[2])
      BY <1>2, <2>3, <3>1, SubjectsBelong
    <3> QED
      BY <2>3, <3>1, <3>2 DEF Closed, Permitted
  <2>4. CASE route.auth = "SuperRoleRequired"
    <3>1. sub \in SuperRoles
      BY <1>2, <2>4 DEF Authenticated
    <3> QED
      BY <1>2, <3>1
  <2> QED
    BY <2>1, <2>2, <2>3, <2>4 DEF Closed, Auths
<1> QED
  BY <1>1, <1>2

\* The states of a request in which it has to be permitted.
Claims(e) ==
  \/ e.stage \in {"planning", "evaluating", "granted"}
  \/ e.stage = "answered" /\ e.status = 200

LEMMA PermittedKept ==
  ASSUME TypeInv, OnlyPermitted, NEW h \in Handlers, NEW e, req' = [req EXCEPT ![h] = e],
         Claims(e) => Permitted(e.method, e.path, e.sub)
  PROVE  OnlyPermitted'
<1> SUFFICES ASSUME NEW g \in Handlers, Claims(req'[g])
             PROVE  Permitted(req'[g].method, req'[g].path, req'[g].sub)
  BY DEF OnlyPermitted, Claims
<1>1. CASE g = h
  <2>1. req'[g] = e
    BY <1>1 DEF TypeInv, TypeOK
  <2> QED
    BY <2>1
<1>2. CASE g # h
  <2>1. req'[g] = req[g]
    BY <1>2 DEF TypeInv, TypeOK
  <2> QED
    BY <2>1 DEF OnlyPermitted, Claims
<1> QED
  BY <1>1, <1>2

LEMMA ArrivePermitted ==
  ASSUME TypeInv, OnlyPermitted, NEW h \in Handlers, NEW r \in Requests,
         NEW sub \in Subjects, NEW header, Arrive(h, r, sub, header)
  PROVE  OnlyPermitted'
<1>1. CASE Answer(h, r, sub, 404) \/ Answer(h, r, sub, 401)
  <2>1. PICK status \in {404, 401} : req' = [req EXCEPT ![h] = Request("answered", r, sub, 0, status)]
    BY <1>1 DEF Answer
  <2> DEFINE e == Request("answered", r, sub, 0, status)
  <2>2. ~Claims(e)
    BY DEF Request, Claims
  <2>3. req' = [req EXCEPT ![h] = e]
    BY <2>1
  <2> HIDE DEF e
  <2> QED
    BY <2>2, <2>3, PermittedKept
<1>2. CASE HasRoute(r[1], r[2]) /\ Authenticated(RouteOf(r[1], r[2]), r[2], sub)
  <2> DEFINE route == RouteOf(r[1], r[2])
  <2>1. Len(r[2]) \in Nat /\ sub \in Seq(STRING)
    BY AdminAssumption, LenProperties
  <2>2. Closed(route.auth, r[1], r[2])
    BY <1>2, <2>1, RouteClosed
  <2>3. route.auth = "AuthVerifyTenantJWT" => r[2][2] \in DOMAIN WordsOf
    BY <1>2, AdminAssumption
  <2>4. Authenticated(route, r[2], sub)
    BY <1>2
  <2> HIDE DEF route
  <2>5. Permitted(r[1], r[2], sub)
    BY <2>1, <2>2, <2>3, <2>4, AuthPermits
  <2>6. Outcome(h, r, sub)
    BY ArriveOutcome DEF TypeInv
  <2>7. PICK stage \in Stages, limit \in Limits \cup {0}, status \in Statuses :
          req' = [req EXCEPT ![h] = Request(stage, r, sub, limit, status)]
    BY <2>6 DEF Outcome
  <2> DEFINE e == Request(stage, r, sub, limit, status)
  <2>8. e.method = r[1] /\ e.path = r[2] /\ e.sub = sub
    BY DEF Request
  <2>9. req' = [req EXCEPT ![h] = e]
    BY <2>7
  <2> HIDE DEF e
  <2> QED
    BY <2>5, <2>8, <2>9, PermittedKept
<1> QED
  BY <1>1, <1>2, ArriveCases

LEMMA CreateFreePlanPermitted ==
  ASSUME TypeInv, OnlyPermitted, NEW h \in Handlers, CreateFreePlan(h)
  PROVE  OnlyPermitted'
<1> DEFINE e == [req[h] EXCEPT !.stage = "evaluating", !.limit = NumOfNamespaces[FreeTier]]
<1>1. req[h] \in InProgress
  BY BusyRequest DEF CreateFreePlan, TypeInv
<1>2. e.method = req[h].method /\ e.path = req[h].path /\ e.sub = req[h].sub
  BY <1>1 DEF InProgress
<1>3. req' = [req EXCEPT ![h] = e]
  BY DEF CreateFreePlan, TypeInv, TypeOK
<1> HIDE DEF e
<1>4. Permitted(req[h].method, req[h].path, req[h].sub)
  BY DEF CreateFreePlan, OnlyPermitted
<1> QED
  BY <1>2, <1>3, <1>4, PermittedKept

LEMMA EvaluatePermitted ==
  ASSUME TypeInv, OnlyPermitted, NEW h \in Handlers, Evaluate(h)
  PROVE  OnlyPermitted'
<1> DEFINE r == <<req[h].method, req[h].path>>
<1>1. Permitted(req[h].method, req[h].path, req[h].sub)
  BY DEF Evaluate, OnlyPermitted
<1>2. Outcome(h, r, req[h].sub)
  BY EvaluateOutcome
<1>3. r[1] = req[h].method /\ r[2] = req[h].path
  OBVIOUS
<1> HIDE DEF r
<1>4. PICK stage \in Stages, limit \in Limits \cup {0}, status \in Statuses :
        req' = [req EXCEPT ![h] = Request(stage, r, req[h].sub, limit, status)]
  BY <1>2 DEF Outcome
<1> DEFINE e == Request(stage, r, req[h].sub, limit, status)
<1>5. e.method = r[1] /\ e.path = r[2] /\ e.sub = req[h].sub
  BY DEF Request
<1>6. req' = [req EXCEPT ![h] = e]
  BY <1>4
<1> HIDE DEF e
<1> QED
  BY <1>1, <1>3, <1>5, <1>6, PermittedKept

LEMMA PermittedStep ==
  TypeInv /\ OnlyPermitted /\ [Next]_vars => OnlyPermitted'
<1> SUFFICES ASSUME TypeInv, OnlyPermitted, [Next]_vars PROVE OnlyPermitted'
  OBVIOUS
<1>1. ASSUME NEW h \in Handlers, NEW r \in Requests, NEW sub \in Subjects,
             NEW header \in Subjects, Arrive(h, r, sub, header)
      PROVE  OnlyPermitted'
  BY <1>1, ArrivePermitted
<1>2. ASSUME NEW h \in Handlers, CreateFreePlan(h) PROVE OnlyPermitted'
  BY <1>2, CreateFreePlanPermitted
<1>3. ASSUME NEW h \in Handlers, Evaluate(h) PROVE OnlyPermitted'
  BY <1>3, EvaluatePermitted
<1>4. ASSUME NEW h \in Handlers, Forward(h) \/ Finish(h) PROVE OnlyPermitted'
  <2>1. ~Claims(Idle)
    BY DEF Idle, Claims
  <2>2. req' = [req EXCEPT ![h] = Idle]
    BY <1>4 DEF Forward, Finish
  <2> QED
    BY <2>1, <2>2, PermittedKept
<1>5. CASE UNCHANGED req
  BY <1>5 DEF OnlyPermitted
<1>6. ASSUME NEW t \in Tenants, ChangePlan(t) \/ CountFunction(t) PROVE OnlyPermitted'
  BY <1>5, <1>6 DEF ChangePlan, CountFunction
<1> QED
  BY <1>1, <1>2, <1>3, <1>4, <1>5, <1>6 DEF Next, HandlerNext, vars

\* Nothing gets to Pulsar, or is answered with success by Burnell, that is not
\* permitted to the subject of the token: whatever the order of the 46 routes of
\* NewRouter makes of a method and a path, their authentication and the words of a
\* subject's and a tenant's name taken together, for any requests, methods,
\* headers, tenants and subjects, without a condition.
THEOREM RoutesPermit == Spec => []OnlyPermitted
<1>1. Init => TypeInv /\ OnlyPermitted
  BY TypeInit DEF Init, OnlyPermitted, Idle
<1>2. TypeInv /\ OnlyPermitted /\ [Next]_vars => TypeInv' /\ OnlyPermitted'
  BY TypeStep, PermittedStep
<1> QED
  BY <1>1, <1>2, PTL DEF Spec

-----------------------------------------------------------------------------
(* Reads: the converse.  No route closes to a subject what he may read.     *)

\* The resources of which nothing is open to all, and what is the cluster's.
GuardedWords == TenantResources \ {"tenants", "sources", "sinks"}
ClusterWords == {"subject", "tenantsusage", "bookies", "brokers", "broker-stats", "clusters",
                 "resource-quotas"}

\* What a read is left to by its route: an authentication that asks for no more
\* than the subject has to be, and a handler that does not refuse it.
LeftOpen(auth, handler, path) ==
  /\ auth \in Auths
  /\ auth # "NoAuth" => path[1] \notin {"liveness", "metrics"}
  /\ auth \in {"AuthVerifyTenantJWT", "SuperRoleRequired"} => ~OpenToAll(path)
  /\ auth = "SuperRoleRequired" => path[1] \notin TenantResources \/ ~(Len(path) >= 2)
  /\ handler # "NamespacePolicy"
  /\ handler = "RestrictedTenants" => auth = "AuthVerifyJWT"

LEMMA TenantLeftOpen ==
  ASSUME NEW path, path[1] \in GuardedWords,
         NEW handler \in {"Own", "Direct", "DirectFunction", "TopicProxy", "NamespaceLimitEnforce"}
  PROVE  LeftOpen("AuthVerifyTenantJWT", handler, path)
BY DEF LeftOpen, GuardedWords, TenantResources, OpenToAll, Auths

LEMMA ClusterLeftOpen ==
  ASSUME NEW path, path[1] \in ClusterWords, NEW handler \in {"Own", "Direct"}
  PROVE  LeftOpen("SuperRoleRequired", handler, path)
BY DEF LeftOpen, ClusterWords, TenantResources, OpenToAll, Auths

LEMMA OwnReads ==
  ASSUME NEW path, Len(path) \in Nat, NEW i \in 1..12, Matches(OwnRoutes[i], "GET", path)
  PROVE  LeftOpen(OwnRoutes[i].auth, OwnRoutes[i].handler, path)
<1> DEFINE route == OwnRoutes[i]
<1>1. route.handler = "Own" /\ route.auth \in Auths
  BY OwnTable, OwnAuth
<1>2. CASE route.auth = "NoAuth"
  BY <1>1, <1>2 DEF LeftOpen
<1>3. CASE route.auth = "AuthVerifyJWT"
  <2>1. route.pattern[1] = {"pulsarmetrics"} /\ Len(route.pattern) = 1
    BY <1>3, OwnAuth
  <2>2. 1 \in 1..1 /\ 1 \in Nat /\ route.pattern[1] # {}
    BY <2>1
  <2>3. path[1] \in {"pulsarmetrics"}
    BY <2>1, <2>2, MatchedWord
  <2> QED
    BY <1>1, <1>3, <2>3 DEF LeftOpen
<1>4. CASE route.auth = "AuthVerifyTenantJWT"
  <2>1. i \in {4, 7, 9, 10, 11, 12}
    <3>1. \A j \in 1..12 : OwnRoutes[j].auth = "AuthVerifyTenantJWT" => j \in {4, 7, 9, 10, 11, 12}
      BY DEF OwnRoutes, Path, Prefix
    <3> QED
      BY <1>4, <3>1
  <2>2. WordsWithin(route.pattern[1], GuardedWords)
    <3>1. /\ OwnRoutes[4].pattern[1] = {"namespacesusage"} /\ OwnRoutes[7].pattern[1] = {"tenant"}
          /\ OwnRoutes[9].pattern[1] = {"stats-topics"}
          /\ OwnRoutes[10].pattern[1] = {"function-logs", "function-status"}
          /\ OwnRoutes[11].pattern[1] = {"function-logs"} /\ OwnRoutes[12].pattern[1] = {"topics"}
      BY DEF OwnRoutes, Path, Prefix
    <3>2. {"namespacesusage", "tenant", "stats-topics", "function-logs", "function-status", "topics"}
            \subseteq GuardedWords
      BY DEF GuardedWords, TenantResources
    <3> QED
      BY <2>1, <3>1, <3>2 DEF WordsWithin
  <2>3. PICK n \in Nat : n = Len(route.pattern) /\ n >= 2 /\ 1 \in 1..n
    <3>1. Len(route.pattern) \in {2, 4, 5}
      BY <1>4, OwnAuth
    <3> QED
      BY <3>1, Lengths
  <2>4. path[1] \in route.pattern[1]
    BY <2>2, <2>3, MatchedWord DEF WordsWithin
  <2>5. path[1] \in GuardedWords
    BY <2>2, <2>4 DEF WordsWithin
  <2> QED
    BY <1>1, <1>4, <2>5, TenantLeftOpen
<1>5. CASE route.auth = "SuperRoleRequired"
  <2>1. i \in {2, 3, 5, 8}
    <3>1. \A j \in 1..12 : OwnRoutes[j].auth = "SuperRoleRequired" => j \in {2, 3, 5, 8}
      BY DEF OwnRoutes, Path, Prefix
    <3> QED
      BY <1>5, <3>1
  <2>2. i # 8
    <3>1. OwnRoutes[8].methods = DELETE \cup POST
      BY DEF OwnRoutes, Path, Prefix
    <3> QED
      BY <3>1 DEF Matches, DELETE, POST
  <2>3. CASE i \in {2, 3}
    <3>1. /\ OwnRoutes[2].pattern[1] = {"subject"} /\ OwnRoutes[3].pattern[1] = {"tenantsusage"}
          /\ Len(OwnRoutes[2].pattern) = 2 /\ Len(OwnRoutes[3].pattern) = 1
      BY DEF OwnRoutes, Path, Prefix
    <3>2. PICK n \in Nat : n = Len(route.pattern) /\ 1 \in 1..n
      <4>1. Len(route.pattern) \in {1, 2}
        BY <2>3, <3>1
      <4>2. \A n \in {1, 2} : n \in Nat /\ 1 \in 1..n
        OBVIOUS
      <4> QED
        BY <4>1, <4>2
    <3>3. route.pattern[1] # {} /\ route.pattern[1] \subseteq {"subject", "tenantsusage"}
      BY <2>3, <3>1
    <3>4. path[1] \in route.pattern[1]
      BY <3>2, <3>3, MatchedWord
    <3>5. path[1] \in ClusterWords
      BY <3>3, <3>4 DEF ClusterWords
    <3> QED
      BY <1>1, <1>5, <3>5, ClusterLeftOpen
  <2>4. CASE i = 5
    <3>1. OwnRoutes[5].pattern[1] = {"pulsarmetrics"} /\ Len(OwnRoutes[5].pattern) = 2
      BY DEF OwnRoutes, Path, Prefix
    <3>2. 1 \in 1..2 /\ 2 \in Nat /\ route.pattern[1] # {} /\ Len(route.pattern) = 2
      BY <2>4, <3>1
    <3>3. path[1] \in {"pulsarmetrics"} /\ Len(path) >= 2
      BY <2>4, <3>1, <3>2, MatchedWord
    <3>4. path[1] = "pulsarmetrics" /\ Len(path) # 1
      <4>1. \A n \in Nat : n >= 2 => n # 1
        OBVIOUS
      <4> QED
        BY <3>3, <4>1
    <3>5. ~OpenToAll(path)
      BY <3>4 DEF OpenToAll
    <3> QED
      BY <1>1, <1>5, <3>4, <3>5 DEF LeftOpen, TenantResources
  <2> QED
    BY <2>1, <2>2, <2>3, <2>4
<1> QED
  BY <1>1, <1>2, <1>3, <1>4, <1>5 DEF Auths

LEMMA ClusterReads ==
  ASSUME NEW path, Len(path) \in Nat, NEW i \in 1..3, Matches(ClusterRoutes[i], "GET", path)
  PROVE  LeftOpen(ClusterRoutes[i].auth, ClusterRoutes[i].handler, path)
<1>1. /\ ClusterRoutes[i].handler \in {"Own", "Direct"} /\ Len(ClusterRoutes[i].pattern) = 1
      /\ ClusterRoutes[i].pattern[1] # {} /\ ClusterRoutes[i].auth = "SuperRoleRequired"
  BY ClusterTable, SuperAuth
<1>2. ClusterRoutes[i].pattern[1] \subseteq ClusterWords
  <2>1. \A j \in 1..3 : ClusterRoutes[j].pattern[1] \subseteq ClusterWords
    BY DEF ClusterRoutes, Prefix, ClusterWords
  <2> QED
    BY <2>1
<1>3. 1 \in 1..1 /\ 1 \in Nat
  OBVIOUS
<1>4. path[1] \in ClusterRoutes[i].pattern[1]
  BY <1>1, <1>3, MatchedWord
<1> QED
  BY <1>1, <1>2, <1>4, ClusterLeftOpen

\* No route below a namespace that is left to operators takes a read.
LEMMA NoPolicyReads ==
  /\ \A i \in 1..9 : "GET" \notin RestrictedPolicyRoutes[i].methods
  /\ \A i \in 1..3 : "GET" \notin BundleRoutes[i].methods
<1>1. \A i \in 1..9 : "GET" \notin RestrictedPolicyRoutes[i].methods
  BY DEF RestrictedPolicyRoutes, Prefix, PUT, POST, DELETE
<1>2. \A i \in 1..3 : "GET" \notin BundleRoutes[i].methods
  BY DEF BundleRoutes, Prefix, DELETE
<1> QED
  BY <1>1, <1>2

\* A path that names a tenant is never left to the route of all namespaces.
LEMMA NamespaceReads ==
  ASSUME NEW path, Len(path) \in Nat, NEW i \in 1..9, Matches(NamespaceRoutes[i], "GET", path),
         i > 8 => ~Matches(NamespaceRoutes[8], "GET", path)
  PROVE  LeftOpen(NamespaceRoutes[i].auth, NamespaceRoutes[i].handler, path)
<1> DEFINE route == NamespaceRoutes[i]
<1>1. route.handler \in {"Direct", "NamespaceLimitEnforce"}
  BY NamespaceTable DEF Prefix
<1>2. path[1] = "namespaces" /\ Len(path) >= 1
  <2>1. \A j \in 1..9 : /\ NamespaceRoutes[j].pattern[1] = {"namespaces"}
                        /\ Len(NamespaceRoutes[j].pattern) \in {1, 2, 3, 4}
    <3>1. \A j \in 1..9 : NamespaceRoutes[j].pattern[1] = {"namespaces"}
      BY DEF NamespaceRoutes, Prefix
    <3>2. \A j \in 1..9 : Len(NamespaceRoutes[j].pattern) \in {1, 2, 3, 4}
      BY DEF NamespaceRoutes, Prefix
    <3> QED
      BY <3>1, <3>2
  <2>2. route.pattern[1] = {"namespaces"} /\ Len(route.pattern) \in {1, 2, 3, 4}
    BY <2>1
  <2>3. PICK n \in Nat : n = Len(route.pattern) /\ n >= 1 /\ 1 \in 1..n
    <3>1. \A n \in {1, 2, 3, 4} : n \in Nat /\ n >= 1 /\ 1 \in 1..n
      OBVIOUS
    <3> QED
      BY <2>2, <3>1
  <2>4. route.pattern[1] # {} /\ Matches(route, "GET", path)
    BY <2>2
  <2> HIDE DEF route
  <2>5. path[1] \in route.pattern[1] /\ Len(path) >= n
    BY <2>3, <2>4, MatchedWord
  <2>6. path[1] = "namespaces"
    BY <2>2, <2>5
  <2>7. Len(path) >= 1
    BY <2>3, <2>5
  <2> QED
    BY <2>6, <2>7
<1>3. CASE i \in 1..8
  <2>1. route.auth = "AuthVerifyTenantJWT"
    <3>1. \A j \in 1..8 : NamespaceRoutes[j].auth = "AuthVerifyTenantJWT"
      BY DEF NamespaceRoutes, Prefix
    <3> QED
      BY <1>3, <3>1
  <2>2. path[1] \in GuardedWords
    BY <1>2 DEF GuardedWords, TenantResources
  <2> QED
    BY <1>1, <2>1, <2>2, TenantLeftOpen
<1>4. CASE i = 9
  <2>1. route.auth = "SuperRoleRequired" /\ route.handler = "Direct"
    BY <1>4 DEF NamespaceRoutes, Prefix
  <2>2. ASSUME Len(path) >= 2 PROVE FALSE
    <3> DEFINE p == <<{"namespaces"}, {}>>
    <3>1. Len(p) = 2 /\ \A j \in 1..2 : p[j] = {} \/ path[j] \in p[j]
      BY <1>2
    <3>2. NamespaceRoutes[8] = Prefix(p, GET \cup PUT \cup DELETE, "AuthVerifyTenantJWT", "Direct")
      BY DEF NamespaceRoutes
    <3> HIDE DEF p
    <3>3. /\ NamespaceRoutes[8].pattern = p /\ ~NamespaceRoutes[8].exact
          /\ "GET" \in NamespaceRoutes[8].methods
      BY <3>2 DEF Prefix, GET
    <3>4. Matches(NamespaceRoutes[8], "GET", path)
      BY <2>2, <3>1, <3>3 DEF Matches
    <3> QED
      BY <1>4, <3>4
  <2>3. ~OpenToAll(path)
    BY <1>2 DEF OpenToAll
  <2> QED
    BY <1>2, <2>1, <2>2, <2>3 DEF LeftOpen, Auths
<1> QED
  BY <1>3, <1>4

LEMMA TopicReads ==
  ASSUME NEW path, Len(path) \in Nat, NEW i \in 1..6, Matches(TopicRoutes[i], "GET", path)
  PROVE  LeftOpen(TopicRoutes[i].auth, TopicRoutes[i].handler, path)
<1> DEFINE route == TopicRoutes[i]
<1>1. i # 6
  <2>1. "GET" \notin TopicRoutes[6].methods
    BY DEF TopicRoutes, Prefix, POST, PUT, DELETE
  <2> QED
    BY <2>1 DEF Matches
<1>2. CASE i \in {1, 3}
  <2>1. /\ TopicRoutes[1].pattern[1] = {"persistent", "non-persistent"}
        /\ TopicRoutes[3].pattern[1] = {"schemas"}
        /\ TopicRoutes[1].handler = "TopicProxy" /\ TopicRoutes[3].handler = "Direct"
        /\ TopicRoutes[1].auth = "AuthVerifyTenantJWT" /\ TopicRoutes[3].auth = "AuthVerifyTenantJWT"
    BY DEF TopicRoutes, Prefix
  <2>2. PICK n \in Nat : n = Len(route.pattern) /\ n >= 2 /\ 1 \in 1..n
    <3>1. Len(TopicRoutes[1].pattern) = 3 /\ Len(TopicRoutes[3].pattern) = 2
      BY DEF TopicRoutes, Prefix
    <3>2. Len(route.pattern) \in {2, 3, 4, 5}
      BY <1>2, <3>1
    <3> QED
      BY <3>2, Lengths
  <2>3. route.pattern[1] # {} /\ route.pattern[1] \subseteq {"persistent", "non-persistent", "schemas"}
    BY <1>2, <2>1
  <2>4. path[1] \in route.pattern[1]
    BY <2>2, <2>3, MatchedWord
  <2>5. path[1] \in GuardedWords
    BY <2>3, <2>4 DEF GuardedWords, TenantResources
  <2>6. route.auth = "AuthVerifyTenantJWT" /\ route.handler \in {"TopicProxy", "Direct"}
    BY <1>2, <2>1
  <2> QED
    BY <2>5, <2>6, TenantLeftOpen
<1>3. CASE i = 2
  <2>1. TopicRoutes[2] =
          Prefix(<<{"resource-quotas"}>>, GET \cup POST \cup DELETE, "SuperRoleRequired", "Direct")
    BY DEF TopicRoutes
  <2>2. /\ route.pattern[1] = {"resource-quotas"} /\ Len(route.pattern) = 1
        /\ route.auth = "SuperRoleRequired" /\ route.handler = "Direct"
    BY <1>3, <2>1 DEF Prefix
  <2>3. route.pattern[1] # {} /\ 1 \in 1..1 /\ 1 \in Nat
    BY <2>2
  <2>4. path[1] \in {"resource-quotas"}
    BY <2>2, <2>3, MatchedWord
  <2>5. path[1] \in ClusterWords
    BY <2>4 DEF ClusterWords
  <2> QED
    BY <2>2, <2>5, ClusterLeftOpen
<1>4. CASE i = 4
  <2> DEFINE p == <<{"tenants"}, {}>>
  <2>1. Len(p) = 2 /\ p[1] = {"tenants"} /\ 1 \in 1..2 /\ 2 \in Nat
    OBVIOUS
  <2>2. route.pattern = p /\ route.auth = "AuthVerifyTenantJWT" /\ route.handler = "Direct"
    BY <1>4, TopicAuth DEF Prefix
  <2> HIDE DEF p
  <2>3. path[1] \in {"tenants"} /\ Len(path) >= 2
    BY <2>1, <2>2, MatchedWord
  <2>4. path[1] = "tenants" /\ Len(path) # 1
    <3>1. \A n \in Nat : n >= 2 => n # 1
      OBVIOUS
    <3> QED
      BY <2>3, <3>1
  <2>5. ~OpenToAll(path)
    BY <2>4 DEF OpenToAll
  <2> QED
    BY <2>2, <2>4, <2>5 DEF LeftOpen, Auths
<1>5. CASE i = 5
  <2>1. /\ route.pattern = <<{"tenants"}>> /\ route.auth = "AuthVerifyJWT"
        /\ route.handler = "RestrictedTenants"
    BY <1>5, TopicAuth DEF Prefix
  <2>2. Len(route.pattern) = 1 /\ route.pattern[1] = {"tenants"} /\ 1 \in 1..1 /\ 1 \in Nat
    BY <2>1
  <2>3. path[1] \in {"tenants"}
    BY <2>2, MatchedWord
  <2> QED
    BY <2>1, <2>3 DEF LeftOpen, Auths
<1> QED
  BY <1>1, <1>2, <1>3, <1>4, <1>5

\* The list of what is built in is looked for before the connectors of a tenant.
LEMMA FunctionReads ==
  ASSUME NEW path, Len(path) \in Nat, NEW i \in 1..4, Matches(FunctionRoutes[i], "GET", path),
         i > 2 => ~Matches(FunctionRoutes[2], "GET", path)
  PROVE  LeftOpen(FunctionRoutes[i].auth, FunctionRoutes[i].handler, path)
<1> DEFINE route == FunctionRoutes[i]
<1>1. i # 3
  <2>1. "GET" \notin FunctionRoutes[3].methods
    BY DEF FunctionRoutes, Prefix, POST
  <2> QED
    BY <2>1 DEF Matches
<1>2. route.handler = "DirectFunction" /\ Len(route.pattern) = 2
  <2>1. \A j \in 1..4 : FunctionRoutes[j].handler = "DirectFunction"
    BY DEF FunctionRoutes, Prefix
  <2>2. \A j \in 1..4 : Len(FunctionRoutes[j].pattern) = 2
    BY DEF FunctionRoutes, Prefix
  <2> QED
    BY <2>1, <2>2
<1>3. 1 \in 1..2 /\ 2 \in Nat
  OBVIOUS
<1>4. CASE i = 1
  <2>1. route.pattern[1] = {"functions"} /\ route.auth = "AuthVerifyTenantJWT"
    BY <1>4 DEF FunctionRoutes, Prefix
  <2>2. path[1] \in {"functions"}
    <3>1. route.pattern[1] # {}
      BY <2>1
    <3> QED
      BY <1>2, <1>3, <2>1, <3>1, MatchedWord
  <2>3. path[1] \in GuardedWords
    BY <2>2 DEF GuardedWords, TenantResources
  <2> QED
    BY <1>2, <2>1, <2>3, TenantLeftOpen
<1>5. CASE i \in {2, 4}
  <2>1. route.pattern[1] = {"sources", "sinks"}
    <3>1. \A j \in {2, 4} : FunctionRoutes[j].pattern[1] = {"sources", "sinks"}
      BY DEF FunctionRoutes, Prefix
    <3> QED
      BY <1>5, <3>1
  <2>2. path[1] \in {"sources", "sinks"} /\ Len(path) >= 2
    <3>1. route.pattern[1] # {}
      BY <2>1
    <3> QED
      BY <1>2, <1>3, <2>1, <3>1, MatchedWord
  <2>3. CASE i = 2
    <3>1. route.auth = "AuthVerifyJWT"
      BY <2>3, FunctionAuth DEF Prefix
    <3> QED
      BY <1>2, <2>2, <3>1 DEF LeftOpen, Auths
  <2>4. CASE i = 4
    <3>1. route.auth = "AuthVerifyTenantJWT"
      BY <2>4 DEF FunctionRoutes, Prefix
    <3>2. ASSUME path[2] = "builtin" PROVE FALSE
      <4> DEFINE p == <<{"sources", "sinks"}, {"builtin"}>>
      <4>1. Len(p) = 2 /\ \A j \in 1..2 : p[j] = {} \/ path[j] \in p[j]
        BY <2>2, <3>2
      <4>2. FunctionRoutes[2].pattern = p /\ "GET" \in FunctionRoutes[2].methods
            /\ ~FunctionRoutes[2].exact
        BY FunctionAuth DEF Prefix, GET
      <4> HIDE DEF p
      <4>3. Matches(FunctionRoutes[2], "GET", path)
        BY <2>2, <4>1, <4>2 DEF Matches
      <4> QED
        BY <2>4, <4>3
    <3>3. ~OpenToAll(path)
      BY <2>2, <3>2 DEF OpenToAll
    <3> QED
      BY <1>2, <2>2, <3>1, <3>3 DEF LeftOpen, Auths
  <2> QED
    BY <1>5, <2>3, <2>4
<1> QED
  BY <1>1, <1>4, <1>5

\* The first route that matches a read leaves it open.
LEMMA ReadLeftOpen ==
  ASSUME NEW path, Len(path) \in Nat, HasRoute("GET", path)
  PROVE  LeftOpen(RouteOf("GET", path).auth, RouteOf("GET", path).handler, path)
<1>0. PICK k \in 1..46 : /\ RouteOf("GET", path) = Routes[k] /\ Matches(Routes[k], "GET", path)
                         /\ \A j \in 1..(k - 1) : ~Matches(Routes[j], "GET", path)
  BY RouteOfMatches
<1>1. CASE k \in 1..12
  <2>1. Routes[k] = OwnRoutes[k]
    BY <1>1, TableIndices
  <2> QED
    BY <1>0, <1>1, <2>1, OwnReads
<1>2. CASE k \in 13..15
  <2>1. PICK i \in 1..3 : k = 12 + i
    <3>1. k - 12 \in 1..3 /\ k = 12 + (k - 12)
      BY <1>2
    <3> QED
      BY <3>1
  <2>2. Routes[k] = ClusterRoutes[i]
    BY <2>1, TableIndices
  <2> QED
    BY <1>0, <2>2, ClusterReads
<1>3. CASE k \in 16..24
  <2>1. PICK i \in 1..9 : k = 15 + i
    <3>1. k - 15 \in 1..9 /\ k = 15 + (k - 15)
      BY <1>3
    <3> QED
      BY <3>1
  <2>2. Routes[k] = RestrictedPolicyRoutes[i]
    BY <2>1, TableIndices
  <2> QED
    BY <1>0, <2>2, NoPolicyReads DEF Matches
<1>4. CASE k \in 25..27
  <2>1. PICK i \in 1..3 : k = 24 + i
    <3>1. k - 24 \in 1..3 /\ k = 24 + (k - 24)
      BY <1>4
    <3> QED
      BY <3>1
  <2>2. Routes[k] = BundleRoutes[i]
    BY <2>1, TableIndices
  <2> QED
    BY <1>0, <2>2, NoPolicyReads DEF Matches
<1>5. CASE k \in 28..36
  <2>1. PICK i \in 1..9 : k = 27 + i
    <3>1. k - 27 \in 1..9 /\ k = 27 + (k - 27)
      BY <1>5
    <3> QED
      BY <3>1
  <2>2. Routes[k] = NamespaceRoutes[i]
    BY <2>1, TableIndices
  <2>3. ASSUME i > 8 PROVE ~Matches(NamespaceRoutes[8], "GET", path)
    <3>1. 27 + 8 \in 1..(k - 1) /\ 8 \in 1..9
      BY <2>1, <2>3
    <3>2. Routes[27 + 8] = NamespaceRoutes[8]
      BY <3>1, TableIndices
    <3> QED
      BY <1>0, <3>1, <3>2
  <2> QED
    BY <1>0, <2>2, <2>3, NamespaceReads
<1>6. CASE k \in 37..42
  <2>1. PICK i \in 1..6 : k = 36 + i
    <3>1. k - 36 \in 1..6 /\ k = 36 + (k - 36)
      BY <1>6
    <3> QED
      BY <3>1
  <2>2. Routes[k] = TopicRoutes[i]
    BY <2>1, TableIndices
  <2> QED
    BY <1>0, <2>2, TopicReads
<1>7. CASE k \in 43..46
  <2>1. PICK i \in 1..4 : k = 42 + i
    <3>1. k - 42 \in 1..4 /\ k = 42 + (k - 42)
      BY <1>7
    <3> QED
      BY <3>1
  <2>2. Routes[k] = FunctionRoutes[i]
    BY <2>1, TableIndices
  <2>3. ASSUME i > 2 PROVE ~Matches(FunctionRoutes[2], "GET", path)
    <3>1. 42 + 2 \in 1..(k - 1) /\ 2 \in 1..4
      BY <2>1, <2>3
    <3>2. Routes[42 + 2] = FunctionRoutes[2]
      BY <3>1, TableIndices
    <3> QED
      BY <1>0, <3>1, <3>2
  <2> QED
    BY <1>0, <2>2, <2>3, FunctionReads
<1> QED
  BY <1>1, <1>2, <1>3, <1>4, <1>5, <1>6, <1>7

\* The tenant's own subjects are those that VerifySubject matches with it: the
\* converse of SubjectsBelong.
LEMMA OwnersVerified ==
  ASSUME NEW t \in DOMAIN WordsOf, NEW sub \in Seq(STRING), BelongsTo(sub, t)
  PROVE  VerifySubject(WordsOf[t], sub)
<1> DEFINE w == WordsOf[t]
           n == Len(sub)
<1>1. w \in Seq(STRING) /\ w # <<>>
  BY AdminAssumption
<1> HIDE DEF w
<1>2. Len(w) \in Nat /\ Len(w) >= 1 /\ n \in Nat
  BY <1>1, EmptySeq
<1>3. ASSUME NEW i \in 1..2, w = ExtractTenant(sub)[i] PROVE VerifySubject(w, sub)
  BY <1>3 DEF VerifySubject
<1>4. CASE sub = w /\ n = 1
  <2>1. ExtractTenant(sub) = <<sub, sub>>
    BY <1>4 DEF ExtractTenant
  <2>2. w = ExtractTenant(sub)[1] /\ 1 \in 1..2
    BY <1>4, <2>1
  <2>3. VerifySubject(w, sub)
    BY <1>3, <2>2
  <2> QED
    BY <2>3 DEF w
<1>5. CASE n = Len(w) + 1 /\ SubSeq(sub, 1, Len(w)) = w
  <2>1. n >= 2 /\ n - 1 = Len(w)
    BY <1>2, <1>5
  <2>2. ExtractTenant(sub)[1] = SubSeq(sub, 1, n - 1) /\ 1 \in 1..2
    BY <1>2, <2>1 DEF ExtractTenant
  <2>3. VerifySubject(w, sub)
    BY <1>3, <1>5, <2>1, <2>2
  <2> QED
    BY <2>3 DEF w
<1>6. CASE /\ n = Len(w) + 2 /\ SubSeq(sub, 1, Len(w)) = w
           /\ sub[n - 1] \in {"client", "admin"}
  <2>1. n >= 2 /\ n - 2 = Len(w)
    BY <1>2, <1>6
  <2>2. ExtractTenant(sub)[2] = SubSeq(sub, 1, n - 2) /\ 2 \in 1..2
    BY <1>6, <2>1 DEF ExtractTenant
  <2>3. VerifySubject(w, sub)
    BY <1>3, <1>6, <2>1, <2>2
  <2> QED
    BY <2>3 DEF w
<1> QED
  BY <1>4, <1>5, <1>6 DEF BelongsTo, w

\* Whoever may read something is authenticated for a route that leaves it open.
LEMMA PermittedAuth ==
  ASSUME NEW route, NEW path, LeftOpen(route.auth, route.handler, path),
         NEW sub \in Seq(STRING), Permitted("GET", path, sub)
  PROVE  Authenticated(route, path, sub)
<1>1. CASE route.auth = "NoAuth" \/ ~PulsarJWTEnabled
  BY <1>1 DEF Authenticated
<1>2. CASE route.auth # "NoAuth" /\ PulsarJWTEnabled /\ sub \in SuperRoles
  <2>1. sub # NoSubject /\ \A t : VerifySubject(t, sub)
    BY <1>2, SuperRolesAssumption DEF VerifySubject
  <2> QED
    BY <1>2, <2>1 DEF Authenticated, LeftOpen, Auths
<1>3. CASE route.auth # "NoAuth" /\ PulsarJWTEnabled /\ sub \notin SuperRoles
  <2>1. path[1] \notin {"liveness", "metrics"}
    BY <1>3 DEF LeftOpen
  <2>2. CASE sub # NoSubject /\ OpenToAll(path)
    <3>1. route.auth = "AuthVerifyJWT"
      BY <1>3, <2>2 DEF LeftOpen, Auths
    <3> QED
      BY <1>3, <2>2, <3>1 DEF Authenticated
  <2>3. CASE /\ sub # NoSubject /\ path[1] \in TenantResources /\ Len(path) >= 2
             /\ path[2] \in DOMAIN WordsOf /\ BelongsTo(sub, path[2])
    <3>1. route.auth \in {"AuthVerifyJWT", "AuthVerifyTenantJWT"}
      BY <1>3, <2>3 DEF LeftOpen, Auths
    <3>2. VerifySubject(WordsOf[path[2]], sub)
      BY <2>3, OwnersVerified
    <3> QED
      BY <1>3, <2>3, <3>1, <3>2 DEF Authenticated
  <2> QED
    BY <1>3, <2>1, <2>2, <2>3 DEF Permitted
<1> QED
  BY <1>1, <1>2, <1>3

\* What becomes of a read when it arrives.
LEMMA ReadArrives ==
  ASSUME NEW h, NEW r \in Requests, NEW sub, NEW header, Arrive(h, r, sub, header), r[1] = "GET",
         HasRoute("GET", r[2]), LeftOpen(RouteOf("GET", r[2]).auth, RouteOf("GET", r[2]).handler, r[2])
  PROVE  \/ Answer(h, r, sub, 401) /\ ~Authenticated(RouteOf("GET", r[2]), r[2], sub)
         \/ Grant(h, r, sub)
         \/ \E status \in {200, 404, 500} : Answer(h, r, sub, status)
<1> DEFINE route == RouteOf("GET", r[2])
<1> DEFINE Served == \/ Grant(h, r, sub)
                     \/ \E status \in {200, 404, 500} : Answer(h, r, sub, status)
<1>1. r \in DOMAIN RouteTable /\ RouteTable[r] = route
  BY DEF RouteTable
<1>2. ~Authenticated(route, r[2], sub) => Answer(h, r, sub, 401)
  <2> HIDE DEF route, RouteTable
  <2> QED
    BY <1>1 DEF Arrive
<1>3. ASSUME Authenticated(route, r[2], sub) PROVE Served
  <2> DEFINE subs == InjectedSubs(route, sub, header)
  <2>1. /\ route.handler # "NamespacePolicy"
        /\ route.handler = "RestrictedTenants" => route.auth = "AuthVerifyJWT"
    BY DEF LeftOpen
  <2> HIDE DEF route, RouteTable
  <2>2. \/ NamespaceLimitEnforce(h, r, sub, subs) \/ TopicProxy(h, r, sub, subs)
        \/ DirectFunctionProxy(h, r, sub, subs) \/ Grant(h, r, sub)
        \/ route.handler = "RestrictedTenants" /\ RestrictedTenants(h, r, sub, subs)
    BY <1>1, <1>3, <2>1 DEF Arrive
  <2>3. ASSUME route.handler = "RestrictedTenants" PROVE subs # NoSubject
    <3>1. route.auth = "AuthVerifyJWT"
      BY <2>1, <2>3
    <3>2. CASE PulsarJWTEnabled
      <4>1. sub # NoSubject
        BY <1>3, <3>1, <3>2 DEF Authenticated
      <4> QED
        BY <3>1, <3>2, <4>1 DEF InjectedSubs
    <3>3. CASE ~PulsarJWTEnabled
      <4>1. subs = DummySuperRole
        BY <3>1, <3>3 DEF InjectedSubs
      <4>2. DummySuperRole # NoSubject
        BY DEF DummySuperRole, NoSubject
      <4> QED
        BY <4>1, <4>2
    <3> QED
      BY <3>2, <3>3
  <2> HIDE DEF subs
  <2>4. NamespaceLimitEnforce(h, r, sub, subs) => Grant(h, r, sub)
    BY DEF NamespaceLimitEnforce
  <2>5. TopicProxy(h, r, sub, subs) => Grant(h, r, sub)
    BY DEF TopicProxy
  <2>6. DirectFunctionProxy(h, r, sub, subs) => Grant(h, r, sub)
    BY DEF DirectFunctionProxy
  <2>7. ASSUME route.handler = "RestrictedTenants", RestrictedTenants(h, r, sub, subs)
        PROVE  Served
    BY <2>3, <2>7 DEF RestrictedTenants
  <2> QED
    BY <2>2, <2>4, <2>5, <2>6, <2>7
<1> QED
  BY <1>2, <1>3

\* The state e of a request does not refuse a read.
Serves(e) ==
  /\ e.stage \in {"planning", "evaluating"} => e.method # "GET"
  /\ e.stage = "answered" /\ e.method = "GET" /\ e.status \in {401, 402} =>
       ~Permitted("GET", e.path, e.sub)

LEMMA ServedParts == ReadsServed <=> \A h \in Handlers : Serves(req[h])
BY DEF ReadsServed, Serves

LEMMA ServesKept ==
  ASSUME TypeInv, ReadsServed, NEW h \in Handlers, NEW e, req' = [req EXCEPT ![h] = e], Serves(e)
  PROVE  ReadsServed'
<1>1. \A g \in Handlers : Serves(req[g])
  BY ServedParts
<1>2. \A g \in Handlers : Serves(req'[g])
  <2>1. \A g \in Handlers : req'[g] = IF g = h THEN e ELSE req[g]
    BY DEF TypeInv, TypeOK
  <2> QED
    BY <1>1, <2>1
<1> QED
  BY <1>2 DEF ReadsServed, Serves

LEMMA ArriveServed ==
  ASSUME TypeInv, ReadsServed, NEW h \in Handlers, NEW r \in Requests, NEW sub \in Subjects,
         NEW header, Arrive(h, r, sub, header)
  PROVE  ReadsServed'
<1>0. Len(r[2]) \in Nat /\ sub \in Seq(STRING)
  BY AdminAssumption, LenProperties
<1>1. PICK stage \in Stages, limit \in Limits \cup {0}, status \in Statuses :
        req' = [req EXCEPT ![h] = Request(stage, r, sub, limit, status)]
  <2>1. Outcome(h, r, sub)
    BY ArriveOutcome DEF TypeInv
  <2> QED
    BY <2>1 DEF Outcome
<1> DEFINE e == Request(stage, r, sub, limit, status)
<1>2. e.stage = stage /\ e.method = r[1] /\ e.path = r[2] /\ e.sub = sub
  BY DEF Request
<1>3. req' = [req EXCEPT ![h] = e]
  BY <1>1
<1> HIDE DEF e
<1>4. CASE r[1] # "GET"
  <2>1. Serves(e)
    BY <1>2, <1>4 DEF Serves
  <2> QED
    BY <1>3, <2>1, ServesKept
<1>5. CASE r[1] = "GET" /\ ~HasRoute("GET", r[2])
  <2>1. Answer(h, r, sub, 404)
    <3>1. r \notin DOMAIN RouteTable
      BY <1>5 DEF RouteTable
    <3> HIDE DEF RouteTable
    <3> QED
      BY <3>1 DEF Arrive
  <2> DEFINE f == Request("answered", r, sub, 0, 404)
  <2>2. req' = [req EXCEPT ![h] = f]
    BY <2>1 DEF Answer
  <2>3. Serves(f)
    BY <1>5 DEF Serves, Request
  <2> HIDE DEF f
  <2> QED
    BY <2>2, <2>3, ServesKept
<1>6. CASE r[1] = "GET" /\ HasRoute("GET", r[2])
  <2> DEFINE route == RouteOf("GET", r[2])
  <2>1. LeftOpen(route.auth, route.handler, r[2])
    BY <1>0, <1>6, ReadLeftOpen
  <2>2. \/ Answer(h, r, sub, 401) /\ ~Authenticated(route, r[2], sub)
        \/ Grant(h, r, sub)
        \/ \E code \in {200, 404, 500} : Answer(h, r, sub, code)
    BY <1>6, <2>1, ReadArrives
  <2> HIDE DEF route
  <2>3. CASE Answer(h, r, sub, 401) /\ ~Authenticated(route, r[2], sub)
    <3>1. ~Permitted("GET", r[2], sub)
      BY <1>0, <2>1, <2>3, PermittedAuth
    <3> DEFINE f == Request("answered", r, sub, 0, 401)
    <3>2. req' = [req EXCEPT ![h] = f]
      BY <2>3 DEF Answer
    <3>3. Serves(f)
      BY <3>1 DEF Serves, Request
    <3> HIDE DEF f
    <3> QED
      BY <3>2, <3>3, ServesKept
  <2>4. CASE Grant(h, r, sub)
    <3> DEFINE f == Request("granted", r, sub, 0, 0)
    <3>1. req' = [req EXCEPT ![h] = f]
      BY <2>4 DEF Grant
    <3>2. Serves(f)
      BY DEF Serves, Request
    <3> HIDE DEF f
    <3> QED
      BY <3>1, <3>2, ServesKept
  <2>5. CASE \E code \in {200, 404, 500} : Answer(h, r, sub, code)
    <3>1. PICK code \in {200, 404, 500} : Answer(h, r, sub, code)
      BY <2>5
    <3> DEFINE f == Request("answered", r, sub, 0, code)
    <3>2. req' = [req EXCEPT ![h] = f]
      BY <3>1 DEF Answer
    <3>3. Serves(f)
      BY DEF Serves, Request
    <3> HIDE DEF f
    <3> QED
      BY <3>2, <3>3, ServesKept
  <2> QED
    BY <2>2, <2>3, <2>4, <2>5
<1> QED
  BY <1>4, <1>5, <1>6

\* Only changes wait for a plan or for Pulsar's list of namespaces.
LEMMA CheckServed ==
  ASSUME TypeInv, ReadsServed, NEW h \in Handlers, CreateFreePlan(h) \/ Evaluate(h)
  PROVE  ReadsServed'
<1>1. req[h].method # "GET" /\ req[h] \in InProgress
  BY BusyRequest DEF CreateFreePlan, Evaluate, ReadsServed, TypeInv
<1>2. ASSUME NEW e, req' = [req EXCEPT ![h] = e], e.method # "GET" PROVE ReadsServed'
  <2>1. Serves(e)
    BY <1>2 DEF Serves
  <2> QED
    BY <1>2, <2>1, ServesKept
<1>3. CASE CreateFreePlan(h)
  <2> DEFINE e == [req[h] EXCEPT !.stage = "evaluating", !.limit = NumOfNamespaces[FreeTier]]
  <2>1. e.method # "GET"
    BY <1>1 DEF InProgress
  <2>2. req' = [req EXCEPT ![h] = e]
    BY <1>3 DEF CreateFreePlan, TypeInv, TypeOK
  <2> HIDE DEF e
  <2> QED
    BY <1>2, <2>1, <2>2
<1>4. CASE Evaluate(h)
  <2> DEFINE r == <<req[h].method, req[h].path>>
  <2>1. Outcome(h, r, req[h].sub) /\ r[1] = req[h].method
    BY <1>4, EvaluateOutcome
  <2> HIDE DEF r
  <2>2. PICK stage \in Stages, limit \in Limits \cup {0}, status \in Statuses :
          req' = [req EXCEPT ![h] = Request(stage, r, req[h].sub, limit, status)]
    BY <2>1 DEF Outcome
  <2> DEFINE e == Request(stage, r, req[h].sub, limit, status)
  <2>3. e.method # "GET"
    BY <1>1, <2>1 DEF Request
  <2>4. req' = [req EXCEPT ![h] = e]
    BY <2>2
  <2> HIDE DEF e
  <2> QED
    BY <1>2, <2>3, <2>4
<1> QED
  BY <1>3, <1>4

LEMMA ServedStep == TypeInv /\ ReadsServed /\ [Next]_vars => ReadsServed'
<1> SUFFICES ASSUME TypeInv, ReadsServed, [Next]_vars PROVE ReadsServed'
  OBVIOUS
<1>1. ASSUME NEW h \in Handlers, NEW r \in Requests, NEW sub \in Subjects,
             NEW header \in Subjects, Arrive(h, r, sub, header)
      PROVE  ReadsServed'
  BY <1>1, ArriveServed
<1>2. ASSUME NEW h \in Handlers, CreateFreePlan(h) \/ Evaluate(h) PROVE ReadsServed'
  BY <1>2, CheckServed
<1>3. ASSUME NEW h \in Handlers, Forward(h) \/ Finish(h) PROVE ReadsServed'
  <2>1. Serves(Idle)
    BY DEF Idle, Serves
  <2>2. req' = [req EXCEPT ![h] = Idle]
    BY <1>3 DEF Forward, Finish
  <2> QED
    BY <2>1, <2>2, ServesKept
<1>4. CASE UNCHANGED req
  BY <1>4 DEF ReadsServed
<1>5. ASSUME NEW t \in Tenants, ChangePlan(t) \/ CountFunction(t) PROVE ReadsServed'
  BY <1>4, <1>5 DEF ChangePlan, CountFunction
<1> QED
  BY <1>1, <1>2, <1>3, <1>4, <1>5 DEF Next, HandlerNext, vars

\* A read is never refused for want of permission, or for a limit, to a subject
\* that may have it: no route of NewRouter takes it before the one that is meant
\* for it, its subject is recognised by VerifySubject, and its handler applies no
\* limit; for any requests, headers, tenants and subjects, without a condition.
THEOREM ReadsAreServed == Spec => []ReadsServed
<1>1. Init => TypeInv /\ ReadsServed
  BY TypeInit DEF Init, ReadsServed, Idle
<1>2. TypeInv /\ ReadsServed /\ [Next]_vars => TypeInv' /\ ReadsServed'
  BY TypeStep, ServedStep
<1> QED
  BY <1>1, <1>2, PTL DEF Spec

-----------------------------------------------------------------------------
(* The limiter that requests pass before they are routed (router.Use), for  *)
(* every capacity, number of connections and number of panics.              *)

LEMMA LimiterTypeStep == LimiterTypeOK /\ [LimiterNext]_limiterVars => LimiterTypeOK'
BY SizeAssumption DEF LimiterTypeOK, LimiterNext, limiterVars, Acquire, Reject, HandlerReturns, ReleaseRejected, Panic,
   Release, Goto

\* The semaphore holds between 0 and Size tokens.
THEOREM LimiterTypeCorrect == LimiterSpec => []LimiterTypeOK
<1>1. LimiterInit => LimiterTypeOK
  BY SizeAssumption DEF LimiterInit, LimiterTypeOK
<1> QED
  BY <1>1, LimiterTypeStep, PTL DEF LimiterSpec

LimiterInv == LimiterTypeOK /\ SlotsAccounted

LEMMA ServingFinite == IsFiniteSet(Serving) /\ Cardinality(Serving) \in Nat
<1>1. Serving \subseteq Connections
  BY DEF Serving
<1> QED
  BY <1>1, ConnectionsAssumption, FS_Subset, FS_CardinalityType

\* One request enters, leaves or does not touch the set of running handlers.
LEMMA ServingEnters ==
  ASSUME LimiterTypeOK, NEW q \in Connections, pc[q] # "serving", Goto(q, "serving")
  PROVE  Cardinality(Serving') = Cardinality(Serving) + 1
<1>1. Serving' = Serving \cup {q} /\ q \notin Serving
  BY DEF LimiterTypeOK, Goto, Serving
<1> QED
  BY <1>1, ServingFinite, FS_AddElement

LEMMA ServingLeaves ==
  ASSUME LimiterTypeOK, NEW q \in Connections, pc[q] = "serving", Goto(q, "idle")
  PROVE  Cardinality(Serving') = Cardinality(Serving) - 1
<1>1. Serving' = Serving \ {q} /\ q \in Serving
  BY DEF LimiterTypeOK, Goto, Serving
<1> QED
  BY <1>1, ServingFinite, FS_RemoveElement

LEMMA ServingKept ==
  ASSUME LimiterTypeOK, NEW q \in Connections, NEW l, l # "serving", pc[q] # "serving", Goto(q, l)
  PROVE  Serving' = Serving
BY DEF LimiterTypeOK, Goto, Serving

\* One step keeps the account of the semaphore.
LEMMA LimiterStep == LimiterInv /\ [LimiterNext]_limiterVars => LimiterInv'
<1> SUFFICES ASSUME LimiterInv, [LimiterNext]_limiterVars PROVE SlotsAccounted'
  BY LimiterTypeStep DEF LimiterInv
<1>0. /\ LimiterTypeOK /\ slots \in Nat /\ leaked \in Nat /\ taken \in Int
      /\ Cardinality(Serving) \in Nat
      /\ slots + taken = Cardinality(Serving) + leaked
  BY ServingFinite, SizeAssumption DEF LimiterInv, SlotsAccounted, LimiterTypeOK
<1>1. ASSUME NEW q \in Connections, Acquire(q) PROVE SlotsAccounted'
  <2>1. Cardinality(Serving') = Cardinality(Serving) + 1
    BY <1>0, <1>1, ServingEnters DEF Acquire
  <2> QED
    BY <1>0, <1>1, <2>1 DEF Acquire, SlotsAccounted
<1>2. ASSUME NEW q \in Connections, Reject(q) PROVE SlotsAccounted'
  <2>1. Serving' = Serving
    BY <1>0, <1>2, ServingKept DEF Reject
  <2> QED
    BY <1>0, <1>2, <2>1 DEF Reject, SlotsAccounted
<1>3. ASSUME NEW q \in Connections, HandlerReturns(q) PROVE SlotsAccounted'
  <2>1. Cardinality(Serving') = Cardinality(Serving) - 1
    BY <1>0, <1>3, ServingLeaves DEF HandlerReturns
  <2> QED
    BY <1>0, <1>3, <2>1 DEF HandlerReturns, Release, SlotsAccounted
<1>4. ASSUME NEW q \in Connections, ReleaseRejected(q) PROVE SlotsAccounted'
  <2>1. Serving' = Serving
    BY <1>0, <1>4, ServingKept DEF ReleaseRejected
  <2> QED
    BY <1>0, <1>4, <2>1 DEF ReleaseRejected, Release, SlotsAccounted
<1>5. ASSUME NEW q \in Connections, Panic(q) PROVE SlotsAccounted'
  <2>1. Cardinality(Serving') = Cardinality(Serving) - 1
    BY <1>0, <1>5, ServingLeaves DEF Panic
  <2> QED
    BY <1>0, <1>5, <2>1 DEF Panic, SlotsAccounted
<1>6. CASE UNCHANGED limiterVars
  BY <1>0, <1>6 DEF limiterVars, SlotsAccounted, Serving
<1> QED
  BY <1>1, <1>2, <1>3, <1>4, <1>5, <1>6 DEF LimiterNext

LEMMA LimiterInvInit == LimiterInit => LimiterInv
<1> SUFFICES ASSUME LimiterInit PROVE LimiterInv
  OBVIOUS
<1>1. Serving = {}
  BY DEF LimiterInit, Serving
<1> QED
  BY <1>1, FS_EmptySet, SizeAssumption DEF LimiterInit, LimiterInv, LimiterTypeOK, SlotsAccounted

\* The semaphore counts the running and the dead handlers, less the tokens that
\* rejected requests took (Acquire, Release, LimitRate).
THEOREM SlotsAlwaysAccounted == LimiterSpec => []SlotsAccounted
<1>1. LimiterInv => SlotsAccounted
  BY DEF LimiterInv
<1> QED
  BY <1>1, LimiterInvInit, LimiterStep, PTL DEF LimiterSpec
=============================================================================
