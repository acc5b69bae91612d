---------------------------- MODULE KeysJwtProofs ----------------------------
(***************************************************************************)
(* Proofs about KeysJwt: when the secrets of a namespace belong to one key *)
(* pair, for every set of runners and roles and every bound.               *)
(***************************************************************************)
EXTENDS KeysJwt, TLAPS

\* The labels at which a runner holds a key pair it made itself.
Creating == {"putPrivate", "putPublic", "putToken"}

LEMMA RoleIsToken ==
  ASSUME TypeOK, NEW r \in Runners
  PROVE  Roles[role[r]] \in TokenSecrets /\ Roles[role[r]] \in Secrets
         /\ Roles[role[r]] \notin KeySecrets
BY RolesAssumption DEF TypeOK, TokenSecrets, Secrets

LEMMA KeysAreSecrets ==
  tokenPrivateKey \in Secrets /\ tokenPublicKey \in Secrets /\ tokenPrivateKey # tokenPublicKey
BY DEF Secrets, KeySecrets, tokenPrivateKey, tokenPublicKey

LEMMA LabelsIn ==
  /\ {"idle", "getPublic", "putPrivate", "putPublic"} \subseteq Labels
  /\ {"putToken", "checkToken", "repairToken", "exited"} \subseteq Labels
BY DEF Labels

\* A jump to a label, and the end of a round of the loop, are well typed.
LEMMA GotoType ==
  ASSUME TypeOK, NEW r \in Runners, NEW l \in Labels, Goto(r, l)
  PROVE  pc' \in [Runners -> Labels] /\ pc'[r] = l /\ \A q \in Runners : q # r => pc'[q] = pc[q]
BY DEF TypeOK, Goto

LEMMA NextRoleType ==
  ASSUME TypeOK, NEW r \in Runners, NEW l \in Labels, NextRole(r, l)
  PROVE  /\ role' \in [Runners -> 1..Len(Roles)]
         /\ pc' \in [Runners -> Labels]
         /\ pc'[r] \in {l, "idle", "exited"}
         /\ \A q \in Runners : q # r => pc'[q] = pc[q]
<1>1. Len(Roles) \in Nat \ {0} /\ role \in [Runners -> 1..Len(Roles)]
  BY RolesAssumption DEF TypeOK
<1>2. CASE role[r] < Len(Roles)
  <2>1. role' = [role EXCEPT ![r] = @ + 1] /\ Goto(r, l)
    BY <1>2 DEF NextRole
  <2>2. role' \in [Runners -> 1..Len(Roles)]
    BY <1>1, <1>2, <2>1
  <2> QED
    BY <2>1, <2>2, GotoType
<1>3. CASE ~(role[r] < Len(Roles))
  <2>1. role' = [role EXCEPT ![r] = 1] /\ \E m \in {"idle", "exited"} : Goto(r, m)
    BY <1>3 DEF NextRole
  <2>2. role' \in [Runners -> 1..Len(Roles)]
    BY <1>1, <2>1
  <2> QED
    BY <2>1, <2>2, GotoType, LabelsIn
<1> QED
  BY <1>2, <1>3

\* Making a key pair is well typed.
LEMMA CreateType ==
  ASSUME TypeOK, NEW r \in Runners, Create(r)
  PROVE  /\ private' \in [Runners -> Nat] /\ public' \in [Runners -> Nat]
         /\ nextKey' \in Nat \ {0} /\ pc' \in [Runners -> Labels] /\ mixed' \in BOOLEAN
<1>1. pc' \in [Runners -> Labels]
  BY GotoType, LabelsIn DEF Create
<1>2. nextKey \in Nat \ {0} /\ nextKey' = nextKey + 1
  BY DEF Create, TypeOK
<1>3. nextKey \in Nat /\ nextKey' \in Nat \ {0}
  BY <1>2
<1>4. private' \in [Runners -> Nat] /\ public' \in [Runners -> Nat]
  BY <1>3 DEF Create, TypeOK
<1>5. mixed' \in BOOLEAN
  BY DEF Create
<1> QED
  BY <1>1, <1>3, <1>4, <1>5

\* One step keeps the types.
LEMMA TypeStep == TypeOK /\ [Next]_vars => TypeOK'
<1> SUFFICES ASSUME TypeOK, [Next]_vars PROVE TypeOK'
  OBVIOUS
<1>1. ASSUME NEW r \in Runners, NEW s, NEW v \in Nat, CreateSecret(s, v)
      PROVE  secrets' \in [Secrets -> Nat]
  BY <1>1 DEF CreateSecret, TypeOK
<1>2. ASSUME NEW r \in Runners, RunnerStep(r) PROVE TypeOK'
  <2>0. private[r] \in Nat /\ public[r] \in Nat
    BY DEF TypeOK
  <2>1. CASE GetPrivate(r)
    <3>1. CASE secrets[tokenPrivateKey] # 0
      BY ZenonT(60), <2>1, <3>1, KeysAreSecrets, GotoType, LabelsIn DEF GetPrivate, boundVars, TypeOK
    <3>2. CASE secrets[tokenPrivateKey] = 0
      BY <2>1, <3>2, CreateType DEF GetPrivate, boundVars, TypeOK
    <3> QED
      BY <3>1, <3>2
  <2>2. CASE GetPublic(r)
    <3>1. CASE secrets[tokenPublicKey] # 0
      BY ZenonT(60), <2>2, <3>1, KeysAreSecrets, GotoType, LabelsIn DEF GetPublic, boundVars, TypeOK
    <3>2. CASE secrets[tokenPublicKey] = 0
      BY <2>2, <3>2, CreateType DEF GetPublic, boundVars, TypeOK
    <3> QED
      BY <3>1, <3>2
  <2>3. CASE PutPrivate(r)
    BY <1>1, <2>0, <2>3, GotoType, LabelsIn DEF PutPrivate, keyVars, boundVars, TypeOK
  <2>4. CASE PutPublic(r)
    BY <1>1, <2>0, <2>4, GotoType, LabelsIn DEF PutPublic, keyVars, boundVars, TypeOK
  <2>5. CASE PutToken(r)
    BY <1>1, <2>0, <2>5, NextRoleType, LabelsIn DEF PutToken, keyVars, boundVars, TypeOK
  <2>6. CASE CheckToken(r)
    <3>1. role' \in [Runners -> 1..Len(Roles)] /\ pc' \in [Runners -> Labels]
      <4>1. CASE NextRole(r, "checkToken")
        BY <4>1, NextRoleType, LabelsIn
      <4>2. CASE Goto(r, "repairToken") /\ UNCHANGED role
        BY <4>2, GotoType, LabelsIn DEF TypeOK
      <4> QED
        BY <2>6, <4>1, <4>2 DEF CheckToken
    <3> QED
      BY <2>6, <3>1 DEF CheckToken, keyVars, boundVars, TypeOK
  <2>7. CASE RepairToken(r)
    BY <1>1, <2>0, <2>7, NextRoleType, LabelsIn DEF RepairToken, keyVars, boundVars, TypeOK
  <2> QED
    BY <1>2, <2>1, <2>2, <2>3, <2>4, <2>5, <2>6, <2>7 DEF RunnerStep
<1>a. ASSUME NEW kind, MayFail(kind) PROVE faults' \in Nat
  BY <1>a DEF MayFail, TypeOK
<1>3. ASSUME NEW r \in Runners, RunnerFault(r) PROVE TypeOK'
  <2>1. CASE GetKeyFails(r)
    BY <1>a, <2>1, CreateType DEF GetKeyFails, TypeOK
  <2>2. CASE CheckTokenFails(r)
    BY <1>a, <2>2, GotoType, LabelsIn DEF CheckTokenFails, keyVars, TypeOK
  <2>3. CASE CreateFails(r)
    <3>1. role' \in [Runners -> 1..Len(Roles)] /\ pc' \in [Runners -> Labels]
      <4>1. CASE UNCHANGED role /\ \E l \in {"putPublic", "putToken"} : Goto(r, l)
        BY <4>1, GotoType, LabelsIn DEF TypeOK
      <4>2. CASE \E l \in {"putToken", "checkToken"} : NextRole(r, l)
        BY <4>2, NextRoleType, LabelsIn
      <4> QED
        BY <2>3, <4>1, <4>2 DEF CreateFails
    <3> QED
      BY <1>a, <2>3, <3>1 DEF CreateFails, keyVars, TypeOK
  <2>4. CASE Crash(r)
    <3>1. 1 \in 1..Len(Roles)
      BY RolesAssumption
    <3> QED
      BY <1>a, <2>4, <3>1, GotoType, LabelsIn DEF Crash, keyVars, TypeOK
  <2> QED
    BY <1>3, <2>1, <2>2, <2>3, <2>4 DEF RunnerFault
<1>4. ASSUME NEW s \in Secrets, Delete(s) PROVE TypeOK'
  BY <1>4 DEF Delete, keyVars, TypeOK
<1>5. CASE UNCHANGED vars
  BY <1>5 DEF vars, keyVars, boundVars, TypeOK
<1> QED
  BY <1>2, <1>3, <1>4, <1>5 DEF Next

LEMMA TypeInit == Init => TypeOK
<1> SUFFICES ASSUME Init PROVE TypeOK
  OBVIOUS
<1>1. secrets \in [Secrets -> Nat]
  BY InitialAssumption DEF Init
<1>2. role \in [Runners -> 1..Len(Roles)]
  BY RolesAssumption DEF Init
<1>3. pc \in [Runners -> Labels] /\ mixed \in BOOLEAN
  BY LabelsIn DEF Init
<1> QED
  BY <1>1, <1>2, <1>3 DEF Init, TypeOK

\* The variables of the provisioning procedure keep their types; the loop over
\* the roles never leaves the list.
THEOREM TypeCorrect == Spec => []TypeOK
BY TypeInit, TypeStep, PTL DEF Spec

-----------------------------------------------------------------------------
(* Secrets of two key pairs have one cause.  The invariant: as long as no  *)
(* pair was made beside another's secrets or runs, there is one key k that *)
(* every secret has and that every run under way holds.                    *)

\* The labels at which a runner will write with, or has read, a private key.
Holding == Creating \cup {"getPublic", "checkToken", "repairToken"}

OneKey(k) ==
  /\ \A s \in Secrets : secrets[s] \in {0, k}
  /\ \A r \in Runners : pc[r] \in Holding => private[r] = k
  /\ \A r \in Runners : pc[r] \in {"putPrivate", "putPublic"} => public[r] = k

MixInv == TypeOK /\ (mixed \/ \E k \in Nat : OneKey(k))

\* A jump between labels that neither makes a pair nor changes a key.
LEMMA KeptKey ==
  ASSUME NEW k \in Nat, OneKey(k), NEW r \in Runners,
         UNCHANGED <<private, public>>,
         \A s \in Secrets : secrets'[s] \in {0, k},
         \A q \in Runners : q # r => pc'[q] = pc[q],
         pc'[r] \in Holding => pc[r] \in Holding,
         pc'[r] \in {"putPrivate", "putPublic"} => pc[r] \in {"putPrivate", "putPublic"}
  PROVE  OneKey(k)'
BY DEF OneKey

\* What a runner that holds k writes is k.
LEMMA WrittenKey ==
  ASSUME TypeOK, NEW k \in Nat, OneKey(k), NEW s \in Secrets, CreateSecret(s, k)
  PROVE  \A q \in Secrets : secrets'[q] \in {0, k}
BY DEF CreateSecret, OneKey, TypeOK

\* A pair that is made beside nothing is the only one.
LEMMA FreshKey ==
  ASSUME TypeOK, NEW r \in Runners, Create(r), UNCHANGED secrets, ~mixed'
  PROVE  \E k \in Nat : OneKey(k)'
<1>1. ~Beside(r)
  BY DEF Create
<1>2. \A s \in Secrets : secrets'[s] = 0
  BY <1>1 DEF Beside
<1>3. \A q \in Runners : q # r => pc'[q] \in {"idle", "exited"}
  BY <1>1, GotoType, LabelsIn DEF Beside, Create
<1>4. private'[r] = nextKey /\ public'[r] = nextKey /\ nextKey \in Nat
  BY DEF Create, TypeOK
<1>5. PICK k \in Nat : k = nextKey
  BY <1>4
<1>6. OneKey(k)'
  BY <1>2, <1>3, <1>4, <1>5 DEF OneKey, Holding, Creating
<1> QED
  BY <1>6

LEMMA MixStep == MixInv /\ [Next]_vars => MixInv'
<1> SUFFICES ASSUME MixInv, [Next]_vars, ~mixed' PROVE \E k \in Nat : OneKey(k)'
  BY TypeStep DEF MixInv
<1>0. TypeOK
  BY DEF MixInv
<1>1. ASSUME NEW r \in Runners, RunnerStep(r) PROVE \E k \in Nat : OneKey(k)'
  <2>1. CASE Create(r) /\ UNCHANGED secrets
    BY <1>0, <2>1, FreshKey
  <2>2. CASE ~mixed
    <3>0. PICK k \in Nat : OneKey(k)
      BY <2>2 DEF MixInv
    <3>1. CASE GetPrivate(r) /\ secrets[tokenPrivateKey] # 0
      <4>1. Goto(r, "getPublic") /\ UNCHANGED <<secrets, public>>
            /\ private' = [private EXCEPT ![r] = secrets[tokenPrivateKey]]
        BY <3>1 DEF GetPrivate
      <4>2. secrets[tokenPrivateKey] = k
        BY <3>0, <3>1, KeysAreSecrets DEF OneKey
      <4>3. pc'[r] = "getPublic" /\ \A q \in Runners : q # r => pc'[q] = pc[q]
        BY <1>0, <4>1, GotoType, LabelsIn
      <4>4. private'[r] = k /\ \A q \in Runners : q # r => private'[q] = private[q]
        BY <1>0, <4>1, <4>2 DEF TypeOK
      <4> QED
        BY <3>0, <4>1, <4>3, <4>4 DEF OneKey
    <3>2. CASE GetPublic(r) /\ secrets[tokenPublicKey] # 0
      <4>1. Goto(r, "checkToken") /\ UNCHANGED <<secrets, private>> /\ pc[r] = "getPublic"
            /\ public' = [public EXCEPT ![r] = secrets[tokenPublicKey]]
        BY <3>2 DEF GetPublic
      <4>2. pc'[r] = "checkToken" /\ \A q \in Runners : q # r => pc'[q] = pc[q]
        BY <1>0, <4>1, GotoType, LabelsIn
      <4>3. \A q \in Runners : q # r => public'[q] = public[q]
        BY <1>0, <4>1 DEF TypeOK
      <4> QED
        BY <3>0, <4>1, <4>2, <4>3 DEF OneKey, Holding
    <3>3. CASE PutPrivate(r)
      <4>1. pc'[r] = "putPublic" /\ \A q \in Runners : q # r => pc'[q] = pc[q]
        BY <1>0, <3>3, GotoType, LabelsIn DEF PutPrivate
      <4>2. \A s \in Secrets : secrets'[s] \in {0, k}
        BY <1>0, <3>0, <3>3, WrittenKey, KeysAreSecrets DEF PutPrivate, OneKey, Holding, Creating
      <4> QED
        BY <3>0, <3>3, <4>1, <4>2, KeptKey DEF PutPrivate, keyVars, Holding, Creating
    <3>4. CASE PutPublic(r)
      <4>1. pc'[r] = "putToken" /\ \A q \in Runners : q # r => pc'[q] = pc[q]
        BY <1>0, <3>4, GotoType, LabelsIn DEF PutPublic
      <4>2. \A s \in Secrets : secrets'[s] \in {0, k}
        BY <1>0, <3>0, <3>4, WrittenKey, KeysAreSecrets DEF PutPublic, OneKey
      <4> QED
        BY <3>0, <3>4, <4>1, <4>2, KeptKey DEF PutPublic, keyVars, Holding, Creating
    <3>5. CASE PutToken(r) \/ RepairToken(r)
      <4>1. /\ pc'[r] \in {"putToken", "checkToken", "idle", "exited"}
            /\ \A q \in Runners : q # r => pc'[q] = pc[q]
        BY <1>0, <3>5, NextRoleType, LabelsIn DEF PutToken, RepairToken
      <4>2. \A s \in Secrets : secrets'[s] \in {0, k}
        BY <1>0, <3>0, <3>5, WrittenKey, RoleIsToken
           DEF PutToken, RepairToken, OneKey, Holding, Creating
      <4>3. pc[r] \in Holding /\ UNCHANGED <<private, public>>
        BY <3>5 DEF PutToken, RepairToken, keyVars, Holding, Creating
      <4> QED
        BY <3>0, <4>1, <4>2, <4>3, KeptKey
    <3>6. CASE CheckToken(r)
      <4>1. /\ pc'[r] \in {"checkToken", "repairToken", "idle", "exited"}
            /\ \A q \in Runners : q # r => pc'[q] = pc[q]
        BY <1>0, <3>6, NextRoleType, GotoType, LabelsIn DEF CheckToken
      <4>2. pc[r] \in Holding /\ UNCHANGED <<secrets, private, public>>
        BY <3>6 DEF CheckToken, keyVars, Holding
      <4> QED
        BY <3>0, <4>1, <4>2, KeptKey DEF OneKey
    <3> QED
      BY <1>1, <2>1, <3>1, <3>2, <3>3, <3>4, <3>5, <3>6 DEF RunnerStep, GetPrivate, GetPublic
  <2>3. CASE mixed /\ ~Create(r)
    BY <1>1, <2>3 DEF RunnerStep, GetPrivate, GetPublic, PutPrivate, PutPublic, PutToken,
       CheckToken, RepairToken
  <2>4. CASE mixed /\ Create(r)
    BY <2>4 DEF Create
  <2> QED
    BY <2>2, <2>3, <2>4
<1>2. ASSUME NEW r \in Runners, RunnerFault(r) PROVE \E k \in Nat : OneKey(k)'
  <2>1. CASE GetKeyFails(r)
    BY <1>0, <2>1, FreshKey DEF GetKeyFails
  <2>2. CASE CheckTokenFails(r) \/ CreateFails(r) \/ Crash(r)
    <3>1. ~mixed /\ UNCHANGED <<secrets, private, public>>
      BY <2>2 DEF CheckTokenFails, CreateFails, Crash, keyVars
    <3>2. PICK k \in Nat : OneKey(k)
      BY <3>1 DEF MixInv
    <3>3. \A q \in Runners : q # r => pc'[q] = pc[q]
      BY <1>0, <2>2, GotoType, NextRoleType, LabelsIn DEF CheckTokenFails, CreateFails, Crash
    <3>4. CASE CheckTokenFails(r) \/ Crash(r)
      BY <1>0, <3>1, <3>2, <3>3, <3>4, GotoType, LabelsIn, KeptKey
         DEF CheckTokenFails, Crash, OneKey, Holding, Creating
    <3>5. CASE CreateFails(r)
      <4>1. /\ pc[r] \in Holding
            /\ pc'[r] \in {"putPrivate", "putPublic"} => pc[r] \in {"putPrivate", "putPublic"}
        BY <1>0, <3>5, GotoType, NextRoleType, LabelsIn DEF CreateFails, Holding, Creating
      <4> QED
        BY <3>1, <3>2, <3>3, <4>1, KeptKey DEF OneKey
    <3> QED
      BY <2>2, <3>4, <3>5
  <2> QED
    BY <1>2, <2>1, <2>2 DEF RunnerFault
<1>3. ASSUME NEW s \in Secrets, Delete(s) PROVE \E k \in Nat : OneKey(k)'
  <2>1. ~mixed
    BY <1>3 DEF Delete
  <2>2. PICK k \in Nat : OneKey(k)
    BY <2>1 DEF MixInv
  <2> QED
    BY <1>0, <1>3, <2>2 DEF Delete, OneKey, keyVars, TypeOK
<1>4. CASE UNCHANGED vars
  BY <1>4 DEF vars, OneKey, MixInv
<1> QED
  BY <1>1, <1>2, <1>3, <1>4 DEF Next

\* For any runners, roles, faults and deletions, secrets of two key pairs are there
\* only after a pair was made beside secrets or runs of another (Cluster.Healer,
\* Cluster.Create).
THEOREM OnlyMixingMismatches == Spec => []MatchUnlessMixed
<1>1. Init => MixInv
  <2> SUFFICES ASSUME Init PROVE OneKey(1)
    BY TypeInit DEF MixInv
  <2> QED
    BY InitialAssumption DEF Init, OneKey, Holding, Creating
<1>2. MixInv => MatchUnlessMixed
  BY DEF MixInv, OneKey, KeysMatch, MatchUnlessMixed
<1> QED
  BY <1>1, <1>2, MixStep, PTL DEF Spec

-----------------------------------------------------------------------------
(* The first run in an empty namespace, by one process that nothing        *)
(* interrupts, and its later rounds while only tokens are deleted.         *)

FirstRun ==
  /\ Runners # {}
  /\ \A r1, r2 \in Runners : r1 = r2
  /\ \A f \in InitialSecrets, s \in Secrets : f[s] = 0
  /\ Deletable \cap KeySecrets = {}
  /\ Faults = {}

\* Where the runner is tells which of the keys exist and what it holds.
FirstRunState(r) ==
  /\ pc[r] \in Creating => private[r] = public[r] /\ private[r] # 0
  /\ secrets[tokenPrivateKey] = 0 => /\ pc[r] \in {"idle", "putPrivate"}
                                     /\ \A s \in Secrets : secrets[s] = 0
  /\ secrets[tokenPrivateKey] # 0 =>
       /\ pc[r] # "putPrivate"
       /\ secrets[tokenPublicKey] = 0 => pc[r] = "putPublic"
       /\ pc[r] \in Creating \cup {"getPublic", "checkToken", "repairToken"}
            => private[r] = secrets[tokenPrivateKey]
       /\ \A s \in Secrets : secrets[s] \in {0, secrets[tokenPrivateKey]}

FirstRunInv == TypeOK /\ \A r \in Runners : FirstRunState(r)

LEMMA FirstRunStep == FirstRun /\ FirstRunInv /\ [Next]_vars => FirstRunInv'
<1> SUFFICES ASSUME FirstRun, FirstRunInv, [Next]_vars, NEW r \in Runners
             PROVE  FirstRunState(r)'
  BY TypeStep DEF FirstRunInv
<1>0. TypeOK /\ FirstRunState(r) /\ \A q \in Runners : q = r
  BY DEF FirstRunInv, FirstRun
<1>1. CASE RunnerStep(r)
  <2>1. CASE GetPrivate(r)
    <3>1. CASE secrets[tokenPrivateKey] # 0
      <4>1. Goto(r, "getPublic") /\ secrets' = secrets
            /\ private' = [private EXCEPT ![r] = secrets[tokenPrivateKey]] /\ pc[r] = "idle"
        BY <2>1, <3>1 DEF GetPrivate
      <4>2. pc'[r] = "getPublic" /\ private'[r] = secrets[tokenPrivateKey]
        BY <1>0, <4>1, GotoType, LabelsIn DEF TypeOK
      <4> QED
        BY <1>0, <3>1, <4>1, <4>2 DEF FirstRunState, Creating
    <3>2. CASE secrets[tokenPrivateKey] = 0
      <4>1. Create(r) /\ secrets' = secrets
        BY <2>1, <3>2 DEF GetPrivate
      <4>2. pc'[r] = "putPrivate"
        BY <1>0, <4>1, GotoType, LabelsIn DEF Create
      <4>3. private'[r] = nextKey /\ public'[r] = nextKey /\ nextKey # 0
        BY <1>0, <4>1 DEF Create, TypeOK
      <4> QED
        BY <1>0, <3>2, <4>1, <4>2, <4>3 DEF FirstRunState, Creating
    <3> QED
      BY <3>1, <3>2
  <2>2. CASE GetPublic(r)
    <3>1. secrets[tokenPrivateKey] # 0 /\ secrets[tokenPublicKey] # 0
      BY <1>0, <2>2 DEF GetPublic, FirstRunState
    <3>2. Goto(r, "checkToken") /\ secrets' = secrets /\ private' = private
          /\ pc[r] = "getPublic"
      BY <2>2, <3>1 DEF GetPublic
    <3>3. pc'[r] = "checkToken"
      BY <1>0, <3>2, GotoType, LabelsIn
    <3> QED
      BY <1>0, <3>1, <3>2, <3>3 DEF FirstRunState, Creating
  <2>3. CASE PutPrivate(r)
    <3>1. secrets[tokenPrivateKey] = 0 /\ private[r] # 0 /\ private[r] = public[r]
      BY <1>0, <2>3 DEF PutPrivate, FirstRunState, Creating
    <3>2. secrets' = [secrets EXCEPT ![tokenPrivateKey] = private[r]]
      BY <2>3, <3>1 DEF PutPrivate, CreateSecret
    <3>3. pc'[r] = "putPublic" /\ private' = private /\ public' = public
      BY <1>0, <2>3, GotoType, LabelsIn DEF PutPrivate, keyVars
    <3>4. /\ secrets'[tokenPrivateKey] = private[r]
          /\ \A s \in Secrets : secrets'[s] \in {0, private[r]}
      BY <1>0, <3>1, <3>2, KeysAreSecrets DEF FirstRunState, TypeOK
    <3> QED
      BY <3>1, <3>3, <3>4 DEF FirstRunState, Creating
  <2>4. CASE PutPublic(r)
    <3>1. secrets[tokenPrivateKey] # 0 /\ private[r] = public[r]
          /\ private[r] = secrets[tokenPrivateKey]
      BY <1>0, <2>4 DEF PutPublic, FirstRunState, Creating
    <3>2. pc'[r] = "putToken" /\ private' = private /\ public' = public
      BY <1>0, <2>4, GotoType, LabelsIn DEF PutPublic, keyVars
    <3>3. /\ secrets'[tokenPrivateKey] = secrets[tokenPrivateKey]
          /\ secrets'[tokenPublicKey] # 0
          /\ \A s \in Secrets : secrets'[s] \in {0, secrets[tokenPrivateKey]}
      BY <1>0, <2>4, <3>1, KeysAreSecrets DEF PutPublic, CreateSecret, FirstRunState, TypeOK
    <3> QED
      BY <3>1, <3>2, <3>3 DEF FirstRunState, Creating
  <2>5. CASE PutToken(r) \/ RepairToken(r)
    <3>1. /\ pc[r] \in {"putToken", "repairToken"}
          /\ CreateSecret(Roles[role[r]], private[r])
          /\ private' = private /\ public' = public
      BY <2>5 DEF PutToken, RepairToken, keyVars
    <3>2. pc'[r] \in {"putToken", "checkToken", "idle", "exited"}
          /\ (pc'[r] = "putToken" => pc[r] = "putToken")
      BY <1>0, <2>5, NextRoleType, LabelsIn DEF PutToken, RepairToken
    <3>3. /\ secrets[tokenPrivateKey] # 0 /\ secrets[tokenPublicKey] # 0
          /\ private[r] = secrets[tokenPrivateKey]
      BY <1>0, <3>1 DEF FirstRunState, Creating
    <3>4. Roles[role[r]] \in Secrets /\ Roles[role[r]] \notin KeySecrets
      BY <1>0, RoleIsToken
    <3>5. /\ secrets'[tokenPrivateKey] = secrets[tokenPrivateKey]
          /\ secrets'[tokenPublicKey] = secrets[tokenPublicKey]
      BY <1>0, <3>1, <3>4, KeysAreSecrets DEF CreateSecret, KeySecrets, TypeOK
    <3>6. \A s \in Secrets : secrets'[s] \in {secrets[s], private[r]}
      BY <1>0, <3>1, <3>4 DEF CreateSecret, TypeOK
    <3> QED
      BY <1>0, <3>1, <3>2, <3>3, <3>5, <3>6 DEF FirstRunState, Creating
  <2>6. CASE CheckToken(r)
    <3>1. pc[r] = "checkToken" /\ secrets' = secrets /\ private' = private
      BY <2>6 DEF CheckToken, keyVars
    <3>2. pc'[r] \in {"checkToken", "repairToken", "idle", "exited"}
      BY <1>0, <2>6, NextRoleType, GotoType, LabelsIn DEF CheckToken
    <3> QED
      BY <1>0, <3>1, <3>2 DEF FirstRunState, Creating
  <2> QED
    BY <1>1, <2>1, <2>2, <2>3, <2>4, <2>5, <2>6 DEF RunnerStep
<1>2. CASE RunnerFault(r)
  BY <1>2 DEF RunnerFault, GetKeyFails, CheckTokenFails, CreateFails, Crash, MayFail, FirstRun
<1>3. ASSUME NEW s \in Secrets, Delete(s) PROVE FirstRunState(r)'
  <2>1. /\ secrets' = [secrets EXCEPT ![s] = 0] /\ s \notin KeySecrets
        /\ UNCHANGED <<pc, private, public>>
    BY <1>3 DEF Delete, FirstRun, keyVars
  <2>2. /\ secrets'[tokenPrivateKey] = secrets[tokenPrivateKey]
        /\ secrets'[tokenPublicKey] = secrets[tokenPublicKey]
        /\ \A q \in Secrets : secrets'[q] \in {0, secrets[q]}
    BY <1>0, <2>1, KeysAreSecrets DEF KeySecrets, TypeOK
  <2> QED
    BY <1>0, <2>1, <2>2 DEF FirstRunState
<1>4. CASE UNCHANGED vars
  BY <1>0, <1>4 DEF vars, keyVars, FirstRunState
<1> QED
  BY <1>0, <1>1, <1>2, <1>3, <1>4 DEF Next

\* One process that provisions an empty namespace without interruption leaves all
\* secrets of one key pair at every moment, and keeps it so while tokens are
\* deleted and repaired (Cluster.Create, Cluster.Healer).
THEOREM FirstRunKeysMatch == ASSUME FirstRun PROVE Spec => []KeysMatch
<1>1. Init => FirstRunInv
  <2> SUFFICES ASSUME Init, NEW r \in Runners PROVE FirstRunState(r)
    BY TypeInit DEF FirstRunInv
  <2>1. pc[r] = "idle" /\ \A s \in Secrets : secrets[s] = 0
    BY DEF Init, FirstRun
  <2> QED
    BY <2>1, KeysAreSecrets DEF FirstRunState, Creating
<1>2. FirstRunInv => KeysMatch
  BY DEF FirstRunInv, FirstRunState, FirstRun, KeysMatch
<1>3. FirstRunInv /\ [Next]_vars => FirstRunInv'
  BY FirstRunStep
<1> QED
  BY <1>1, <1>2, <1>3, PTL DEF Spec

\* Whatever the runners, failing calls and deletions do, a secret that exists is
\* never replaced (CreateSecret leaves an existing secret alone).
THEOREM ExistingNeverReplaced == Spec => NeverReplaced
<1> DEFINE Kept == \A s \in Secrets : secrets[s] # 0 => secrets'[s] \in {0, secrets[s]}
<1>1. ASSUME TypeOK, NEW s, NEW v, CreateSecret(s, v) PROVE Kept
  BY <1>1 DEF CreateSecret, TypeOK
<1>2. ASSUME TypeOK, NEW r \in Runners, RunnerStep(r) PROVE Kept
  BY <1>1, <1>2 DEF RunnerStep, GetPrivate, GetPublic, PutPrivate, PutPublic, PutToken,
     CheckToken, RepairToken
<1>3. ASSUME NEW r \in Runners, RunnerFault(r) PROVE Kept
  BY <1>3 DEF RunnerFault, GetKeyFails, CheckTokenFails, CreateFails, Crash
<1>4. ASSUME TypeOK, NEW s \in Secrets, Delete(s) PROVE Kept
  BY <1>4 DEF Delete, TypeOK
<1>5. TypeOK /\ [Next]_vars => [Kept]_vars
  BY <1>2, <1>3, <1>4 DEF Next
<1>6. Spec => []TypeOK
  BY TypeCorrect
<1> QED
  BY <1>5, <1>6, PTL DEF Spec, NeverReplaced
=============================================================================
