------------------------------- MODULE KeysJwt -------------------------------
(***************************************************************************)
(* Provisioning and healing of the token keys and admin JWTs that live in  *)
(* Kubernetes secrets (src/src/workflow/keys-jwt.go).  The init job and    *)
(* the healer run the same procedure: read the key pair, create everything *)
(* anew if a key cannot be read, else create the tokens that are missing.  *)
(* Every call to the API server is one action, so runs of several          *)
(* processes, deletions and crashes interleave between calls.              *)
(*                                                                         *)
(* Data abstraction.  A key pair is a number.  A secret holds the number   *)
(* of the pair its key belongs to or its token was signed with; 0 is a     *)
(* secret that does not exist.                                             *)
(***************************************************************************)
EXTENDS Naturals, Sequences

CONSTANTS Runners,        \* processes in init or healer mode
          OneShot,        \* those in init mode: they run once and exit
          Roles,          \* getAdminRoles: a sequence; "token-" \o role is named by role
          InitialSecrets, \* what the namespace may hold at the start
          Deletable,      \* secrets somebody else may delete
          Faults,         \* which API calls may fail, and crashes
          MaxDeletions,   \* bound: deletions
          MaxFaults       \* bound: faults

tokenPrivateKey == "token-private-key"
tokenPublicKey  == "token-public-key"
KeySecrets == {tokenPrivateKey, tokenPublicKey}
TokenSecrets == {Roles[j] : j \in 1..Len(Roles)}
Secrets == KeySecrets \cup TokenSecrets

ASSUME RolesAssumption ==
  Len(Roles) \in Nat \ {0} /\ TokenSecrets \cap KeySecrets = {}
ASSUME RunnersAssumption == OneShot \subseteq Runners
ASSUME InitialAssumption == InitialSecrets \subseteq [Secrets -> {0, 1}]
ASSUME DeletableAssumption == Deletable \subseteq Secrets
ASSUME FaultsAssumption == Faults \subseteq {"get", "create", "crash"}
ASSUME BoundsAssumption == MaxDeletions \in Nat /\ MaxFaults \in Nat

VARIABLES secrets,   \* secrets[s]: key pair of secret s, 0 if it does not exist
          nextKey,   \* the next key pair NewRSAKeyPair will return
          pc,        \* where each runner is
          private,   \* KeyManager.PrivateKey of each runner
          public,    \* KeyManager.PublicKey of each runner
          role,      \* index of the role its loop is at
          mixed,     \* history: a pair was made beside secrets, or runs, of others
          deletions, faults

vars == <<secrets, nextKey, pc, private, public, role, mixed, deletions, faults>>
keyVars == <<private, public>>
boundVars == <<deletions, faults>>

Labels == {"idle", "getPublic", "putPrivate", "putPublic", "putToken", "checkToken",
           "repairToken", "exited"}

TypeOK ==
  /\ secrets \in [Secrets -> Nat]
  /\ nextKey \in Nat \ {0}
  /\ pc \in [Runners -> Labels]
  /\ private \in [Runners -> Nat]
  /\ public \in [Runners -> Nat]
  /\ role \in [Runners -> 1..Len(Roles)]
  /\ mixed \in BOOLEAN
  /\ deletions \in Nat
  /\ faults \in Nat

Init ==
  /\ secrets \in InitialSecrets
  /\ nextKey = 2
  /\ pc = [r \in Runners |-> "idle"]
  /\ private = [r \in Runners |-> 0]
  /\ public = [r \in Runners |-> 0]
  /\ role = [r \in Runners |-> 1]
  /\ mixed = FALSE
  /\ deletions = 0
  /\ faults = 0

-----------------------------------------------------------------------------
Goto(r, label) == pc' = [pc EXCEPT ![r] = label]

MayFail(kind) == kind \in Faults /\ faults < MaxFaults /\ faults' = faults + 1

\* Other secrets, or runs under way that hold a key, when r makes a pair.
Beside(r) ==
  \/ \E s \in Secrets : secrets[s] # 0
  \/ \E q \in Runners \ {r} : pc[q] \notin {"idle", "exited"}

\* Cluster.Create: a fresh key pair, then all secrets in order.
Create(r) ==
  /\ private' = [private EXCEPT ![r] = nextKey]
  /\ public' = [public EXCEPT ![r] = nextKey]
  /\ nextKey' = nextKey + 1
  /\ mixed' = (mixed \/ Beside(r))
  /\ Goto(r, "putPrivate")

\* Mutant: CreateSecret updates a secret that exists.
CreateSecret_Overwrites(s, v) == secrets' = [secrets EXCEPT ![s] = v]

\* k8s Create: a secret that exists is left as it is (AlreadyExists).
CreateSecret(s, v) == secrets' = [secrets EXCEPT ![s] = IF @ = 0 THEN v ELSE @]

\* Mutant: the loop runs past the last role.
NextRole_OffByOne(r, loop) ==
  IF role[r] <= Len(Roles)
  THEN /\ role' = [role EXCEPT ![r] = @ + 1]
       /\ Goto(r, loop)
  ELSE /\ role' = [role EXCEPT ![r] = 1]
       /\ Goto(r, IF r \in OneShot THEN "exited" ELSE "idle")

\* The end of one round of the loop over the roles, and of the run.
NextRole(r, loop) ==
  IF role[r] < Len(Roles)
  THEN /\ role' = [role EXCEPT ![r] = @ + 1]
       /\ Goto(r, loop)
  ELSE /\ role' = [role EXCEPT ![r] = 1]
       /\ Goto(r, IF r \in OneShot THEN "exited" ELSE "idle")

\* Healer, at a tick or at start-up: the private key is read.
GetPrivate(r) ==
  /\ pc[r] = "idle"
  /\ IF secrets[tokenPrivateKey] # 0
     THEN /\ private' = [private EXCEPT ![r] = secrets[tokenPrivateKey]]
          /\ Goto(r, "getPublic")
          /\ UNCHANGED <<nextKey, mixed, public>>
     ELSE Create(r)
  /\ UNCHANGED <<secrets, role, boundVars>>

\* Healer: the public key is read; with both, the tokens are checked.
GetPublic(r) ==
  /\ pc[r] = "getPublic"
  /\ IF secrets[tokenPublicKey] # 0
     THEN /\ public' = [public EXCEPT ![r] = secrets[tokenPublicKey]]
          /\ Goto(r, "checkToken")
          /\ UNCHANGED <<nextKey, mixed, private>>
     ELSE Create(r)
  /\ UNCHANGED <<secrets, role, boundVars>>

\* Any error of the API server while reading a key counts as a missing key.
GetKeyFails(r) ==
  /\ pc[r] \in {"idle", "getPublic"}
  /\ MayFail("get")
  /\ Create(r)
  /\ UNCHANGED <<secrets, role, deletions>>

\* KeysJWTs.Create; what CreateSecret returns is ignored.
PutPrivate(r) ==
  /\ pc[r] = "putPrivate"
  /\ CreateSecret(tokenPrivateKey, private[r])
  /\ Goto(r, "putPublic")
  /\ UNCHANGED <<nextKey, mixed, keyVars, role, boundVars>>

PutPublic(r) ==
  /\ pc[r] = "putPublic"
  /\ CreateSecret(tokenPublicKey, public[r])
  /\ Goto(r, "putToken")
  /\ UNCHANGED <<nextKey, mixed, keyVars, role, boundVars>>

PutToken(r) ==
  /\ pc[r] = "putToken"
  /\ CreateSecret(Roles[role[r]], private[r])
  /\ NextRole(r, "putToken")
  /\ UNCHANGED <<nextKey, mixed, keyVars, boundVars>>

\* Mutant: Repair does not look for the token of the last role.
CheckToken_SkipsLast(r) ==
  /\ pc[r] = "checkToken"
  /\ IF secrets[Roles[role[r]]] # 0 \/ role[r] = Len(Roles)
     THEN NextRole(r, "checkToken")
     ELSE Goto(r, "repairToken") /\ UNCHANGED role
  /\ UNCHANGED <<secrets, nextKey, mixed, keyVars, boundVars>>

\* KeysJWTs.Repair: is the token there?
CheckToken(r) ==
  /\ pc[r] = "checkToken"
  /\ IF secrets[Roles[role[r]]] # 0
     THEN NextRole(r, "checkToken")
     ELSE Goto(r, "repairToken") /\ UNCHANGED role
  /\ UNCHANGED <<secrets, nextKey, mixed, keyVars, boundVars>>

CheckTokenFails(r) ==
  /\ pc[r] = "checkToken"
  /\ MayFail("get")
  /\ Goto(r, "repairToken")
  /\ UNCHANGED <<secrets, nextKey, mixed, keyVars, role, deletions>>

\* Mutant: the missing token is signed with a key made on the spot.
RepairToken_NewKey(r) ==
  /\ pc[r] = "repairToken"
  /\ CreateSecret(Roles[role[r]], nextKey)
  /\ nextKey' = nextKey + 1
  /\ NextRole(r, "checkToken")
  /\ UNCHANGED <<mixed, keyVars, boundVars>>

\* KeysJWTs.Repair: the token signed with the private key that was read.
RepairToken(r) ==
  /\ pc[r] = "repairToken"
  /\ CreateSecret(Roles[role[r]], private[r])
  /\ NextRole(r, "checkToken")
  /\ UNCHANGED <<nextKey, mixed, keyVars, boundVars>>

\* CreateSecret returns an error other than AlreadyExists: the loop goes on.
CreateFails(r) ==
  /\ MayFail("create")
  /\ \/ pc[r] = "putPrivate" /\ Goto(r, "putPublic") /\ UNCHANGED role
     \/ pc[r] = "putPublic" /\ Goto(r, "putToken") /\ UNCHANGED role
     \/ pc[r] = "putToken" /\ NextRole(r, "putToken")
     \/ pc[r] = "repairToken" /\ NextRole(r, "checkToken")
  /\ UNCHANGED <<secrets, nextKey, mixed, keyVars, deletions>>

\* The process dies, or the run returns an error of the crypto library; the
\* procedure runs again from the start.
Crash(r) ==
  /\ pc[r] \notin {"idle", "exited"}
  /\ MayFail("crash")
  /\ Goto(r, "idle")
  /\ role' = [role EXCEPT ![r] = 1]
  /\ UNCHANGED <<secrets, nextKey, mixed, keyVars, deletions>>

\* Somebody deletes a secret: what the healer is for.
Delete(s) ==
  /\ deletions < MaxDeletions
  /\ s \in Deletable
  /\ secrets[s] # 0
  /\ secrets' = [secrets EXCEPT ![s] = 0]
  /\ deletions' = deletions + 1
  /\ UNCHANGED <<nextKey, mixed, pc, keyVars, role, faults>>

RunnerStep(r) ==
  \/ GetPrivate(r) \/ GetPublic(r)
  \/ PutPrivate(r) \/ PutPublic(r) \/ PutToken(r)
  \/ CheckToken(r) \/ RepairToken(r)

RunnerFault(r) ==
  GetKeyFails(r) \/ CheckTokenFails(r) \/ CreateFails(r) \/ Crash(r)

Next ==
  \/ \E r \in Runners : RunnerStep(r) \/ RunnerFault(r)
  \/ \E s \in Secrets : Delete(s)

Spec == Init /\ [][Next]_vars

(* The healer's ticker fires every five minutes and the API server answers. *)
FairSpec == Spec /\ \A r \in Runners : WF_vars(RunnerStep(r))

-----------------------------------------------------------------------------
(* Properties *)

\* All secrets there are belong to one key pair: the public key verifies every
\* token, and what the private key signs (Cluster.Create, Cluster.Healer).
KeysMatch ==
  \A s1, s2 \in Secrets : (secrets[s1] # 0 /\ secrets[s2] # 0) => secrets[s1] = secrets[s2]

\* Secrets of two key pairs have one cause: a run made a pair while secrets of
\* another pair were there (a key that could not be read, half a pair that a crash
\* or a failed create left, a deleted key) or while another run was under way.
\* Nothing else mixes them: no repair of tokens by any number of runs, no crash, no
\* failing call after the pair was made (Cluster.Healer, KeysJWTs.Repair).
MatchUnlessMixed == mixed \/ KeysMatch

\* A key or token that exists is never replaced by another one: tokens handed
\* out stay valid while somebody may be using them (CreateSecret never updates).
NeverReplaced ==
  [][\A s \in Secrets : secrets[s] # 0 => secrets'[s] \in {0, secrets[s]}]_vars

\* Whatever is deleted and whichever calls fail, once that stops every key and
\* token exists again (Healer, run at every tick).
EventuallyComplete == <>[](\A s \in Secrets : secrets[s] # 0)
==============================================================================
