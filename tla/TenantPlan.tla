----------------------------- MODULE TenantPlan -----------------------------
(***************************************************************************)
(* The tenant document and the pure functions on it:                       *)
(* src/src/policy/policy.go and the reconciliation rules of                *)
(* src/src/policy/pulsardb.go.                                             *)
(*                                                                         *)
(* Data abstraction.  A policy keeps two of the six numeric limits, the    *)
(* ones the handlers enforce (all six are merged by the same rule); Org,   *)
(* Users, Name and FeatureCodes are merged like the limits and left out.   *)
(* UpdatedAt is only a stamp.  The audit string is the sequence of the     *)
(* texts that were joined with commas.                                     *)
(***************************************************************************)
EXTENDS Integers, Sequences

CONSTANTS Tenants,     \* tenant names
          PlanTypes,   \* the planType strings clients send
          AuditTexts   \* the audit strings clients send

\* The name of the zero value TenantPlan{}; no route has an empty {tenant}.
NoName == ""

ASSUME TenantsAssumption == NoName \notin Tenants

\* state machine of tenant status; a request may carry any other number, too.
Reserved0   == 0
Activated   == 1
Deactivated == 2
Suspended   == 3
Deleted     == 4
TenantStatus == Int

FreeTier       == "free"
StarterTier    == "starter"
ProductionTier == "production"
DedicatedTier  == "dedicated"
PrivateTier    == "private"
Tiers == {FreeTier, StarterTier, ProductionTier, DedicatedTier, PrivateTier}

PlanPolicy == [numOfNamespaces : Int, functions : Int]
emptyPolicy == [numOfNamespaces |-> 0, functions |-> 0]

TenantPlanPolicies ==
  [free       |-> [numOfNamespaces |-> 1,    functions |-> 1],
   starter    |-> [numOfNamespaces |-> 2,    functions |-> 10],
   production |-> [numOfNamespaces |-> 6,    functions |-> 20],
   dedicated  |-> [numOfNamespaces |-> 500,  functions |-> 30],
   private    |-> [numOfNamespaces |-> 1000, functions |-> -1]]

\* strings.ToLower, on the capitalised spelling of a tier.
ToLower(s) ==
  LET lower == [Free |-> "free", Starter |-> "starter", Production |-> "production",
                Dedicated |-> "dedicated", Private |-> "private"]
  IN  IF s \in DOMAIN lower THEN lower[s] ELSE s

\* getPlanPolicy(plan) is nil outside the tiers.
HasPlanPolicy(plan) == plan \in Tiers
getPlanPolicy(plan) == TenantPlanPolicies[plan]

InitialAudit == "initial creation,"
FreeAudit    == "automatically created free plan"
Audits == Seq(AuditTexts \cup {InitialAudit, FreeAudit})

TenantPlans == [name : Tenants \cup {NoName}, tenantStatus : TenantStatus,
                planType : PlanTypes \cup Tiers \cup {""},
                policy : PlanPolicy, audit : Audits]

emptyPlan == [name |-> NoName, tenantStatus |-> Reserved0, planType |-> "",
              policy |-> emptyPolicy, audit |-> <<>>]

\* The plan GetOrCreateTenant puts in the cache for an unknown tenant.
newFreeTenantPlan(tenantName) ==
  [name |-> tenantName, tenantStatus |-> Activated, planType |-> FreeTier,
   policy |-> TenantPlanPolicies.free, audit |-> <<FreeAudit>>]

takeNonZero(a, b) == IF a = 0 THEN b ELSE a

\* Mutant: the default status is forgotten.
takeTenantStatus_NoDefault(a, b) == a

takeTenantStatus(a, b) == IF a = Reserved0 THEN b ELSE a

\* ReconcileTenantPlan answers 422 when the plan type names no tier.
Reconcilable(reqPlan) == HasPlanPolicy(ToLower(reqPlan.planType))

\* The branch for a tenant the cache does not know.
InitialPlan(reqPlan) ==
  [reqPlan EXCEPT
     !.audit = IF @ = <<"">> THEN <<InitialAudit>> ELSE @,
     !.policy = IF @ = emptyPolicy THEN getPlanPolicy(ToLower(reqPlan.planType)) ELSE @,
     !.tenantStatus = takeTenantStatus(@, Activated)]

\* The branch that merges the request into the known plan.
MergedPlan(reqPlan, existingPlan) ==
  [reqPlan EXCEPT
     !.policy = [numOfNamespaces |-> takeNonZero(@.numOfNamespaces,
                                                 existingPlan.policy.numOfNamespaces),
                 functions       |-> takeNonZero(@.functions, existingPlan.policy.functions)],
     !.tenantStatus = takeTenantStatus(@, existingPlan.tenantStatus),
     !.audit = existingPlan.audit \o @]

ReconcileTenantPlan(reqPlan, existingPlan) ==
  IF existingPlan = emptyPlan THEN InitialPlan(reqPlan)
                              ELSE MergedPlan(reqPlan, existingPlan)
=============================================================================
