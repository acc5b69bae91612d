------------------------------ MODULE RateLimit ------------------------------
(***************************************************************************)
(* The rate limiter in front of the router: a counting semaphore           *)
(* (src/src/route/semaphore.go) and the middleware that takes a slot       *)
(* around the handler (LimitRate, src/src/route/middleware.go).  The       *)
(* requests are goroutines; each channel operation is one action.  The     *)
(* names of the specification are the limiter's own, so that it stands     *)
(* beside AdminProxy, whose requests come through it.                      *)
(***************************************************************************)
EXTENDS Integers, FiniteSets

CONSTANTS Connections, \* each with one request at a time
          Size,        \* capacity of the semaphore
          MaxPanics    \* bound: panics in handlers

ASSUME ConnectionsAssumption == IsFiniteSet(Connections)
ASSUME SizeAssumption == Size \in Nat \ {0} /\ MaxPanics \in Nat

VARIABLES slots,   \* len(Sema.Ch)
          pc,      \* where each request is
          leaked,  \* history: handlers that panicked and never released
          taken    \* history: tokens that rejected requests took from handlers,
                   \* and that none of these has missed yet

limiterVars == <<slots, pc, leaked, taken>>

LimiterTypeOK ==
  /\ slots \in 0..Size
  /\ pc \in [Connections -> {"idle", "serving", "rejected"}]
  /\ leaked \in Nat
  /\ taken \in Int

\* NewSema: an empty channel.
LimiterInit ==
  /\ slots = 0
  /\ pc = [q \in Connections |-> "idle"]
  /\ leaked = 0 /\ taken = 0

Goto(q, label) == pc' = [pc EXCEPT ![q] = label]

\* Sema.Acquire, a free slot: the handler is called.
Acquire(q) ==
  /\ pc[q] = "idle"
  /\ slots < Size
  /\ slots' = slots + 1
  /\ Goto(q, "serving")
  /\ UNCHANGED <<leaked, taken>>

\* Sema.Acquire, no slot: 429 is written.
Reject(q) ==
  /\ pc[q] = "idle"
  /\ slots = Size
  /\ Goto(q, "rejected")
  /\ UNCHANGED <<slots, leaked, taken>>

\* Sema.Release: takes a token if there is one, whoever put it there.
Release == slots' = IF slots > 0 THEN slots - 1 ELSE slots

\* Mutant: the slot of a request that was served is not given back.
HandlerReturns_NoRelease(q) ==
  /\ pc[q] = "serving"
  /\ Goto(q, "idle")
  /\ UNCHANGED <<slots, leaked, taken>>

\* The handler returns and LimitRate releases; its token may be gone.
HandlerReturns(q) ==
  /\ pc[q] = "serving"
  /\ Release
  /\ taken' = IF slots = 0 THEN taken - 1 ELSE taken
  /\ Goto(q, "idle")
  /\ UNCHANGED leaked

\* Mutant: only a request that got a slot releases one.
ReleaseRejected_Guarded(q) ==
  /\ pc[q] = "rejected"
  /\ Goto(q, "idle")
  /\ UNCHANGED <<slots, leaked, taken>>

\* LimitRate releases after the 429 too: the token of somebody else.
ReleaseRejected(q) ==
  /\ pc[q] = "rejected"
  /\ Release
  /\ taken' = IF slots > 0 THEN taken + 1 ELSE taken
  /\ Goto(q, "idle")
  /\ UNCHANGED leaked

\* The handler panics; net/http recovers, the Release below it does not run.
Panic(q) ==
  /\ leaked < MaxPanics
  /\ pc[q] = "serving"
  /\ leaked' = leaked + 1
  /\ Goto(q, "idle")
  /\ UNCHANGED <<slots, taken>>

LimiterNext ==
  \E q \in Connections :
    Acquire(q) \/ Reject(q) \/ HandlerReturns(q) \/ ReleaseRejected(q) \/ Panic(q)

LimiterSpec == LimiterInit /\ [][LimiterNext]_limiterVars

(* Handlers return, and clients that find the limiter full ask again.      *)
FairLimiterSpec ==
  /\ LimiterSpec
  /\ \A q \in Connections : /\ WF_limiterVars(HandlerReturns(q))
                            /\ WF_limiterVars(ReleaseRejected(q))
                            /\ WF_limiterVars(Reject(q))

-----------------------------------------------------------------------------
(* Properties *)

Serving == {q \in Connections : pc[q] = "serving"}

\* The limit the limiter is there for: no more than Size handlers run
\* (LimitRate).
AtMostSize == Cardinality(Serving) <= Size

\* The limiter counts the handlers that run and those that died with their slot,
\* less the tokens that rejected requests took: no other release or panic, in any
\* order, makes it count too many (requests refused below the limit) or too few
\* (more than Size handlers) (LimitRate, Acquire and Release).
SlotsAccounted == slots + taken = Cardinality(Serving) + leaked

\* The limiter never stays full for good, even when every slot was leaked: each
\* rejected request frees one (LimitRate releases on both paths).
NeverWedged == (slots = Size) ~> (slots < Size)
=============================================================================
