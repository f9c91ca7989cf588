------------------------ MODULE CircuitBreakerProofs ------------------------
(* Theorems about CircuitBreaker, for all providers, callers and bounds. *)
EXTENDS CircuitBreaker, TLAPS

(* The statistics a provider without a bad last outcome has.               *)
Clean ==
    \A p \in Providers \ faulted : failures[p] = 0 /\ cool[p] = 0

StatsOK ==
    /\ failures \in [Providers -> 0..Threshold]
    /\ cool \in [Providers -> 0..Cooldown]

IInv == StatsOK /\ Clean

LEMMA Bounds == Threshold \in Nat \ {0} /\ Cooldown \in Nat \ {0}
  BY BreakerAssumption DEF BreakerAssumption

LEMMA InitIInv == Init => IInv
  BY BreakerAssumption DEF Init, IInv, StatsOK, Clean, BreakerAssumption

(* An update of one entry keeps a function's type, also at an argument     *)
(* outside its domain.                                                     *)
LEMMA UpdateTyped ==
  ASSUME NEW S, NEW R, NEW f \in [S -> R], NEW p, NEW x \in R
  PROVE  [f EXCEPT ![p] = x] \in [S -> R]
  OBVIOUS

LEMMA GoodIInv ==
  ASSUME NEW p, IInv, Good(p)
  PROVE  IInv'
  <1> USE Bounds DEF IInv, StatsOK
  <1>1. failures' \in [Providers -> 0..Threshold]
    <2>1. failures' = [failures EXCEPT ![p] = 0]
      BY DEF Good
    <2> QED
      BY <2>1, UpdateTyped
  <1>2. cool' \in [Providers -> 0..Cooldown]
    <2>1. cool' = [cool EXCEPT ![p] = 0]
      BY DEF Good
    <2> QED
      BY <2>1, UpdateTyped
  <1>3. ASSUME NEW q \in Providers, q \notin faulted'
        PROVE  failures'[q] = 0 /\ cool'[q] = 0
    <2>1. CASE q = p
      BY <2>1 DEF Good
    <2>2. CASE q # p
      BY <1>3, <2>2 DEF Good, Clean
    <2> QED
      BY <2>1, <2>2
  <1> QED
    BY <1>1, <1>2, <1>3 DEF Clean

LEMMA BadIInv ==
  ASSUME NEW p, IInv, Bad(p)
  PROVE  IInv'
  <1> USE Bounds DEF IInv, StatsOK
  <1>1. failures' \in [Providers -> 0..Threshold]
    <2>1. CASE p \in Providers
      <3>1. (IF failures[p] < Threshold THEN failures[p] + 1 ELSE failures[p])
              \in 0..Threshold
        BY <2>1
      <3> QED
        BY <3>1, UpdateTyped DEF Bad
    <2>2. CASE p \notin Providers
      BY <2>2 DEF Bad
    <2> QED
      BY <2>1, <2>2
  <1>2. cool' \in [Providers -> 0..Cooldown]
    <2>1. cool' = [cool EXCEPT ![p] = Cooldown]
      BY DEF Bad
    <2> QED
      BY <2>1, UpdateTyped
  <1>3. ASSUME NEW q \in Providers, q \notin faulted'
        PROVE  failures'[q] = 0 /\ cool'[q] = 0
    BY <1>3 DEF Bad, Clean
  <1> QED
    BY <1>1, <1>2, <1>3 DEF Clean

LEMMA TickIInv ==
  ASSUME IInv, Tick
  PROVE  IInv'
  BY BreakerAssumption DEF IInv, StatsOK, Clean, Tick, BreakerAssumption

LEMMA ApplyChecksIInv ==
  ASSUME IInv, ApplyChecks
  PROVE  IInv'
  BY BreakerAssumption
     DEF IInv, StatsOK, Clean, ApplyChecks, Unhealthy, BreakerAssumption

(* No other step touches the statistics the invariant is about.            *)
LEMMA QuietIInv ==
  ASSUME IInv, UNCHANGED <<failures, cool, faulted>>
  PROVE  IInv'
  BY DEF IInv, StatsOK, Clean

LEMMA NextIInv ==
  ASSUME IInv, [Next]_vars
  PROVE  IInv'
  <1>1. CASE Tick
    BY <1>1, TickIInv
  <1>2. ASSUME NEW c \in Recorders, NEW m \in ChainModels, Route(c, m)
        PROVE  IInv'
    BY <1>2, QuietIInv DEF Route
  <1>3. ASSUME NEW c \in Recorders, Succeed(c)
        PROVE  IInv'
    BY <1>3, GoodIInv DEF Succeed, update_provider_stats
  <1>4. ASSUME NEW c \in Recorders, Fail(c)
        PROVE  IInv'
    BY <1>4, BadIInv DEF Fail, update_provider_stats
  <1>5. ASSUME NEW c \in Recorders, ClientFail(c)
        PROVE  IInv'
    BY <1>5, QuietIInv DEF ClientFail, stats
  <1>6. ASSUME NEW c \in Callers, Cancel(c)
        PROVE  IInv'
    BY <1>6, QuietIInv DEF Cancel, stats
  <1>7. ASSUME NEW c \in Dispatchers, NEW chain \in Chains, Dispatch(c, chain)
        PROVE  IInv'
    BY <1>7, QuietIInv DEF Dispatch
  <1>8. ASSUME NEW c \in Dispatchers, Dispatched(c)
        PROVE  IInv'
    BY <1>8, QuietIInv DEF Dispatched, stats
  <1>9. ASSUME NEW m \in ChainModels, CountTokens(m)
        PROVE  IInv'
    BY <1>9, QuietIInv DEF CountTokens
  <1>10. ASSUME NEW p \in Providers, Check(p)
         PROVE  IInv'
    BY <1>10, QuietIInv DEF Check, stats
  <1>11. CASE ApplyChecks
    BY <1>11, ApplyChecksIInv
  <1>12. CASE UNCHANGED vars
    BY <1>12, QuietIInv DEF vars, stats
  <1> QED
    BY <1>1, <1>2, <1>3, <1>4, <1>5, <1>6, <1>7, <1>8, <1>9, <1>10, <1>11, <1>12
       DEF Next, RecorderStep, Callers

LEMMA IInvOffers ==
  ASSUME IInv
  PROVE  HealthyIsOffered
  BY BreakerAssumption
     DEF IInv, Clean, StatsOK, HealthyIsOffered, Offered, Tripped, InCooldown,
         BreakerAssumption

(* A provider whose last recorded outcome was good is always offered:      *)
(* below the threshold the probe flag is not read, so that no leaked       *)
(* reservation, client error or cancelled call can eject a healthy one.    *)
THEOREM HealthyAlwaysOffered == Spec => []HealthyIsOffered
  <1>1. Init => IInv
    BY InitIInv
  <1>2. IInv /\ [Next]_vars => IInv'
    BY NextIInv
  <1>3. IInv => HealthyIsOffered
    BY IInvOffers
  <1> QED
    BY <1>1, <1>2, <1>3, PTL DEF Spec
============================================================================
