------------------------- MODULE TokenLimiterProofs -------------------------
(***************************************************************************)
(* Proofs about TokenLimiter, for every set of keys and requests, every    *)
(* limit, estimate, calendar and expiry.                                   *)
(***************************************************************************)
EXTENDS TokenLimiter, FiniteSetTheorems, TLAPS

(* Reconciled requests are over, so no later reservation can be theirs.    *)
ReconciledIsDone == \A r \in reconciled : st[r] = "done"

IInv == TypeOK /\ NeverAboveLimit /\ ReconcileAfterAdmission /\ ReconciledIsDone

Counters == [Keys -> [Dims -> [Minutes -> Int]]]

(* Usage figures and windows are what the counters are made of. *)
LEMMA AmountWindow ==
  /\ \A u \in Usage : \A d \in Dims : Amount(u, d) \in Nat
  /\ \A d \in Dims : \A t \in Minutes : Window(d, t) \in Minutes
  /\ \A r \in Requests : KeyOf[r] \in Keys /\ Est[r] \in Usage
  BY LimiterAssumption DEF Amount, Window, Usage, Dims, Minutes

(* The reserve script keeps the types, admits at most its own request and   *)
(* raises a limited counter only to a value within the limit.              *)
LEMMA ReserveScript ==
  ASSUME TypeOK, NeverAboveLimit, NEW r \in Requests, LuaReserve(r)
  PROVE  /\ counter' \in Counters
         /\ expiry' \in [Keys -> [Dims -> [Minutes -> Nat]]]
         /\ resv' \in [Requests -> Nat]
         /\ admitted \subseteq admitted'
         /\ admitted' \subseteq admitted \cup {r}
         /\ \A q \in Requests : resv'[q] # 0 => resv[q] # 0 \/ (q = r /\ r \in admitted')
         /\ \A k \in Keys : \A d \in Dims : \A t \in Minutes :
               Limited(k, d) => counter'[k][d][t] =< Limit[k][d] + overrun[k][d][t]
<1> DEFINE k0 == KeyOf[r]
           hit(d, t) == d \in Charges(r) /\ t = Window(d, asked[r])
           ok == Rejections(r) = {}
<1>1. /\ counter' = [counter EXCEPT ![k0] =
               [d \in Dims |-> [t \in Minutes |->
                   IF hit(d, t) THEN counter[k0][d][t] + Amount(Est[r], d) ELSE counter[k0][d][t]]]]
      /\ expiry' = [expiry EXCEPT ![k0] =
               [d \in Dims |-> [t \in Minutes |->
                   IF hit(d, t) THEN now + Life[d] ELSE expiry[k0][d][t]]]]
      /\ resv' = IF ok THEN [resv EXCEPT ![r] = now + ResvLife] ELSE resv
      /\ admitted' = IF ok THEN admitted \cup {r} ELSE admitted
  BY DEF LuaReserve
<1>2. /\ k0 \in Keys
      /\ \A d \in Dims : Amount(Est[r], d) \in Nat
      /\ \A d \in Dims : Life[d] \in Nat
      /\ now \in Nat /\ ResvLife \in Nat
  BY AmountWindow, LimiterAssumption DEF TypeOK, Minutes
<1>3. \A d \in Dims : \A t \in Minutes : hit(d, t) =>
         /\ Limited(k0, d)
         /\ counter[k0][d][t] + Amount(Est[r], d) =< Limit[k0][d]
  BY DEF Charges, Passes
<1> HIDE DEF hit, ok, k0
<1>4. counter' \in Counters
  BY <1>1, <1>2 DEF TypeOK, Counters
<1>5. expiry' \in [Keys -> [Dims -> [Minutes -> Nat]]]
  BY <1>1, <1>2 DEF TypeOK
<1>6. /\ resv' \in [Requests -> Nat]
      /\ \A q \in Requests : resv'[q] # 0 => resv[q] # 0 \/ (q = r /\ r \in admitted')
  BY <1>1, <1>2 DEF TypeOK
<1>7. ASSUME NEW k \in Keys, NEW d \in Dims, NEW t \in Minutes, Limited(k, d)
      PROVE  counter'[k][d][t] =< Limit[k][d] + overrun[k][d][t]
  <2>1. /\ counter[k][d][t] =< Limit[k][d] + overrun[k][d][t]
        /\ counter[k][d][t] \in Int /\ overrun[k][d][t] \in Nat
        /\ Limit[k][d] \in Int
    BY <1>7, LimiterAssumption DEF NeverAboveLimit, TypeOK, Unset
  <2>2. CASE k # k0 \/ ~hit(d, t)
    <3>1. counter'[k][d][t] = counter[k][d][t]
      BY <1>1, <1>2, <2>2 DEF TypeOK
    <3> QED BY <2>1, <3>1
  <2>3. CASE k = k0 /\ hit(d, t)
    <3>1. counter'[k][d][t] = counter[k][d][t] + Amount(Est[r], d)
      BY <1>1, <1>2, <2>3 DEF TypeOK
    <3>2. counter[k][d][t] + Amount(Est[r], d) =< Limit[k][d]
      BY <1>3, <2>3
    <3> QED BY <1>2, <2>1, <3>1, <3>2
  <2> QED BY <2>2, <2>3
<1> QED BY <1>1, <1>4, <1>5, <1>6, <1>7

(* The reconcile script raises a counter only by what it adds to overrun. *)
LEMMA ReconcileScript ==
  ASSUME TypeOK, NeverAboveLimit, NEW r \in Requests, LuaReconcile(r)
  PROVE  /\ counter' \in Counters
         /\ expiry' = expiry
         /\ resv' \in [Requests -> Nat]
         /\ overrun' \in [Keys -> [Dims -> [Minutes -> Nat]]]
         /\ reconciled' \subseteq Requests
         /\ \/ UNCHANGED <<valkey, reconciled>>
            \/ /\ resv[r] # 0
               /\ reconciled' = reconciled \cup {r}
               /\ resv' = [resv EXCEPT ![r] = 0]
         /\ \A k \in Keys : \A d \in Dims : \A t \in Minutes :
               Limited(k, d) => counter'[k][d][t] =< Limit[k][d] + overrun'[k][d][t]
<1>1. CASE resv[r] = 0
  <2>1. UNCHANGED <<valkey, reconciled, overrun>>
    BY <1>1 DEF LuaReconcile
  <2> QED BY <2>1 DEF valkey, TypeOK, Counters, NeverAboveLimit
<1>2. CASE resv[r] # 0
  <2> DEFINE k0 == KeyOf[r]
             hit(d, t) == t = Window(d, closed[r])
  <2>1. /\ counter' = [counter EXCEPT ![k0] =
                 [d \in Dims |-> [t \in Minutes |->
                     IF hit(d, t) THEN counter[k0][d][t] + Delta(r, d) ELSE counter[k0][d][t]]]]
        /\ overrun' = [overrun EXCEPT ![k0] =
                 [d \in Dims |-> [t \in Minutes |->
                     IF hit(d, t) /\ Delta(r, d) > 0 THEN overrun[k0][d][t] + Delta(r, d)
                     ELSE overrun[k0][d][t]]]]
        /\ resv' = [resv EXCEPT ![r] = 0]
        /\ reconciled' = reconciled \cup {r}
        /\ UNCHANGED expiry
    BY <1>2 DEF LuaReconcile
  <2>2. k0 \in Keys /\ \A d \in Dims : Delta(r, d) \in Int
    <3>1. actual[r] \in Usage
      BY DEF TypeOK
    <3> QED BY <3>1, AmountWindow DEF Delta
  <2> HIDE DEF hit, k0
  <2>3. counter' \in Counters
    BY <2>1, <2>2 DEF TypeOK, Counters
  <2>4. overrun' \in [Keys -> [Dims -> [Minutes -> Nat]]]
    BY <2>1, <2>2 DEF TypeOK
  <2>5. resv' \in [Requests -> Nat] /\ reconciled' \subseteq Requests
    BY <2>1 DEF TypeOK
  <2>6. ASSUME NEW k \in Keys, NEW d \in Dims, NEW t \in Minutes, Limited(k, d)
        PROVE  counter'[k][d][t] =< Limit[k][d] + overrun'[k][d][t]
    <3>1. /\ counter[k][d][t] =< Limit[k][d] + overrun[k][d][t]
          /\ counter[k][d][t] \in Int /\ overrun[k][d][t] \in Nat
          /\ Limit[k][d] \in Int
      BY <2>6, LimiterAssumption DEF NeverAboveLimit, TypeOK, Unset
    <3>2. CASE k # k0 \/ ~hit(d, t)
      <4>1. counter'[k][d][t] = counter[k][d][t] /\ overrun'[k][d][t] = overrun[k][d][t]
        BY <2>1, <2>2, <3>2 DEF TypeOK
      <4> QED BY <3>1, <4>1
    <3>3. CASE k = k0 /\ hit(d, t)
      <4>1. /\ counter'[k][d][t] = counter[k][d][t] + Delta(r, d)
            /\ overrun'[k][d][t] = IF Delta(r, d) > 0 THEN overrun[k][d][t] + Delta(r, d)
                                   ELSE overrun[k][d][t]
        BY <2>1, <2>2, <3>3 DEF TypeOK
      <4> QED BY <2>2, <3>1, <4>1
    <3> QED BY <3>2, <3>3
  <2> QED BY <1>2, <2>1, <2>3, <2>4, <2>5, <2>6
<1> QED BY <1>1, <1>2

(* Every initial state satisfies the inductive invariant. *)
LEMMA InitIInv == Init => IInv
<1> SUFFICES ASSUME Init PROVE IInv
  OBVIOUS
<1>1. TypeOK
  <2>1. /\ counter \in [Keys -> [Dims -> [Minutes -> Int]]]
        /\ expiry \in [Keys -> [Dims -> [Minutes -> Nat]]]
        /\ overrun \in [Keys -> [Dims -> [Minutes -> Nat]]]
    BY DEF Init
  <2>2. 0 \in Minutes
    BY LimiterAssumption DEF Minutes
  <2>3. /\ now \in Minutes
        /\ asked \in [Requests -> Minutes]
        /\ closed \in [Requests -> Minutes]
        /\ actual \in [Requests -> Usage]
    BY <2>2, LimiterAssumption DEF Init
  <2> QED BY <2>1, <2>3 DEF Init, TypeOK, Callers
<1>2. NeverAboveLimit
  <2> SUFFICES ASSUME NEW k \in Keys, NEW d \in Dims, NEW t \in Minutes, Limited(k, d)
               PROVE  counter[k][d][t] =< Limit[k][d] + overrun[k][d][t]
    BY DEF NeverAboveLimit
  <2>1. counter[k][d][t] = 0 /\ overrun[k][d][t] = 0
    BY DEF Init
  <2>2. Limit[k][d] \in Int /\ Limit[k][d] > 0
    BY LimiterAssumption DEF Limited, Unset
  <2> QED BY <2>1, <2>2
<1>3. ReconcileAfterAdmission /\ ReconciledIsDone
  BY DEF Init, ReconcileAfterAdmission, ReconciledIsDone
<1> QED BY <1>1, <1>2, <1>3 DEF IInv

(* Loading the scripts touches nothing but the script and fault variables. *)
LEMMA LoadScriptsType ==
  ASSUME TypeOK, LoadScripts
  PROVE  /\ sha' \subseteq Scripts /\ loaded' \subseteq Scripts
         /\ faults' \in Nat /\ restarts' \in Nat
<1>1. faults \in Nat /\ restarts \in Nat /\ sha \subseteq Scripts /\ loaded \subseteq Scripts
  BY DEF TypeOK
<1>2. PICK got \in SUBSET (Scripts \ sha) :
        /\ sha' = sha \cup got
        /\ loaded' = loaded \cup got
        /\ IF got = Scripts \ sha THEN UNCHANGED env ELSE Fault
  BY DEF LoadScripts
<1>3. UNCHANGED env => faults' \in Nat /\ restarts' \in Nat
  BY <1>1 DEF env
<1>4. Fault => faults' \in Nat /\ restarts' \in Nat
  BY <1>1 DEF Fault
<1> QED BY <1>1, <1>2, <1>3, <1>4

(* Every step keeps the inductive invariant: one case per action. *)
LEMMA StepIInv ==
  ASSUME IInv, [Next]_vars
  PROVE  IInv'
<1>0. TypeOK /\ NeverAboveLimit /\ ReconcileAfterAdmission /\ ReconciledIsDone
  BY DEF IInv
<1>1. CASE UNCHANGED vars
  BY <1>0, <1>1 DEF vars, valkey, scripts, env, history, IInv, TypeOK, NeverAboveLimit,
                    ReconcileAfterAdmission, ReconciledIsDone
<1>2. ASSUME NEW r \in Requests, ReserveCall(r) PROVE IInv'
  <2>1. TypeOK'
    <3>1. /\ sha' \subseteq Scripts /\ loaded' \subseteq Scripts /\ faults' \in Nat /\ restarts' \in Nat
      BY <1>0, <1>2, LoadScriptsType DEF ReserveCall
    <3>2. st' \in [Requests -> Callers] /\ asked' \in [Requests -> Minutes]
      BY <1>0, <1>2 DEF ReserveCall, TypeOK, Callers
    <3> QED BY <1>0, <1>2, <3>1, <3>2 DEF ReserveCall, TypeOK, valkey, history
  <2>2. NeverAboveLimit' /\ ReconcileAfterAdmission'
    BY <1>0, <1>2 DEF ReserveCall, valkey, history, NeverAboveLimit, ReconcileAfterAdmission
  <2>3. ReconciledIsDone'
    BY <1>0, <1>2 DEF ReserveCall, history, ReconciledIsDone, TypeOK
  <2> QED BY <2>1, <2>2, <2>3 DEF IInv
<1>3. ASSUME NEW r \in Requests, st[r] = "reserving", LuaReserve(r),
             NEW s \in {"held", "rejected", "open"}, st' = [st EXCEPT ![r] = s],
             faults' \in Nat, restarts' \in Nat,
             UNCHANGED <<now, asked, closed, actual, scripts, reconciled, overrun>>
      PROVE  IInv'
  <2>1. /\ counter' \in Counters
        /\ expiry' \in [Keys -> [Dims -> [Minutes -> Nat]]]
        /\ resv' \in [Requests -> Nat]
        /\ admitted \subseteq admitted'
        /\ admitted' \subseteq admitted \cup {r}
        /\ \A q \in Requests : resv'[q] # 0 => resv[q] # 0 \/ (q = r /\ r \in admitted')
        /\ \A k \in Keys : \A d \in Dims : \A t \in Minutes :
              Limited(k, d) => counter'[k][d][t] =< Limit[k][d] + overrun[k][d][t]
    BY <1>0, <1>3, ReserveScript
  <2>2. TypeOK'
    <3>1. st' \in [Requests -> Callers]
      BY <1>0, <1>3 DEF TypeOK, Callers
    <3> QED BY <1>0, <1>3, <2>1, <3>1 DEF TypeOK, scripts, Counters
  <2>3. NeverAboveLimit'
    BY <1>3, <2>1 DEF NeverAboveLimit
  <2>4. r \notin reconciled
    BY <1>0, <1>3 DEF ReconciledIsDone
  <2>5. ReconcileAfterAdmission'
    BY <1>0, <1>3, <2>1, <2>4 DEF ReconcileAfterAdmission, TypeOK
  <2>6. ReconciledIsDone'
    BY <1>0, <1>3, <2>4 DEF ReconciledIsDone, TypeOK
  <2> QED BY <2>2, <2>3, <2>5, <2>6 DEF IInv
<1>4. ASSUME NEW r \in Requests, ReserveRun(r) PROVE IInv'
  <2> DEFINE s == IF Rejections(r) = {} THEN "held" ELSE "rejected"
  <2>1. /\ st[r] = "reserving" /\ LuaReserve(r) /\ s \in {"held", "rejected", "open"}
        /\ st' = [st EXCEPT ![r] = s]
        /\ UNCHANGED <<now, asked, closed, actual, scripts, reconciled, overrun>>
        /\ faults' \in Nat /\ restarts' \in Nat
    BY <1>0, <1>4 DEF ReserveRun, env, TypeOK
  <2> HIDE DEF s
  <2> QED BY <1>3, <2>1
<1>5. ASSUME NEW r \in Requests, ReserveError(r) PROVE IInv'
  <2>1. /\ st[r] = "reserving" /\ st' = [st EXCEPT ![r] = "open"]
        /\ UNCHANGED <<now, asked, closed, actual, scripts, reconciled, overrun>>
        /\ faults' \in Nat /\ restarts' \in Nat
    BY <1>0, <1>5 DEF ReserveError, Fault, TypeOK
  <2>2. CASE LuaReserve(r)
    BY <1>3, <2>1, <2>2
  <2>3. CASE UNCHANGED <<valkey, admitted>>
    <3>1. TypeOK'
      BY <1>0, <2>1, <2>3 DEF TypeOK, valkey, scripts, Callers
    <3>2. NeverAboveLimit' /\ ReconcileAfterAdmission' /\ ReconciledIsDone'
      BY <1>0, <2>1, <2>3 DEF TypeOK, valkey, NeverAboveLimit, ReconcileAfterAdmission,
                              ReconciledIsDone
    <3> QED BY <3>1, <3>2 DEF IInv
  <2> QED BY <1>5, <2>2, <2>3 DEF ReserveError
<1>6. ASSUME NEW r \in Requests, ReserveNoScript(r) \/ ReconcileNoScript(r) PROVE IInv'
  <2>1. TypeOK'
    BY <1>0, <1>6 DEF ReserveNoScript, ReconcileNoScript, TypeOK, valkey, scripts, env, history, Callers
  <2>2. NeverAboveLimit' /\ ReconcileAfterAdmission'
    BY <1>0, <1>6 DEF ReserveNoScript, ReconcileNoScript, valkey, history, NeverAboveLimit, ReconcileAfterAdmission
  <2>3. ReconciledIsDone'
    BY <1>0, <1>6 DEF ReserveNoScript, ReconcileNoScript, history, ReconciledIsDone, TypeOK
  <2> QED BY <2>1, <2>2, <2>3 DEF IInv
<1>7. ASSUME NEW r \in Requests, ReconcileCall(r) PROVE IInv'
  <2>1. TypeOK'
    <3>1. /\ sha' \subseteq Scripts /\ loaded' \subseteq Scripts /\ faults' \in Nat /\ restarts' \in Nat
      BY <1>0, <1>7, LoadScriptsType DEF ReconcileCall
    <3>2. /\ st' \in [Requests -> Callers] /\ closed' \in [Requests -> Minutes]
          /\ actual' \in [Requests -> Usage]
      BY <1>0, <1>7, LimiterAssumption DEF ReconcileCall, TypeOK, Callers
    <3> QED BY <1>0, <1>7, <3>1, <3>2 DEF ReconcileCall, TypeOK, valkey, history
  <2>2. NeverAboveLimit' /\ ReconcileAfterAdmission'
    BY <1>0, <1>7 DEF ReconcileCall, valkey, history, NeverAboveLimit, ReconcileAfterAdmission
  <2>3. ReconciledIsDone'
    BY <1>0, <1>7 DEF ReconcileCall, history, ReconciledIsDone, TypeOK
  <2> QED BY <2>1, <2>2, <2>3 DEF IInv
<1>8. ASSUME NEW r \in Requests, ReconcileRun(r) \/ ReconcileError(r) PROVE IInv'
  <2>1. /\ st[r] = "reconciling" /\ st' = [st EXCEPT ![r] = "done"]
        /\ UNCHANGED <<now, asked, closed, actual, scripts, admitted>>
        /\ faults' \in Nat /\ restarts' \in Nat
    BY <1>0, <1>8 DEF ReconcileRun, ReconcileError, Fault, env, TypeOK
  <2>2. CASE LuaReconcile(r)
    <3>1. /\ counter' \in Counters
          /\ expiry' = expiry
          /\ resv' \in [Requests -> Nat]
          /\ overrun' \in [Keys -> [Dims -> [Minutes -> Nat]]]
          /\ reconciled' \subseteq Requests
          /\ \/ UNCHANGED <<valkey, reconciled>>
             \/ /\ resv[r] # 0
                /\ reconciled' = reconciled \cup {r}
                /\ resv' = [resv EXCEPT ![r] = 0]
          /\ \A k \in Keys : \A d \in Dims : \A t \in Minutes :
                Limited(k, d) => counter'[k][d][t] =< Limit[k][d] + overrun'[k][d][t]
      BY <1>0, <2>2, ReconcileScript
    <3>2. TypeOK'
      <4>1. st' \in [Requests -> Callers]
        BY <1>0, <2>1 DEF TypeOK, Callers
      <4> QED BY <1>0, <2>1, <3>1, <4>1 DEF TypeOK, scripts, Counters
    <3>3. NeverAboveLimit'
      BY <3>1 DEF NeverAboveLimit
    <3>4. ReconcileAfterAdmission'
      BY <1>0, <2>1, <3>1 DEF ReconcileAfterAdmission, TypeOK, valkey
    <3>5. ReconciledIsDone'
      BY <1>0, <2>1, <3>1 DEF ReconciledIsDone, TypeOK
    <3> QED BY <3>2, <3>3, <3>4, <3>5 DEF IInv
  <2>3. CASE UNCHANGED <<valkey, reconciled, overrun>>
    <3>1. TypeOK'
      BY <1>0, <2>1, <2>3 DEF TypeOK, valkey, scripts, Callers
    <3>2. NeverAboveLimit' /\ ReconcileAfterAdmission' /\ ReconciledIsDone'
      BY <1>0, <2>1, <2>3 DEF TypeOK, valkey, NeverAboveLimit, ReconcileAfterAdmission,
                              ReconciledIsDone
    <3> QED BY <3>1, <3>2 DEF IInv
  <2> QED BY <1>8, <2>2, <2>3 DEF ReconcileRun, ReconcileError
<1>9. ASSUME NEW r \in Requests, ExpireReservation(r) PROVE IInv'
  <2>1. TypeOK' /\ NeverAboveLimit' /\ ReconciledIsDone'
    BY <1>0, <1>9 DEF ExpireReservation, TypeOK, NeverAboveLimit, ReconciledIsDone, scripts, env, history
  <2>2. ReconcileAfterAdmission'
    BY <1>0, <1>9 DEF ExpireReservation, TypeOK, ReconcileAfterAdmission, history
  <2> QED BY <2>1, <2>2 DEF IInv
<1>10. ASSUME NEW k0 \in Keys, NEW d0 \in Dims, NEW t0 \in Minutes, ExpireCounter(k0, d0, t0)
       PROVE  IInv'
  <2>1. /\ counter' \in [Keys -> [Dims -> [Minutes -> Int]]]
        /\ expiry' \in [Keys -> [Dims -> [Minutes -> Nat]]]
    BY <1>0, <1>10 DEF ExpireCounter, TypeOK
  <2>2. TypeOK'
    BY <1>0, <1>10, <2>1 DEF ExpireCounter, TypeOK, scripts, env, history
  <2>3. NeverAboveLimit'
    <3> SUFFICES ASSUME NEW k \in Keys, NEW d \in Dims, NEW t \in Minutes, Limited(k, d)
                 PROVE  counter'[k][d][t] =< Limit[k][d] + overrun'[k][d][t]
      BY DEF NeverAboveLimit
    <3>1. overrun' = overrun /\ overrun[k][d][t] \in Nat
      BY <1>0, <1>10 DEF ExpireCounter, history, TypeOK
    <3>2. counter'[k][d][t] = 0 \/ counter'[k][d][t] = counter[k][d][t]
      BY <1>0, <1>10 DEF ExpireCounter, TypeOK
    <3>3. Limit[k][d] \in Int /\ Limit[k][d] > 0
      BY LimiterAssumption DEF Limited, Unset
    <3>4. counter[k][d][t] =< Limit[k][d] + overrun[k][d][t]
      BY <1>0 DEF NeverAboveLimit
    <3> QED BY <3>1, <3>2, <3>3, <3>4
  <2>4. ReconcileAfterAdmission' /\ ReconciledIsDone'
    BY <1>0, <1>10 DEF ExpireCounter, history, ReconcileAfterAdmission, ReconciledIsDone
  <2> QED BY <2>2, <2>3, <2>4 DEF IInv
<1>11. CASE Tick
  <2>1. TypeOK'
    <3>1. now' \in Minutes
      BY <1>0, <1>11, LimiterAssumption DEF Tick, TypeOK, Minutes
    <3> QED BY <1>0, <1>11, <3>1 DEF Tick, TypeOK, valkey, scripts, env, history
  <2>2. NeverAboveLimit' /\ ReconcileAfterAdmission' /\ ReconciledIsDone'
    BY <1>0, <1>11 DEF Tick, valkey, history, NeverAboveLimit, ReconcileAfterAdmission, ReconciledIsDone
  <2> QED BY <2>1, <2>2 DEF IInv
<1>12. CASE ValkeyRestart
  <2>1. /\ counter' = [k \in Keys |-> [d \in Dims |-> [t \in Minutes |-> 0]]]
        /\ expiry' = [k \in Keys |-> [d \in Dims |-> [t \in Minutes |-> 0]]]
        /\ resv' = [r \in Requests |-> 0]
        /\ loaded' = {} /\ restarts' = restarts + 1
        /\ UNCHANGED <<now, st, asked, closed, actual, sha, faults, history>>
    BY <1>12 DEF ValkeyRestart
  <2>2. TypeOK'
    <3>1. /\ counter' \in [Keys -> [Dims -> [Minutes -> Int]]]
          /\ expiry' \in [Keys -> [Dims -> [Minutes -> Nat]]]
          /\ resv' \in [Requests -> Nat]
      BY <2>1
    <3>2. loaded' \subseteq Scripts
      BY <2>1
    <3>3. restarts' \in Nat
      <4>1. restarts \in Nat /\ restarts' = restarts + 1
        BY <1>0, <2>1 DEF TypeOK
      <4> QED BY <4>1
    <3> QED BY <1>0, <2>1, <3>1, <3>2, <3>3 DEF TypeOK, history
  <2>3. NeverAboveLimit'
    <3> SUFFICES ASSUME NEW k \in Keys, NEW d \in Dims, NEW t \in Minutes, Limited(k, d)
                 PROVE  counter'[k][d][t] =< Limit[k][d] + overrun'[k][d][t]
      BY DEF NeverAboveLimit
    <3>1. counter'[k][d][t] = 0 /\ overrun' = overrun /\ overrun[k][d][t] \in Nat
      BY <1>0, <2>1 DEF history, TypeOK
    <3>2. Limit[k][d] \in Int /\ Limit[k][d] > 0
      BY LimiterAssumption DEF Limited, Unset
    <3> QED BY <3>1, <3>2
  <2>4. ReconcileAfterAdmission' /\ ReconciledIsDone'
    BY <1>0, <2>1 DEF history, ReconcileAfterAdmission, ReconciledIsDone
  <2> QED BY <2>2, <2>3, <2>4 DEF IInv
<1> QED BY <1>1, <1>2, <1>4, <1>5, <1>6, <1>7, <1>8, <1>9, <1>10, <1>11, <1>12
       DEF Next, RequestStep

(* Type correctness of the limiter's state. *)
THEOREM TypeCorrect == Spec => []TypeOK
<1>1. IInv => TypeOK
  BY DEF IInv
<1> QED BY InitIInv, StepIInv, <1>1, PTL DEF Spec

(* No interleaving of the gate's callers, with Valkey restarts, expiries,   *)
(* late scripts and lost answers, lets a counter pass its limit by more     *)
(* than reconciles report beyond their estimates.                           *)
THEOREM LimitEnforced == Spec => []NeverAboveLimit
<1>1. IInv => NeverAboveLimit
  BY DEF IInv
<1> QED BY InitIInv, StepIInv, <1>1, PTL DEF Spec

(* A reservation belongs to an admitted request and is credited once. *)
THEOREM ReservationsCreditedOnce == Spec => []ReconcileAfterAdmission
<1>1. IInv => ReconcileAfterAdmission
  BY DEF IInv
<1> QED BY InitIInv, StepIInv, <1>1, PTL DEF Spec

-----------------------------------------------------------------------------
(* What a set of requests is charged. *)

Units(c, requests) == UNION {{r} \X (1..c[r]) : r \in requests}

LEMMA SpentFinite ==
    ASSUME NEW c \in [Requests -> Nat], NEW A \in SUBSET Requests, IsFiniteSet(A)
    PROVE  /\ IsFiniteSet(Units(c, A)) /\ Spent(c, A) = Cardinality(Units(c, A))
           /\ Spent(c, A) \in Nat
<1>. DEFINE T == {{r} \X (1..c[r]) : r \in A}
            f == [r \in A |-> {r} \X (1..c[r])]
<1>1. IsFiniteSet(T)
  <2>1. f \in Surjection(A, T)
    BY DEF Surjection
  <2>. QED BY <2>1, FS_Surjection
<1>2. ASSUME NEW r \in A PROVE IsFiniteSet({r} \X (1..c[r]))
  <2>1. c[r] \in Int
    OBVIOUS
  <2>2. IsFiniteSet(1..c[r])
    BY <2>1, FS_Interval
  <2>3. IsFiniteSet({r})
    BY FS_Singleton
  <2>. QED BY <2>2, <2>3, FS_Product
<1>3. \A X \in T : IsFiniteSet(X)
  BY <1>2
<1>. HIDE DEF T
<1>4. IsFiniteSet(UNION T)
  BY <1>1, <1>3, FS_UNION
<1>. QED BY <1>4, FS_CardinalityType DEF T, Units, Spent

LEMMA SpentNothing == ASSUME NEW c PROVE Spent(c, {}) = 0
<1>1. UNION {{r} \X (1..c[r]) : r \in {}} = {}
  OBVIOUS
<1>. QED BY <1>1, FS_EmptySet DEF Spent

(* The units depend on the charges of the set's own requests only. *)
LEMMA SpentSame ==
    ASSUME NEW c, NEW e, NEW A, \A r \in A : c[r] = e[r]
    PROVE  Spent(c, A) = Spent(e, A)
<1>1. \A r \in A : {r} \X (1..c[r]) = {r} \X (1..e[r])
  OBVIOUS
<1>2. UNION {{r} \X (1..c[r]) : r \in A} = UNION {{r} \X (1..e[r]) : r \in A}
  BY <1>1
<1>. QED BY <1>2 DEF Spent

(* One more request adds its own charge. *)
LEMMA SpentAdd ==
    ASSUME NEW c \in [Requests -> Nat], NEW A \in SUBSET Requests, IsFiniteSet(A),
           NEW x \in Requests, x \notin A
    PROVE  Spent(c, A \cup {x}) = Spent(c, A) + c[x]
<1>. DEFINE B == {x} \X (1..c[x])
<1>1. IsFiniteSet(B) /\ Cardinality(B) = c[x]
  <2>1. IsFiniteSet({x}) /\ Cardinality({x}) = 1
    BY FS_Singleton
  <2>2. IsFiniteSet(1..c[x]) /\ Cardinality(1..c[x]) = c[x]
    BY FS_Interval
  <2>3. IsFiniteSet(B) /\ Cardinality(B) = Cardinality({x}) * Cardinality(1..c[x])
    BY <2>1, <2>2, FS_Product
  <2>. QED BY <2>1, <2>2, <2>3
<1>2. IsFiniteSet(Units(c, A)) /\ Spent(c, A) = Cardinality(Units(c, A)) /\ Spent(c, A) \in Nat
  BY SpentFinite
<1>3. Units(c, A) \cap B = {}
  BY DEF Units
<1>4. Units(c, A \cup {x}) = Units(c, A) \cup B
  BY DEF Units
<1>. HIDE DEF B
<1>5. Cardinality(Units(c, A) \cup B)
         = Cardinality(Units(c, A)) + Cardinality(B) - Cardinality(Units(c, A) \cap B)
  BY <1>1, <1>2, FS_Union
<1>6. Cardinality(Units(c, A) \cap B) = 0
  BY <1>3, FS_EmptySet
<1>7. Spent(c, A \cup {x}) = Cardinality(Units(c, A \cup {x}))
  BY DEF Spent, Units
<1>8. c[x] \in Nat /\ Cardinality(Units(c, A)) \in Nat
  BY <1>2
<1>9. Spent(c, A \cup {x}) = Cardinality(Units(c, A) \cup B)
  BY <1>4, <1>7
<1>10. Cardinality(Units(c, A) \cup B) = Cardinality(Units(c, A)) + c[x]
  BY <1>1, <1>5, <1>6, <1>8
<1>. QED BY <1>2, <1>9, <1>10

(* A request charged anew moves the sum by the difference. *)
LEMMA SpentChange ==
    ASSUME NEW c \in [Requests -> Nat], NEW e \in [Requests -> Nat],
           NEW A \in SUBSET Requests, IsFiniteSet(A), NEW x \in A,
           \A r \in A \ {x} : c[r] = e[r]
    PROVE  Spent(e, A) = Spent(c, A) + (e[x] - c[x])
<1>. DEFINE B == A \ {x}
<1>1. IsFiniteSet(B) /\ B \in SUBSET Requests /\ x \in Requests /\ x \notin B /\ A = B \cup {x}
  BY FS_Subset
<1>. HIDE DEF B
<1>2. Spent(c, A) = Spent(c, B) + c[x] /\ Spent(e, A) = Spent(e, B) + e[x]
  BY <1>1, SpentAdd
<1>3. Spent(c, B) = Spent(e, B)
  BY SpentSame DEF B
<1>4. Spent(c, B) \in Nat /\ c[x] \in Nat /\ e[x] \in Nat
  BY <1>1, SpentFinite
<1>. QED BY <1>2, <1>3, <1>4
-----------------------------------------------------------------------------
(* The requests admitted in a month, and the counter of that month. *)

SameMonth == \A t, u \in Minutes : MonthOf[t] = MonthOf[u]
Month == MonthOf[0]

Monthly == {"tok", "usd"}

Bill(d) == [r \in Requests |-> Charge(r, d)]
Mine(k) == {r \in admitted : KeyOf[r] = k}

(* While Valkey keeps its keys, the counter of the month covers what the    *)
(* admitted requests are charged, and no key of the dimension expires.      *)
Covered(d) ==
    \A k \in Keys : Limited(k, d) =>
        /\ Spent(Bill(d), Mine(k)) =< counter[k][d][Month]
        /\ \A t \in Minutes : expiry[k][d][t] = 0 \/ expiry[k][d][t] > MaxNow

BudgetInv(d) ==
    /\ IsFiniteSet(admitted)
    /\ \A r \in admitted : st[r] \notin {"new", "reserving"}
    /\ restarts = 0 => Covered(d)

LEMMA MonthWindow ==
    ASSUME SameMonth, NEW d \in Monthly, NEW t \in Minutes
    PROVE  Window(d, t) = Month /\ Month \in Minutes
<1>1. 0 \in Minutes
  BY LimiterAssumption DEF Minutes
<1>. QED BY <1>1, LimiterAssumption DEF SameMonth, Monthly, Window, Month

LEMMA BillType ==
    ASSUME TypeOK, NEW d \in Dims
    PROVE  Bill(d) \in [Requests -> Nat] /\ \A k : Mine(k) \in SUBSET Requests
<1>1. \A r \in Requests : Charge(r, d) \in Nat
  BY AmountWindow DEF TypeOK, Charge
<1>. QED BY <1>1 DEF Bill, Mine, TypeOK

(* Every check passes when no dimension is rejected. *)
LEMMA NoRejection ==
    ASSUME NEW r \in Requests, Rejections(r) = {}
    PROVE  \A d \in Dims : Passes(r, d)
<1>1. Passes(r, "tpm")
  BY DEF Rejections, Before, Dims
<1>2. Passes(r, "tok")
  BY <1>1 DEF Rejections, Before, Dims
<1>3. Passes(r, "usd")
  BY <1>1, <1>2 DEF Rejections, Before, Dims
<1>. QED BY <1>1, <1>2, <1>3 DEF Dims

(* A step that touches neither counters, expiries nor charges keeps it. *)
LEMMA IdleStep ==
    ASSUME NEW d \in Monthly, BudgetInv(d), UNCHANGED <<counter, expiry, admitted>>,
           restarts' = restarts, Bill(d)' = Bill(d),
           \A r \in admitted : st'[r] \notin {"new", "reserving"}
    PROVE  BudgetInv(d)'
<1>1. \A k : Mine(k)' = Mine(k)
  BY DEF Mine
<1>2. Covered(d) => Covered(d)'
  BY <1>1 DEF Covered
<1>. QED BY <1>2 DEF BudgetInv

(* The reserve script adds the estimate of the request it admits. *)
LEMMA ReserveBudget ==
    ASSUME IInv, IInv', SameMonth, NEW d \in Monthly, Life[d] > MaxNow, BudgetInv(d),
           NEW r \in Requests, st[r] = "reserving", LuaReserve(r), restarts' = restarts,
           NEW s \in {"held", "rejected", "open"}, st' = [st EXCEPT ![r] = s],
           UNCHANGED <<actual, reconciled>>
    PROVE  BudgetInv(d)'
<1>. DEFINE k0 == KeyOf[r]
            hit(e, t) == e \in Charges(r) /\ t = Window(e, asked[r])
            ok == Rejections(r) = {}
<1>1. /\ counter' = [counter EXCEPT ![k0] =
               [e \in Dims |-> [t \in Minutes |->
                   IF hit(e, t) THEN counter[k0][e][t] + Amount(Est[r], e) ELSE counter[k0][e][t]]]]
      /\ expiry' = [expiry EXCEPT ![k0] =
               [e \in Dims |-> [t \in Minutes |->
                   IF hit(e, t) THEN now + Life[e] ELSE expiry[k0][e][t]]]]
      /\ admitted' = IF ok THEN admitted \cup {r} ELSE admitted
  BY DEF LuaReserve
<1>2. /\ k0 \in Keys /\ d \in Dims /\ Month \in Minutes
      /\ Amount(Est[r], d) \in Nat
      /\ Life[d] \in Nat /\ now \in Nat /\ MaxNow \in Nat
      /\ asked[r] \in Minutes /\ Window(d, asked[r]) = Month
  <2>1. d \in Dims
    BY DEF Monthly, Dims
  <2>2. asked[r] \in Minutes /\ now \in Nat
    BY DEF IInv, TypeOK, Minutes
  <2>3. Month \in Minutes /\ Window(d, asked[r]) = Month
    BY <2>2, MonthWindow
  <2>4. Life[d] \in Nat /\ MaxNow \in Nat
    BY <2>1, LimiterAssumption
  <2>5. k0 \in Keys /\ Amount(Est[r], d) \in Nat
    BY <2>1, AmountWindow
  <2>. QED BY <2>1, <2>2, <2>3, <2>4, <2>5
<1>3. ok /\ Limited(k0, d) => hit(d, Month)
  <2>1. Before(d) \subseteq Dims
    BY DEF Monthly, Before, Dims
  <2>2. ok => Passes(r, d) /\ \A b \in Before(d) : Passes(r, b)
    BY <1>2, <2>1, NoRejection
  <2>. QED BY <1>2, <2>2 DEF Charges
<1>. HIDE DEF hit, ok, k0
<1>4. r \notin admitted /\ r \notin reconciled
  BY DEF BudgetInv, IInv, ReconcileAfterAdmission
<1>5. /\ \A k \in Keys \ {k0} : counter'[k] = counter[k] /\ expiry'[k] = expiry[k]
      /\ counter'[k0][d][Month] = IF hit(d, Month) THEN counter[k0][d][Month] + Amount(Est[r], d)
                                  ELSE counter[k0][d][Month]
      /\ \A t \in Minutes : expiry'[k0][d][t] = IF hit(d, t) THEN now + Life[d]
                                                ELSE expiry[k0][d][t]
  BY <1>1, <1>2 DEF IInv, TypeOK
<1>6. IsFiniteSet(admitted')
  BY <1>1, FS_AddElement DEF BudgetInv
<1>7. \A q \in admitted' : st'[q] \notin {"new", "reserving"}
  <2>1. admitted \subseteq Requests /\ st \in [Requests -> Callers]
    BY DEF IInv, TypeOK
  <2>. QED BY <1>1, <2>1 DEF BudgetInv
<1>8. Bill(d)' = Bill(d)
  BY DEF Bill, Charge
<1>9. Bill(d)[r] = Amount(Est[r], d)
  BY <1>4 DEF Bill, Charge
<1>10. ASSUME Covered(d), NEW k \in Keys, Limited(k, d)
       PROVE  /\ Spent(Bill(d), Mine(k)') =< counter'[k][d][Month]
              /\ \A t \in Minutes : expiry'[k][d][t] = 0 \/ expiry'[k][d][t] > MaxNow
  <2>1. /\ Spent(Bill(d), Mine(k)) =< counter[k][d][Month]
        /\ \A t \in Minutes : expiry[k][d][t] = 0 \/ expiry[k][d][t] > MaxNow
    BY <1>10 DEF Covered
  <2>2. Bill(d) \in [Requests -> Nat] /\ Mine(k) \in SUBSET Requests
    BY <1>2, BillType DEF IInv
  <2>3. IsFiniteSet(Mine(k))
    BY FS_Subset DEF Mine, BudgetInv
  <2>4. Spent(Bill(d), Mine(k)) \in Nat /\ counter[k][d][Month] \in Int
    <3>1. counter[k][d][Month] \in Int
      BY <1>2 DEF IInv, TypeOK
    <3>. QED BY <2>2, <2>3, <3>1, SpentFinite
  <2>5. CASE k # k0
    <3>1. Mine(k)' = Mine(k)
      BY <1>1, <2>5 DEF Mine, k0
    <3>. QED BY <1>5, <2>1, <2>5, <3>1
  <2>6. CASE k = k0 /\ ~ok
    <3>1. Mine(k)' = Mine(k)
      BY <1>1, <2>6 DEF Mine
    <3>2. counter[k][d][Month] =< counter'[k][d][Month]
      BY <1>2, <1>5, <2>4, <2>6
    <3>3. counter'[k][d][Month] \in Int
      BY <1>2, <1>5, <2>4, <2>6
    <3>4. ASSUME NEW t \in Minutes PROVE expiry'[k][d][t] = 0 \/ expiry'[k][d][t] > MaxNow
      BY <1>2, <1>5, <2>1, <2>6
    <3>5. Spent(Bill(d), Mine(k)') =< counter'[k][d][Month]
      BY <2>1, <2>4, <3>1, <3>2, <3>3
    <3>. QED BY <3>4, <3>5
  <2>7. CASE k = k0 /\ ok
    <3>1. Mine(k)' = Mine(k) \cup {r} /\ r \notin Mine(k)
      BY <1>1, <1>4, <2>7 DEF Mine, k0
    <3>2. Spent(Bill(d), Mine(k) \cup {r}) = Spent(Bill(d), Mine(k)) + Amount(Est[r], d)
      BY <1>9, <2>2, <2>3, <3>1, SpentAdd
    <3>3. counter'[k][d][Month] = counter[k][d][Month] + Amount(Est[r], d)
      BY <1>3, <1>5, <1>10, <2>7
    <3>4. ASSUME NEW t \in Minutes PROVE expiry'[k][d][t] = 0 \/ expiry'[k][d][t] > MaxNow
      BY <1>2, <1>5, <2>1, <2>7
    <3>5. Spent(Bill(d), Mine(k)') =< counter'[k][d][Month]
      BY <1>2, <2>1, <2>4, <3>1, <3>2, <3>3
    <3>. QED BY <3>4, <3>5
  <2>. QED BY <2>5, <2>6, <2>7
<1>11. Covered(d) => Covered(d)'
  BY <1>8, <1>10 DEF Covered
<1>. QED BY <1>6, <1>7, <1>11 DEF BudgetInv

(* The reconcile script moves the counter as it moves the charge. *)
LEMMA ReconcileBudget ==
    ASSUME IInv, IInv', SameMonth, NEW d \in Monthly, BudgetInv(d),
           NEW r \in Requests, st[r] = "reconciling", LuaReconcile(r), restarts' = restarts,
           st' = [st EXCEPT ![r] = "done"], UNCHANGED <<actual, admitted>>
    PROVE  BudgetInv(d)'
<1>1. /\ admitted \subseteq Requests /\ st \in [Requests -> Callers]
      /\ \A q \in admitted : st'[q] \notin {"new", "reserving"}
  BY DEF IInv, TypeOK, BudgetInv
<1>2. CASE resv[r] = 0
  <2>1. UNCHANGED <<valkey, reconciled>>
    BY <1>2 DEF LuaReconcile
  <2>2. Bill(d)' = Bill(d)
    BY <2>1 DEF Bill, Charge
  <2>. QED BY <1>1, <2>1, <2>2, IdleStep DEF valkey
<1>3. CASE resv[r] # 0
  <2>. DEFINE k0 == KeyOf[r]
              hit(e, t) == t = Window(e, closed[r])
  <2>1. /\ counter' = [counter EXCEPT ![k0] =
                 [e \in Dims |-> [t \in Minutes |->
                     IF hit(e, t) THEN counter[k0][e][t] + Delta(r, e) ELSE counter[k0][e][t]]]]
        /\ reconciled' = reconciled \cup {r}
        /\ UNCHANGED expiry
    BY <1>3 DEF LuaReconcile
  <2>2. /\ k0 \in Keys /\ d \in Dims /\ Month \in Minutes /\ actual[r] \in Usage
        /\ closed[r] \in Minutes /\ Window(d, closed[r]) = Month
        /\ r \in admitted /\ r \notin reconciled
    BY <1>3, AmountWindow, MonthWindow DEF IInv, TypeOK, Monthly, Dims, ReconcileAfterAdmission
  <2>3. hit(d, Month)
    BY <2>2
  <2>. HIDE DEF hit, k0
  <2>4. /\ \A k \in Keys \ {k0} : counter'[k] = counter[k]
        /\ counter'[k0][d][Month] = counter[k0][d][Month] + Delta(r, d)
    BY <2>1, <2>2, <2>3 DEF IInv, TypeOK
  <2>5. Amount(actual[r], d) \in Nat /\ Amount(Est[r], d) \in Nat
    BY <2>2, AmountWindow
  <2>6. /\ Bill(d)[r] = Amount(Est[r], d) /\ Bill(d)'[r] = Amount(actual[r], d)
        /\ \A q \in Requests \ {r} : Bill(d)'[q] = Bill(d)[q]
    BY <2>1, <2>2 DEF Bill, Charge
  <2>7. ASSUME Covered(d), NEW k \in Keys, Limited(k, d)
        PROVE  /\ Spent(Bill(d)', Mine(k)) =< counter'[k][d][Month]
               /\ \A t \in Minutes : expiry'[k][d][t] = 0 \/ expiry'[k][d][t] > MaxNow
    <3>1. /\ Spent(Bill(d), Mine(k)) =< counter[k][d][Month]
          /\ \A t \in Minutes : expiry'[k][d][t] = 0 \/ expiry'[k][d][t] > MaxNow
      BY <2>1, <2>7 DEF Covered
    <3>2. /\ Bill(d) \in [Requests -> Nat] /\ Bill(d)' \in [Requests -> Nat]
          /\ Mine(k) \in SUBSET Requests
      <4>1. Bill(d) \in [Requests -> Nat] /\ Mine(k) \in SUBSET Requests
        BY <2>2, BillType DEF IInv
      <4>2. Bill(d)' \in [Requests -> Nat]
        <5>1. \A q \in Requests : Bill(d)'[q] \in Nat
          BY <2>5, <2>6, <4>1
        <5>2. Bill(d)' = [q \in Requests |-> Bill(d)'[q]]
          BY DEF Bill
        <5>. QED BY <5>1, <5>2
      <4>. QED BY <4>1, <4>2
    <3>3. IsFiniteSet(Mine(k))
      BY FS_Subset DEF Mine, BudgetInv
    <3>4. Spent(Bill(d), Mine(k)) \in Nat /\ counter[k][d][Month] \in Int
      <4>1. counter[k][d][Month] \in Int
        BY <2>2 DEF IInv, TypeOK
      <4>. QED BY <3>2, <3>3, <4>1, SpentFinite
    <3>5. CASE k # k0
      <4>1. \A q \in Mine(k) : Bill(d)'[q] = Bill(d)[q]
        BY <2>6, <3>2, <3>5 DEF Mine, k0
      <4>2. Spent(Bill(d)', Mine(k)) = Spent(Bill(d), Mine(k))
        BY <4>1, SpentSame
      <4>. QED BY <2>4, <3>1, <3>5, <4>2
    <3>6. CASE k = k0
      <4>1. r \in Mine(k) /\ \A q \in Mine(k) \ {r} : Bill(d)[q] = Bill(d)'[q]
        BY <2>2, <2>6, <3>2, <3>6 DEF Mine, k0
      <4>2. Spent(Bill(d)', Mine(k)) = Spent(Bill(d), Mine(k)) + (Bill(d)'[r] - Bill(d)[r])
        BY <3>2, <3>3, <4>1, SpentChange
      <4>3. Spent(Bill(d)', Mine(k)) = Spent(Bill(d), Mine(k)) + Delta(r, d) /\ Delta(r, d) \in Int
        BY <2>5, <2>6, <4>2 DEF Delta
      <4>4. counter'[k][d][Month] = counter[k][d][Month] + Delta(r, d)
        BY <2>4, <3>6
      <4>5. Spent(Bill(d)', Mine(k)) =< counter'[k][d][Month]
        BY <3>1, <3>4, <4>3, <4>4
      <4>. QED BY <3>1, <4>5
    <3>. QED BY <3>5, <3>6
  <2>8. \A k : Mine(k)' = Mine(k)
    BY DEF Mine
  <2>9. Covered(d) => Covered(d)'
    BY <2>7, <2>8 DEF Covered
  <2>. QED BY <1>1, <2>9 DEF BudgetInv
<1>. QED BY <1>2, <1>3

(* Loading the scripts restarts nothing. *)
LEMMA LoadRestarts == LoadScripts => restarts' = restarts
  BY DEF LoadScripts, env, Fault

LEMMA BudgetStep ==
    ASSUME SameMonth, NEW d \in Monthly, Life[d] > MaxNow,
           IInv, BudgetInv(d), [Next]_vars
    PROVE  BudgetInv(d)'
<1>1. /\ IInv' /\ st \in [Requests -> Callers] /\ admitted \subseteq Requests
      /\ \A r \in admitted : st[r] \notin {"new", "reserving"}
      /\ reconciled \subseteq admitted /\ \A r \in reconciled : st[r] = "done"
  BY StepIInv DEF IInv, TypeOK, BudgetInv, ReconcileAfterAdmission, ReconciledIsDone
<1>2. ASSUME UNCHANGED <<counter, expiry, history, actual, restarts, st>> PROVE BudgetInv(d)'
  <2>1. Bill(d)' = Bill(d)
    BY <1>2 DEF Bill, Charge, history
  <2>. QED BY <1>1, <1>2, <2>1, IdleStep DEF history
<1>3. ASSUME NEW r \in Requests, NEW s \in Callers \ {"new", "reserving"},
             UNCHANGED <<counter, expiry, admitted, reconciled, actual, restarts>>,
             st' = [st EXCEPT ![r] = s]
      PROVE  BudgetInv(d)'
  <2>1. Bill(d)' = Bill(d)
    BY <1>3 DEF Bill, Charge
  <2>2. \A q \in admitted : st'[q] \notin {"new", "reserving"}
    BY <1>1, <1>3
  <2>. QED BY <1>3, <2>1, <2>2, IdleStep
<1>4. ASSUME NEW r \in Requests, ReserveCall(r) PROVE BudgetInv(d)'
  <2>1. Bill(d)' = Bill(d)
    BY <1>4 DEF ReserveCall, history, Bill, Charge
  <2>2. /\ UNCHANGED <<counter, expiry, admitted>> /\ restarts' = restarts
    BY <1>4, LoadRestarts DEF ReserveCall, valkey, history
  <2>3. \A q \in admitted : st'[q] \notin {"new", "reserving"}
    <3>1. r \notin admitted
      BY <1>1, <1>4 DEF ReserveCall
    <3>. QED BY <1>1, <1>4, <3>1 DEF ReserveCall
  <2>. QED BY <2>1, <2>2, <2>3, IdleStep
<1>5. ASSUME NEW r \in Requests, ReserveRun(r) PROVE BudgetInv(d)'
  <2>. DEFINE s == IF Rejections(r) = {} THEN "held" ELSE "rejected"
  <2>1. /\ st[r] = "reserving" /\ LuaReserve(r) /\ s \in {"held", "rejected", "open"}
        /\ st' = [st EXCEPT ![r] = s]
        /\ UNCHANGED <<actual, reconciled>> /\ restarts' = restarts
    BY <1>5 DEF ReserveRun, env
  <2>. HIDE DEF s
  <2>. QED BY <1>1, <2>1, ReserveBudget
<1>6. ASSUME NEW r \in Requests, ReserveError(r) PROVE BudgetInv(d)'
  <2>1. /\ st[r] = "reserving" /\ st' = [st EXCEPT ![r] = "open"]
        /\ UNCHANGED <<actual, reconciled>> /\ restarts' = restarts
    BY <1>6 DEF ReserveError, Fault
  <2>2. CASE LuaReserve(r)
    BY <1>1, <2>1, <2>2, ReserveBudget
  <2>3. CASE UNCHANGED <<valkey, admitted>>
    BY <1>3, <2>1, <2>3 DEF valkey, Callers
  <2>. QED BY <1>6, <2>2, <2>3 DEF ReserveError
<1>7. ASSUME NEW r \in Requests, ReserveNoScript(r) \/ ReconcileNoScript(r) PROVE BudgetInv(d)'
  <2>1. UNCHANGED <<counter, expiry, admitted, reconciled, actual, restarts>>
    BY <1>7 DEF ReserveNoScript, ReconcileNoScript, valkey, env, history
  <2>2. \E s \in Callers \ {"new", "reserving"} : st' = [st EXCEPT ![r] = s]
    BY <1>7 DEF ReserveNoScript, ReconcileNoScript, Callers
  <2>. QED BY <1>3, <2>1, <2>2
<1>8. ASSUME NEW r \in Requests, ReconcileCall(r) PROVE BudgetInv(d)'
  <2>1. PICK u \in Actuals : actual' = [actual EXCEPT ![r] = u]
    BY <1>8 DEF ReconcileCall
  <2>2. r \notin reconciled
    BY <1>1, <1>8 DEF ReconcileCall
  <2>3. \A q \in Requests : Charge(q, d)' = Charge(q, d)
    <3>1. actual \in [Requests -> Usage] /\ reconciled' = reconciled
      BY <1>8 DEF IInv, TypeOK, ReconcileCall, history
    <3>2. \A q \in reconciled \cap Requests : actual'[q] = actual[q]
      BY <2>1, <2>2, <3>1
    <3>. QED BY <3>1, <3>2 DEF Charge
  <2>4. Bill(d)' = Bill(d)
    BY <2>3 DEF Bill
  <2>5. /\ UNCHANGED <<counter, expiry, admitted>> /\ restarts' = restarts
        /\ st' = [st EXCEPT ![r] = "reconciling"]
    BY <1>8, LoadRestarts DEF ReconcileCall, valkey, history
  <2>6. \A q \in admitted : st'[q] \notin {"new", "reserving"}
    BY <1>1, <2>5
  <2>. QED BY <2>4, <2>5, <2>6, IdleStep
<1>9. ASSUME NEW r \in Requests, ReconcileRun(r) \/ ReconcileError(r) PROVE BudgetInv(d)'
  <2>1. /\ st[r] = "reconciling" /\ st' = [st EXCEPT ![r] = "done"]
        /\ UNCHANGED <<actual, admitted>> /\ restarts' = restarts
    BY <1>9 DEF ReconcileRun, ReconcileError, Fault, env
  <2>2. CASE LuaReconcile(r)
    BY <1>1, <2>1, <2>2, ReconcileBudget
  <2>3. CASE UNCHANGED <<valkey, reconciled, overrun>>
    BY <1>3, <2>1, <2>3 DEF valkey, Callers
  <2>. QED BY <1>9, <2>2, <2>3 DEF ReconcileRun, ReconcileError
<1>10. ASSUME NEW r \in Requests, ExpireReservation(r) PROVE BudgetInv(d)'
  BY <1>2, <1>10 DEF ExpireReservation, env
<1>11. ASSUME NEW k0 \in Keys, NEW e \in Dims, NEW t0 \in Minutes, ExpireCounter(k0, e, t0)
       PROVE  BudgetInv(d)'
  <2>1. /\ counter' = [counter EXCEPT ![k0][e][t0] = 0]
        /\ expiry' = [expiry EXCEPT ![k0][e][t0] = 0]
        /\ expiry[k0][e][t0] # 0 /\ expiry[k0][e][t0] =< now
        /\ UNCHANGED <<st, actual, admitted, reconciled, restarts>>
    BY <1>11 DEF ExpireCounter, Due, env, history
  <2>2. /\ now \in Nat /\ now =< MaxNow /\ MaxNow \in Nat /\ expiry[k0][e][t0] \in Nat
    BY LimiterAssumption DEF IInv, TypeOK, Minutes
  <2>3. /\ \A k : Mine(k)' = Mine(k)
        /\ Bill(d)' = Bill(d)
    BY <2>1 DEF Mine, Bill, Charge
  <2>4. ASSUME Covered(d), NEW k \in Keys, Limited(k, d)
        PROVE  counter'[k][d] = counter[k][d] /\ expiry'[k][d] = expiry[k][d]
    <3>1. \A t \in Minutes : expiry[k][d][t] = 0 \/ expiry[k][d][t] > MaxNow
      BY <2>4 DEF Covered
    <3>2. ~(k = k0 /\ d = e)
      BY <2>1, <2>2, <3>1
    <3>3. d \in Dims
      BY DEF Monthly, Dims
    <3>. QED BY <2>1, <3>2, <3>3 DEF IInv, TypeOK
  <2>5. Covered(d) => Covered(d)'
    BY <2>3, <2>4 DEF Covered
  <2>. QED BY <2>1, <2>5 DEF BudgetInv
<1>12. CASE Tick
  BY <1>2, <1>12 DEF Tick, valkey, env
<1>13. CASE ValkeyRestart
  <2>1. restarts' # 0 /\ UNCHANGED <<st, admitted>>
    <3>1. restarts \in Nat
      BY DEF IInv, TypeOK
    <3>. QED BY <1>13, <3>1 DEF ValkeyRestart, history
  <2>. QED BY <2>1 DEF BudgetInv
<1>14. CASE UNCHANGED vars
  BY <1>2, <1>14 DEF vars, valkey, env
<1>. QED BY <1>4, <1>5, <1>6, <1>7, <1>8, <1>9, <1>10, <1>11, <1>12, <1>13, <1>14
        DEF Next, RequestStep

(* The covered counter is within the limit, so the charges are. *)
LEMMA CoveredIsWithin ==
    ASSUME SameMonth, NEW d \in Monthly, IInv, BudgetInv(d), restarts = 0
    PROVE  BudgetHeld(d)
<1>. SUFFICES ASSUME NEW k \in Keys, NEW t \in Minutes, Limited(k, d)
              PROVE  Spent(Bill(d), AdmittedIn(k, d, t)) =< Limit[k][d] + overrun[k][d][t]
  BY DEF BudgetHeld, Bill
<1>1. /\ d \in Dims /\ admitted \subseteq Requests
      /\ counter[k][d][t] \in Int /\ overrun[k][d][t] \in Nat
  BY DEF Monthly, Dims, IInv, TypeOK
<1>2. Limit[k][d] \in Int /\ Limit[k][d] > 0
  BY <1>1, LimiterAssumption DEF Limited, Unset
<1>3. \A r \in admitted : Window(d, asked[r]) = Month
  BY <1>1, MonthWindow DEF IInv, TypeOK
<1>4. CASE t = Month
  <2>1. AdmittedIn(k, d, t) = Mine(k)
    BY <1>3, <1>4 DEF AdmittedIn, Mine
  <2>2. Spent(Bill(d), Mine(k)) =< counter[k][d][t]
    BY <1>4 DEF BudgetInv, Covered
  <2>3. counter[k][d][t] =< Limit[k][d] + overrun[k][d][t]
    BY <1>1 DEF IInv, NeverAboveLimit
  <2>4. Spent(Bill(d), Mine(k)) \in Nat
    <3>1. Bill(d) \in [Requests -> Nat] /\ Mine(k) \in SUBSET Requests
      BY <1>1, BillType DEF IInv
    <3>2. IsFiniteSet(Mine(k))
      BY FS_Subset DEF Mine, BudgetInv
    <3>. QED BY <3>1, <3>2, SpentFinite
  <2>. QED BY <1>1, <1>2, <2>1, <2>2, <2>3, <2>4
<1>5. CASE t # Month
  <2>1. AdmittedIn(k, d, t) = {}
    BY <1>3, <1>5 DEF AdmittedIn
  <2>. QED BY <1>1, <1>2, <2>1, SpentNothing
<1>. QED BY <1>4, <1>5

LEMMA InitBudget == ASSUME NEW d \in Monthly, Init PROVE BudgetInv(d)
<1>1. admitted = {} /\ \A k : Mine(k) = {}
  BY DEF Init, Mine
<1>2. \A k \in Keys : \A t \in Minutes : counter[k][d][t] = 0 /\ expiry[k][d][t] = 0
  BY DEF Init, Monthly, Dims
<1>3. Month \in Minutes
  <2>1. 0 \in Minutes
    BY LimiterAssumption DEF Minutes
  <2>. QED BY <2>1, LimiterAssumption DEF Month
<1>4. Covered(d)
  BY <1>1, <1>2, <1>3, SpentNothing DEF Covered
<1>. QED BY <1>1, <1>4, FS_EmptySet DEF BudgetInv

(* Within one month and while its counter outlives it - the setting in      *)
(* which the limit is meant to bound what a key consumes - the requests     *)
(* admitted for a key are charged no more than its monthly tokens allow, up *)
(* to what they used beyond their estimates, for any keys and requests and  *)
(* any interleaving of scripts, lost answers, expired reservations and      *)
(* requests that never reconcile.                                           *)
THEOREM MonthlyTokensKept ==
    ASSUME SameMonth, Life["tok"] > MaxNow
    PROVE  Spec => []MonthlyBudgetHeld
<1>. DEFINE I == IInv /\ BudgetInv("tok")
<1>1. "tok" \in Monthly
  BY DEF Monthly
<1>2. Init => I
  BY <1>1, InitIInv, InitBudget
<1>3. I /\ [Next]_vars => I'
  BY <1>1, StepIInv, BudgetStep
<1>4. I => MonthlyBudgetHeld
  BY <1>1, CoveredIsWithin DEF MonthlyBudgetHeld
<1>. QED BY <1>2, <1>3, <1>4, PTL DEF Spec

(* The same for the monthly money, which the scripts keep the same way. *)
THEOREM MonthlyMoneyKept ==
    ASSUME SameMonth, Life["usd"] > MaxNow
    PROVE  Spec => [](restarts = 0 => BudgetHeld("usd"))
<1>. DEFINE I == IInv /\ BudgetInv("usd")
<1>1. "usd" \in Monthly
  BY DEF Monthly
<1>2. Init => I
  BY <1>1, InitIInv, InitBudget
<1>3. I /\ [Next]_vars => I'
  BY <1>1, StepIInv, BudgetStep
<1>4. I => (restarts = 0 => BudgetHeld("usd"))
  BY <1>1, CoveredIsWithin
<1>. QED BY <1>2, <1>3, <1>4, PTL DEF Spec

-----------------------------------------------------------------------------
(* Requests the gate let through, or is bound to, for want of its script. *)

Lost == {r \in Requests : \/ st[r] = "open" /\ ~Ungated(r)
                          \/ st[r] = "reserving" /\ "reserve" \notin sha}

GateInv ==
    restarts = 0 => /\ sha \subseteq loaded
                    /\ IsFiniteSet(Lost) /\ Cardinality(Lost) =< faults

(* A request more is lost only with an error more. *)
LEMMA LostStep ==
    ASSUME GateInv, faults \in Nat, restarts = restarts', sha \subseteq loaded => sha' \subseteq loaded',
           NEW r, \/ restarts = 0 /\ sha \subseteq loaded => faults' = faults /\ Lost' \subseteq Lost
                  \/ faults' = faults + 1 /\ Lost' \subseteq Lost \cup {r}
    PROVE  GateInv'
<1>. SUFFICES ASSUME restarts = 0
              PROVE  /\ sha' \subseteq loaded'
                     /\ IsFiniteSet(Lost') /\ Cardinality(Lost') =< faults'
  BY DEF GateInv
<1>1. sha \subseteq loaded /\ IsFiniteSet(Lost) /\ Cardinality(Lost) =< faults
  BY DEF GateInv
<1>2. Cardinality(Lost) \in Nat
  BY <1>1, FS_CardinalityType
<1>. HIDE DEF Lost
<1>3. CASE faults' = faults /\ Lost' \subseteq Lost
  <2>1. IsFiniteSet(Lost') /\ Cardinality(Lost') =< Cardinality(Lost)
    BY <1>1, <1>3, FS_Subset
  <2>2. Cardinality(Lost') \in Nat
    BY <2>1, FS_CardinalityType
  <2>. QED BY <1>1, <1>2, <1>3, <2>1, <2>2
<1>4. CASE faults' = faults + 1 /\ Lost' \subseteq Lost \cup {r}
  <2>1. IsFiniteSet(Lost \cup {r}) /\ Cardinality(Lost \cup {r}) =< Cardinality(Lost) + 1
    BY <1>1, <1>2, FS_AddElement
  <2>2. IsFiniteSet(Lost') /\ Cardinality(Lost') =< Cardinality(Lost \cup {r})
    BY <1>4, <2>1, FS_Subset
  <2>3. Cardinality(Lost') \in Nat /\ Cardinality(Lost \cup {r}) \in Nat
    BY <2>1, <2>2, FS_CardinalityType
  <2>. QED BY <1>1, <1>2, <1>4, <2>1, <2>2, <2>3
<1>. QED BY <1>1, <1>3, <1>4

(* Loading leaves the reserve script without a SHA only with an error. *)
LEMMA LoadFault ==
    ASSUME LoadScripts
    PROVE  /\ restarts' = restarts /\ sha \subseteq sha'
           /\ sha \subseteq loaded => sha' \subseteq loaded'
           /\ faults' = faults + 1 \/ (faults' = faults /\ "reserve" \in sha')
  BY DEF LoadScripts, env, Fault, Scripts

LEMMA GateStep ==
    ASSUME TypeOK, GateInv, [Next]_vars
    PROVE  GateInv'
<1>1. faults \in Nat /\ restarts \in Nat /\ st \in [Requests -> Callers]
  BY DEF TypeOK
<1>2. ASSUME Lost' \subseteq Lost, UNCHANGED <<scripts, env>> PROVE GateInv'
  BY <1>1, <1>2, LostStep DEF scripts, env
<1>3. ASSUME NEW r \in Requests, ReserveCall(r) PROVE GateInv'
  <2>1. /\ restarts' = restarts /\ sha \subseteq sha'
        /\ sha \subseteq loaded => sha' \subseteq loaded'
        /\ faults' = faults + 1 \/ (faults' = faults /\ "reserve" \in sha')
    BY <1>3, LoadFault DEF ReserveCall
  <2>2. st' = [st EXCEPT ![r] = IF Ungated(r) THEN "open" ELSE "reserving"]
    BY <1>3 DEF ReserveCall
  <2>3. Lost' \subseteq Lost \cup {r} /\ ("reserve" \in sha' => Lost' \subseteq Lost)
    BY <1>1, <2>1, <2>2 DEF Lost, Ungated
  <2>. QED BY <1>1, <2>1, <2>3, LostStep
<1>4. ASSUME NEW r \in Requests, ReserveRun(r) PROVE GateInv'
  <2>1. st'[r] \in {"held", "rejected"} /\ \A q \in Requests \ {r} : st'[q] = st[q]
    BY <1>1, <1>4 DEF ReserveRun
  <2>2. Lost' \subseteq Lost
    BY <1>4, <2>1 DEF ReserveRun, Lost, Ungated, scripts
  <2>. QED BY <1>2, <1>4, <2>2 DEF ReserveRun
<1>5. ASSUME NEW r \in Requests, ReserveError(r) PROVE GateInv'
  <2>1. /\ faults' = faults + 1 /\ restarts' = restarts /\ UNCHANGED scripts
        /\ st' = [st EXCEPT ![r] = "open"]
    BY <1>5 DEF ReserveError, Fault
  <2>2. Lost' \subseteq Lost \cup {r}
    BY <1>1, <2>1 DEF Lost, Ungated, scripts
  <2>. QED BY <1>1, <2>1, <2>2, LostStep DEF scripts
<1>6. ASSUME NEW r \in Requests, ReserveNoScript(r) PROVE GateInv'
  <2>1. /\ st[r] = "reserving" /\ "reserve" \notin sha \cap loaded
        /\ st' = [st EXCEPT ![r] = "open"] /\ UNCHANGED <<scripts, env>>
    BY <1>6 DEF ReserveNoScript, Callable
  <2>2. sha \subseteq loaded => Lost' \subseteq Lost
    BY <1>1, <2>1 DEF Lost, Ungated, scripts
  <2>. QED BY <1>1, <2>1, <2>2, LostStep DEF scripts, env
<1>7. ASSUME NEW r \in Requests, ReconcileCall(r) PROVE GateInv'
  <2>1. /\ restarts' = restarts /\ sha \subseteq sha'
        /\ sha \subseteq loaded => sha' \subseteq loaded'
        /\ faults' = faults + 1 \/ faults' = faults
    BY <1>7, LoadFault DEF ReconcileCall
  <2>2. st' = [st EXCEPT ![r] = "reconciling"]
    BY <1>7 DEF ReconcileCall
  <2>3. Lost' \subseteq Lost
    BY <1>1, <2>1, <2>2 DEF Lost, Ungated
  <2>. QED BY <1>1, <2>1, <2>3, LostStep
<1>8. ASSUME NEW r \in Requests, ReconcileRun(r) \/ ReconcileError(r) \/ ReconcileNoScript(r)
      PROVE  GateInv'
  <2>1. /\ restarts' = restarts /\ UNCHANGED scripts
        /\ faults' = faults + 1 \/ faults' = faults
        /\ st' = [st EXCEPT ![r] = "done"]
    BY <1>8 DEF ReconcileRun, ReconcileError, ReconcileNoScript, Fault, env
  <2>2. Lost' \subseteq Lost
    BY <1>1, <2>1 DEF Lost, Ungated, scripts
  <2>. QED BY <1>1, <2>1, <2>2, LostStep DEF scripts
<1>9. ASSUME UNCHANGED <<st, scripts, env>> PROVE GateInv'
  <2>1. Lost' \subseteq Lost
    BY <1>9 DEF Lost, Ungated, scripts
  <2>. QED BY <1>2, <1>9, <2>1
<1>10. ASSUME NEW r \in Requests, ExpireReservation(r) PROVE GateInv'
  BY <1>9, <1>10 DEF ExpireReservation
<1>11. ASSUME NEW k \in Keys, NEW d \in Dims, NEW t \in Minutes, ExpireCounter(k, d, t)
       PROVE  GateInv'
  BY <1>9, <1>11 DEF ExpireCounter
<1>12. CASE Tick
  BY <1>9, <1>12 DEF Tick
<1>13. CASE ValkeyRestart
  <2>1. restarts' # 0
    BY <1>1, <1>13 DEF ValkeyRestart
  <2>. QED BY <2>1 DEF GateInv
<1>14. CASE UNCHANGED vars
  BY <1>9, <1>14 DEF vars
<1>. QED BY <1>3, <1>4, <1>5, <1>6, <1>7, <1>8, <1>10, <1>11, <1>12, <1>13, <1>14
        DEF Next, RequestStep

(* While Valkey keeps its scripts, each request let through without a       *)
(* reservation for a limited key was paid for by an error of its own,       *)
(* whoever loaded the scripts and in whatever order: a process with one     *)
(* failed load does not leave the gate open for the requests after it.      *)
THEOREM OpenOnlyOnError == Spec => []FailsOpenOnlyOnError
<1>. DEFINE I == IInv /\ GateInv
<1>1. Init => I
  <2>1. Init => GateInv
    <3>1. Init => Lost = {} /\ sha = {} /\ faults = 0
      BY DEF Init, Lost
    <3>. QED BY <3>1, FS_EmptySet DEF GateInv
  <2>. QED BY <2>1, InitIInv
<1>2. I /\ [Next]_vars => I'
  BY StepIInv, GateStep DEF IInv
<1>3. I => FailsOpenOnlyOnError
  <2>. SUFFICES ASSUME I, restarts = 0
                PROVE  Cardinality({r \in Requests : st[r] = "open" /\ ~Ungated(r)}) =< faults
    BY DEF FailsOpenOnlyOnError
  <2>. DEFINE Open == {r \in Requests : st[r] = "open" /\ ~Ungated(r)}
  <2>1. IsFiniteSet(Lost) /\ Cardinality(Lost) =< faults /\ faults \in Nat
    BY DEF GateInv, IInv, TypeOK
  <2>2. Open \subseteq Lost
    BY DEF Lost
  <2>. HIDE DEF Open
  <2>3. Cardinality(Open) =< Cardinality(Lost) /\ Cardinality(Open) \in Nat
        /\ Cardinality(Lost) \in Nat
    BY <2>1, <2>2, FS_Subset, FS_CardinalityType
  <2>4. Cardinality(Open) =< faults
    BY <2>1, <2>3
  <2>. QED BY <2>4 DEF Open
<1>. QED BY <1>1, <1>2, <1>3, PTL DEF Spec
============================================================================
