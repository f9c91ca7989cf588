---------------------------- MODULE TokenLimiter ----------------------------
(***************************************************************************)
(* The Valkey-backed token and budget gate of                              *)
(* shared/utils/token_limiter.py: the two Lua scripts, the keys they leave *)
(* behind with their expiry, and the callers that read the clock, await    *)
(* the script and treat every error as an admission.                       *)
(*                                                                         *)
(* Time is a counter of minutes.  A caller reads the clock before the      *)
(* script runs, so a script may run with a window that is already over.    *)
(***************************************************************************)
EXTENDS Integers, FiniteSets

CONSTANTS
    Keys,        \* virtual keys
    Requests,    \* requests; each makes at most one reservation
    KeyOf,       \* request -> virtual key
    Est,         \* request -> [tokens, usd]: the estimates passed to reserve()
    Limit,       \* key -> dimension -> limit; 0 or Unset means unlimited
    Actuals,     \* the [tokens, usd] a request can turn out to have used
    Enabled,     \* flag waddleai.native_rate_limit
    MonthOf,     \* minute -> month
    Life,        \* dimension -> minutes after which a counter key expires
    ResvLife,    \* minutes after which a reservation expires
    MaxNow,      \* bound: the last minute
    MaxFaults,   \* bound: how many calls to Valkey raise
    MaxRestarts  \* bound: how often Valkey restarts empty

Dims == {"tpm", "tok", "usd"}
Unset == -1
Scripts == {"reserve", "reconcile"}
Minutes == 0..MaxNow
Usage == [tokens: Nat, usd: Nat]

ASSUME LimiterAssumption ==
    /\ KeyOf \in [Requests -> Keys]
    /\ Est \in [Requests -> Usage]
    /\ Limit \in [Keys -> [Dims -> Nat \cup {Unset}]]
    /\ Actuals \subseteq Usage
    /\ Enabled \in BOOLEAN
    /\ MaxNow \in Nat
    /\ MonthOf \in [Minutes -> Minutes]
    /\ Life \in [Dims -> Nat \ {0}]
    /\ ResvLife \in Nat \ {0}
    /\ MaxFaults \in Nat
    /\ MaxRestarts \in Nat

VARIABLES
    now,         \* the clock
    counter,     \* key -> dimension -> window -> value of the counter key
    expiry,      \* key -> dimension -> window -> minute the key expires in, 0: no TTL
    resv,        \* request -> minute its reservation key expires in, 0: no such key
    st,          \* request -> where its caller is
    asked,       \* request -> the minute its reserve() read from the clock
    closed,      \* request -> the minute its reconcile() read
    actual,      \* request -> usage its reconcile() reports
    sha,         \* the scripts whose SHA the process has cached
    loaded,      \* the scripts Valkey's script cache holds
    faults,      \* how many calls to Valkey have raised
    restarts,    \* how often Valkey has restarted
    admitted,    \* history: requests whose reserve script answered 1
    reconciled,  \* history: requests whose reconcile script found the reservation
    overrun      \* history: what reconciles added to a counter, beyond estimates

valkey == <<counter, expiry, resv>>
scripts == <<sha, loaded>>
env == <<faults, restarts>>
history == <<admitted, reconciled, overrun>>
vars == <<now, valkey, st, asked, closed, actual, scripts, env, history>>

----------------------------------------------------------------------------
(* The scripts *)

Window(d, t) == IF d = "tpm" THEN t ELSE MonthOf[t]

Amount(u, d) == IF d = "usd" THEN u.usd ELSE u.tokens

Limited(k, d) == Limit[k][d] > 0

(* The order of the checks in LUA_RESERVE: tpm, tok, usd. *)
Before(d) == CASE d = "tpm" -> {} [] d = "tok" -> {"tpm"} [] d = "usd" -> {"tpm", "tok"}

(* mutant of Passes: the estimate is not part of the check *)
PassesIgnoringEstimate(r, d) ==
    LET k == KeyOf[r]
    IN  Limited(k, d) => counter[k][d][Window(d, asked[r])] =< Limit[k][d]

Passes(r, d) ==
    LET k == KeyOf[r]
    IN  Limited(k, d) => counter[k][d][Window(d, asked[r])] + Amount(Est[r], d) =< Limit[k][d]

Rejections(r) == {d \in Dims : ~Passes(r, d) /\ \A b \in Before(d) : Passes(r, b)}

(* The dimensions whose counter LUA_RESERVE increments: each check that    *)
(* passes increments its own counter at once, also when a later one fails. *)
Charges(r) ==
    {d \in Dims : /\ Limited(KeyOf[r], d)
                  /\ Passes(r, d)
                  /\ \A b \in Before(d) : Passes(r, b)}

(* mutant of LuaReserve: the estimate replaces the counter's value *)
LuaReserveSets(r) ==
    LET k == KeyOf[r]
        hit(d, t) == d \in Charges(r) /\ t = Window(d, asked[r])
        ok == Rejections(r) = {}
    IN  /\ counter' = [counter EXCEPT ![k] =
                [d \in Dims |-> [t \in Minutes |->
                    IF hit(d, t) THEN Amount(Est[r], d) ELSE @[d][t]]]]
        /\ expiry' = [expiry EXCEPT ![k] =
                [d \in Dims |-> [t \in Minutes |->
                    IF hit(d, t) THEN now + Life[d] ELSE @[d][t]]]]
        /\ resv' = IF ok THEN [resv EXCEPT ![r] = now + ResvLife] ELSE resv
        /\ admitted' = IF ok THEN admitted \cup {r} ELSE admitted

LuaReserve(r) ==
    LET k == KeyOf[r]
        hit(d, t) == d \in Charges(r) /\ t = Window(d, asked[r])
        ok == Rejections(r) = {}
    IN  /\ counter' = [counter EXCEPT ![k] =
                [d \in Dims |-> [t \in Minutes |->
                    IF hit(d, t) THEN @[d][t] + Amount(Est[r], d) ELSE @[d][t]]]]
        /\ expiry' = [expiry EXCEPT ![k] =
                [d \in Dims |-> [t \in Minutes |->
                    IF hit(d, t) THEN now + Life[d] ELSE @[d][t]]]]
        /\ resv' = IF ok THEN [resv EXCEPT ![r] = now + ResvLife] ELSE resv
        /\ admitted' = IF ok THEN admitted \cup {r} ELSE admitted

Delta(r, d) == Amount(actual[r], d) - Amount(Est[r], d)

(* mutant of LuaReconcile: the reservation key is not deleted *)
LuaReconcileKeeps(r) ==
    LET k == KeyOf[r]
        hit(d, t) == t = Window(d, closed[r])
    IN  IF resv[r] = 0
        THEN UNCHANGED <<valkey, reconciled, overrun>>
        ELSE /\ counter' = [counter EXCEPT ![k] =
                    [d \in Dims |-> [t \in Minutes |->
                        IF hit(d, t) THEN @[d][t] + Delta(r, d) ELSE @[d][t]]]]
             /\ reconciled' = reconciled \cup {r}
             /\ UNCHANGED <<expiry, resv, overrun>>

(* LUA_RECONCILE adjusts the counters of the window the caller read, and   *)
(* sets no TTL on a key it creates.                                        *)
LuaReconcile(r) ==
    LET k == KeyOf[r]
        hit(d, t) == t = Window(d, closed[r])
    IN  IF resv[r] = 0
        THEN UNCHANGED <<valkey, reconciled, overrun>>
        ELSE /\ counter' = [counter EXCEPT ![k] =
                    [d \in Dims |-> [t \in Minutes |->
                        IF hit(d, t) THEN @[d][t] + Delta(r, d) ELSE @[d][t]]]]
             /\ overrun' = [overrun EXCEPT ![k] =
                    [d \in Dims |-> [t \in Minutes |->
                        IF hit(d, t) /\ Delta(r, d) > 0 THEN @[d][t] + Delta(r, d)
                        ELSE @[d][t]]]]
             /\ resv' = [resv EXCEPT ![r] = 0]
             /\ reconciled' = reconciled \cup {r}
             /\ UNCHANGED expiry

----------------------------------------------------------------------------
(* Actions *)

Init ==
    /\ now = 0
    /\ counter = [k \in Keys |-> [d \in Dims |-> [t \in Minutes |-> 0]]]
    /\ expiry = [k \in Keys |-> [d \in Dims |-> [t \in Minutes |-> 0]]]
    /\ resv = [r \in Requests |-> 0]
    /\ st = [r \in Requests |-> "new"]
    /\ asked = [r \in Requests |-> 0]
    /\ closed = [r \in Requests |-> 0]
    /\ actual = [r \in Requests |-> Est[r]]
    /\ sha = {}
    /\ loaded = {}
    /\ faults = 0
    /\ restarts = 0
    /\ admitted = {}
    /\ reconciled = {}
    /\ overrun = [k \in Keys |-> [d \in Dims |-> [t \in Minutes |-> 0]]]

(* A call to Valkey raises. *)
Fault == faults < MaxFaults /\ faults' = faults + 1 /\ UNCHANGED restarts

(* _load_scripts(): loads each script whose SHA is not cached; an error is *)
(* logged and leaves that one without a SHA.                               *)
LoadScripts ==
    \E got \in SUBSET (Scripts \ sha) :
        /\ sha' = sha \cup got
        /\ loaded' = loaded \cup got
        /\ IF got = Scripts \ sha THEN UNCHANGED env ELSE Fault

Callable(script) == script \in sha \cap loaded

(* reserve() up to the script call: flag off or no limit configured admits *)
(* at once and makes no reservation.                                       *)
Ungated(r) == ~Enabled \/ \A d \in Dims : Limit[KeyOf[r]][d] = Unset

ReserveCall(r) ==
    /\ st[r] = "new"
    /\ LoadScripts
    /\ st' = [st EXCEPT ![r] = IF Ungated(r) THEN "open" ELSE "reserving"]
    /\ asked' = [asked EXCEPT ![r] = now]
    /\ UNCHANGED <<now, valkey, closed, actual, history>>

ReserveRun(r) ==
    /\ st[r] = "reserving"
    /\ Callable("reserve")
    /\ LuaReserve(r)
    /\ st' = [st EXCEPT ![r] = IF Rejections(r) = {} THEN "held" ELSE "rejected"]
    /\ UNCHANGED <<now, asked, closed, actual, scripts, env, reconciled, overrun>>

(* evalsha raises: reserve() fails open without a reservation id.  The     *)
(* script may have run, when only its answer is lost.                      *)
ReserveError(r) ==
    /\ st[r] = "reserving"
    /\ Fault
    /\ st' = [st EXCEPT ![r] = "open"]
    /\ \/ Callable("reserve") /\ LuaReserve(r)
       \/ UNCHANGED <<valkey, admitted>>
    /\ UNCHANGED <<now, asked, closed, actual, scripts, reconciled, overrun>>

(* evalsha of no SHA, or of one Valkey does not know, is an error too. *)
ReserveNoScript(r) ==
    /\ st[r] = "reserving"
    /\ ~Callable("reserve")
    /\ st' = [st EXCEPT ![r] = "open"]
    /\ UNCHANGED <<now, valkey, asked, closed, actual, scripts, env, history>>

(* MeterStage reports what a request used; a blocked one never gets there. *)
ReconcileCall(r) ==
    /\ st[r] = "held"
    /\ LoadScripts
    /\ st' = [st EXCEPT ![r] = "reconciling"]
    /\ closed' = [closed EXCEPT ![r] = now]
    /\ \E u \in Actuals : actual' = [actual EXCEPT ![r] = u]
    /\ UNCHANGED <<now, valkey, asked, history>>

ReconcileRun(r) ==
    /\ st[r] = "reconciling"
    /\ Callable("reconcile")
    /\ LuaReconcile(r)
    /\ st' = [st EXCEPT ![r] = "done"]
    /\ UNCHANGED <<now, asked, closed, actual, scripts, env, admitted>>

(* An error of the reconcile script is logged and forgotten. *)
ReconcileError(r) ==
    /\ st[r] = "reconciling"
    /\ Fault
    /\ st' = [st EXCEPT ![r] = "done"]
    /\ \/ Callable("reconcile") /\ LuaReconcile(r)
       \/ UNCHANGED <<valkey, reconciled, overrun>>
    /\ UNCHANGED <<now, asked, closed, actual, scripts, admitted>>

ReconcileNoScript(r) ==
    /\ st[r] = "reconciling"
    /\ ~Callable("reconcile")
    /\ st' = [st EXCEPT ![r] = "done"]
    /\ UNCHANGED <<now, valkey, asked, closed, actual, scripts, env, history>>

(* Valkey expires a key some time within the minute its TTL runs out in. *)
Due(x) == x # 0 /\ x =< now

ExpireCounter(k, d, t) ==
    /\ Due(expiry[k][d][t])
    /\ counter' = [counter EXCEPT ![k][d][t] = 0]
    /\ expiry' = [expiry EXCEPT ![k][d][t] = 0]
    /\ UNCHANGED <<now, resv, st, asked, closed, actual, scripts, env, history>>

ExpireReservation(r) ==
    /\ Due(resv[r])
    /\ resv' = [resv EXCEPT ![r] = 0]
    /\ UNCHANGED <<now, counter, expiry, st, asked, closed, actual, scripts, env, history>>

Tick ==
    /\ now < MaxNow
    /\ \A k \in Keys, d \in Dims, t \in Minutes : ~Due(expiry[k][d][t])
    /\ \A r \in Requests : ~Due(resv[r])
    /\ now' = now + 1
    /\ UNCHANGED <<valkey, st, asked, closed, actual, scripts, env, history>>

(* Valkey holds nothing durable: it comes back without keys and scripts. *)
ValkeyRestart ==
    /\ restarts < MaxRestarts
    /\ restarts' = restarts + 1
    /\ counter' = [k \in Keys |-> [d \in Dims |-> [t \in Minutes |-> 0]]]
    /\ expiry' = [k \in Keys |-> [d \in Dims |-> [t \in Minutes |-> 0]]]
    /\ resv' = [r \in Requests |-> 0]
    /\ loaded' = {}
    /\ UNCHANGED <<now, st, asked, closed, actual, sha, faults, history>>

RequestStep(r) ==
    \/ ReserveCall(r)
    \/ ReserveRun(r)
    \/ ReserveError(r)
    \/ ReserveNoScript(r)
    \/ ReconcileCall(r)
    \/ ReconcileRun(r)
    \/ ReconcileError(r)
    \/ ReconcileNoScript(r)
    \/ ExpireReservation(r)

Next ==
    \/ \E r \in Requests : RequestStep(r)
    \/ \E k \in Keys, d \in Dims, t \in Minutes : ExpireCounter(k, d, t)
    \/ Tick
    \/ ValkeyRestart

Spec == Init /\ [][Next]_vars

----------------------------------------------------------------------------
(* Properties *)

Callers == {"new", "reserving", "open", "held", "rejected", "reconciling", "done"}

TypeOK ==
    /\ now \in Minutes
    /\ counter \in [Keys -> [Dims -> [Minutes -> Int]]]
    /\ expiry \in [Keys -> [Dims -> [Minutes -> Nat]]]
    /\ resv \in [Requests -> Nat]
    /\ st \in [Requests -> Callers]
    /\ asked \in [Requests -> Minutes]
    /\ closed \in [Requests -> Minutes]
    /\ actual \in [Requests -> Usage]
    /\ sha \subseteq Scripts
    /\ loaded \subseteq Scripts
    /\ faults \in Nat
    /\ restarts \in Nat
    /\ admitted \subseteq Requests
    /\ reconciled \subseteq Requests
    /\ overrun \in [Keys -> [Dims -> [Minutes -> Nat]]]

(* However reserve scripts, reconciles, lost answers and expiries of any   *)
(* number of callers interleave, a counter of a limited dimension exceeds  *)
(* its limit by no more than reconciles reported beyond their estimates:   *)
(* no two reserve calls both get past the limit.                           *)
NeverAboveLimit ==
    \A k \in Keys : \A d \in Dims : \A t \in Minutes :
        Limited(k, d) => counter[k][d][t] =< Limit[k][d] + overrun[k][d][t]

(* What a request is charged: its estimate until it is reconciled. *)
Charge(r, d) == Amount(IF r \in reconciled THEN actual[r] ELSE Est[r], d)

AdmittedIn(k, d, t) == {r \in admitted : KeyOf[r] = k /\ Window(d, asked[r]) = t}

(* The sum of their charges, counted unit by unit. *)
Spent(charge, requests) == Cardinality(UNION {{r} \X (1..charge[r]) : r \in requests})

(* While Valkey keeps its keys, the requests admitted in a window are      *)
(* within its limit (up to what they used beyond their estimates): the     *)
(* limit bounds what a key consumes in that window, not just a counter.    *)
BudgetHeld(d) ==
    \A k \in Keys : \A t \in Minutes :
        Limited(k, d) =>
            Spent([r \in Requests |-> Charge(r, d)], AdmittedIn(k, d, t))
                =< Limit[k][d] + overrun[k][d][t]

MonthlyBudgetHeld == restarts = 0 => BudgetHeld("tok")

(* A rejected request consumes nothing: reserve is all or nothing.         *)
RejectionChargesNothing ==
    [][\A r \in Requests :
          st[r] = "reserving" /\ st'[r] = "rejected" => counter' = counter]_vars

(* A reservation is credited back at most once, by the reconcile of an     *)
(* admitted request, and a request that lost its reservation to the TTL    *)
(* stays charged with its estimate.                                        *)
ReconcileAfterAdmission ==
    /\ reconciled \subseteq admitted
    /\ \A r \in Requests : resv[r] # 0 => r \in admitted \ reconciled

(* While Valkey keeps its scripts, the gate opens for a limited key only   *)
(* where a call to Valkey raised, at most once per error: it is not left   *)
(* open once Valkey answers again.                                         *)
FailsOpenOnlyOnError ==
    restarts = 0 => Cardinality({r \in Requests : st[r] = "open" /\ ~Ungated(r)}) =< faults
============================================================================
