--------------------------- MODULE CircuitBreaker ---------------------------
(***************************************************************************)
(* The provider tier of shared/utils/request_router.py: which providers a  *)
(* request is offered, the per-provider circuit breaker, and the callers:  *)
(*  - Recorders run _execute_with_fallback over the offered providers and  *)
(*    record each outcome in the provider's statistics;                    *)
(*  - Dispatchers are DispatchStage, which takes one provider from         *)
(*    select_provider() and calls its connector itself;                    *)
(*  - the count_tokens endpoint, which selects a provider and sends no     *)
(*    request;                                                             *)
(*  - the periodic health check.                                           *)
(* Everything between two awaits is one step; the awaits are the calls of  *)
(* a connector.  A call may outlast the cooldown (an Ollama call alone may *)
(* take as long: its timeout is 300 s and it is tried three times).        *)
(*                                                                         *)
(* Only comparisons with the threshold and the cooldown read the           *)
(* statistics here, so consecutive_failures saturates at the threshold and *)
(* last_failure and last_success become the ticks of cooldown left: a      *)
(* success after the failure ends the cooldown.                            *)
(***************************************************************************)
EXTENDS Integers, Sequences, SequencesExt, FiniteSets

CONSTANTS
    Connectors,    \* llm_manager.connectors: the providers, in dict order
    ModelsOf,      \* provider -> the models it serves (an empty model_list: all)
    Chains,        \* sequences of models: ctx.model, then ctx.fallback_chain
    Recorders,     \* callers of _execute_with_fallback
    Dispatchers,   \* DispatchStage calls
    Threshold,     \* breaker_failure_threshold
    Cooldown,      \* breaker_cooldown, in ticks
    ClientErrors,  \* whether providers answer 4xx
    Cancels,       \* whether a request's task can be cancelled (client gone)
    Counting,      \* whether count_tokens is used
    Checking       \* whether the periodic health check runs

Providers == ToSet(Connectors)
ChainModels == UNION {ToSet(chain) : chain \in Chains}
Callers == Recorders \cup Dispatchers
Results == {"none", "healthy", "unhealthy"}

ASSUME BreakerAssumption ==
    /\ Connectors \in Seq(Providers)
    /\ ModelsOf \in [Providers -> SUBSET ChainModels]
    /\ Chains \subseteq Seq(ChainModels) \ {<< >>}
    /\ Recorders \cap Dispatchers = {}
    /\ Threshold \in Nat \ {0}
    /\ Cooldown \in Nat \ {0}
    /\ {ClientErrors, Cancels, Counting, Checking} \subseteq BOOLEAN

VARIABLES
    failures,  \* provider -> consecutive_failures, saturated at Threshold
    cool,      \* provider -> ticks of cooldown left
    probe,     \* provider -> half_open_probe_in_flight
    todo,      \* caller -> providers still to try, the one being called first
    trial,     \* history: caller -> providers it was offered half-open
    checked,   \* provider -> result a running health check has collected
    faulted    \* history: providers whose last recorded outcome is bad

stats == <<failures, cool, probe>>
vars == <<stats, todo, trial, checked, faulted>>

----------------------------------------------------------------------------
(* Availability *)

Tripped(p) == failures[p] >= Threshold

InCooldown(p) == cool[p] > 0

Offered(p) == ~InCooldown(p) /\ (Tripped(p) => ~probe[p])

Available(m) == SelectSeq(Connectors, LAMBDA p : m \in ModelsOf[p] /\ Offered(p))

HalfOpen(m) == {p \in ToSet(Available(m)) : Tripped(p)}

(* _get_available_providers reserves the probe of every half-open provider *)
(* it returns, whichever provider is then selected.                        *)
Reserve(m) == probe' = [p \in Providers |-> probe[p] \/ p \in HalfOpen(m)]

(* The six strategies and the affinity hint: a provider of the list.       *)
Selectable(m) == ToSet(Available(m))

FallbackOrder(p, m) == <<p>> \o SelectSeq(Available(m), LAMBDA q : q # p)

----------------------------------------------------------------------------
Init ==
    /\ failures = [p \in Providers |-> 0]
    /\ cool = [p \in Providers |-> 0]
    /\ probe = [p \in Providers |-> FALSE]
    /\ todo = [c \in Callers |-> << >>]
    /\ trial = [c \in Callers |-> {}]
    /\ checked = [p \in Providers |-> "none"]
    /\ faulted = {}

Tick ==
    /\ \E p \in Providers : InCooldown(p)
    /\ cool' = [p \in Providers |-> IF cool[p] = 0 THEN 0 ELSE cool[p] - 1]
    /\ UNCHANGED <<failures, probe, todo, trial, checked, faulted>>

(* A caller asks for the providers of a model and starts on the first of   *)
(* its list.                                                               *)
Route(c, m) ==
    /\ todo[c] = << >>
    /\ \E p \in Selectable(m) : todo' = [todo EXCEPT ![c] = FallbackOrder(p, m)]
    /\ trial' = [trial EXCEPT ![c] = HalfOpen(m)]
    /\ Reserve(m)
    /\ UNCHANGED <<failures, cool, checked, faulted>>

(* DispatchStage: the first model of the chain that has a provider.  A     *)
(* model without one changes nothing; a chain without one answers 503.     *)
Dispatch(c, chain) ==
    /\ todo[c] = << >>
    /\ \E i \in DOMAIN chain :
        /\ \A j \in 1..(i - 1) : Available(chain[j]) = << >>
        /\ \E p \in Selectable(chain[i]) : todo' = [todo EXCEPT ![c] = <<p>>]
        /\ trial' = [trial EXCEPT ![c] = HalfOpen(chain[i])]
        /\ Reserve(chain[i])
    /\ UNCHANGED <<failures, cool, checked, faulted>>

(* count_tokens selects a provider for its token counter only.             *)
CountTokens(m) ==
    /\ Counting
    /\ Available(m) # << >>
    /\ Reserve(m)
    /\ UNCHANGED <<failures, cool, todo, trial, checked, faulted>>

----------------------------------------------------------------------------
(* Outcomes *)

Good(p) ==
    /\ failures' = [failures EXCEPT ![p] = 0]
    /\ cool' = [cool EXCEPT ![p] = 0]
    /\ probe' = [probe EXCEPT ![p] = FALSE]
    /\ faulted' = faulted \ {p}

Bad(p) ==
    /\ failures' = [failures EXCEPT ![p] = IF @ < Threshold THEN @ + 1 ELSE @]
    /\ cool' = [cool EXCEPT ![p] = Cooldown]
    /\ probe' = [probe EXCEPT ![p] = FALSE]
    /\ faulted' = faulted \cup {p}

(* Mutants: the flag survives an outcome; the cooldown is a tick longer.   *)
UpdateKeepsProbe(p, success) ==
    /\ failures' = [failures EXCEPT ![p] =
            IF success THEN 0 ELSE IF @ < Threshold THEN @ + 1 ELSE @]
    /\ cool' = [cool EXCEPT ![p] = IF success THEN 0 ELSE Cooldown]
    /\ faulted' = IF success THEN faulted \ {p} ELSE faulted \cup {p}
    /\ UNCHANGED probe

UpdateCoolsLonger(p, success) ==
    IF success THEN Good(p)
    ELSE /\ failures' = [failures EXCEPT ![p] = IF @ < Threshold THEN @ + 1 ELSE @]
         /\ cool' = [cool EXCEPT ![p] = Cooldown + 1]
         /\ probe' = [probe EXCEPT ![p] = FALSE]
         /\ faulted' = faulted \cup {p}

update_provider_stats(p, success) == IF success THEN Good(p) ELSE Bad(p)

(* A caller is done: with a result, with an error, or cancelled.           *)
Return(c) ==
    /\ todo' = [todo EXCEPT ![c] = << >>]
    /\ trial' = [trial EXCEPT ![c] = {}]

(* The next provider, or "All providers failed".                           *)
Continue(c) ==
    /\ todo' = [todo EXCEPT ![c] = Tail(@)]
    /\ trial' = [trial EXCEPT ![c] = @ \ {Head(todo[c])}]

Succeed(c) ==
    /\ todo[c] # << >>
    /\ update_provider_stats(Head(todo[c]), TRUE)
    /\ Return(c)
    /\ UNCHANGED checked

(* A timeout, 429 or 5xx counts against the provider.                      *)
Fail(c) ==
    /\ todo[c] # << >>
    /\ update_provider_stats(Head(todo[c]), FALSE)
    /\ Continue(c)
    /\ UNCHANGED checked

(* Mutant: a 4xx ejects the provider.                                      *)
ClientFailCounts(c) ==
    /\ ClientErrors
    /\ todo[c] # << >>
    /\ failures' = [failures EXCEPT ![Head(todo[c])] = Threshold]
    /\ Continue(c)
    /\ UNCHANGED <<cool, probe, checked, faulted>>

(* ProviderClientError: nothing is recorded, the next provider is tried.   *)
ClientFail(c) ==
    /\ ClientErrors
    /\ todo[c] # << >>
    /\ Continue(c)
    /\ UNCHANGED <<stats, checked, faulted>>

(* DispatchStage maps every outcome to a response and records none.        *)
Dispatched(c) ==
    /\ todo[c] # << >>
    /\ Return(c)
    /\ UNCHANGED <<stats, checked, faulted>>

(* CancelledError is no Exception: no handler runs.                        *)
Cancel(c) ==
    /\ Cancels
    /\ todo[c] # << >>
    /\ Return(c)
    /\ UNCHANGED <<stats, checked, faulted>>

----------------------------------------------------------------------------
(* The health check collects a result per connector, with an await each,   *)
(* and applies them all when the last one is in.                           *)

Check(p) ==
    /\ Checking
    /\ checked[p] = "none"
    /\ \E r \in {"healthy", "unhealthy"} : checked' = [checked EXCEPT ![p] = r]
    /\ UNCHANGED <<stats, todo, trial, faulted>>

Unhealthy == {p \in Providers : checked[p] = "unhealthy"}

ApplyChecks ==
    /\ Checking
    /\ \A p \in Providers : checked[p] # "none"
    /\ failures' = [p \in Providers |->
            IF p \notin Unhealthy THEN 0
            ELSE IF failures[p] < Threshold THEN failures[p] + 1 ELSE failures[p]]
    /\ cool' = [p \in Providers |-> IF p \in Unhealthy THEN Cooldown ELSE 0]
    /\ checked' = [p \in Providers |-> "none"]
    /\ faulted' = Unhealthy
    /\ UNCHANGED <<probe, todo, trial>>

----------------------------------------------------------------------------
RecorderStep(c) == Succeed(c) \/ Fail(c) \/ ClientFail(c)

Next ==
    \/ Tick
    \/ \E c \in Recorders :
        \/ \E m \in ChainModels : Route(c, m)
        \/ RecorderStep(c)
        \/ Cancel(c)
    \/ \E c \in Dispatchers :
        \/ \E chain \in Chains : Dispatch(c, chain)
        \/ Dispatched(c)
        \/ Cancel(c)
    \/ \E m \in ChainModels : CountTokens(m)
    \/ \E p \in Providers : Check(p)
    \/ ApplyChecks

Spec == Init /\ [][Next]_vars

(* Time passes, and every connector call returns or times out.             *)
Fairness ==
    /\ WF_vars(Tick)
    /\ \A c \in Recorders : WF_vars(RecorderStep(c))
    /\ \A c \in Dispatchers : WF_vars(Dispatched(c))

FairSpec == Spec /\ Fairness

----------------------------------------------------------------------------
(* Properties *)

TypeOK ==
    /\ failures \in [Providers -> 0..Threshold]
    /\ cool \in [Providers -> 0..Cooldown]
    /\ probe \in [Providers -> BOOLEAN]
    /\ todo \in [Callers -> Seq(Providers)]
    /\ trial \in [Callers -> SUBSET Providers]
    /\ checked \in [Providers -> Results]
    /\ faulted \subseteq Providers

(* A provider whose last recorded outcome was a success or a healthy check *)
(* is offered to every caller, whatever client errors, cancellations,      *)
(* unrecorded dispatches and leaked probe reservations came before or      *)
(* since (_get_available_providers, _update_provider_stats).               *)
HealthyIsOffered == \A p \in Providers \ faulted : Offered(p)

(* Liveness of recovery, as the tests name it: "a tripped breaker must     *)
(* recover, not eject permanently".  Every provider is offered again and   *)
(* again, as a closed provider or as a probe.                              *)
BreakerRecovers == \A p \in Providers : []<>Offered(p)

(* "exactly one probe passes during recovery": no two requests at a time   *)
(* hold the same provider as their half-open probe.                        *)
SingleProbe == \A c, d \in Callers : c # d => trial[c] \cap trial[d] = {}

(* half_open_probe_in_flight is "Set while a single half-open probe is in  *)
(* flight": some caller still has the provider to try.                     *)
ReservedProbeIsHeld ==
    \A p \in Providers : probe[p] => \E c \in Callers : p \in ToSet(todo[c])

(* "Client errors (4xx, auth, schema) surface immediately": after one, the *)
(* request makes no further call.                                          *)
ClientErrorSurfaces ==
    [][\A c \in Recorders : ClientFail(c) => todo'[c] = << >>]_vars
============================================================================
