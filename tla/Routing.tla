------------------------------ MODULE Routing ------------------------------
(***************************************************************************)
(* The routing engine: from the offers, the assignment, the policy, the     *)
(* budgets and the sensitivity of a request to a model and a fallback       *)
(* chain, and the state it keeps in Valkey, which sessions have escalated.  *)
(*                                                                          *)
(* A model is a name with a location, a cost and a capability score.  What  *)
(* a request needs is the set of models that can serve it.  A session's key *)
(* is shared by every request that names the session, of whatever           *)
(* organisation, while the policy is that of the request's organisation as  *)
(* it is when the request comes.  Whether its idle window has passed since  *)
(* the key was last written is a choice.                                    *)
(***************************************************************************)
EXTENDS Integers, Sequences, FiniteSets, SequencesExt, FiniteSetsExt

CONSTANTS
    Offers,         \* the offers
    LocalModels,    \* those served by the fleet
    Cost,           \* Cost[m]: cost per token
    Score,          \* Score[m]: capability_score
    DefaultModel,   \* what the engine answers when it knows nothing
    Signals,        \* what of a request decides escalation: budgets, complexity, hint, health
    Inputs,         \* the rest of a routing input
    Sessions,       \* session identifiers
    DeEscalations,  \* de_escalation policies in use: "never", "idle_reset"
    Turns,          \* requests in progress
    SessionOf,      \* SessionOf[t]: the session of t, None when the caller names none
    None            \* no model, no session

ASSUME RoutingAssumption ==
    /\ \A t \in Turns : SessionOf[t] \in Sessions \cup {None}
    /\ IsFiniteSet(Offers) /\ LocalModels \subseteq Offers /\ Cost \in [Offers -> Nat]

VARIABLES
    sticky,     \* the sessions that have a key
    turn,       \* turn[t]: where request t is, and what it knows of its session
    last,       \* the last decision, with its input
    marked      \* history: sessions marked as escalated by a request under "never"

rvars == <<sticky, turn, last, marked>>

EscalationThreshold == 3        \* the policy's default escalation_threshold
RaiseLevel == 80                \* _THRESHOLD_RAISE_LEVEL, in percent
ClampLevel == 95                \* _CLAMP_LOCAL_LEVEL
-----------------------------------------------------------------------------
(* The decision. *)

(* compute_pressure: the tightest of the budgets binds, and only if the     *)
(* organisation has turned pressure on.                                     *)
Pressure(sig) == IF sig.pressureOn /\ sig.consumed # {} THEN Max(sig.consumed) ELSE 0

ThresholdDelta(sig) == IF Pressure(sig) >= RaiseLevel THEN 1 ELSE 0

ClampLocal(sig) == Pressure(sig) >= ClampLevel

(* should_escalate: an explicit hint decides alone. *)
ShouldEscalate(sig) ==
    \/ sig.hint = "high"
    \/ /\ sig.hint = "none"
       /\ sig.complexity >= EscalationThreshold + ThresholdDelta(sig) \/ sig.unhealthy

Qualified(in) == {m \in Offers : m \in in.serves}

(* best_candidate: the highest capability score. *)
BestCandidate(in) ==
    IF Qualified(in) = {} THEN None
    ELSE CHOOSE m \in Qualified(in) : \A n \in Qualified(in) : Score[m] >= Score[n]

(* Stage 0: an alias row redirects the model that the client asked for. *)
Assigned(in) == IF in.alias # None THEN in.alias ELSE in.assigned

(* veto_and_reroute: an assigned offer that cannot serve the request is     *)
(* replaced by the best one that can.                                       *)
Vetoed(in) == Assigned(in) \in Offers /\ Assigned(in) \notin in.serves

Chosen(in) == IF Assigned(in) \in Offers /\ ~Vetoed(in) THEN Assigned(in) ELSE BestCandidate(in)

(* filter_and_sort: the allow-list and the mode filter the offers, cost     *)
(* (and in local_first the location) orders them.  A chain is the set of    *)
(* its models until it is returned.                                         *)
Rank(in, m) == IF in.mode = "local_first" /\ m \notin LocalModels THEN Cost[m] + 100 ELSE Cost[m]

Ordered(in, chain) ==
    CHOOSE s \in [1..Cardinality(chain) -> chain] :
        \A i, j \in DOMAIN s : i < j => s[i] # s[j] /\ Rank(in, s[i]) <= Rank(in, s[j])

PolicyChain(in) ==
    {m \in Offers : /\ m \in in.allowed
                    /\ in.mode = "local_only" => m \in LocalModels
                    /\ in.mode = "commercial_only" => m \notin LocalModels}

(* apply_sensitivity: personal data follows the organisation's policy, and  *)
(* the budget clamp goes through the same filter.                           *)
SensitivityMode(in) == IF in.pii THEN in.sensitivity ELSE "local_only"

(* A mutant of Chain: the budget clamp is lost. *)
ChainUnclamped(in, sig) ==
    IF in.pii /\ SensitivityMode(in) = "local_only"
    THEN PolicyChain(in) \cap LocalModels ELSE PolicyChain(in)

Chain(in, sig) ==
    IF (in.pii \/ ClampLocal(sig)) /\ SensitivityMode(in) = "local_only"
    THEN PolicyChain(in) \cap LocalModels ELSE PolicyChain(in)

(* escalation_target: the assignment's before the policy's. *)
Target(in) == IF in.escalationModel # None THEN in.escalationModel ELSE in.policyTarget

(* _pick_final, in the order of its returns. *)
PickFinal(in, sig, escalated) ==
    IF escalated /\ Target(in) # None THEN Target(in)
    ELSE IF Vetoed(in) /\ Chosen(in) # None THEN Chosen(in)
    ELSE IF Chosen(in) \in Chain(in, sig) THEN Chosen(in)
    ELSE IF Chain(in, sig) # {} THEN Head(Ordered(in, Chain(in, sig)))
    ELSE IF Chosen(in) # None THEN Chosen(in)
    ELSE IF in.assigned # None THEN in.assigned
    ELSE DefaultModel

Decide(t, in, escalated) ==
    LET sig == turn[t].sig  final == PickFinal(in, sig, escalated) IN
    [in |-> in, sig |-> sig, escalated |-> escalated, model |-> final,
     chain |-> Ordered(in, Chain(in, sig) \ {final}),
     fresh |-> turn[t].fresh, policy |-> turn[t].policy, session |-> SessionOf[t]]
-----------------------------------------------------------------------------
(* The session's state. *)

Waiting == [at |-> "waiting", sig |-> None, fresh |-> FALSE, policy |-> None]

NoDecision == [in |-> None, sig |-> None, escalated |-> FALSE, model |-> None, chain |-> <<>>,
               fresh |-> FALSE, policy |-> None, session |-> None]

RouteInit ==
    /\ sticky = {}
    /\ turn = [t \in Turns |-> Waiting]
    /\ last = NoDecision
    /\ marked = {}

(* The next step of a request that has not decided yet. *)
Proceed(t, step) == turn' = [turn EXCEPT ![t].at = step] /\ last' = NoDecision

(* A request arrives and its organisation's policy is resolved; fresh: the  *)
(* client signalled a new conversation.                                     *)
Arrive(t) ==
    /\ turn[t].at = "waiting"
    /\ \E sig \in Signals, fresh \in BOOLEAN, policy \in DeEscalations :
         turn' = [turn EXCEPT ![t] = [at |-> "sticky", sig |-> sig, fresh |-> fresh,
                                      policy |-> policy]]
    /\ last' = NoDecision
    /\ UNCHANGED <<sticky, marked>>

(* is_sticky: the GET, and what follows from the state it returns.          *)
ReadSticky(t) ==
    /\ turn[t].at = "sticky"
    /\ IF SessionOf[t] = None \/ SessionOf[t] \notin sticky THEN Proceed(t, "judge")
       ELSE IF turn[t].policy = "never" THEN Proceed(t, "stay")
       ELSE Proceed(t, "reset") \/ (~turn[t].fresh /\ Proceed(t, "touch"))
    /\ UNCHANGED <<sticky, marked>>

(* A GET that fails counts as no state. *)
ReadFails(t) ==
    /\ turn[t].at = "sticky"
    /\ SessionOf[t] # None
    /\ Proceed(t, "judge")
    /\ UNCHANGED <<sticky, marked>>

Reset(t) ==
    /\ turn[t].at = "reset"
    /\ sticky' = sticky \ {SessionOf[t]}
    /\ Proceed(t, "judge")
    /\ UNCHANGED marked

(* mark_escalated: SET with a new TTL and last_active now. *)
Mark(t) ==
    /\ turn[t].at \in {"touch", "mark"}
    /\ sticky' = sticky \cup {SessionOf[t]}
    /\ marked' = IF turn[t].policy = "never" THEN marked \cup {SessionOf[t]} ELSE marked
    /\ Proceed(t, "stay")

(* The SET or the DELETE fails: logged, the request goes on. *)
WriteFails(t) ==
    /\ turn[t].at \in {"touch", "mark", "reset"}
    /\ Proceed(t, IF turn[t].at = "reset" THEN "judge" ELSE "stay")
    /\ UNCHANGED <<sticky, marked>>

(* The request is routed, with whatever else its input says. *)
Route(t, escalated) ==
    /\ \E in \in Inputs : last' = Decide(t, in, escalated)
    /\ turn' = [turn EXCEPT ![t] = Waiting]
    /\ UNCHANGED <<sticky, marked>>

(* Not sticky: the triggers decide. *)
Judge(t) ==
    /\ turn[t].at = "judge"
    /\ IF ~ShouldEscalate(turn[t].sig) THEN Route(t, FALSE)
       ELSE Proceed(t, IF SessionOf[t] = None THEN "stay" ELSE "mark") /\ UNCHANGED <<sticky, marked>>

Escalate(t) == turn[t].at = "stay" /\ Route(t, TRUE)

(* The key's TTL runs out, which nothing but mark_escalated renews. *)
Lapse(s) ==
    /\ s \in sticky
    /\ sticky' = sticky \ {s}
    /\ last' = NoDecision
    /\ UNCHANGED <<turn, marked>>

RouteNext == \/ \E t \in Turns : \/ Arrive(t) \/ ReadSticky(t) \/ ReadFails(t) \/ Reset(t)
                                 \/ Mark(t) \/ WriteFails(t) \/ Judge(t) \/ Escalate(t)
             \/ \E s \in Sessions : Lapse(s)

RouteSpec == RouteInit /\ [][RouteNext]_rvars
-----------------------------------------------------------------------------
RouteTypeOK ==
    /\ sticky \subseteq Sessions
    /\ DOMAIN turn = Turns
    /\ \A t \in Turns :
         turn[t].at \in {"waiting", "sticky", "judge", "reset", "touch", "mark", "stay"}
    /\ marked \subseteq Sessions
    /\ last.model \in Offers \cup {DefaultModel, None} /\ Range(last.chain) \subseteq Offers

Decided == last.in # None

(* Personal data under a local_only policy, and every request of an         *)
(* organisation whose budget is nearly spent (unless its policy says that   *)
(* personal data may go anywhere), falls back to local models only.  The    *)
(* first choice is local as well but for the three places where _pick_final *)
(* does not look at the clamped chain: a request that escalates goes to the *)
(* target, one whose assigned model cannot serve it to the best that can,   *)
(* and with no local model in the chain to what was chosen before.  That    *)
(* these are all is what this says; that personal data takes them is        *)
(* SensitiveStaysLocal.                                                     *)
ClampHeld ==
    Decided /\ (IF last.in.pii THEN last.in.sensitivity = "local_only" ELSE ClampLocal(last.sig))
    => /\ Range(last.chain) \subseteq LocalModels
       /\ \/ last.model \in LocalModels
          \/ last.escalated /\ Target(last.in) # None
          \/ Vetoed(last.in)
          \/ \A m \in LocalModels : m \notin last.in.allowed \/ last.in.mode = "commercial_only"

(* What apply_sensitivity's docstring says of the first half: "a            *)
(* PII-flagged request can never dispatch commercial -- this is a security  *)
(* invariant, not a preference".                                            *)
SensitiveStaysLocal ==
    Decided /\ last.in.pii /\ last.in.sensitivity = "local_only"
    => last.model \in LocalModels /\ Range(last.chain) \subseteq LocalModels

(* A new conversation under idle_reset escalates for a reason of its own,   *)
(* whatever the other requests of its session do at the same time.          *)
FreshStartsClean ==
    /\ Decided /\ last.fresh /\ last.escalated
    /\ last.session # None => last.policy = "idle_reset"
    => ShouldEscalate(last.sig)

(* What is_sticky's docstring calls "never" ("pure sticky"): a session that *)
(* a request under it has marked stays escalated.                           *)
NeverStaysEscalated == marked \subseteq sticky

(* filter_and_sort's "failover never lands on a model that couldn't serve   *)
(* the request because every entry already passed capability matching".     *)
FallbackServes == Decided => Range(last.chain) \subseteq last.in.serves
=============================================================================
