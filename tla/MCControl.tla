----------------------------- MODULE MCControl -----------------------------
(***************************************************************************)
(* ConfigCache, ExactCache, Routing and Fleet, and instances of             *)
(* BedrockStream and CircuitBreaker, for TLC.  They share no state: which   *)
(* of them moves is chosen initially.  Routing is run with one request and  *)
(* many inputs, and instantiated with two overlapping requests that name    *)
(* one session, under either policy, and one input; Fleet is run with       *)
(* placements under the cap and a deletion, and instantiated with pulls     *)
(* that pass it by.                                                         *)
(***************************************************************************)
EXTENDS ConfigCache, ExactCache, Routing, Fleet, TLC

CONSTANTS r1, r2, r3, a, b,             \* requests and cache keys
          o1, w1,                       \* organisation, writer
          l1, l2, c1, gpt,              \* models
          s1, t1, t2,                   \* a session and turns
          d1, d2, big, tiny,            \* deployments and their models
          j1, j2, j3,                   \* jobs of the fleet
          Which                         \* the components that are run

VARIABLES queue, thread, closing, sent, reader, why, getter, ready, asleep, got,
          failures, cool, probe, todo, trial, checked, faulted, which

MCKeyOf == (r1 :> a) @@ (r2 :> a) @@ (r3 :> b)

MCCost == (l1 :> 1) @@ (l2 :> 3) @@ (c1 :> 2)
MCScore == (l1 :> 1) @@ (l2 :> 2) @@ (c1 :> 3)
MCSessionOf == (t1 :> s1) @@ (t2 :> s1)

Signal(counts, consumed, complexity, hint, unhealthy) ==
    [pressureOn |-> counts, consumed |-> consumed, complexity |-> complexity,
     hint |-> hint, unhealthy |-> unhealthy]

MCSignals ==
    {Signal(TRUE, c, x, "none", FALSE) : c \in {{}, {20, 85}, {96}}, x \in {1, 3}}
    \cup {Signal(FALSE, {96}, 3, "low", TRUE), Signal(TRUE, {}, 1, "high", FALSE),
          Signal(TRUE, {}, 1, "none", TRUE)}

(* An assignment's escalation model needs an assignment, an alias a model   *)
(* that was asked for.  The policy's target matters next to one assignment. *)
MCInputs ==
    {in \in [assigned : {None, l1, c1}, escalationModel : {None, c1}, policyTarget : {None, l2},
             alias : {None, c1}, serves : {{}, {l2}, {c1}, {l1, l2, c1}},
             allowed : {{l1, l2, c1}, {c1}}, mode : {"local_first", "commercial_only"},
             pii : BOOLEAN, sensitivity : {"local_only", "ignore"}] :
       /\ in.escalationModel # None => in.assigned # None
       /\ ~in.pii => in.sensitivity = "local_only"
       /\ in.policyTarget # None => in.assigned = l1 /\ in.alias = None
       /\ in.alias # None => in.assigned = l1 /\ in.allowed = {l1, l2, c1}}

O == INSTANCE Routing WITH
       Signals <- {Signal(TRUE, {}, 1, "high", FALSE), Signal(TRUE, {}, 1, "none", FALSE)},
       Inputs <- {[assigned |-> l1, escalationModel |-> c1, policyTarget |-> None, alias |-> None,
                   serves |-> {l1, c1}, allowed |-> {l1, c1}, mode |-> "local_first",
                   pii |-> FALSE, sensitivity |-> "local_only"]},
       DeEscalations <- {"never", "idle_reset"}, Turns <- {t1, t2}

MCKind == (j1 :> "place") @@ (j2 :> "place") @@ (j3 :> "delete")
MCModelOf == (j1 :> big) @@ (j2 :> tiny) @@ (j3 :> big)

L == INSTANCE Fleet WITH
       Deployments <- {d1}, Utility <- {tiny},
       Kind <- (j1 :> "lazy") @@ (j2 :> "pull") @@ (j3 :> "place"),
       ModelOf <- (j1 :> big) @@ (j2 :> big) @@ (j3 :> tiny)

B == INSTANCE BedrockStream WITH MaxDeltas <- 2

(* One provider, and callers that all record what became of their call. *)
K == INSTANCE CircuitBreaker WITH
       Connectors <- <<d1>>, ModelsOf <- (d1 :> {gpt}), Chains <- {<<gpt>>},
       Recorders <- {r1, r2, r3}, Dispatchers <- {}, Threshold <- 3, Cooldown <- 2,
       ClientErrors <- FALSE, Cancels <- FALSE, Counting <- FALSE, Checking <- FALSE

bvars == <<queue, thread, closing, sent, reader, why, getter, ready, asleep, got>>
kvars == <<failures, cool, probe, todo, trial, checked, faulted>>
vars == <<xvars, cvars, rvars, fvars, bvars, kvars, which>>

ControlInit ==
    /\ which \in Which
    /\ Init /\ CacheInit
    /\ IF which = "routing" THEN RouteInit ELSE O!RouteInit
    /\ FleetInit /\ B!StreamInit /\ K!Init

ControlNext ==
    /\ UNCHANGED which
    /\ \/ which = "exact" /\ CacheNext /\ UNCHANGED <<cvars, rvars, fvars, bvars, kvars>>
       \/ which = "config" /\ Next /\ UNCHANGED <<xvars, rvars, fvars, bvars, kvars>>
       \/ which = "routing" /\ RouteNext /\ UNCHANGED <<xvars, cvars, fvars, bvars, kvars>>
       \/ which = "turns" /\ O!RouteNext /\ UNCHANGED <<xvars, cvars, fvars, bvars, kvars>>
       \/ which = "fleet" /\ FleetNext /\ UNCHANGED <<xvars, cvars, rvars, bvars, kvars>>
       \/ which = "pulls" /\ L!FleetNext /\ UNCHANGED <<xvars, cvars, rvars, bvars, kvars>>
       \/ which = "stream" /\ B!StreamNext /\ UNCHANGED <<xvars, cvars, rvars, fvars, kvars>>
       \/ which = "breaker" /\ K!Next /\ UNCHANGED <<xvars, cvars, rvars, fvars, bvars>>

(* The fairness of the component that moves. *)
ControlFairness ==
    /\ \A r \in {r1, r2, r3} : WF_vars(which = "exact" /\ Serve(r) /\ UNCHANGED <<cvars, rvars, fvars, bvars, kvars, which>>)
    /\ \A i \in Ids : WF_vars(which = "config" /\ Expire(i) /\ UNCHANGED <<xvars, rvars, fvars, bvars, kvars, which>>)
    /\ WF_vars(which = "config" /\ Resolve(r1) /\ UNCHANGED <<xvars, rvars, fvars, bvars, kvars, which>>)
    /\ \A j \in {j1, j2, j3} :
         /\ WF_vars(which = "fleet" /\ Pull(j) /\ UNCHANGED <<xvars, cvars, rvars, bvars, kvars, which>>)
         /\ WF_vars(which = "pulls" /\ L!Pull(j) /\ UNCHANGED <<xvars, cvars, rvars, bvars, kvars, which>>)
    /\ WF_vars(which = "stream" /\ B!Drain /\ UNCHANGED <<xvars, cvars, rvars, fvars, kvars, which>>)
    /\ WF_vars(which = "stream" /\ B!Consume /\ UNCHANGED <<xvars, cvars, rvars, fvars, kvars, which>>)
    /\ WF_vars(which = "breaker" /\ K!Tick /\ UNCHANGED <<xvars, cvars, rvars, fvars, bvars, which>>)
    /\ \A r \in {r1, r2, r3} :
         WF_vars(which = "breaker" /\ K!RecorderStep(r) /\ UNCHANGED <<xvars, cvars, rvars, fvars, bvars, which>>)

ControlSpec == ControlInit /\ [][ControlNext]_vars /\ ControlFairness
-----------------------------------------------------------------------------
(* The properties of the instances, under their names there. *)

ControlTypeOK ==
    /\ TypeOK /\ CacheTypeOK
    /\ IF which = "routing" THEN RouteTypeOK ELSE O!RouteTypeOK
    /\ FleetTypeOK /\ B!StreamTypeOK /\ K!TypeOK
EndsUnlessLost == which = "stream" => B!EndsUnlessLost
BreakerRecovers == which = "breaker" => K!BreakerRecovers
StreamEnds == which = "stream" => B!StreamEnds
=============================================================================
