------------------------------- MODULE Fleet -------------------------------
(***************************************************************************)
(* Ollama deployments and the models placed on them, for one organisation: *)
(* the placement engine with its Free-tier cap, lazy pulls, pulls asked    *)
(* for through the API, and the API's operations on deployments.  A pull   *)
(* holds no lock while the model is downloaded, which can take an hour.    *)
(*                                                                         *)
(* The rows of ollama_models have a foreign key on ollama_deployments.     *)
(* Nodes are deployments, as in OllamaDeploymentManager.  Every statement  *)
(* is a step, whether or not the driver defers it to the commit.           *)
(***************************************************************************)
EXTENDS Integers, FiniteSets

CONSTANTS
    Deployments,
    Models,
    Utility,      \* the models with model_registry.is_utility
    Jobs,         \* placements, pulls and deletions
    Kind,         \* Kind[j]: "place", "lazy", "pull" or "delete"
    ModelOf,      \* ModelOf[j]: the model to place or pull
    ModelLimit,   \* _FREE_MODEL_LIMIT
    NoDeployment

ASSUME FleetAssumption == ModelLimit \in Nat

VARIABLES
    dep,       \* dep[d]: the status of d's row of ollama_deployments
    placed,    \* placed[d][m]: the status of m's row of ollama_models
    job,       \* job[j]: the step j is at, or "done" or "failed"
    on,        \* on[j]: the deployment j works on
    crashed,   \* history: deployments a pull was lost on
    bypass     \* history: what has placed a model past the cap

fvars == <<dep, placed, job, on, crashed, bypass>>

Statuses == {"none", "unknown", "running", "stopped", "pulling"}

FleetInit ==
    /\ dep = [d \in Deployments |-> "running"]
    /\ placed = [d \in Deployments |-> [m \in Models |-> "none"]]
    /\ job = [j \in Jobs |-> "new"]
    /\ on = [j \in Jobs |-> NoDeployment]
    /\ crashed = {}
    /\ bypass = FALSE

Live(d) == dep[d] # "none"
Step(j, s) == job' = [job EXCEPT ![j] = s]
SetStatus(d, s) == dep' = IF Live(d) THEN [dep EXCEPT ![d] = s] ELSE dep

(* The models that count towards the cap. *)
Registered ==
    {m \in Models \ Utility : \E d \in Deployments : placed[d][m] = "available"}

(* A mutant of WithinCap: one model too many. *)
WithinCapLate(m) ==
    m \in Utility \/ m \in Registered \/ Cardinality(Registered) <= ModelLimit

WithinCap(m) ==
    m \in Utility \/ m \in Registered \/ Cardinality(Registered) < ModelLimit

(* Another job that has passed its check and has not stored its model. *)
Underway(j) == \E o \in Jobs \ {j} : job[o] \in {"find", "mark", "post", "track"}

(* PlacementEngine.place_model: the licence and the cap.  With a licence,   *)
(* or the flag off, there is no cap; an error counts as no licence.         *)
EnforceModelCap(j) ==
    /\ job[j] = "new" /\ Kind[j] = "place"
    /\ \/ WithinCap(ModelOf[j]) /\ Step(j, "find") /\ bypass' = (bypass \/ Underway(j))
       \/ ~WithinCap(ModelOf[j]) /\ Step(j, "failed") /\ UNCHANGED bypass
       \/ Step(j, "find") /\ bypass' = TRUE
    /\ UNCHANGED <<dep, placed, on, crashed>>

(* ensure_placed and the pull endpoint check no cap; ensure_placed only     *)
(* acts when nobody serves the model.                                       *)
BeginUncapped(j) ==
    /\ job[j] = "new" /\ Kind[j] \in {"lazy", "pull"}
    /\ IF Kind[j] = "lazy" /\ \E d \in Deployments : placed[d][ModelOf[j]] # "none"
       THEN Step(j, "done") /\ UNCHANGED bypass
       ELSE Step(j, "find") /\ bypass' = TRUE
    /\ UNCHANGED <<dep, placed, on, crashed>>

(* OllamaDeploymentManager.place_model takes the first running deployment,  *)
(* the pull endpoint and a node_id constraint name theirs.                  *)
FindDeployment(j) ==
    /\ job[j] = "find"
    /\ \/ \E d \in Deployments :
            /\ IF Kind[j] = "lazy" THEN dep[d] = "running" ELSE Live(d)
            /\ on' = [on EXCEPT ![j] = d]
            /\ Step(j, "mark")
       \/ /\ \/ Kind[j] # "lazy"
             \/ \A d \in Deployments : dep[d] # "running"
          /\ Step(j, "failed") /\ UNCHANGED on
    /\ UNCHANGED <<dep, placed, crashed, bypass>>

(* pull_model looks the deployment up once more. *)
MarkPulling(j) ==
    /\ job[j] = "mark"
    /\ IF Live(on[j]) THEN SetStatus(on[j], "pulling") /\ Step(j, "post")
       ELSE Step(j, "failed") /\ UNCHANGED dep
    /\ UNCHANGED <<placed, on, crashed, bypass>>

(* The download ends, with success or with an error or a timeout. *)
PullEnds(j) ==
    /\ job[j] = "post"
    /\ Step(j, "track") \/ Step(j, "settle")
    /\ UNCHANGED <<dep, placed, on, crashed, bypass>>

(* A row that exists is left as it is.  Inserting one for a deployment that *)
(* has been deleted raises.                                                 *)
TrackModel(j) ==
    LET d == on[j]  m == ModelOf[j] IN
    /\ job[j] = "track"
    /\ placed' = IF Live(d) /\ placed[d][m] = "none"
                 THEN [placed EXCEPT ![d][m] = "available"] ELSE placed
    /\ Step(j, "settle")
    /\ UNCHANGED <<dep, on, crashed, bypass>>

(* A mutant of SettlePull: after an error the status is left. *)
SettleNever(j) ==
    /\ job[j] = "settle"
    /\ IF placed[on[j]][ModelOf[j]] = "available" THEN SetStatus(on[j], "running")
       ELSE UNCHANGED dep
    /\ Step(j, "done")
    /\ UNCHANGED <<placed, on, crashed, bypass>>

(* Whatever the outcome, the deployment counts as running again. *)
SettlePull(j) ==
    /\ job[j] = "settle"
    /\ SetStatus(on[j], "running")
    /\ Step(j, "done")
    /\ UNCHANGED <<placed, on, crashed, bypass>>

(* The process ends while the model is being downloaded. *)
LosePull(j) ==
    /\ job[j] \in {"post", "track", "settle"}
    /\ Step(j, "failed")
    /\ crashed' = crashed \cup {on[j]}
    /\ UNCHANGED <<dep, placed, on, bypass>>

(* Deletion: the models first, then the deployment. *)
DeleteModels(j) ==
    /\ job[j] = "new" /\ Kind[j] = "delete"
    /\ \E d \in Deployments :
         /\ Live(d)
         /\ on' = [on EXCEPT ![j] = d]
         /\ placed' = [placed EXCEPT ![d] = [m \in Models |-> "none"]]
    /\ Step(j, "delete")
    /\ UNCHANGED <<dep, crashed, bypass>>

Deletable(d) == \A m \in Models : placed[d][m] = "none"

DeleteDeployment(j) ==
    /\ job[j] = "delete"
    /\ IF Deletable(on[j])
       THEN dep' = [dep EXCEPT ![on[j]] = "none"]
            /\ Step(j, "done")
       ELSE UNCHANGED dep /\ Step(j, "failed")
    /\ UNCHANGED <<placed, on, crashed, bypass>>

(* The API's other operations write one row. *)
CreateDeployment(d) ==
    /\ ~Live(d)
    /\ dep' = [dep EXCEPT ![d] = "unknown"]
    /\ UNCHANGED <<placed, job, on, crashed, bypass>>

StartDeployment(d) ==
    /\ Live(d) /\ SetStatus(d, "running")
    /\ UNCHANGED <<placed, job, on, crashed, bypass>>

StopDeployment(d) ==
    /\ Live(d) /\ SetStatus(d, "stopped")
    /\ UNCHANGED <<placed, job, on, crashed, bypass>>

RemoveModel(d, m) ==
    /\ placed[d][m] # "none"
    /\ placed' = [placed EXCEPT ![d][m] = "removed"]
    /\ UNCHANGED <<dep, job, on, crashed, bypass>>

Pull(j) == FindDeployment(j) \/ MarkPulling(j) \/ PullEnds(j) \/ TrackModel(j) \/ SettlePull(j)

FleetNext ==
    \/ \E j \in Jobs : \/ EnforceModelCap(j) \/ BeginUncapped(j) \/ Pull(j) \/ LosePull(j)
                       \/ DeleteModels(j) \/ DeleteDeployment(j)
    \/ \E d \in Deployments : \/ CreateDeployment(d) \/ StartDeployment(d) \/ StopDeployment(d)
                              \/ \E m \in Models : RemoveModel(d, m)

FleetSpec == FleetInit /\ [][FleetNext]_fvars
-----------------------------------------------------------------------------
(* A job that works on a deployment has one. *)
FleetTypeOK ==
    /\ dep \in [Deployments -> Statuses]
    /\ placed \in [Deployments -> [Models -> {"none", "available", "removed"}]]
    /\ \A j \in Jobs : job[j] \notin {"new", "find", "done", "failed"} => on[j] \in Deployments
    /\ crashed \subseteq Deployments /\ bypass \in BOOLEAN

(* While every model came through place_model's check, with no other        *)
(* placement under way and no licence, at most ModelLimit models count, in  *)
(* every order of placements, removals and deletions.                       *)
ModelCapHeld == bypass \/ Cardinality(Registered) <= ModelLimit

(* Rows of ollama_models belong to deployments that exist, although a pull  *)
(* can end long after its deployment was deleted.                           *)
NoOrphans == \A d \in Deployments : Live(d) \/ \A m \in Models : placed[d][m] = "none"

(* A deployment is "pulling" because a pull of it has yet to settle, or     *)
(* because a process died during one, however pulls, stops, deletions and   *)
(* creations of it overlap.                                                 *)
PullingIsUnderway ==
    \A d \in Deployments : dep[d] = "pulling" =>
      \/ d \in crashed
      \/ \E j \in Jobs : on[j] = d /\ job[j] \in {"post", "track", "settle"}

(* A deployment does not stay "pulling", which would keep it from lazy      *)
(* placements for good, unless a process died during a pull.                *)
PullSettles ==
    \A d \in Deployments :
      []<>(dep[d] # "pulling" \/ d \in crashed)
============================================================================
