------------------------------ MODULE Foreman ------------------------------
(***************************************************************************)
(* ChatAgent.process of penguincode (agents/chat.py): the foreman of a      *)
(* session answers a message itself, or spawns agents, reviews their work   *)
(* and spawns more.  The messages of a session may overlap (the gRPC Chat   *)
(* handler takes no lock per session); their agents share the slots of one  *)
(* AgentSemaphore, which are granted in the order they were asked for.      *)
(* What a model says is a choice.  Agents of one message that wait together *)
(* are alike, so that only their number is kept.                            *)
(***************************************************************************)
EXTENDS Integers, Sequences, SequencesExt

CONSTANTS
    Calls,       \* calls of process() on the session's ChatAgent
    MaxAgents,   \* regulators.max_concurrent_agents
    MaxRounds,   \* max_supervision_rounds
    Drafts       \* plans create_plan parses out of the planner's answer: the
                 \* first line of the analysis and the number of steps

VARIABLES
    at,        \* where process() is: "idle", "route", "agents" (awaits the
               \* agents it spawned), "review", "escalate", "done"
    job,       \* what the agents are for: "work", "plan", "replan", "group"
    round,     \* round_num
    line,      \* those who wait for a slot, one entry per agent
    running,   \* running[c]: the agents of c that hold a slot
    free,      \* the semaphore's value
    result,    \* what came of the agents: "ok", "failed", "stuck"
    draft,     \* the plan of the planner that ran last
    said       \* history: how the call ended

fvars == <<at, job, round, line, running, free, result, draft, said>>

NoDraft == [analysis |-> "", steps |-> 0]

ForemanInit ==
    /\ at = [c \in Calls |-> "idle"] /\ job = [c \in Calls |-> "work"]
    /\ round = [c \in Calls |-> 0]
    /\ line = <<>> /\ running = [c \in Calls |-> 0] /\ free = MaxAgents
    /\ result = [c \in Calls |-> "ok"] /\ draft = [c \in Calls |-> NoDraft]
    /\ said = [c \in Calls |-> "nothing"]
-----------------------------------------------------------------------------
(* A plan on its way from the planner to the foreman: run() writes the      *)
(* parsed plan out under headings of its own, and the foreman parses that   *)
(* text again.                                                              *)

RunOutput(d) ==
    <<"## Plan Analysis", d.analysis, "", "## Steps">>
    \o [i \in 1..d.steps |-> "step"]
    \o <<"", "## Execution Groups (parallel)", "- Group", "", "## Complexity">>

Sections == {"ANALYSIS:", "STEPS:", "PARALLEL_GROUPS:"}

InSteps(lines, i) ==
    \E h \in 1..i : /\ lines[h] = "STEPS:"
                    /\ \A k \in h + 1..i : lines[k] \notin Sections

(* _parse_plan: the lines that become steps.  Without dependencies or       *)
(* groups, which the text does not have in the form that is looked for, all *)
(* of them are one parallel group.                                          *)
ParsedSteps(lines) ==
    Len(SelectSeq([i \in DOMAIN lines |-> lines[i] \notin Sections \cup {""} /\ InSteps(lines, i)],
                  LAMBDA isStep : isStep))
-----------------------------------------------------------------------------
Finish(c, how) ==
    /\ at' = [at EXCEPT ![c] = "done"] /\ said' = [said EXCEPT ![c] = how]
    /\ UNCHANGED <<job, round, line, running, free, result, draft>>

(* n agents are spawned for c and ask for a slot. *)
Spawn(c, n, j, rnd) ==
    /\ at' = [at EXCEPT ![c] = "agents"] /\ job' = [job EXCEPT ![c] = j]
    /\ round' = [round EXCEPT ![c] = rnd]
    /\ line' = line \o [i \in 1..n |-> c]
    /\ result' = [result EXCEPT ![c] = "ok"]
    /\ UNCHANGED <<running, free, draft, said>>

Process(c) ==
    /\ at[c] = "idle"
    /\ at' = [at EXCEPT ![c] = "route"]
    /\ UNCHANGED <<job, round, line, running, free, result, draft, said>>

(* The model, or failing that the wording of the message, says whether the  *)
(* foreman answers, sends an agent or asks for a plan.                      *)
Route(c) ==
    /\ at[c] = "route"
    /\ \/ Finish(c, "answer")
       \/ \E j \in {"work", "plan"} : Spawn(c, 1, j, 1)

Grant ==
    /\ line # <<>> /\ free > 0
    /\ line' = Tail(line) /\ free' = free - 1
    /\ running' = [running EXCEPT ![Head(line)] = @ + 1]
    /\ UNCHANGED <<at, job, round, result, draft, said>>

(* An agent is done, fails, times out, or gives up because it repeats       *)
(* itself; whichever it is, its slot is released.  A single worker's call   *)
(* for help is an escalation, in a group it counts as a failed step, and a  *)
(* planner makes none.                                                      *)
AgentReturns(c) ==
    /\ running[c] > 0
    /\ running' = [running EXCEPT ![c] = @ - 1] /\ free' = free + 1
    /\ \/ /\ job[c] \in {"plan", "replan"}
          /\ \E d \in Drafts : draft' = [draft EXCEPT ![c] = d]
          /\ UNCHANGED result
       \/ /\ job[c] \notin {"plan", "replan"}
          /\ UNCHANGED <<result, draft>>
       \/ /\ \E r \in {"failed", "stuck"} :
               /\ r = "stuck" => job[c] = "work"
               /\ result' = [result EXCEPT ![c] = r]
          /\ UNCHANGED draft
    /\ UNCHANGED <<at, job, round, line, said>>

(* All agents of c have returned.  A plan with steps is executed and        *)
(* reviewed as a first round; a planner that failed, or whose plan has no   *)
(* steps, ends the call.                                                    *)
Collect(c) ==
    /\ at[c] = "agents" /\ running[c] = 0 /\ ~Contains(line, c)
    /\ IF job[c] \in {"work", "group"}
       THEN /\ at' = [at EXCEPT ![c] = "review"]
            /\ UNCHANGED <<job, round, line, running, free, result, draft, said>>
       ELSE LET n == ParsedSteps(RunOutput(draft[c]))
            IN \/ result[c] = "ok" /\ n > 0 /\ Spawn(c, n, "group", 1)
               \/ result[c] = "ok" /\ n = 0 /\ Finish(c, "no steps")
               \/ result[c] = "failed" /\ Finish(c, "answer")

(* _review_and_supervise: in the last round the agent's output is the       *)
(* answer; an agent that is stuck goes to _handle_escalation; otherwise the *)
(* model approves (or cannot be reached) or wants more work.                *)
Review(c) ==
    /\ at[c] = "review"
    /\ \/ round[c] >= MaxRounds /\ Finish(c, "answer")
       \/ /\ round[c] < MaxRounds /\ result[c] = "stuck"
          /\ at' = [at EXCEPT ![c] = "escalate"]
          /\ UNCHANGED <<job, round, line, running, free, result, draft, said>>
       \/ /\ round[c] < MaxRounds /\ result[c] # "stuck"
          /\ Finish(c, "answer") \/ Spawn(c, 1, "work", round[c] + 1)

HandleEscalation(c) ==
    /\ at[c] = "escalate"
    /\ \/ Finish(c, "answer")
       \/ Spawn(c, 1, "replan", round[c])
       \/ Spawn(c, 1, "work", round[c] + 1)

(* A mutant of Cancel: an agent that is cancelled keeps its slot. *)
CancelKeepsSlots(c) ==
    /\ at[c] \notin {"idle", "done"}
    /\ at' = [at EXCEPT ![c] = "done"] /\ said' = [said EXCEPT ![c] = "cancelled"]
    /\ line' = SelectSeq(line, LAMBDA d : d # c)
    /\ running' = [running EXCEPT ![c] = 0]
    /\ UNCHANGED <<job, round, free, result, draft>>

(* The client goes away and the handler's task is cancelled: the agents of  *)
(* c leave the line or give back their slots.                               *)
Cancel(c) ==
    /\ at[c] \notin {"idle", "done"}
    /\ at' = [at EXCEPT ![c] = "done"] /\ said' = [said EXCEPT ![c] = "cancelled"]
    /\ line' = SelectSeq(line, LAMBDA d : d # c)
    /\ running' = [running EXCEPT ![c] = 0] /\ free' = free + running[c]
    /\ UNCHANGED <<job, round, result, draft>>

(* The steps that are taken without anybody asking: models and agents have  *)
(* timeouts, and the event loop runs what is ready.                         *)
Advance(c) == Route(c) \/ AgentReturns(c) \/ Collect(c) \/ Review(c) \/ HandleEscalation(c)

ForemanNext == Grant \/ \E c \in Calls : Process(c) \/ Advance(c) \/ Cancel(c)
-----------------------------------------------------------------------------
(* The variables have their types, and every slot is free or held. *)
ForemanTypeOK ==
    /\ at \in [Calls -> {"idle", "route", "agents", "review", "escalate", "done"}]
    /\ job \in [Calls -> {"work", "plan", "replan", "group"}]
    /\ round \in [Calls -> 0..MaxRounds] /\ line \in Seq(Calls)
    /\ result \in [Calls -> {"ok", "failed", "stuck"}]
    /\ said \in [Calls -> {"nothing", "answer", "no steps", "cancelled"}]
    /\ free \in 0..MaxAgents
    /\ free + FoldFunction(LAMBDA m, n : m + n, 0, running) = MaxAgents

(* A message is answered however its agents fail, time out or are cancelled *)
(* and whatever other messages hold the slots, unless it goes back to the   *)
(* planner again and again.                                                 *)
Replans(c) == at[c] = "agents" /\ job[c] = "replan"
EndsUnlessReplanned ==
    \A c \in Calls : \/ at[c] = "route" ~> at[c] = "done"
                     \/ []<>Replans(c) /\ []<>~Replans(c)

(* What the comment on max_supervision_rounds says: "Max supervision        *)
(* iterations (prevent infinite loops)".                                    *)
SupervisionEnds == \A c \in Calls : at[c] = "route" ~> at[c] = "done"

(* What the docstring of process() says: "Use planner for complex tasks,    *)
(* then execute with parallel agents".  A plan that has steps is executed.  *)
PlanIsExecuted == \A c \in Calls : said[c] = "no steps" => draft[c].steps = 0
=============================================================================
