----------------------------- MODULE MCPenguin -----------------------------
(***************************************************************************)
(* ChatHistory, McpStdio and Repl, and an instance of Foreman, for TLC.     *)
(* They share no state: which of them moves is chosen initially.            *)
(***************************************************************************)
EXTENDS ChatHistory, McpStdio, Repl, TLC

CONSTANTS p1, p2, p3, p4, p5,   \* messages to the ChatAgent
          a1, a2,               \* agents that call tools
          m1, m2, m3,           \* models
          s1, s2, s3,           \* skills
          Which                 \* the components that are run

VARIABLES at, job, round, line, running, free, result, draft, said, which

(* Two skills bring a model, the third does not. *)
MCSkillModel == (s1 :> m2) @@ (s2 :> m3) @@ (s3 :> NoModel)

(* Two slots for the agents of two messages; the second draft is one whose  *)
(* analysis looks like a heading.                                           *)
F == INSTANCE Foreman WITH
       Calls <- {p1, p2}, MaxAgents <- 2, MaxRounds <- 3,
       Drafts <- {[analysis |-> "text", steps |-> 1], [analysis |-> "STEPS:", steps |-> 1]}

fvars == <<at, job, round, line, running, free, result, draft, said>>
vars == <<fvars, hvars, pvars, rvars, which>>

Init ==
    /\ which \in Which
    /\ F!ForemanInit /\ HistoryInit /\ McpInit /\ ReplInit

Foreman == which = "foreman" /\ UNCHANGED <<hvars, pvars, rvars, which>>
History == which = "history" /\ UNCHANGED <<fvars, pvars, rvars, which>>
Mcp == which = "mcp" /\ UNCHANGED <<fvars, hvars, rvars, which>>
Commands == which = "repl" /\ UNCHANGED <<fvars, hvars, pvars, which>>

Next ==
    \/ F!ForemanNext /\ Foreman
    \/ HistoryNext /\ History
    \/ McpNext /\ Mcp
    \/ ReplNext /\ Commands

Spec ==
    /\ Init /\ [][Next]_vars
    /\ WF_vars(F!Grant /\ Foreman)
    /\ \A c \in {p1, p2} : WF_vars(F!Advance(c) /\ Foreman)

(* The variables have their types. *)
TypeOK == F!ForemanTypeOK /\ HistoryTypeOK /\ McpTypeOK /\ ReplTypeOK

(* The properties of Foreman, as its module states them. *)
EndsUnlessReplanned == F!EndsUnlessReplanned
SupervisionEnds == F!SupervisionEnds
PlanIsExecuted == F!PlanIsExecuted
=============================================================================
