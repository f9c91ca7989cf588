-------------------------------- MODULE Repl --------------------------------
(***************************************************************************)
(* What the commands of penguincode's REPL (core/repl.py) leave behind in   *)
(* its ChatAgent: a skill may bring a model of its own, /config changes the *)
(* model of the session, and a message may have documentation put into the  *)
(* system prompt.  The REPL reads one line at a time.                       *)
(***************************************************************************)
EXTENDS Integers

CONSTANTS
    Models, NoModel,
    Configured,     \* models.orchestration in config.yaml
    Skills, NoSkill,
    SkillModel,     \* SkillModel[s]: the model in the skill's frontmatter
    MaxContexts     \* bound on the contexts in the prompt

ASSUME ReplAssumption ==
    /\ Configured \in Models /\ NoModel \notin Models /\ NoSkill \notin Skills
    /\ SkillModel \in [Skills -> Models \cup {NoModel}]
    /\ MaxContexts \in Nat

VARIABLES
    setting,    \* settings.models.orchestration
    model,      \* the agent's model
    saved,      \* its _saved_model
    skill,      \* active_skill, of the REPL and of its agent
    contexts,   \* the documentation contexts in the agent's system_prompt
    stacked     \* history: while a skill's model was in use, another skill
                \* brought a model or the setting was changed

rvars == <<setting, model, saved, skill, contexts, stacked>>

ReplInit ==
    /\ setting = Configured /\ model = Configured /\ saved = NoModel
    /\ skill = NoSkill /\ contexts = 0 /\ stacked = FALSE

(* A skill's model is in use. *)
InUse == skill # NoSkill /\ saved # NoModel

(* /skill <name> and /skill chain <name>, which takes the model of the      *)
(* first skill of the chain.                                                *)
SkillOn(s) ==
    /\ skill' = s
    /\ IF SkillModel[s] = NoModel
       THEN UNCHANGED <<model, saved, stacked>>
       ELSE /\ saved' = model /\ model' = SkillModel[s]
            /\ stacked' = (stacked \/ InUse)
    /\ UNCHANGED <<setting, contexts>>

(* A mutant of SkillOff: the saved model is kept. *)
SkillOffKeepsSaved ==
    /\ skill' = NoSkill
    /\ model' = IF InUse THEN saved ELSE model
    /\ UNCHANGED <<setting, saved, contexts, stacked>>

(* /skill off. *)
SkillOff ==
    /\ skill' = NoSkill
    /\ IF InUse
       THEN model' = saved /\ saved' = NoModel
       ELSE UNCHANGED <<model, saved>>
    /\ UNCHANGED <<setting, contexts, stacked>>

(* /config set models.orchestration, and /config reset, which reads         *)
(* config.yaml again.                                                       *)
Configure(m) ==
    /\ setting' = m /\ model' = m
    /\ stacked' = InUse
    /\ UNCHANGED <<saved, skill, contexts>>

ConfigSet == \E m \in Models : Configure(m)
ConfigReset == Configure(Configured)

(* handle_chat: what follows process() restores a prompt that was never     *)
(* kept, so that the context stays.                                         *)
HandleChat ==
    /\ contexts < MaxContexts
    /\ contexts' = contexts + 1
    /\ UNCHANGED <<setting, model, saved, skill, stacked>>

ReplNext ==
    \/ \E s \in Skills : SkillOn(s)
    \/ SkillOff \/ ConfigSet \/ ConfigReset \/ HandleChat

ReplSpec == ReplInit /\ [][ReplNext]_rvars
-----------------------------------------------------------------------------
ReplTypeOK ==
    /\ {setting, model} \subseteq Models /\ saved \in Models \cup {NoModel}
    /\ skill \in Skills \cup {NoSkill} /\ contexts \in 0..MaxContexts
    /\ skill = NoSkill => saved = NoModel

(* Once the skill is off the agent uses the configured model again, however *)
(* skills with and without a model and changes of the setting followed one  *)
(* another, unless one of them came on top of a skill's model.              *)
RestoredUnlessStacked == skill = NoSkill /\ ~stacked => model = setting

(* What the docstring of deactivate_skill says: "Clear active skill state   *)
(* and restore original model".                                             *)
ModelRestored == skill = NoSkill => model = setting

(* What the comment in handle_chat says: "Augment the chat agent's system   *)
(* prompt temporarily".  Between two lines nothing of it is left.           *)
PromptTemporary == contexts = 0
=============================================================================
