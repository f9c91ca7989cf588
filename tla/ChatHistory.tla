---------------------------- MODULE ChatHistory ----------------------------
(***************************************************************************)
(* The conversation a ChatAgent of penguincode keeps (agents/chat.py):      *)
(* every message that is answered adds an exchange to conversation_history, *)
(* and process() first summarizes the older part when it has grown too      *)
(* large.  The model is asked for the summary with what was read before,    *)
(* and messages of the same session overlap.                                *)
(***************************************************************************)
EXTENDS Integers, Sequences, SequencesExt

CONSTANTS
    Calls,       \* calls of process()
    Threshold    \* 70 % of the context window, in messages

VARIABLES
    history,     \* conversation_history
    summary,     \* the messages conversation_summary stands for
    phase,       \* phase[c]: "idle", "compact" (awaits the summary),
                 \* "think", "done"
    keep,        \* to_keep
    cut,         \* to_summarize
    added,       \* history: the messages since the last reset
    overlapped   \* history: those added while a call awaited a summary

hvars == <<history, summary, phase, keep, cut, added, overlapped>>

HistoryInit ==
    /\ history = <<>> /\ summary = {} /\ added = {} /\ overlapped = {}
    /\ phase = [c \in Calls |-> "idle"]
    /\ keep = [c \in Calls |-> <<>>] /\ cut = [c \in Calls |-> {}]

(* The summary counts as one message, however much it stands for. *)
NeedsCompaction == Len(history) + (IF summary = {} THEN 0 ELSE 1) > Threshold

KeepCount == IF Len(history) \div 2 < 4 THEN Len(history) \div 2 ELSE 4
ToSummarize == ToSet(SubSeq(history, 1, Len(history) - KeepCount))
ToKeep == SubSeq(history, Len(history) - KeepCount + 1, Len(history))

(* A short history is left as it is. *)
Begin(c) ==
    /\ phase[c] = "idle"
    /\ IF NeedsCompaction /\ Len(history) >= 4
       THEN /\ phase' = [phase EXCEPT ![c] = "compact"]
            /\ keep' = [keep EXCEPT ![c] = ToKeep] /\ cut' = [cut EXCEPT ![c] = ToSummarize]
       ELSE phase' = [phase EXCEPT ![c] = "think"] /\ UNCHANGED <<keep, cut>>
    /\ UNCHANGED <<history, summary, added, overlapped>>

(* A mutant of Compacted: the older part goes whether or not a summary came. *)
CompactedAnyway(c) ==
    /\ phase[c] = "compact"
    /\ phase' = [phase EXCEPT ![c] = "think"]
    /\ history' = keep[c] /\ summary' \in {summary, summary \cup cut[c]}
    /\ UNCHANGED <<keep, cut, added, overlapped>>

(* The summary arrives and what was read to be kept becomes the history; or *)
(* the model fails or times out, and nothing is changed.                    *)
Compacted(c) ==
    /\ phase[c] = "compact"
    /\ phase' = [phase EXCEPT ![c] = "think"]
    /\ \/ summary' = summary \cup cut[c] /\ history' = keep[c]
       \/ UNCHANGED <<summary, history>>
    /\ UNCHANGED <<keep, cut, added, overlapped>>

(* The answer is there and the exchange is added; or an error is returned   *)
(* in place of an answer, and nothing is.                                   *)
Exchange(c) == <<<<c, "user">>, <<c, "assistant">>>>

Answer(c) ==
    /\ phase[c] = "think"
    /\ phase' = [phase EXCEPT ![c] = "done"]
    /\ \/ /\ history' = history \o Exchange(c)
          /\ added' = added \cup ToSet(Exchange(c))
          /\ overlapped' = IF \E d \in Calls : phase[d] = "compact"
                           THEN overlapped \cup ToSet(Exchange(c)) ELSE overlapped
       \/ UNCHANGED <<history, added, overlapped>>
    /\ UNCHANGED <<summary, keep, cut>>

(* /clear and /reset, which the REPL reads between two messages. *)
Reset ==
    /\ \A c \in Calls : phase[c] \in {"idle", "done"}
    /\ history' = <<>> /\ summary' = {} /\ added' = {} /\ overlapped' = {}
    /\ UNCHANGED <<phase, keep, cut>>

HistoryNext == Reset \/ \E c \in Calls : Begin(c) \/ Compacted(c) \/ Answer(c)

HistorySpec == HistoryInit /\ [][HistoryNext]_hvars
-----------------------------------------------------------------------------
HistoryTypeOK ==
    /\ history \in Seq(Calls \X {"user", "assistant"}) /\ IsInjective(history)
    /\ phase \in [Calls -> {"idle", "compact", "think", "done"}]
    /\ ToSet(history) \cup summary \subseteq added

(* A compaction forgets nothing it was given: an exchange is in the history *)
(* or in the summary, however compactions overlap and fail, unless it was   *)
(* added while a call awaited its summary.                                  *)
LostOnlyToCompaction == added \subseteq ToSet(history) \cup summary \cup overlapped

(* What the docstring of _compact_history says: "This preserves context     *)
(* while staying within token limits".                                      *)
ContextPreserved == added \subseteq ToSet(history) \cup summary
=============================================================================
