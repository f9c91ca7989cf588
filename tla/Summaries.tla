----------------------------- MODULE Summaries -----------------------------
(***************************************************************************)
(* Rolling conversation summaries: SummarizationStage calls the summarizer,*)
(* which reads the conversation's latest row of conversation_summaries,    *)
(* asks a model for a longer-reaching summary when that row does not reach *)
(* far enough, and adds the next version.  Requests of one conversation    *)
(* overlap at every await; nothing but the unique index on                 *)
(* (org_id, conversation_id, version) orders them.                         *)
(*                                                                         *)
(* A row's id is its place in the table.  Text is left out: a summary is   *)
(* the conversation whose turns went into it and how many it covers.  The   *)
(* requests of one conversation are taken to come with the same turns, some *)
(* with fewer than others.                                                  *)
(***************************************************************************)
EXTENDS Integers, Sequences

CONSTANTS
    Turns,          \* requests
    Conversation,   \* Conversation[t]: <<org_id, conversation_id>> of t
    Older,          \* Older[t]: how many turns of t lie before keep_recent
    Numeric         \* conversation ids that are decimal numbers, as numbers

ASSUME SummariesAssumption ==
    /\ \A t \in Turns : Conversation[t] = <<Conversation[t][1], Conversation[t][2]>>
    /\ Older \in [Turns -> Nat]

VARIABLES
    table,   \* the rows of conversation_summaries
    step,    \* step[t]: the await t is at, or its outcome
    found,   \* found[t]: the id of the latest row t read, 0 for none
    new,     \* new[t]: the id of the row t inserted, 0 for none
    view     \* view[t]: the summary that stands for t's older turns: whose
             \* turns it summarizes and how many it covers

svars == <<table, step, found, new, view>>

Outcomes == {"original", "injected", "failed"}

NoView == [of |-> <<>>, covers |-> 0]

SumInit ==
    /\ table = <<>>
    /\ step = [t \in Turns |-> "count"]
    /\ found = [t \in Turns |-> 0]
    /\ new = [t \in Turns |-> 0]
    /\ view = [t \in Turns |-> NoView]

StepTo(t, s) == step' = [step EXCEPT ![t] = s]

Ids(conversation) == {i \in DOMAIN table : <<table[i].org, table[i].conv>> = conversation}

(* The row ORDER BY version DESC LIMIT 1 yields; the unique index makes it  *)
(* unambiguous.                                                             *)
IsLatest(i, conversation) ==
    /\ i \in Ids(conversation)
    /\ \A j \in Ids(conversation) : table[j].version <= table[i].version

(* Below threshold_tokens, or nothing older than keep_recent: the request   *)
(* goes on with the messages it came with.                                  *)
Count(t) ==
    /\ step[t] = "count"
    /\ StepTo(t, "original") \/ (Older[t] > 0 /\ StepTo(t, "select"))
    /\ UNCHANGED <<table, found, new, view>>

(* A mutant of Covers: any summary of the conversation will do. *)
Exists(r, t) == r.status = "active"

Covers(r, t) == r.status = "active" /\ r.covers >= Older[t]

SelectLatest(t) ==
    /\ step[t] = "select"
    /\ IF Ids(Conversation[t]) = {}
       THEN StepTo(t, "dispatch") /\ UNCHANGED <<found, view>>
       ELSE \E i \in Ids(Conversation[t]) :
              /\ IsLatest(i, Conversation[t])
              /\ found' = [found EXCEPT ![t] = i]
              /\ IF Covers(table[i], t)
                 THEN /\ StepTo(t, "recall")
                      /\ view' = [view EXCEPT ![t] = [of |-> table[i].of, covers |-> table[i].covers]]
                 ELSE StepTo(t, "dispatch") /\ UNCHANGED view
    /\ UNCHANGED <<table, new>>

(* The model call fails, or its summary is too long for the ratio guard, or *)
(* filter_on_write quarantines it: the originals are used.                  *)
Dispatch(t) ==
    /\ step[t] = "dispatch"
    /\ StepTo(t, "original") \/ StepTo(t, "filter")
    /\ UNCHANGED <<table, found, new, view>>

FilterOnWrite(t) ==
    /\ step[t] = "filter"
    /\ StepTo(t, "original") \/ StepTo(t, "insert")
    /\ UNCHANGED <<table, found, new, view>>

NextVersion(t) == IF found[t] = 0 THEN 1 ELSE table[found[t]].version + 1

(* The parameters of the INSERT are in the order (org_id, conversation_id)  *)
(* for the columns (conversation_id, org_id): the two change places.        *)
Stored(t) == <<Conversation[t][2], Conversation[t][1]>>

(* A mutant of Insertable: without the unique index. *)
AnyVersion(t) == Conversation[t][2] \in Numeric

(* org_id is an integer column, and (org, conversation, version) is unique. *)
Insertable(t) ==
    /\ Conversation[t][2] \in Numeric
    /\ \A i \in Ids(Stored(t)) : table[i].version # NextVersion(t)

InsertSummary(t) ==
    /\ step[t] = "insert"
    /\ Insertable(t)
    /\ table' = Append(table, [org |-> Stored(t)[1], conv |-> Stored(t)[2],
                               version |-> NextVersion(t),
                               of |-> Conversation[t], covers |-> Older[t],
                               status |-> "active", supersededBy |-> 0])
    /\ new' = [new EXCEPT ![t] = Len(table) + 1]
    /\ view' = [view EXCEPT ![t] = [of |-> Conversation[t], covers |-> Older[t]]]
    /\ StepTo(t, IF found[t] = 0 THEN "recall" ELSE "mark")
    /\ UNCHANGED found

MarkSuperseded(t) ==
    /\ step[t] = "mark"
    /\ table' = [table EXCEPT ![found[t]].status = "superseded",
                              ![found[t]].supersededBy = new[t]]
    /\ StepTo(t, "recall")
    /\ UNCHANGED <<found, new, view>>

(* A statement raises (of necessity when the row cannot be inserted), or    *)
(* the request is cancelled: the stage raises.                              *)
Raise(t) ==
    /\ step[t] \in {"select", "insert", "mark"}
    /\ StepTo(t, "failed")
    /\ view' = [view EXCEPT ![t] = NoView]
    /\ UNCHANGED <<table, found, new>>

(* The text is filtered again when it is used. *)
Recall(t) ==
    /\ step[t] = "recall"
    /\ \/ StepTo(t, "injected") /\ UNCHANGED view
       \/ StepTo(t, "original") /\ view' = [view EXCEPT ![t] = NoView]
    /\ UNCHANGED <<table, found, new>>

MaybeSummarize(t) ==
    \/ Count(t) \/ SelectLatest(t) \/ Dispatch(t) \/ FilterOnWrite(t)
    \/ InsertSummary(t) \/ MarkSuperseded(t) \/ Raise(t) \/ Recall(t)

SumNext == \E t \in Turns : MaybeSummarize(t)

SumSpec == SumInit /\ [][SumNext]_svars
-----------------------------------------------------------------------------
(* The variables have their types; a row names its successor, which is a    *)
(* later row, exactly when it is superseded.                                *)
SummariesTypeOK ==
    /\ \A i \in DOMAIN table :
         /\ table[i].version \in 1..Len(table)
         /\ table[i].covers \in Nat
         /\ (table[i].status = "superseded") = (table[i].supersededBy \in (i + 1)..Len(table))
         /\ (table[i].status = "active") = (table[i].supersededBy = 0)
    /\ step \in [Turns -> Outcomes \cup {"count", "select", "dispatch", "filter",
                                         "insert", "mark", "recall"}]
    /\ found \in [Turns -> 0..Len(table)] /\ new \in [Turns -> 0..Len(table)]
    /\ view \in [Turns -> [of: {Conversation[t] : t \in Turns} \cup {<<>>}, covers: Nat]]

(* Since an INSERT exchanges the two columns, a conversation whose number   *)
(* is another organisation's is written by one of that organisation's, if   *)
(* its number is the first one's.                                           *)
Mirror(conversation) == <<conversation[2], conversation[1]>>
Mirrored(conversation) ==
    /\ Mirror(conversation) # conversation
    /\ {conversation, Mirror(conversation)} \subseteq {Conversation[t] : t \in Turns}

(* Requests of a conversation that summarize at the same time, fail between *)
(* the insert and the mark or come with a shorter history do not set a      *)
(* conversation back: a later version covers more turns than every earlier  *)
(* one, and the latest is never superseded.  Two conversations that mirror  *)
(* each other are excepted: they supersede each other's rows.               *)
CoverageGrows ==
    \A i, j \in DOMAIN table :
      LET key == <<table[i].org, table[i].conv>>
      IN  key = <<table[j].org, table[j].conv>> /\ ~Mirrored(key) =>
            /\ table[i].version < table[j].version => table[i].covers < table[j].covers
            /\ IsLatest(i, key) => table[i].status = "active"

(* What a request sends upstream in place of its older turns covers all of  *)
(* them, whether the summary is its own or another request's: it summarizes *)
(* that many turns, and of the same conversation, wherever the INSERT put   *)
(* it.  Two conversations that mirror each other are excepted here too:     *)
(* each finds what the other, of another organisation, stored.              *)
NothingElided ==
    \A t \in Turns : step[t] = "injected" =>
      /\ view[t].covers >= Older[t]
      /\ Mirrored(Conversation[t]) \/ view[t].of = Conversation[t]

(* The same without the exception. *)
OwnTurns == \A t \in Turns : step[t] = "injected" => view[t].of = Conversation[t]

(* What the module's docstring says: "a repeat turn whose existing summary  *)
(* still covers the current coverage point reuses it (no model call)".      *)
RepeatReuses ==
    [][\A t, u \in Turns :
         /\ step[t] = "injected" /\ new[t] # 0
         /\ Conversation[u] = Conversation[t]
         /\ step[u] = "select" /\ step'[u] = "dispatch"
         => Older[u] > Older[t]]_svars
============================================================================
