----------------------------- MODULE TokenQuota -----------------------------
(***************************************************************************)
(* TokenManager.process_usage for one API key: after a response, a proxy   *)
(* worker adds the request to the key's token_usage row of the day, then   *)
(* to its daily and its monthly row of usage_cache.  Each of the three is  *)
(* a select followed by an update or an insert, without a transaction; the *)
(* workers are processes of their own that share the database.             *)
(*                                                                         *)
(* A row is the set of requests it counts, so that a sum and a lost        *)
(* addend can be told apart.                                               *)
(***************************************************************************)
EXTENDS Integers, Sequences

CONSTANTS
    Calls,      \* process_usage calls
    MonthOf,    \* MonthOf[d]: the month of day d
    LastDay     \* bound: the days that pass

Tables == <<"usage", "daily", "monthly">>

VARIABLES
    tbl,     \* the rows [in, period, counts] of the three tables
    stage,   \* stage[c]: the table c is at, 4 when it has returned
    got,     \* got[c]: the row c has selected: its place (0: none) and counts
    date,    \* date[c]: the day c takes it to be
    day,     \* the day it is
    race     \* history: tables two calls were between select and write of

qvars == <<tbl, stage, got, date, day, race>>

NotRead == [i |-> -1, counts |-> {}]

QuotaInit ==
    /\ tbl = <<>>
    /\ stage = [c \in Calls |-> 1]
    /\ got = [c \in Calls |-> NotRead]
    /\ date = [c \in Calls |-> 1]
    /\ day = 1
    /\ race = {}

Period(n, d) == IF Tables[n] = "monthly" THEN MonthOf[d] ELSE d

Matches(n, d) == {i \in DOMAIN tbl : tbl[i].in = Tables[n] /\ tbl[i].period = Period(n, d)}

Reading(c) == stage[c] < 4 /\ got[c] = NotRead
Writing(c) == stage[c] < 4 /\ got[c] # NotRead

(* The day is taken from the clock for token_usage and once more for the    *)
(* two rows of usage_cache.                                                 *)
DayFor(c) == IF stage[c] = 3 THEN date[c] ELSE day

(* Of the rows that match, the first that the database returns is taken. *)
SelectRow(c) ==
    /\ Reading(c)
    /\ date' = [date EXCEPT ![c] = DayFor(c)]
    /\ \/ /\ Matches(stage[c], DayFor(c)) = {}
          /\ got' = [got EXCEPT ![c] = [i |-> 0, counts |-> {}]]
       \/ \E i \in Matches(stage[c], DayFor(c)) :
            got' = [got EXCEPT ![c] = [i |-> i, counts |-> tbl[i].counts]]
    /\ race' = IF \E o \in Calls \ {c} : Writing(o) /\ stage[o] = stage[c]
               THEN race \cup {Tables[stage[c]]} ELSE race
    /\ UNCHANGED <<tbl, stage, day>>

Advance(c) ==
    /\ stage' = [stage EXCEPT ![c] = @ + 1]
    /\ got' = [got EXCEPT ![c] = NotRead]

(* A mutant of UpdateRow: it counts from an empty row. *)
UpdateAnew(c) ==
    /\ Writing(c) /\ got[c].i > 0
    /\ tbl' = [tbl EXCEPT ![got[c].i].counts = {c}]
    /\ Advance(c)
    /\ UNCHANGED <<date, day, race>>

(* The row gets what was selected plus this request. *)
UpdateRow(c) ==
    /\ Writing(c) /\ got[c].i > 0
    /\ tbl' = [tbl EXCEPT ![got[c].i].counts = got[c].counts \cup {c}]
    /\ Advance(c)
    /\ UNCHANGED <<date, day, race>>

(* A mutant of InsertRow: the row of the day before is carried over. *)
InsertCarried(c) ==
    /\ Writing(c) /\ got[c].i = 0
    /\ tbl' = Append(tbl, [in |-> Tables[stage[c]], period |-> Period(stage[c], date[c]),
                           counts |-> {c} \cup UNION {tbl[i].counts :
                                                      i \in Matches(stage[c], date[c] - 1)}])
    /\ Advance(c)
    /\ UNCHANGED <<date, day, race>>

InsertRow(c) ==
    /\ Writing(c) /\ got[c].i = 0
    /\ tbl' = Append(tbl, [in |-> Tables[stage[c]], period |-> Period(stage[c], date[c]),
                           counts |-> {c}])
    /\ Advance(c)
    /\ UNCHANGED <<date, day, race>>

(* A statement raises or the worker dies: the tables that follow do not     *)
(* hear of the request.                                                     *)
GiveUp(c) ==
    /\ stage[c] < 4
    /\ stage' = [stage EXCEPT ![c] = 5]
    /\ got' = [got EXCEPT ![c] = NotRead]
    /\ UNCHANGED <<tbl, date, day, race>>

Midnight ==
    /\ day < LastDay
    /\ day' = day + 1
    /\ UNCHANGED <<tbl, stage, got, date, race>>

ProcessUsage(c) == SelectRow(c) \/ UpdateRow(c) \/ InsertRow(c) \/ GiveUp(c)

QuotaNext == Midnight \/ \E c \in Calls : ProcessUsage(c)

QuotaSpec == QuotaInit /\ [][QuotaNext]_qvars
-----------------------------------------------------------------------------
(* The requests table n counts, over all of its rows. *)
Counted(n) == UNION {tbl[i].counts : i \in {j \in DOMAIN tbl : tbl[j].in = Tables[n]}}

(* A request is in at most one row of each table, whatever selects, inserts *)
(* and updates of the workers interleave: usage is never billed twice and   *)
(* no period is charged with the usage of another.                          *)
ChargedOnce ==
    \A i, j \in DOMAIN tbl :
      i # j /\ tbl[i].in = tbl[j].in => tbl[i].counts \cap tbl[j].counts = {}

(* A table two workers have not been writing at the same time has every     *)
(* request that got past it, and all that the tables after it have: a       *)
(* worker that fails half-way leaves the quota cache behind token_usage,    *)
(* never ahead of it.                                                       *)
CacheFollows ==
    \A n \in 1..3 : Tables[n] \notin race =>
      /\ \A c \in Calls : stage[c] \in (n + 1)..4 => c \in Counted(n)
      /\ \A later \in (n + 1)..3 : Counted(later) \subseteq Counted(n)

(* Rows count calls, in tables and periods there are. *)
QuotaTypeOK ==
    /\ \A i \in DOMAIN tbl :
         /\ \E n \in 1..3 : tbl[i].in = Tables[n]
         /\ tbl[i].period \in 1..LastDay
         /\ tbl[i].counts # {} /\ tbl[i].counts \subseteq Calls
    /\ stage \in [Calls -> 1..5]
    /\ \A c \in Calls : got[c].i \in -1..Len(tbl) /\ c \notin got[c].counts
    /\ date \in [Calls -> 1..LastDay] /\ day \in 1..LastDay
    /\ race \subseteq {Tables[n] : n \in 1..3}
=============================================================================
