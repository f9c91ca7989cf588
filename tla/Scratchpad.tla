----------------------------- MODULE Scratchpad -----------------------------
(***************************************************************************)
(* The session scratchpad of shared/memory/scratchpad.py for one           *)
(* (org, session, user): rows in Postgres, a hot copy of values in Valkey, *)
(* and put(), get() and delete() calls that interleave at every await.     *)
(*                                                                         *)
(* A value is named by the put() that wrote it.  Which values the filter   *)
(* quarantines is left open: each put() gets a verdict.  A call ends       *)
(* "done" or, if a call to Postgres or Valkey raises, "failed"; a command  *)
(* that took effect and raised all the same is that command followed by a  *)
(* failure of the next one.                                                *)
(***************************************************************************)
EXTENDS Integers, FiniteSets

CONSTANTS
    Keys,      \* keys of the scratchpad
    Puts,      \* put() calls
    Gets,      \* get() calls
    Deletes,   \* delete() calls
    KeyOf,     \* call -> the key it is about
    MaxKeys,   \* limits.max_keys
    None       \* no value

Calls == Puts \cup Gets \cup Deletes

ASSUME ScratchpadAssumption ==
    /\ Puts \cap Gets = {} /\ Puts \cap Deletes = {} /\ Gets \cap Deletes = {}
    /\ KeyOf \in [Calls -> Keys]
    /\ MaxKeys \in Nat
    /\ None \notin Puts

VARIABLES
    row,      \* key -> its row of session_scratchpad
    hot,      \* key -> the value Valkey holds
    expired,  \* values whose row's expires_at has passed
    at,       \* call -> where it is
    verdict,  \* put -> what filter_on_write said
    seen,     \* get -> the value it read from Postgres
    got,      \* get -> the value it returned
    serial    \* history: no two calls have overlapped and none has failed

vars == <<row, hot, expired, at, verdict, seen, got, serial>>

NoRow == [val |-> None, status |-> "none"]
Row == [val: Puts \cup {None}, status: {"none", "active", "quarantined"}]

Active == {k \in Keys : row[k].status = "active"}

Init ==
    /\ row = [k \in Keys |-> NoRow]
    /\ hot = [k \in Keys |-> None]
    /\ expired = {}
    /\ at = [c \in Calls |-> "new"]
    /\ verdict = [p \in Puts |-> "none"]
    /\ seen = [g \in Gets |-> None]
    /\ got = [g \in Gets |-> None]
    /\ serial = TRUE

InProgress(c) == at[c] \notin {"new", "done", "failed"}

(* The first step of a call, and the later ones. *)
Begin(c, state) ==
    /\ at[c] = "new"
    /\ at' = [at EXCEPT ![c] = state]
    /\ serial' = (serial /\ \A d \in Calls : ~InProgress(d))

Go(c, state) == at' = [at EXCEPT ![c] = state] /\ UNCHANGED serial

----------------------------------------------------------------------------
(* put() *)

(* max_value_kb: a value that is too large is refused at once. *)
PutTooLarge(p) ==
    /\ Begin(p, "failed")
    /\ UNCHANGED <<row, hot, expired, verdict, seen, got>>

(* The select of an existing row: a key that has one is not counted. *)
PutSelect(p) ==
    /\ Begin(p, IF row[KeyOf[p]] = NoRow THEN "count" ELSE "filter")
    /\ UNCHANGED <<row, hot, expired, verdict, seen, got>>

(* A new key is counted against the active ones. *)
PutCount(p) ==
    /\ at[p] = "count"
    /\ Go(p, IF Cardinality(Active) >= MaxKeys THEN "failed" ELSE "filter")
    /\ UNCHANGED <<row, hot, expired, verdict, seen, got>>

(* filter_on_write, and expires_at from the clock. *)
PutFilter(p) ==
    /\ at[p] = "filter"
    /\ \E v \in {"active", "quarantined"} : verdict' = [verdict EXCEPT ![p] = v]
    /\ Go(p, "upsert")
    /\ UNCHANGED <<row, hot, expired, seen, got>>

PutUpsert(p) ==
    /\ at[p] = "upsert"
    /\ row' = [row EXCEPT ![KeyOf[p]] = [val |-> p, status |-> verdict[p]]]
    /\ Go(p, "cache")
    /\ UNCHANGED <<hot, expired, verdict, seen, got>>

(* mutant of PutCache: the hot copy outlives a quarantined overwrite *)
PutCacheKeepsOld(p) ==
    /\ at[p] = "cache"
    /\ hot' = IF verdict[p] = "active" THEN [hot EXCEPT ![KeyOf[p]] = p] ELSE hot
    /\ Go(p, "done")
    /\ UNCHANGED <<row, expired, verdict, seen, got>>

(* The hot copy is set, or deleted when the value is quarantined. *)
PutCache(p) ==
    /\ at[p] = "cache"
    /\ hot' = [hot EXCEPT ![KeyOf[p]] = IF verdict[p] = "active" THEN p ELSE None]
    /\ Go(p, "done")
    /\ UNCHANGED <<row, expired, verdict, seen, got>>

----------------------------------------------------------------------------
(* get() *)

(* Valkey first: a hit is the answer. *)
GetHot(g) ==
    LET v == hot[KeyOf[g]]
    IN  /\ Begin(g, IF v = None THEN "select" ELSE "done")
        /\ got' = [got EXCEPT ![g] = v]
        /\ UNCHANGED <<row, hot, expired, verdict, seen>>

(* mutant of Readable: only expiry is looked at *)
ReadableAny(r) == r # NoRow /\ r.val \notin expired

Readable(r) == r.status = "active" /\ r.val \notin expired

(* Postgres next: no row, a quarantined or an expired one is None. *)
GetSelect(g) ==
    LET r == row[KeyOf[g]]
    IN  /\ at[g] = "select"
        /\ Go(g, IF Readable(r) THEN "warm" ELSE "done")
        /\ seen' = [seen EXCEPT ![g] = IF Readable(r) THEN r.val ELSE None]
        /\ UNCHANGED <<row, hot, expired, verdict, got>>

(* The value read from Postgres is put back into Valkey and returned. *)
GetWarm(g) ==
    /\ at[g] = "warm"
    /\ hot' = [hot EXCEPT ![KeyOf[g]] = seen[g]]
    /\ got' = [got EXCEPT ![g] = seen[g]]
    /\ Go(g, "done")
    /\ UNCHANGED <<row, expired, verdict, seen>>

----------------------------------------------------------------------------
(* delete() *)

DeleteHot(d) ==
    /\ Begin(d, "row")
    /\ hot' = [hot EXCEPT ![KeyOf[d]] = None]
    /\ UNCHANGED <<row, expired, verdict, seen, got>>

DeleteRow(d) ==
    /\ at[d] = "row"
    /\ row' = [row EXCEPT ![KeyOf[d]] = NoRow]
    /\ Go(d, "done")
    /\ UNCHANGED <<hot, expired, verdict, seen, got>>

----------------------------------------------------------------------------
(* The environment *)

(* A call to Postgres, to Valkey or to the filter raises. *)
Fail(c) ==
    /\ InProgress(c)
    /\ at' = [at EXCEPT ![c] = "failed"]
    /\ serial' = FALSE
    /\ UNCHANGED <<row, hot, expired, verdict, seen, got>>

(* Valkey drops a key: its TTL ran out, or memory pressure, or a restart.  *)
Drop(k) ==
    /\ hot[k] # None
    /\ hot' = [hot EXCEPT ![k] = None]
    /\ UNCHANGED <<row, expired, at, verdict, seen, got, serial>>

(* expires_at of a stored row passes; the row stays, status 'active' too.  *)
RowExpires(k) ==
    /\ row[k].val \notin expired \cup {None}
    /\ expired' = expired \cup {row[k].val}
    /\ UNCHANGED <<row, hot, at, verdict, seen, got, serial>>

Put(p) == PutTooLarge(p) \/ PutSelect(p) \/ PutCount(p) \/ PutFilter(p) \/ PutUpsert(p)
          \/ PutCache(p)
Get(g) == GetHot(g) \/ GetSelect(g) \/ GetWarm(g)
Delete(d) == DeleteHot(d) \/ DeleteRow(d)

Next ==
    \/ \E p \in Puts : Put(p)
    \/ \E g \in Gets : Get(g)
    \/ \E d \in Deletes : Delete(d)
    \/ \E c \in Calls : Fail(c)
    \/ \E k \in Keys : Drop(k) \/ RowExpires(k)

Spec == Init /\ [][Next]_vars

----------------------------------------------------------------------------
(* Properties *)

States == {"new", "count", "filter", "upsert", "cache", "select", "warm", "row",
           "done", "failed"}

TypeOK ==
    /\ row \in [Keys -> Row]
    /\ hot \in [Keys -> Puts \cup {None}]
    /\ expired \subseteq Puts
    /\ at \in [Calls -> States]
    /\ verdict \in [Puts -> {"none", "active", "quarantined"}]
    /\ seen \in [Gets -> Puts \cup {None}]
    /\ got \in [Gets -> Puts \cup {None}]
    /\ serial \in BOOLEAN

(* "quarantined values are stored with status='quarantined' and are never  *)
(* returned by get": whatever puts, re-warming gets, deletes, failures and *)
(* expiries interleave, a value that get() returns or that Valkey could    *)
(* return was judged active when it was written.                           *)
Judged(v) == v = None \/ verdict[v] = "active"
NeverServesQuarantined ==
    /\ \A g \in Gets : Judged(got[g])
    /\ \A k \in Keys : Judged(hot[k])

(* As long as no two calls overlapped and none failed, the two tiers agree *)
(* between calls: what Valkey holds for a key is what its row holds, and   *)
(* the row is active.  A put() of a quarantined value and a delete() have  *)
(* removed the older hot copy, and a get() has not brought it back.        *)
TiersAgree ==
    serial /\ (\A c \in Calls : ~InProgress(c)) =>
        \A k \in Keys : hot[k] # None => row[k] = [val |-> hot[k], status |-> "active"]

(* "Abuse limits ... explicit errors": as long as calls did not overlap    *)
(* and no value was quarantined, a session has at most max_keys keys.      *)
KeyLimitHeld ==
    serial /\ (\A p \in Puts : verdict[p] # "quarantined") => Cardinality(Active) =< MaxKeys
============================================================================
