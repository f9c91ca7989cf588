----------------------------- MODULE ExactCache -----------------------------
(***************************************************************************)
(* The exact response cache of one organisation: requests look an answer    *)
(* up in Valkey and, after a miss, write the upstream's answer back, making *)
(* room for it by evicting the least recently used entries.                 *)
(*                                                                          *)
(* Valkey holds three things: the entries (with a TTL), a sorted set of     *)
(* keys by last access, and a counter of the bytes in use.  Each command is *)
(* one step; nothing makes the sequence of commands of a put atomic.  An    *)
(* entry is its size, 0 when the key does not exist.  One namespace is      *)
(* modelled because every key the code builds contains org_id.              *)
(***************************************************************************)
EXTENDS Integers, Sequences, FiniteSets, SequencesExt

CONSTANTS
    Requests,   \* requests that reach the cache
    Keys,       \* exact keys (hashes of requests)
    KeyOf,      \* KeyOf[r]: the exact key derived for request r
    Sizes,      \* sizes an upstream answer can have
    MaxEntry,   \* max_entry_kb of the resolved configuration
    Quota,      \* org_quota_kb
    NoKey       \* no key

ASSUME ExactCacheAssumption ==
    /\ \A r \in Requests : KeyOf[r] \in Keys
    /\ IsFiniteSet(Keys) /\ Sizes \subseteq Nat /\ MaxEntry \in Nat /\ Quota \in Nat

VARIABLES
    entry,      \* entry[k]: bytes stored under k, 0 when absent
    idx,        \* the sorted set, least recently accessed first
    bytes,      \* the byte counter
    at,         \* at[r]: the command request r issues next
    put,        \* put[r]: the local variables of r's put
    spoilt      \* history: what has happened that the code does not allow for

xvars == <<entry, idx, bytes, at, put, spoilt>>

NoPut == [size |-> 0, old |-> 0, current |-> 0, victim |-> NoKey, vsize |-> 0]

(* The commands of a put, from the GET of the old value to the last SET. *)
Putting == {"old", "current", "lru", "vsize", "delete", "zrem", "lower",
            "set", "zadd", "reread", "raise"}

NonNegative(n) == IF n < 0 THEN 0 ELSE n

CacheInit ==
    /\ entry = [k \in Keys |-> 0]
    /\ idx = <<>>
    /\ bytes = 0
    /\ at = [r \in Requests |-> "get"]
    /\ put = [r \in Requests |-> NoPut]
    /\ spoilt = {}

(* ZADD with the current time: the member moves to the end. *)
Touch(k) == idx' = Append(RemoveFirst(idx, k), k)

Goto(r, step) == at' = [at EXCEPT ![r] = step]

(* The request is over, and its local variables are gone. *)
End(r) == Goto(r, "done") /\ put' = [put EXCEPT ![r] = NoPut]

Lookup(r) ==
    /\ at[r] = "get"
    /\ Goto(r, IF entry[KeyOf[r]] > 0 THEN "touch" ELSE "dispatch")
    /\ UNCHANGED <<entry, idx, bytes, put, spoilt>>

(* A hit refreshes the access score, even when the entry has been evicted   *)
(* since it was read.                                                       *)
TouchHit(r) ==
    /\ at[r] = "touch"
    /\ Touch(KeyOf[r])
    /\ End(r)
    /\ UNCHANGED <<entry, bytes, spoilt>>

(* The answer of the upstream is handed to the write-back.  An answer       *)
(* beyond the size bound is not written.                                    *)
AnswerArrives(r) ==
    /\ at[r] = "dispatch"
    /\ \E s \in Sizes :
         /\ IF s > MaxEntry THEN End(r)
            ELSE Goto(r, "old") /\ put' = [put EXCEPT ![r].size = s]
         /\ spoilt' = IF s <= MaxEntry /\ \E q \in Requests : at[q] \in Putting
                      THEN spoilt \cup {"overlap"} ELSE spoilt
    /\ UNCHANGED <<entry, idx, bytes>>

(* The upstream failed, or the answer is not cacheable. *)
NoAnswer(r) ==
    /\ at[r] = "dispatch"
    /\ End(r)
    /\ UNCHANGED <<entry, idx, bytes, spoilt>>

ReadOld(r) ==
    /\ at[r] = "old"
    /\ put' = [put EXCEPT ![r].old = entry[KeyOf[r]]]
    /\ Goto(r, "current")
    /\ UNCHANGED <<entry, idx, bytes, spoilt>>

(* A mutant of OverQuota: the new entry is not counted. *)
OverQuotaAlready(p, current) == current - p.old > Quota

(* The condition of the eviction loop. *)
OverQuota(p, current) == current + p.size - p.old > Quota

AfterCheck(p, current) == IF OverQuota(p, current) THEN "lru" ELSE "set"

ReadCurrent(r) ==
    /\ at[r] = "current"
    /\ put' = [put EXCEPT ![r].current = bytes]
    /\ Goto(r, AfterCheck(put[r], bytes))
    /\ UNCHANGED <<entry, idx, bytes, spoilt>>

PickVictim(r) ==
    /\ at[r] = "lru"
    /\ IF idx = <<>>
       THEN Goto(r, "set") /\ UNCHANGED put
       ELSE Goto(r, "vsize") /\ put' = [put EXCEPT ![r].victim = Head(idx)]
    /\ UNCHANGED <<entry, idx, bytes, spoilt>>

ReadVictim(r) ==
    /\ at[r] = "vsize"
    /\ put' = [put EXCEPT ![r].vsize = entry[put[r].victim]]
    /\ Goto(r, "delete")
    /\ UNCHANGED <<entry, idx, bytes, spoilt>>

(* The victim can be the very entry the put overwrites: its size is then    *)
(* subtracted here and once more as the put's old size.                     *)
DeleteVictim(r) ==
    /\ at[r] = "delete"
    /\ entry' = [entry EXCEPT ![put[r].victim] = 0]
    /\ spoilt' = IF put[r].victim = KeyOf[r] /\ put[r].vsize > 0
                 THEN spoilt \cup {"own"} ELSE spoilt
    /\ Goto(r, "zrem")
    /\ UNCHANGED <<idx, bytes, put>>

(* A mutant of RemoveVictim: the ZREM is forgotten. *)
KeepVictimIndexed(r) ==
    /\ at[r] = "zrem"
    /\ put' = [put EXCEPT ![r].current = NonNegative(@ - put[r].vsize),
                          ![r].victim = NoKey, ![r].vsize = 0]
    /\ Goto(r, "lower")
    /\ UNCHANGED <<entry, idx, bytes, spoilt>>

RemoveVictim(r) ==
    /\ at[r] = "zrem"
    /\ idx' = RemoveFirst(idx, put[r].victim)
    /\ put' = [put EXCEPT ![r].current = NonNegative(@ - put[r].vsize),
                          ![r].victim = NoKey, ![r].vsize = 0]
    /\ Goto(r, "lower")
    /\ UNCHANGED <<entry, bytes, spoilt>>

LowerBytes(r) ==
    /\ at[r] = "lower"
    /\ bytes' = put[r].current
    /\ Goto(r, AfterCheck(put[r], put[r].current))
    /\ UNCHANGED <<entry, idx, put, spoilt>>

(* A mutant of SetEntry: the ZADD is forgotten. *)
SetEntryUnindexed(r) ==
    /\ at[r] = "set"
    /\ entry' = [entry EXCEPT ![KeyOf[r]] = put[r].size]
    /\ Goto(r, "reread")
    /\ UNCHANGED <<idx, bytes, put, spoilt>>

SetEntry(r) ==
    /\ at[r] = "set"
    /\ entry' = [entry EXCEPT ![KeyOf[r]] = put[r].size]
    /\ Goto(r, "zadd")
    /\ UNCHANGED <<idx, bytes, put, spoilt>>

IndexEntry(r) ==
    /\ at[r] = "zadd"
    /\ Touch(KeyOf[r])
    /\ Goto(r, "reread")
    /\ UNCHANGED <<entry, bytes, put, spoilt>>

RereadBytes(r) ==
    /\ at[r] = "reread"
    /\ put' = [put EXCEPT ![r].current = bytes]
    /\ Goto(r, "raise")
    /\ UNCHANGED <<entry, idx, bytes, spoilt>>

RaiseBytes(r) ==
    /\ at[r] = "raise"
    /\ bytes' = NonNegative(put[r].current + put[r].size - put[r].old)
    /\ End(r)
    /\ UNCHANGED <<entry, idx, spoilt>>

(* Valkey raises, or the request is cancelled, between two commands. *)
BreakOff(r) ==
    /\ at[r] \in Putting \cup {"touch"}
    /\ End(r)
    /\ spoilt' = IF at[r] \in Putting THEN spoilt \cup {"abort"} ELSE spoilt
    /\ UNCHANGED <<entry, idx, bytes>>

(* The TTL removes the entry alone: the index and the counter stay. *)
ExpireEntry(k) ==
    /\ entry[k] > 0
    /\ entry' = [entry EXCEPT ![k] = 0]
    /\ UNCHANGED <<idx, bytes, at, put, spoilt>>

Evict(r) == PickVictim(r) \/ ReadVictim(r) \/ DeleteVictim(r)
            \/ RemoveVictim(r) \/ LowerBytes(r)

Put(r) == \/ ReadOld(r) \/ ReadCurrent(r) \/ Evict(r)
          \/ SetEntry(r) \/ IndexEntry(r) \/ RereadBytes(r) \/ RaiseBytes(r)

Serve(r) == Lookup(r) \/ TouchHit(r) \/ AnswerArrives(r) \/ NoAnswer(r) \/ Put(r)

CacheNext == \/ \E r \in Requests : Serve(r) \/ BreakOff(r)
             \/ \E k \in Keys : ExpireEntry(k)

(* The event loop resumes a request whose command has been answered. *)
CacheFairness == \A r \in Requests : WF_xvars(Serve(r))

CacheSpec == CacheInit /\ [][CacheNext]_xvars /\ CacheFairness
-----------------------------------------------------------------------------
(* The bytes that e holds under keys, counted one by one: no entry is       *)
(* larger than MaxEntry.                                                    *)
BytesIn(e, keys) == Cardinality({x \in keys \X (1..MaxEntry) : x[2] <= e[x[1]]})

Stored == BytesIn(entry, Keys)

Quiet == \A r \in Requests : at[r] \notin Putting

CacheTypeOK ==
    /\ entry \in [Keys -> {0} \cup Sizes]
    /\ Range(idx) \subseteq Keys
    /\ bytes \in Nat
    /\ at \in [Requests -> Putting \cup {"get", "touch", "dispatch", "done"}]
    /\ DOMAIN put = Requests
    /\ \A r \in Requests : put[r].current \in Nat /\ put[r].victim \in Keys \cup {NoKey}
    /\ spoilt \subseteq {"overlap", "abort", "own"}

(* As long as write-backs do not overlap, none breaks off and none evicts   *)
(* the entry it overwrites, the organisation stays within its quota between *)
(* write-backs, whatever expires: the counter may overstate what is stored, *)
(* and never understates it.                                                *)
QuotaHeld == spoilt = {} /\ Quiet => Stored <= Quota /\ Stored <= bytes

(* Under the same conditions every stored entry can be found by eviction:   *)
(* no interleaving of a lookup's ZADD, a TTL and the evictions loses the    *)
(* index of a live entry.                                                   *)
StoredIsIndexed ==
    spoilt \subseteq {"own"} /\ Quiet => \A k \in Keys : entry[k] > 0 => k \in Range(idx)

(* The docstring's "writes that would push an org over its total quota      *)
(* evict the org's least-recently-accessed entries first", for write-backs  *)
(* that never overlap and never fail.                                       *)
SerialQuota == spoilt \subseteq {"own"} /\ Quiet => Stored <= Quota

(* The eviction loop ends, whatever the counter says and whatever expires   *)
(* or is evicted by others meanwhile: no put is under way for ever.         *)
PutEnds == <>[]Quiet
=============================================================================
