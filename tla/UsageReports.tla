---------------------------- MODULE UsageReports ----------------------------
(***************************************************************************)
(* UsageTracker.record_usage of one organisation, called by the threads of *)
(* the proxy's gRPC server: a licence gate with a cached answer decides    *)
(* between the free tier's user cap and the premium per-user quota, the    *)
(* check reads token_usage, and an accepted report is inserted.            *)
(*                                                                         *)
(* The licence server is external: its answer can change, and a question   *)
(* can fail.  A row is a report; its tokens are Tokens[p].                 *)
(***************************************************************************)
EXTENDS Integers, FiniteSets, FiniteSetsExt

CONSTANTS
    Reports,      \* reports
    UserOf,       \* UserOf[p]: the user p resolves to, NoUser if none
    Tokens,       \* Tokens[p]: input and output tokens of p
    Quota,        \* users.token_quota_monthly, the same for every user
    MaxFree,      \* _FREE_TIER_MAX_USERS
    NoUser

ASSUME UsageAssumption == MaxFree \in Nat

VARIABLES
    recorded,   \* the reports in token_usage
    phase,      \* phase[p]: the step p is at, or its acknowledgement
    premium,    \* premium[p]: is_premium
    known,      \* known[p]: the cache entry p read before it asked
    cache,      \* _premium_cache
    licensed,   \* what the licence server says
    granted,    \* history: the answer was yes at some time
    excuse      \* history: checks that failed open or overlapped an insert

uvars == <<recorded, phase, premium, known, cache, licensed, granted, excuse>>

NoEntry == [set |-> FALSE, enabled |-> FALSE, fresh |-> FALSE]
Acks == {"accepted", "unresolved", "exceeded", "error"}

UsageInit ==
    /\ recorded = {}
    /\ phase = [p \in Reports |-> "gate"]
    /\ premium = [p \in Reports |-> FALSE]
    /\ known = [p \in Reports |-> NoEntry]
    /\ cache = NoEntry
    /\ licensed \in BOOLEAN
    /\ granted = FALSE
    /\ excuse = FALSE

To(p, s) == phase' = [phase EXCEPT ![p] = s]

(* A fresh entry answers; otherwise the licence server is asked. *)
Gate(p) ==
    /\ phase[p] = "gate"
    /\ IF cache.fresh
       THEN /\ To(p, "resolve")
            /\ premium' = [premium EXCEPT ![p] = cache.enabled]
            /\ UNCHANGED known
       ELSE /\ To(p, "ask")
            /\ known' = [known EXCEPT ![p] = cache]
            /\ UNCHANGED premium
    /\ UNCHANGED <<recorded, cache, licensed, granted, excuse>>

(* The entry is dated when the question was asked: an answer that took      *)
(* longer than the TTL is stale when it is stored.                          *)
Answer(p) ==
    /\ phase[p] = "ask"
    /\ \E fresh \in BOOLEAN : cache' = [set |-> TRUE, enabled |-> licensed, fresh |-> fresh]
    /\ premium' = [premium EXCEPT ![p] = licensed]
    /\ granted' = (granted \/ licensed)
    /\ To(p, "resolve")
    /\ UNCHANGED <<recorded, known, licensed, excuse>>

LastKnown(p) == known[p].set /\ known[p].enabled

(* The question fails: what was known before it is used, and not stored. *)
NoAnswer(p) ==
    /\ phase[p] = "ask"
    /\ premium' = [premium EXCEPT ![p] = LastKnown(p)]
    /\ To(p, "resolve")
    /\ UNCHANGED <<recorded, known, cache, licensed, granted, excuse>>

(* An error is as good as an unknown user. *)
Resolve(p) ==
    /\ phase[p] = "resolve"
    /\ \/ To(p, "unresolved")
       \/ UserOf[p] # NoUser /\ To(p, "check")
    /\ UNCHANGED <<recorded, premium, known, cache, licensed, granted, excuse>>

UsersSeen == {UserOf[p] : p \in recorded}
Used(u) == MapThenSumSet(LAMBDA p : Tokens[p], {p \in recorded : UserOf[p] = u})

(* A mutant of CapExceeded: one user too many. *)
CapExceededLate(p, users) == UserOf[p] \notin users /\ Cardinality(users) > MaxFree

(* users: the distinct users, of which the query returns MaxFree + 1. *)
CapExceeded(p, users) == UserOf[p] \notin users /\ Cardinality(users) >= MaxFree

QuotaExceeded(p) == Quota > 0 /\ Used(UserOf[p]) >= Quota

Overlaps(p) == \E o \in Reports \ {p} : phase[o] = "insert"

Check(p) ==
    /\ phase[p] = "check"
    /\ \/ premium[p] /\ To(p, IF QuotaExceeded(p) THEN "exceeded" ELSE "insert")
       \/ /\ ~premium[p]
          /\ \E users \in SUBSET UsersSeen :
               /\ \/ users = UsersSeen
                  \/ Cardinality(users) = MaxFree + 1
               /\ Cardinality(users) <= MaxFree + 1
               /\ To(p, IF CapExceeded(p, users) THEN "exceeded" ELSE "insert")
    /\ excuse' = (excuse \/ Overlaps(p))
    /\ UNCHANGED <<recorded, premium, known, cache, licensed, granted>>

(* A check that cannot be made does not stand in the way. *)
CheckFails(p) ==
    /\ phase[p] = "check"
    /\ To(p, "insert")
    /\ excuse' = TRUE
    /\ UNCHANGED <<recorded, premium, known, cache, licensed, granted>>

(* The insert and its commit, or an error. *)
Record(p) ==
    /\ phase[p] = "insert"
    /\ \/ To(p, "accepted") /\ recorded' = recorded \cup {p}
       \/ To(p, "error") /\ UNCHANGED recorded
    /\ UNCHANGED <<premium, known, cache, licensed, granted, excuse>>

(* Environment: the entry's TTL passes; the licence is bought or ends. *)
EntryExpires ==
    /\ cache.fresh
    /\ cache' = [cache EXCEPT !.fresh = FALSE]
    /\ UNCHANGED <<recorded, phase, premium, known, licensed, granted, excuse>>

LicenceChanges ==
    /\ licensed' = ~licensed
    /\ UNCHANGED <<recorded, phase, premium, known, cache, granted, excuse>>

RecordUsage(p) ==
    \/ Gate(p) \/ Answer(p) \/ NoAnswer(p) \/ Resolve(p) \/ Check(p) \/ CheckFails(p)
    \/ Record(p)

UsageNext == EntryExpires \/ LicenceChanges \/ \E p \in Reports : RecordUsage(p)

UsageSpec == UsageInit /\ [][UsageNext]_uvars
-----------------------------------------------------------------------------
(* Every acknowledged report has a phase, and what was recorded was         *)
(* accepted.                                                                *)
UsageTypeOK ==
    /\ phase \in [Reports -> {"gate", "ask", "resolve", "check", "insert"} \cup Acks]
    /\ recorded = {p \in Reports : phase[p] = "accepted"}
    /\ premium \in [Reports -> BOOLEAN] /\ cache.fresh => cache.set

(* Premium quotas are granted by an answer of the licence server, never by  *)
(* an outage: without a yes so far, no report is treated as premium and no  *)
(* entry says so.                                                           *)
PremiumIsEarned == ~granted => /\ ~cache.enabled
                               /\ \A p \in Reports : ~premium[p] /\ ~known[p].enabled

(* While there has been no licence, no failed check and no overlap of a     *)
(* check with another report's insert, an organisation has at most MaxFree  *)
(* users in token_usage, whatever the order of the reports.                 *)
FreeTierHeld == ~granted /\ ~excuse => Cardinality(UsersSeen) <= MaxFree

(* Where no check failed or overlapped another report's insert, a premium   *)
(* report is inserted while the quota is not used up: a user exceeds it by  *)
(* less than one report, although reports accepted under the free tier are  *)
(* not subject to it and the licence may come and go.                       *)
QuotaOvershoot ==
    [][\A p \in recorded' \ recorded :
         premium[p] /\ ~excuse => ~QuotaExceeded(p)]_uvars
=============================================================================
