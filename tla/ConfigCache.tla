---------------------------- MODULE ConfigCache ----------------------------
(***************************************************************************)
(* Configuration rows in Postgres and the proxies' copies of them in        *)
(* Valkey: cache_configs (global and organisation scope), routing_policies  *)
(* (one row per organisation) and model_assignments (an organisation's row, *)
(* else the global one).  A resolver reads through Valkey; the management   *)
(* API writes a row, then deletes the copy, in separate steps, and lets the *)
(* TTL make good what it misses.                                            *)
(*                                                                          *)
(* A row is a version number, Absent when there is none.  An identifier     *)
(* <<table, scope>> names a row and the Valkey key of the same scope.       *)
(***************************************************************************)
EXTENDS Integers, Sequences, FiniteSets

CONSTANTS
    Orgs,           \* organisations
    Global,         \* the global scope
    Resolvers,      \* resolutions in progress at the proxies
    Writers,        \* management API requests in progress
    MaxWrites,      \* bound on the writes of a behaviour
    NotCached       \* no copy in Valkey

Absent == 0

Ids == ({"config", "assignment"} \X (Orgs \cup {Global})) \cup ({"policy"} \X Orgs)

Resolutions == {"config", "assignment", "policy"} \X Orgs

VARIABLES
    row,        \* row[i]: the version of the row, Absent when there is none
    hot,        \* hot[i]: the copy in Valkey, or NotCached
    res,        \* res[r]: a resolution: its state, what it looks for, what it has read
    api,        \* api[w]: the scope whose copies the write has yet to delete
    writes,     \* the number of writes so far
    excused     \* history: copies that a known race or an omission has left old

cvars == <<row, hot, res, api, writes, excused>>

IdleRes == [at |-> "idle", todo |-> <<>>, missing |-> <<>>, read |-> <<>>, old |-> {}]

Idle == [at |-> "idle", id |-> <<>>]

Init ==
    /\ row = [i \in Ids |-> Absent]
    /\ hot = [i \in Ids |-> NotCached]
    /\ res = [r \in Resolvers |-> IdleRes]
    /\ api = [w \in Writers |-> Idle]
    /\ writes = 0
    /\ excused = {}

(* What a read of the database gives for a key: assignments fall back to    *)
(* the global row.                                                          *)
Fetched(i) ==
    IF i[1] = "assignment" /\ row[i] = Absent THEN row[<<"assignment", Global>>] ELSE row[i]

(* The keys a resolution needs, in the order in which it asks for them. *)
Wanted(q) ==
    IF q[1] = "config" THEN <<<<"config", Global>>, q>> ELSE <<q>>

(* The absence of a row is cached, except for assignments. *)
Cacheable(i, v) == i[1] = "assignment" => v # Absent

Begin(r) ==
    /\ res[r].at = "idle"
    /\ \E q \in Resolutions :
         res' = [res EXCEPT ![r] = [IdleRes EXCEPT !.at = "get", !.todo = Wanted(q)]]
    /\ UNCHANGED <<row, hot, api, writes, excused>>

(* One GET.  A copy is used as it is; a key without one will be fetched. *)
GetCopy(r) ==
    LET i == Head(res[r].todo)
        rest == Tail(res[r].todo)
        miss == IF hot[i] = NotCached THEN Append(res[r].missing, i) ELSE res[r].missing
    IN  /\ res[r].at = "get"
        /\ res' = [res EXCEPT ![r].todo = rest, ![r].missing = miss,
                              ![r].at = IF rest # <<>> THEN "get"
                                        ELSE IF miss # <<>> THEN "fetch" ELSE "idle"]
        /\ UNCHANGED <<row, hot, api, writes, excused>>

(* One query reads the rows of all missing keys, in a worker thread. *)
Fetch(r) ==
    /\ res[r].at = "fetch"
    /\ res' = [res EXCEPT ![r].at = "set",
                          ![r].read = [n \in DOMAIN res[r].missing |-> Fetched(res[r].missing[n])]]
    /\ UNCHANGED <<row, hot, api, writes, excused>>

(* One SET with the TTL, of what the query read. *)
Fill(r) ==
    LET i == Head(res[r].missing)
        v == Head(res[r].read)
        rest == Tail(res[r].missing)
    IN  /\ res[r].at = "set"
        /\ hot' = IF Cacheable(i, v) THEN [hot EXCEPT ![i] = v] ELSE hot
        /\ excused' = IF ~Cacheable(i, v) THEN excused
                      ELSE IF i \in res[r].old THEN excused \cup {i} ELSE excused \ {i}
        /\ res' = [res EXCEPT ![r] = IF rest = <<>> THEN IdleRes
                                     ELSE [res[r] EXCEPT !.missing = rest, !.read = Tail(res[r].read)]]
        /\ UNCHANGED <<row, api, writes>>

(* Valkey fails: cache_configs lets the error out, the routing resolvers    *)
(* take a failed GET for a miss and ignore a failed SET.                    *)
ValkeyFails(r) ==
    /\ res[r].at \in {"get", "set"}
    /\ res' = [res EXCEPT ![r] =
                 IF @.at = "get" /\ Head(@.todo)[1] # "config"
                 THEN [@ EXCEPT !.at = "fetch", !.missing = res[r].todo, !.todo = <<>>]
                 ELSE IdleRes]
    /\ UNCHANGED <<row, hot, api, writes, excused>>

(* The keys a management write deletes afterwards: its own scope's, and for *)
(* assignments the global one.  A write of the global assignment leaves the *)
(* organisations' copies of it alone.                                       *)
Clears(i) == IF i[1] = "assignment" THEN {i, <<"assignment", Global>>} ELSE {i}

(* The keys whose value depends on a row. *)
DependsOn(i) ==
    IF i = <<"assignment", Global>> THEN {k \in Ids : k[1] = "assignment"} ELSE {i}

(* A commit of row i, after which the copies of the keys in S are deleted.  *)
(* Fetches under way have read the old version.                             *)
Commit(w, i, v, S) ==
    /\ api[w].at = "idle"
    /\ writes < MaxWrites
    /\ writes' = writes + 1
    /\ row' = [row EXCEPT ![i] = v]
    /\ api' = [api EXCEPT ![w] = IF S = {} THEN Idle ELSE [at |-> "clear", id |-> i]]
    /\ res' = [r \in Resolvers |->
                 IF res[r].at = "set" THEN [res[r] EXCEPT !.old = @ \cup DependsOn(i)] ELSE res[r]]
    /\ excused' = excused \cup (DependsOn(i) \ S)
    /\ UNCHANGED hot

NewVersion == writes + 1

(* create_cache_config: a second row for a scope is refused. *)
CreateConfig(w, i) == i[1] = "config" /\ row[i] = Absent /\ Commit(w, i, NewVersion, Clears(i))

(* update_cache_config: an unknown row is a 404. *)
UpdateConfig(w, i) == i[1] = "config" /\ row[i] # Absent /\ Commit(w, i, NewVersion, Clears(i))

DeleteConfig(w, i) == i[1] = "config" /\ row[i] # Absent /\ Commit(w, i, Absent, Clears(i))

UpsertPolicy(w, i) == i[1] = "policy" /\ Commit(w, i, NewVersion, Clears(i))

DeletePolicy(w, i) == i[1] = "policy" /\ row[i] # Absent /\ Commit(w, i, Absent, Clears(i))

UpsertAssignment(w, i) == i[1] = "assignment" /\ Commit(w, i, NewVersion, Clears(i))

UpdateAssignment(w, i) ==
    i[1] = "assignment" /\ row[i] # Absent /\ Commit(w, i, NewVersion, Clears(i))

DeleteAssignment(w, i) ==
    i[1] = "assignment" /\ row[i] # Absent /\ Commit(w, i, Absent, Clears(i))

(* seed_assignments writes global rows and deletes no copy at all. *)
SeedAssignments(w) == Commit(w, <<"assignment", Global>>, NewVersion, {})

Write(w) == \/ \E i \in Ids : \/ CreateConfig(w, i) \/ UpdateConfig(w, i) \/ DeleteConfig(w, i)
                              \/ UpsertPolicy(w, i) \/ DeletePolicy(w, i)
                              \/ UpsertAssignment(w, i) \/ UpdateAssignment(w, i)
                              \/ DeleteAssignment(w, i)
            \/ SeedAssignments(w)

(* A mutant of Invalidate: only the global key is deleted. *)
InvalidateGlobal(w) ==
    LET S == Clears(api[w].id) IN
    /\ api[w].at = "clear"
    /\ hot' = [i \in Ids |-> IF i \in S /\ i[2] = Global THEN NotCached ELSE hot[i]]
    /\ excused' = excused \ S
    /\ api' = [api EXCEPT ![w] = Idle]
    /\ UNCHANGED <<row, res, writes>>

(* The DEL of the copies.  The management's Valkey client is synchronous:   *)
(* the command is executed whatever becomes of its reply.                   *)
Invalidate(w) ==
    LET S == Clears(api[w].id) IN
    /\ api[w].at = "clear"
    /\ hot' = [i \in Ids |-> IF i \in S THEN NotCached ELSE hot[i]]
    /\ excused' = excused \ S
    /\ api' = [api EXCEPT ![w] = Idle]
    /\ UNCHANGED <<row, res, writes>>

(* Valkey cannot be reached, or the process dies: the write stands. *)
InvalidateFails(w) ==
    /\ api[w].at = "clear"
    /\ excused' = excused \cup Clears(api[w].id)
    /\ api' = [api EXCEPT ![w] = Idle]
    /\ UNCHANGED <<row, hot, res, writes>>

(* A mutant of Expire: assignments are cached without a TTL. *)
ExpireNotAssignments(i) ==
    /\ i[1] # "assignment"
    /\ hot[i] # NotCached
    /\ hot' = [hot EXCEPT ![i] = NotCached]
    /\ excused' = excused \ {i}
    /\ UNCHANGED <<row, res, api, writes>>

Expire(i) ==
    /\ hot[i] # NotCached
    /\ hot' = [hot EXCEPT ![i] = NotCached]
    /\ excused' = excused \ {i}
    /\ UNCHANGED <<row, res, api, writes>>

Resolve(r) == GetCopy(r) \/ Fetch(r) \/ Fill(r)

Next == \/ \E r \in Resolvers : Begin(r) \/ Resolve(r) \/ ValkeyFails(r)
        \/ \E w \in Writers : Write(w) \/ Invalidate(w) \/ InvalidateFails(w)
        \/ \E i \in Ids : Expire(i)

(* Every copy is written with a TTL, which elapses; a resolution that has   *)
(* begun goes on.                                                           *)
Fairness == /\ \A i \in Ids : WF_cvars(Expire(i))
            /\ \A r \in Resolvers : WF_cvars(Resolve(r))

Spec == Init /\ [][Next]_cvars /\ Fairness
-----------------------------------------------------------------------------
TypeOK ==
    /\ row \in [Ids -> 0..MaxWrites]
    /\ hot \in [Ids -> 0..MaxWrites \cup {NotCached}]
    /\ DOMAIN res = Resolvers /\ DOMAIN api = Writers
    /\ \A r \in Resolvers : res[r].at \in {"idle", "get", "fetch", "set"}
    /\ excused \subseteq Ids

Stale(i) == hot[i] \notin {NotCached, Fetched(i)}

BeingCleared(i) == \E w \in Writers : api[w].at = "clear" /\ i \in Clears(api[w].id)

(* A copy that disagrees with the database has one of the known causes: its *)
(* deletion is still to come or was lost, the resolver that wrote it had    *)
(* read the row before the write, or the write was one of those that delete *)
(* no copy of it (a seed, the global assignment in an organisation's key).  *)
(* In particular every other write is visible to every resolution that      *)
(* begins after it has returned.                                            *)
StaleIsExcused == \A i \in Ids : Stale(i) => i \in excused \/ BeingCleared(i)

(* When the writes stop, the copies agree with the database for good. *)
EventuallyFresh == <>[](\A i \in Ids : ~Stale(i))
=============================================================================
