--------------------------- MODULE ProxyPipeline ----------------------------
(***************************************************************************)
(* One pass of requests through the staged pipeline of                     *)
(* proxy/apps/proxy_server/pipeline/stages.py, and what the route handler  *)
(* of main.py does with the result.  A request is interleaved with the     *)
(* others at every await; between them they share the response cache, the  *)
(* limiter's reservations, the metering buffer and the pseudonym maps in   *)
(* Valkey.                                                                 *)
(*                                                                         *)
(* Message contents are left out.  A response is none, raw (as a provider  *)
(* or the cache gave it), vetted (as the output filter returned it) or open *)
(* (let through because the filter failed).  Of a prompt it matters which  *)
(* of its messages the upstream filter pseudonymizes, and under which      *)
(* placeholder: placeholders are numbered within a message, so messages of *)
(* one request may share a name.  The provider is taken to repeat every    *)
(* placeholder it was sent: what a text is said to keep is what it keeps   *)
(* wherever the provider used it.  The four memory stages, which only      *)
(* rewrite messages, are one stage, "assemble".                            *)
(***************************************************************************)
EXTENDS Integers, Sequences, FiniteSets

CONSTANTS
    Requests,      \* requests
    Keys,          \* exact-cache keys
    KeyOf,         \* request -> the cache key of its assembled messages
    VKeyed,        \* requests whose user has a vkey_id
    Placeholders,  \* names of placeholders, [PSEUDO_<rule>_<i>]
    Sensitive,     \* request -> placeholders of the messages pseudonymized
    Upstream,      \* DispatchStage has an upstream filter (security_v2)
    FilterErrors,  \* whether filter_output can raise a runtime error
    Aborts         \* whether a stage can raise, or a request be cancelled

Order == <<"auth", "token_budget", "security_in", "assemble", "cache",
           "routing", "dispatch", "security_out", "meter">>

(* Stages built with a feature flag; flags are read anew at every stage.   *)
Flagged == {"assemble", "cache", "routing"}

Respond == Len(Order) + 1
Ended == Len(Order) + 2

ASSUME PipelineAssumption ==
    /\ KeyOf \in [Requests -> Keys]
    /\ VKeyed \subseteq Requests
    /\ Sensitive \in [Requests -> Seq(Placeholders)]
    /\ {Upstream, FilterErrors, Aborts} \subseteq BOOLEAN

VARIABLES
    pc,        \* request -> index of the stage it is in, Respond or Ended
    ctx,       \* request -> its PipelineContext
    scanned,   \* request -> messages the upstream filter has handled
    maps,      \* pseudonym maps in Valkey, as <<request, message>>
    expired,   \* history: maps whose time to live ran out
    reserved,  \* requests whose reservation was not reconciled
    slipped,   \* history: requests a call of the limiter failed for
    spent,     \* history: requests a provider answered with usage
    metered,   \* requests with an event in the metering buffer
    cache,     \* key -> the cached response
    tasks,     \* write-backs scheduled and not yet run
    served     \* history: requests answered with 200

shared == <<maps, expired, reserved, slipped, metered, cache, tasks>>
vars == <<pc, ctx, scanned, shared, spent, served>>

(* A response, with the messages whose placeholders it still has, and those *)
(* whose placeholders were replaced by what another message had there.      *)
Messages == Requests \X Nat
Text == [as: {"none", "raw", "vetted", "open"},
         unrestored: SUBSET Messages, mixed: SUBSET Messages]
NoText == [as |-> "none", unrestored |-> {}, mixed |-> {}]

Context == [blocked: BOOLEAN, resv: BOOLEAN, text: Text, usage: BOOLEAN,
            provider: {"none", "cache", "upstream"}, writeBack: BOOLEAN,
            mapping: Nat]

NewContext == [blocked |-> FALSE, resv |-> FALSE, text |-> NoText, usage |-> FALSE,
               provider |-> "none", writeBack |-> FALSE, mapping |-> 0]

Init ==
    /\ pc = [r \in Requests |-> 1]
    /\ ctx = [r \in Requests |-> NewContext]
    /\ scanned = [r \in Requests |-> 0]
    /\ maps = {}
    /\ expired = {}
    /\ reserved = {}
    /\ slipped = {}
    /\ spent = {}
    /\ metered = {}
    /\ cache = [k \in Keys |-> NoText]
    /\ tasks = {}
    /\ served = {}

----------------------------------------------------------------------------
(* ProxyPipeline.run *)

Running(r) == pc[r] <= Len(Order)

In(r, stage) == Running(r) /\ Order[pc[r]] = stage /\ ~ctx[r].blocked

Advance(r) == pc' = [pc EXCEPT ![r] = @ + 1]

(* A stage returns the context c.                                          *)
Return(r, c) == Advance(r) /\ ctx' = [ctx EXCEPT ![r] = c]

Pass(r) == Return(r, ctx[r])

Block(r) == Return(r, [ctx[r] EXCEPT !.blocked = TRUE])

SkipByFlag(r) ==
    /\ Running(r)
    /\ Order[pc[r]] \in Flagged
    /\ Pass(r)
    /\ UNCHANGED <<scanned, shared, spent, served>>

ShortCircuit(r) ==
    /\ Running(r)
    /\ ctx[r].blocked
    /\ Pass(r)
    /\ UNCHANGED <<scanned, shared, spent, served>>

(* An exception leaves run() or the handler; so does a cancelled task.     *)
Abort(r) ==
    /\ Aborts
    /\ pc[r] # Ended
    /\ pc' = [pc EXCEPT ![r] = Ended]
    /\ UNCHANGED <<ctx, scanned, shared, spent, served>>

----------------------------------------------------------------------------
(* The stages before dispatch *)

Auth(r) ==
    /\ In(r, "auth")
    /\ Pass(r) \/ Block(r)
    /\ UNCHANGED <<scanned, shared, spent, served>>

(* Reserved; reserved by the script whose reply was lost, so that the      *)
(* request goes on without the id; no limits to check, or Valkey out of    *)
(* reach; or rejected.                                                     *)
TokenBudget(r) ==
    /\ In(r, "token_budget")
    /\ \/ /\ r \in VKeyed
          /\ Return(r, [ctx[r] EXCEPT !.resv = TRUE])
          /\ reserved' = reserved \cup {r}
          /\ UNCHANGED slipped
       \/ /\ r \in VKeyed
          /\ Pass(r)
          /\ reserved' = reserved \cup {r}
          /\ slipped' = slipped \cup {r}
       \/ Pass(r) /\ UNCHANGED <<reserved, slipped>>
       \/ r \in VKeyed /\ Block(r) /\ UNCHANGED <<reserved, slipped>>
    /\ UNCHANGED <<scanned, maps, expired, metered, cache, tasks, spent, served>>

SecurityIn(r) ==
    /\ In(r, "security_in")
    /\ Pass(r) \/ Block(r)
    /\ UNCHANGED <<scanned, shared, spent, served>>

(* The memory stages and routing rewrite messages and model only.          *)
Rewrite(r) ==
    /\ In(r, "assemble") \/ In(r, "routing")
    /\ Pass(r)
    /\ UNCHANGED <<scanned, shared, spent, served>>

Judged(text, verdict) == [text EXCEPT !.as = verdict]

(* A hit fills the context with the text as its writer was served it,      *)
(* placeholders included; a miss leaves a write-back behind when the       *)
(* request may be cached.                                                  *)
CacheHit(r) ==
    /\ In(r, "cache")
    /\ cache[KeyOf[r]].as # "none"
    /\ Return(r, [ctx[r] EXCEPT !.text = Judged(cache[KeyOf[r]], "raw"),
                                !.usage = TRUE, !.provider = "cache"])
    /\ UNCHANGED <<scanned, shared, spent, served>>

CacheMiss(r) ==
    /\ In(r, "cache")
    /\ \/ cache[KeyOf[r]].as = "none" /\ Return(r, [ctx[r] EXCEPT !.writeBack = TRUE])
       \/ Pass(r)
    /\ UNCHANGED <<scanned, shared, spent, served>>

----------------------------------------------------------------------------
(* DispatchStage *)

Hit(r) == ctx[r].provider = "cache"

DispatchSkipped(r) ==
    /\ In(r, "dispatch")
    /\ Hit(r)
    /\ Pass(r)
    /\ UNCHANGED <<scanned, shared, spent, served>>

(* No provider, no connector, or an error in the selection.                *)
NoProvider(r) ==
    /\ In(r, "dispatch")
    /\ ~Hit(r)
    /\ scanned[r] = 0
    /\ Block(r)
    /\ UNCHANGED <<scanned, shared, spent, served>>

(* Mutant: the first map is the one that is remembered.                    *)
StoreMapKeepsFirst(r) ==
    /\ In(r, "dispatch")
    /\ ~Hit(r)
    /\ Upstream
    /\ scanned[r] < Len(Sensitive[r])
    /\ scanned' = [scanned EXCEPT ![r] = @ + 1]
    /\ maps' = maps \cup {<<r, scanned[r] + 1>>}
    /\ ctx' = [ctx EXCEPT ![r].mapping = 1]
    /\ UNCHANGED <<pc, expired, reserved, slipped, metered, cache, tasks, spent, served>>

(* _apply_upstream_filter stores one map per message and remembers the     *)
(* last one.                                                               *)
StoreMap(r) ==
    /\ In(r, "dispatch")
    /\ ~Hit(r)
    /\ Upstream
    /\ scanned[r] < Len(Sensitive[r])
    /\ scanned' = [scanned EXCEPT ![r] = @ + 1]
    /\ maps' = maps \cup {<<r, scanned[r] + 1>>}
    /\ ctx' = [ctx EXCEPT ![r].mapping = scanned[r] + 1]
    /\ UNCHANGED <<pc, expired, reserved, slipped, metered, cache, tasks, spent, served>>

(* The 600 seconds of a map are over, whatever its request is waiting for. *)
ExpireMap(m) ==
    /\ m \in maps
    /\ maps' = maps \ {m}
    /\ expired' = expired \cup {m}
    /\ UNCHANGED <<pc, ctx, scanned, reserved, slipped, metered, cache, tasks, spent, served>>

Filtered(r) == Upstream => scanned[r] = Len(Sensitive[r])

Calling(r) == In(r, "dispatch") /\ ~Hit(r) /\ Filtered(r)

(* The provider's answer as it is, and with the remembered map applied, if *)
(* Valkey still has it: it fills in the placeholders of every message that *)
(* shares their names, with the values of its own.                         *)
Sent(r) == {r} \X (1..scanned[r])
Alike(r) == {m \in Sent(r) : Sensitive[r][m[2]] = Sensitive[r][ctx[r].mapping]}
Remembered(r) == <<r, ctx[r].mapping>>
Plain(r) == [as |-> "raw", unrestored |-> Sent(r), mixed |-> {}]
Restored(r) ==
    IF Remembered(r) \notin maps THEN Plain(r)
    ELSE [as |-> "raw", unrestored |-> Sent(r) \ Alike(r),
          mixed |-> Alike(r) \ {Remembered(r)}]

Called(r, text, reported) ==
    [ctx[r] EXCEPT !.text = text, !.usage = reported, !.provider = "upstream"]

Spend(r, reported) == spent' = IF reported THEN spent \cup {r} ELSE spent

(* Mutant: the map is deleted before it is applied.                        *)
AnsweredDropsFirst(r, reported) ==
    /\ Calling(r)
    /\ Return(r, [Called(r, Plain(r), reported) EXCEPT !.mapping = 0])
    /\ maps' = maps \ {Remembered(r)}
    /\ Spend(r, reported)
    /\ UNCHANGED <<scanned, expired, reserved, slipped, metered, cache, tasks, served>>

(* The provider answered, with or without usage (a stream may report       *)
(* none); the map is applied and deleted.                                  *)
Answered(r, reported) ==
    /\ Calling(r)
    /\ Return(r, [Called(r, Restored(r), reported) EXCEPT !.mapping = 0])
    /\ maps' = maps \ {Remembered(r)}
    /\ Spend(r, reported)
    /\ UNCHANGED <<scanned, expired, reserved, slipped, metered, cache, tasks, served>>

(* The provider answered and Valkey failed, on reading the map or on       *)
(* deleting it: dispatch_error.                                            *)
AnsweredNotRestored(r, reported) ==
    /\ Calling(r)
    /\ ctx[r].mapping # 0
    /\ \/ /\ Return(r, [Called(r, Plain(r), reported) EXCEPT !.blocked = TRUE])
          /\ UNCHANGED maps
       \/ /\ Return(r, [Called(r, Restored(r), reported) EXCEPT !.blocked = TRUE])
          /\ maps' \in {maps, maps \ {Remembered(r)}}
    /\ Spend(r, reported)
    /\ UNCHANGED <<scanned, expired, reserved, slipped, metered, cache, tasks, served>>

ProviderError(r) ==
    /\ Calling(r)
    /\ Return(r, [ctx[r] EXCEPT !.blocked = TRUE, !.provider = "upstream"])
    /\ UNCHANGED <<scanned, shared, spent, served>>

Dispatch(r) ==
    \/ DispatchSkipped(r)
    \/ NoProvider(r)
    \/ StoreMap(r)
    \/ \E reported \in BOOLEAN : Answered(r, reported) \/ AnsweredNotRestored(r, reported)
    \/ ProviderError(r)

----------------------------------------------------------------------------
(* After dispatch *)

(* Mutant: every verdict is taken for an approval of the text as it is.    *)
SecurityOutPasses(r) ==
    /\ In(r, "security_out")
    /\ Pass(r)
    /\ UNCHANGED <<scanned, shared, spent, served>>

(* Nothing to filter; filtered, blocked, or let through because the filter *)
(* failed.                                                                 *)
SecurityOut(r) ==
    /\ In(r, "security_out")
    /\ \/ ctx[r].text.as = "none" /\ Pass(r)
       \/ /\ ctx[r].text.as # "none"
          /\ \/ Return(r, [ctx[r] EXCEPT !.text = Judged(@, "vetted")])
             \/ Block(r)
             \/ FilterErrors /\ Return(r, [ctx[r] EXCEPT !.text = Judged(@, "open")])
    /\ UNCHANGED <<scanned, shared, spent, served>>

(* What MeterStage records: the known usage of a provider or the cache.    *)
Record(r) ==
    metered' = IF r \in VKeyed /\ ctx[r].usage /\ ctx[r].provider # "none"
               THEN metered \cup {r} ELSE metered

(* Mutant: the reservation of a hit, which spent nothing, is left alone.   *)
ReconcileSpent(r) ==
    IF r \in VKeyed /\ ctx[r].resv /\ ctx[r].usage /\ ctx[r].provider = "upstream"
    THEN reserved' = reserved \ {r} /\ UNCHANGED slipped
    ELSE UNCHANGED <<reserved, slipped>>

(* Reconcile, which may be skipped for want of its script, fail, or find   *)
(* the reservation expired.                                                *)
Reconcile(r) ==
    IF r \in VKeyed /\ ctx[r].resv /\ ctx[r].usage
    THEN \/ reserved' = reserved \ {r} /\ UNCHANGED slipped
         \/ slipped' = slipped \cup {r} /\ UNCHANGED reserved
    ELSE UNCHANGED <<reserved, slipped>>

Meter(r) ==
    /\ In(r, "meter")
    /\ Pass(r)
    /\ Record(r)
    /\ Reconcile(r)
    /\ UNCHANGED <<scanned, maps, expired, cache, tasks, spent, served>>

(* The route handler: an error response, or the response and a write-back  *)
(* scheduled on the event loop.                                            *)
Answer(r) ==
    /\ pc[r] = Respond
    /\ Advance(r)
    /\ served' = IF ctx[r].blocked THEN served ELSE served \cup {r}
    /\ tasks' = IF ~ctx[r].blocked /\ ~Hit(r) /\ ctx[r].writeBack
                THEN tasks \cup {r} ELSE tasks
    /\ UNCHANGED <<ctx, scanned, maps, expired, reserved, slipped, metered, cache, spent>>

WriteBack(r) ==
    /\ r \in tasks
    /\ tasks' = tasks \ {r}
    /\ cache' = [cache EXCEPT ![KeyOf[r]] = ctx[r].text]
    /\ UNCHANGED <<pc, ctx, scanned, maps, expired, reserved, slipped, metered, spent, served>>

(* The write-back fails, or refuses an entry that is too large.            *)
WriteBackLost(r) ==
    /\ r \in tasks
    /\ tasks' = tasks \ {r}
    /\ UNCHANGED <<pc, ctx, scanned, maps, expired, reserved, slipped, metered, cache, spent,
                   served>>

(* Valkey expires or evicts an entry.                                      *)
Expire(k) ==
    /\ cache[k].as # "none"
    /\ cache' = [cache EXCEPT ![k] = NoText]
    /\ UNCHANGED <<pc, ctx, scanned, maps, expired, reserved, slipped, metered, tasks, spent,
                   served>>

----------------------------------------------------------------------------
Step(r) ==
    \/ SkipByFlag(r) \/ ShortCircuit(r)
    \/ Auth(r) \/ TokenBudget(r) \/ SecurityIn(r) \/ Rewrite(r)
    \/ CacheHit(r) \/ CacheMiss(r)
    \/ Dispatch(r)
    \/ SecurityOut(r) \/ Meter(r)
    \/ Answer(r)

Next ==
    \/ \E r \in Requests : Step(r) \/ Abort(r) \/ WriteBack(r) \/ WriteBackLost(r)
    \/ \E k \in Keys : Expire(k)
    \/ \E m \in maps : ExpireMap(m)

Spec == Init /\ [][Next]_vars

----------------------------------------------------------------------------
(* Properties *)

TypeOK ==
    /\ pc \in [Requests -> 1..Ended]
    /\ ctx \in [Requests -> Context]
    /\ scanned \in [Requests -> Nat]
    /\ maps \cup expired \subseteq Messages
    /\ reserved \cup slipped \cup spent \cup metered \cup tasks \cup served \subseteq Requests
    /\ cache \in [Keys -> Text]

(* "only after SecurityOutStage has already passed": what one request      *)
(* leaves in the cache for the others went through the output filter; what *)
(* the filter did not return, it let through because it failed.            *)
CacheVetted == \A k \in Keys : cache[k].as # "raw"

(* The same, of the filter's approval.                                     *)
CacheApproved == \A k \in Keys : cache[k].as \in {"none", "vetted"}

(* A request answered with 200 whose usage is known is in the metering     *)
(* buffer exactly if it has a key, and holds a reservation only if a call  *)
(* of the limiter failed for it.                                           *)
ServedIsSettled ==
    \A r \in served : ctx[r].usage => /\ r \in metered <=> r \in VKeyed
                                      /\ r \in reserved => r \in slipped

(* A blocked request leaves nothing for others: no response in the cache   *)
(* comes from it and no write-back of it is pending.                       *)
BlockedLeavesNothing == \A r \in tasks : r \in served /\ ~ctx[r].blocked

(* A pseudonym map outlives a request answered with 200 only where the     *)
(* response has its placeholders, or had them filled in from another map;  *)
(* and it is gone before its placeholders were filled in only if it        *)
(* expired.  A hit has the placeholders its writer was served.             *)
MapsMatchPlaceholders ==
    \A r \in served :
        LET text == ctx[r].text IN
        IF Hit(r)
        THEN \E w \in served : /\ ~Hit(w)
                               /\ text.unrestored = ctx[w].text.unrestored
                               /\ text.mixed = ctx[w].text.mixed
        ELSE \A n \in 1..Len(Sensitive[r]) :
                /\ <<r, n>> \in maps => <<r, n>> \in text.unrestored \cup text.mixed
                /\ <<r, n>> \in text.unrestored => <<r, n>> \in maps \cup expired

(* MeterStage "runs EVEN IF ctx.blocked is True (e.g., if provider         *)
(* returned an error after we sent tokens)".                               *)
SpentIsMetered ==
    \A r \in spent \cap VKeyed : pc[r] = Ended => r \in metered

(* "If reservation was made: reconcile with actual usage".                 *)
ReservationSettled == \A r \in reserved : pc[r] # Ended

(* The pseudonym map "must not outlive this request".                      *)
MapsEndWithRequest == \A m \in maps : pc[m[1]] # Ended

(* What an answer keeps of the placeholders sent: of the maps that         *)
(* _apply_upstream_filter stores, DispatchStage remembers and applies the  *)
(* last, unless it expired; it fills in the placeholders of its own        *)
(* message, and in those of earlier messages with the same name it puts    *)
(* the values of the last.                                                 *)
Left(r) ==
    LET last  == Len(Sensitive[r])
        sent  == IF Upstream THEN {r} \X (1..last) ELSE {}
        alike == {m \in sent : Sensitive[r][m[2]] = Sensitive[r][last]}
    IN  IF <<r, last>> \in expired
        THEN [unrestored |-> sent, mixed |-> {}]
        ELSE [unrestored |-> sent \ alike, mixed |-> alike \ {<<r, last>>}]

OnlyLastIsRestored ==
    \A r \in served :
        ~Hit(r) => /\ ctx[r].text.unrestored = Left(r).unrestored
                   /\ ctx[r].text.mixed = Left(r).mixed

(* "the response is de-pseudonymized before returning to the client".      *)
ServedIsRestored ==
    \A r \in served : ctx[r].text.unrestored = {} /\ ctx[r].text.mixed = {}

(* The same, while no map expires.                                         *)
RestoredInTime == expired = {} => ServedIsRestored
============================================================================
