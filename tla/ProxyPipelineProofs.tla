------------------------ MODULE ProxyPipelineProofs -------------------------
(* Theorems about ProxyPipeline, for all sets of requests and keys. *)
EXTENDS ProxyPipeline, TLAPS

Typed ==
    /\ pc \in [Requests -> 1..11]
    /\ ctx \in [Requests -> Context]
    /\ scanned \in [Requests -> Nat]
    /\ cache \in [Keys -> Text]

Settled(r) ==
    ctx[r].usage => /\ r \in metered <=> r \in VKeyed
                    /\ r \in reserved => r \in slipped

(* What the accounts say of one request, wherever it is.                   *)
Accounts(r) ==
    /\ ctx[r].usage => ctx[r].provider # "none"
    /\ r \in reserved => r \in VKeyed /\ (ctx[r].resv \/ r \in slipped)
    /\ r \in metered => r \in VKeyed
    /\ pc[r] = 10 /\ ~ctx[r].blocked => Settled(r)
    /\ r \in served => pc[r] = 11 /\ ~ctx[r].blocked /\ Settled(r)
    /\ r \in tasks => r \in served

(* From the output filter on, an unblocked response is not raw.            *)
Screened(r) ==
    /\ pc[r] \in {9, 10} /\ ~ctx[r].blocked => ctx[r].text.as # "raw"
    /\ r \in served => ctx[r].text.as # "raw"

IInv == Typed /\ \A r \in Requests : Accounts(r)

SInv == CacheVetted /\ \A r \in Requests : Screened(r)

(* The numbers of the stages.                                              *)
LEMMA Numbers ==
  /\ Len(Order) = 9 /\ Respond = 10 /\ Ended = 11
  /\ \A i \in 1..9 :
       /\ Order[i] = "auth" <=> i = 1
       /\ Order[i] = "token_budget" <=> i = 2
       /\ Order[i] = "security_in" <=> i = 3
       /\ Order[i] = "assemble" <=> i = 4
       /\ Order[i] = "cache" <=> i = 5
       /\ Order[i] = "routing" <=> i = 6
       /\ Order[i] = "dispatch" <=> i = 7
       /\ Order[i] = "security_out" <=> i = 8
       /\ Order[i] = "meter" <=> i = 9
  BY DEF Order, Respond, Ended

(* A request is in the stage its number says.                              *)
LEMMA InStage ==
  ASSUME Typed, NEW r \in Requests
  PROVE  /\ Running(r) <=> pc[r] <= 9
         /\ In(r, "auth") <=> pc[r] = 1 /\ ~ctx[r].blocked
         /\ In(r, "token_budget") <=> pc[r] = 2 /\ ~ctx[r].blocked
         /\ In(r, "security_in") <=> pc[r] = 3 /\ ~ctx[r].blocked
         /\ In(r, "assemble") <=> pc[r] = 4 /\ ~ctx[r].blocked
         /\ In(r, "cache") <=> pc[r] = 5 /\ ~ctx[r].blocked
         /\ In(r, "routing") <=> pc[r] = 6 /\ ~ctx[r].blocked
         /\ In(r, "dispatch") <=> pc[r] = 7 /\ ~ctx[r].blocked
         /\ In(r, "security_out") <=> pc[r] = 8 /\ ~ctx[r].blocked
         /\ In(r, "meter") <=> pc[r] = 9 /\ ~ctx[r].blocked
  <1>1. pc[r] \in 1..11
    BY DEF Typed
  <1>2. Running(r) <=> pc[r] \in 1..9
    BY <1>1, Numbers DEF Running
  <1> QED
    BY <1>1, <1>2, Numbers DEF In

LEMMA InitIInv == Init => IInv /\ SInv
  <1> SUFFICES ASSUME Init PROVE IInv /\ SInv
    OBVIOUS
  <1>1. NoText \in Text /\ NoText.as = "none"
    BY DEF NoText, Text
  <1>2. NewContext \in Context /\ NewContext.text = NoText
    BY <1>1 DEF NewContext, Context
  <1>3. Typed
    BY <1>1, <1>2 DEF Init, Typed
  <1>4. \A r \in Requests : Accounts(r) /\ Screened(r)
    BY <1>1, <1>2 DEF Init, Accounts, Screened, Settled, NewContext
  <1>5. CacheVetted
    BY <1>1 DEF Init, CacheVetted
  <1> QED
    BY <1>3, <1>4, <1>5 DEF IInv, SInv

----------------------------------------------------------------------------
(* Steps *)

(* Everything but the cache that the invariants say of request q.          *)
Same(q) ==
    /\ pc'[q] = pc[q]
    /\ ctx'[q] = ctx[q]
    /\ q \in reserved' <=> q \in reserved
    /\ q \in slipped => q \in slipped'
    /\ q \in metered' <=> q \in metered
    /\ q \in served' <=> q \in served
    /\ q \in tasks' <=> q \in tasks

LEMMA SameKeeps ==
  ASSUME NEW q, Same(q)
  PROVE  Accounts(q) => Accounts(q)'
  BY DEF Same, Accounts, Settled

(* A step of r that leaves the other requests alone.                       *)
LEMMA Local ==
  ASSUME IInv, NEW r \in Requests, Typed', Accounts(r)',
         \A q \in Requests \ {r} : Same(q)
  PROVE  IInv'
  BY SameKeeps DEF IInv

(* What returning from a stage does to the program counter and context.    *)
LEMMA ReturnFacts ==
  ASSUME Typed, NEW r \in Requests, NEW c \in Context, pc[r] <= 10,
         Return(r, c)
  PROVE  /\ pc' \in [Requests -> 1..11]
         /\ ctx' \in [Requests -> Context]
         /\ pc'[r] = pc[r] + 1
         /\ ctx'[r] = c
         /\ \A q \in Requests \ {r} : pc'[q] = pc[q] /\ ctx'[q] = ctx[q]
  <1>1. pc[r] + 1 \in 1..11
    BY DEF Typed
  <1>2. pc' = [pc EXCEPT ![r] = pc[r] + 1]
    BY DEF Return, Advance
  <1>3. ctx' = [ctx EXCEPT ![r] = c]
    BY DEF Return
  <1>4. pc' \in [Requests -> 1..11] /\ pc'[r] = pc[r] + 1
    BY <1>1, <1>2 DEF Typed
  <1>5. ctx' \in [Requests -> Context] /\ ctx'[r] = c
    BY <1>3 DEF Typed
  <1> QED
    BY <1>2, <1>3, <1>4, <1>5 DEF Typed

(* A step that returns from a stage and changes no account.                *)
LEMMA QuietReturn ==
  ASSUME IInv, NEW r \in Requests, NEW c \in Context, Return(r, c),
         pc[r] <= 9,
         UNCHANGED <<scanned, reserved, slipped, metered, cache, tasks, served>>,
         c.resv = ctx[r].resv,
         c.usage => c.provider # "none",
         pc[r] + 1 = 10 /\ ~c.blocked => FALSE
  PROVE  IInv'
  <1> USE DEF IInv
  <1>1. pc[r] \in 1..9
    BY DEF Typed
  <1>2. /\ pc' \in [Requests -> 1..11] /\ ctx' \in [Requests -> Context]
        /\ pc'[r] = pc[r] + 1 /\ ctx'[r] = c
        /\ \A q \in Requests \ {r} : pc'[q] = pc[q] /\ ctx'[q] = ctx[q]
    BY <1>1, ReturnFacts
  <1>3. Typed'
    BY <1>2 DEF Typed
  <1>4. \A q \in Requests \ {r} : Same(q)
    BY <1>2 DEF Same
  <1>5. Accounts(r)'
    <2>1. r \notin served /\ r \notin tasks
      BY <1>1 DEF Accounts
    <2> QED
      BY <1>1, <1>2, <2>1 DEF Accounts
  <1> QED
    BY <1>3, <1>4, <1>5, Local

(* A context with some fields set is a context.                            *)
LEMMA ContextFacts ==
  ASSUME Typed, NEW r \in Requests
  PROVE  /\ ctx[r] \in Context
         /\ [ctx[r] EXCEPT !.blocked = TRUE] \in Context
         /\ [ctx[r] EXCEPT !.resv = TRUE] \in Context
         /\ [ctx[r] EXCEPT !.writeBack = TRUE] \in Context
         /\ [ctx[r] EXCEPT !.blocked = TRUE, !.provider = "upstream"] \in Context
         /\ \A verdict \in {"vetted", "open"} :
               [ctx[r] EXCEPT !.text = Judged(@, verdict)] \in Context
  <1>1. ctx[r] \in Context /\ ctx[r].text \in Text
    BY DEF Typed, Context
  <1>2. \A verdict \in {"vetted", "open"} : Judged(ctx[r].text, verdict) \in Text
    BY <1>1 DEF Text, Judged
  <1>3. \A text \in Text : [ctx[r] EXCEPT !.text = text] \in Context
    BY <1>1 DEF Context
  <1>4. \A verdict \in {"vetted", "open"} :
           [ctx[r] EXCEPT !.text = Judged(ctx[r].text, verdict)] \in Context
    BY <1>2, <1>3
  <1> QED
    BY <1>1, <1>4 DEF Context

(* A hit takes over a text that the cache holds.                           *)
HitContext(r) == [ctx[r] EXCEPT !.text = Judged(cache[KeyOf[r]], "raw"),
                                !.usage = TRUE, !.provider = "cache"]

LEMMA HitFacts ==
  ASSUME Typed, NEW r \in Requests
  PROVE  /\ HitContext(r) \in Context
         /\ HitContext(r).resv = ctx[r].resv
         /\ HitContext(r).provider = "cache"
         /\ HitContext(r).mapping = ctx[r].mapping
         /\ HitContext(r).text.unrestored = cache[KeyOf[r]].unrestored
         /\ HitContext(r).text.mixed = cache[KeyOf[r]].mixed
  <1>1. cache[KeyOf[r]] \in Text /\ ctx[r] \in Context
    BY PipelineAssumption DEF Typed
  <1> QED
    BY <1>1 DEF HitContext, Context, Text, Judged

(* The two texts that a provider's answer may become.                      *)
LEMMA CalledFacts ==
  ASSUME Typed, NEW r \in Requests, NEW reported \in BOOLEAN
  PROVE  /\ \A text \in {Plain(r), Restored(r)} :
              /\ [Called(r, text, reported) EXCEPT !.blocked = TRUE] \in Context
              /\ [Called(r, text, reported) EXCEPT !.mapping = 0] \in Context
              /\ [Called(r, text, reported) EXCEPT !.blocked = TRUE].resv = ctx[r].resv
              /\ [Called(r, text, reported) EXCEPT !.blocked = TRUE].blocked
              /\ [Called(r, text, reported) EXCEPT !.blocked = TRUE].provider = "upstream"
              /\ [Called(r, text, reported) EXCEPT !.mapping = 0].resv = ctx[r].resv
              /\ [Called(r, text, reported) EXCEPT !.mapping = 0].provider = "upstream"
              /\ [Called(r, text, reported) EXCEPT !.mapping = 0].text = text
  <1>1. ctx[r] \in Context /\ scanned[r] \in Nat
    BY DEF Typed
  <1>2. Sent(r) \subseteq Messages
    BY <1>1 DEF Sent, Messages
  <1>3. Plain(r) \in Text
    BY <1>2 DEF Plain, Text
  <1>4. Restored(r) \in Text
    <2>1. Alike(r) \subseteq Messages
      BY <1>2 DEF Alike
    <2> QED
      BY <1>2, <1>3, <2>1 DEF Restored, Text
  <1> SUFFICES ASSUME NEW text \in Text
               PROVE  LET b == [Called(r, text, reported) EXCEPT !.blocked = TRUE]
                          m == [Called(r, text, reported) EXCEPT !.mapping = 0]
                      IN  /\ b \in Context /\ m \in Context
                          /\ b.resv = ctx[r].resv /\ b.blocked /\ b.provider = "upstream"
                          /\ m.resv = ctx[r].resv /\ m.provider = "upstream" /\ m.text = text
    BY <1>3, <1>4
  <1> QED
    BY <1>1 DEF Called, Context

----------------------------------------------------------------------------
(* The accounts *)

LEMMA PassOrBlock ==
  ASSUME IInv, NEW r \in Requests, pc[r] <= 8, Pass(r) \/ Block(r),
         UNCHANGED <<scanned, reserved, slipped, metered, cache, tasks, served>>
  PROVE  IInv'
  <1>1. Typed /\ Accounts(r)
    BY DEF IInv
  <1>2. ctx[r].usage => ctx[r].provider # "none"
    BY <1>1 DEF Accounts
  <1>3. pc[r] \in 1..8
    BY <1>1 DEF Typed
  <1>4. CASE Pass(r)
    <2>1. ctx[r] \in Context /\ Return(r, ctx[r])
      BY <1>1, <1>4, ContextFacts DEF Pass
    <2>2. pc[r] <= 9 /\ pc[r] + 1 # 10
      BY <1>3
    <2> QED
      BY <1>2, <2>1, <2>2, QuietReturn
  <1>5. CASE Block(r)
    <2> DEFINE c == [ctx[r] EXCEPT !.blocked = TRUE]
    <2>1. c \in Context /\ ctx[r] \in Context
      BY <1>1, ContextFacts
    <2>2. c.resv = ctx[r].resv /\ c.usage = ctx[r].usage /\ c.provider = ctx[r].provider
      BY <2>1 DEF Context
    <2>3. Return(r, c)
      BY <1>5 DEF Block
    <2> HIDE DEF c
    <2> QED
      BY <1>2, <1>3, <2>1, <2>2, <2>3, QuietReturn
  <1> QED
    BY <1>4, <1>5

LEMMA EarlyStages ==
  ASSUME IInv, NEW r \in Requests,
         Auth(r) \/ SecurityIn(r) \/ Rewrite(r) \/ SkipByFlag(r)
           \/ DispatchSkipped(r) \/ NoProvider(r)
  PROVE  IInv'
  <1>1. Typed
    BY DEF IInv
  <1>2. pc[r] <= 8
    <2>1. CASE SkipByFlag(r)
      <3>1. pc[r] \in 1..9 /\ Order[pc[r]] \in {"assemble", "cache", "routing"}
        BY <1>1, <2>1, InStage DEF SkipByFlag, Flagged, Typed
      <3> QED
        BY <3>1, Numbers
    <2> QED
      BY <1>1, <2>1, InStage
         DEF Auth, SecurityIn, Rewrite, DispatchSkipped, NoProvider
  <1>3. Pass(r) \/ Block(r)
    BY DEF Auth, SecurityIn, Rewrite, SkipByFlag, DispatchSkipped, NoProvider
  <1>4. UNCHANGED <<scanned, reserved, slipped, metered, cache, tasks, served>>
    BY DEF Auth, SecurityIn, Rewrite, SkipByFlag, DispatchSkipped, NoProvider, shared
  <1> QED
    BY <1>2, <1>3, <1>4, PassOrBlock

LEMMA ShortCircuitIInv ==
  ASSUME IInv, NEW r \in Requests, ShortCircuit(r)
  PROVE  IInv'
  <1>1. Typed /\ Accounts(r)
    BY DEF IInv
  <1>2. pc[r] <= 9 /\ ctx[r].blocked
    BY <1>1, InStage DEF ShortCircuit
  <1>3. ctx[r] \in Context /\ Return(r, ctx[r])
    BY <1>1, ContextFacts DEF ShortCircuit, Pass
  <1>4. UNCHANGED <<scanned, reserved, slipped, metered, cache, tasks, served>>
    BY DEF ShortCircuit, shared
  <1>5. ctx[r].usage => ctx[r].provider # "none"
    BY <1>1 DEF Accounts
  <1> QED
    BY <1>2, <1>3, <1>4, <1>5, QuietReturn

LEMMA CacheIInv ==
  ASSUME IInv, NEW r \in Requests, CacheHit(r) \/ CacheMiss(r)
  PROVE  IInv'
  <1>1. Typed /\ Accounts(r) /\ ctx[r] \in Context
    BY ContextFacts DEF IInv
  <1>2. pc[r] = 5
    BY <1>1, InStage DEF CacheHit, CacheMiss
  <1>3. UNCHANGED <<scanned, reserved, slipped, metered, cache, tasks, served>>
    BY DEF CacheHit, CacheMiss, shared
  <1>4. ctx[r].usage => ctx[r].provider # "none"
    BY <1>1 DEF Accounts
  <1>5. CASE Pass(r)
    BY <1>2, <1>3, <1>5, PassOrBlock
  <1>6. CASE CacheHit(r)
    <2>1. Return(r, HitContext(r))
      BY <1>6 DEF CacheHit, HitContext
    <2>2. pc[r] <= 9 /\ pc[r] + 1 # 10 /\ HitContext(r).provider # "none"
      BY <1>1, <1>2, HitFacts
    <2> QED
      BY <1>1, <1>3, <2>1, <2>2, HitFacts, QuietReturn
  <1>7. CASE Return(r, [ctx[r] EXCEPT !.writeBack = TRUE])
    <2> DEFINE c == [ctx[r] EXCEPT !.writeBack = TRUE]
    <2>1. c \in Context
      BY <1>1, ContextFacts
    <2>2. c.resv = ctx[r].resv /\ c.usage = ctx[r].usage /\ c.provider = ctx[r].provider
      BY <1>1 DEF Context
    <2>3. Return(r, c)
      BY <1>7
    <2> HIDE DEF c
    <2> QED
      BY <1>2, <1>3, <1>4, <2>1, <2>2, <2>3, QuietReturn
  <1> QED
    BY <1>5, <1>6, <1>7 DEF CacheMiss

LEMMA SecurityOutIInv ==
  ASSUME IInv, NEW r \in Requests, SecurityOut(r)
  PROVE  IInv'
  <1>1. Typed /\ Accounts(r) /\ ctx[r] \in Context
    BY ContextFacts DEF IInv
  <1>2. pc[r] = 8
    BY <1>1, InStage DEF SecurityOut
  <1>3. UNCHANGED <<scanned, reserved, slipped, metered, cache, tasks, served>>
    BY DEF SecurityOut, shared
  <1>4. CASE Pass(r) \/ Block(r)
    BY <1>2, <1>3, <1>4, PassOrBlock
  <1>5. ASSUME NEW verdict \in {"vetted", "open"},
               Return(r, [ctx[r] EXCEPT !.text = Judged(@, verdict)])
        PROVE  IInv'
    <2> DEFINE c == [ctx[r] EXCEPT !.text = Judged(@, verdict)]
    <2>1. c \in Context
      BY <1>1, ContextFacts
    <2>2. c.resv = ctx[r].resv /\ c.usage = ctx[r].usage /\ c.provider = ctx[r].provider
      BY <1>1 DEF Context
    <2>3. Return(r, c)
      BY <1>5
    <2>4. ctx[r].usage => ctx[r].provider # "none"
      BY <1>1 DEF Accounts
    <2> HIDE DEF c
    <2> QED
      BY <1>2, <1>3, <2>1, <2>2, <2>3, <2>4, QuietReturn
  <1> QED
    BY <1>4, <1>5 DEF SecurityOut

LEMMA TokenBudgetIInv ==
  ASSUME IInv, NEW r \in Requests, TokenBudget(r)
  PROVE  IInv'
  <1>1. Typed /\ Accounts(r) /\ ctx[r] \in Context
    BY ContextFacts DEF IInv
  <1>2. pc[r] = 2
    BY <1>1, InStage DEF TokenBudget
  <1>3. UNCHANGED <<scanned, metered, cache, tasks, served>>
    BY DEF TokenBudget
  <1>4. CASE (Pass(r) \/ Block(r)) /\ UNCHANGED <<reserved, slipped>>
    BY <1>2, <1>3, <1>4, PassOrBlock
  <1>5. ASSUME NEW c \in Context, Return(r, c), r \in VKeyed, reserved' = reserved \cup {r},
               c.resv \/ r \in slipped', slipped \subseteq slipped',
               \A q \in slipped' : q \in slipped \cup {r},
               c.usage = ctx[r].usage, c.provider = ctx[r].provider
        PROVE  IInv'
    <2>1. /\ pc' \in [Requests -> 1..11] /\ ctx' \in [Requests -> Context]
          /\ pc'[r] = 3 /\ ctx'[r] = c
          /\ \A q \in Requests \ {r} : pc'[q] = pc[q] /\ ctx'[q] = ctx[q]
      BY <1>1, <1>2, <1>5, ReturnFacts
    <2>2. Typed'
      BY <1>1, <1>3, <2>1 DEF Typed
    <2>3. \A q \in Requests \ {r} : Same(q)
      BY <1>3, <1>5, <2>1 DEF Same
    <2>4. r \notin served /\ r \notin tasks
      BY <1>1, <1>2 DEF Accounts
    <2>5. Accounts(r)'
      BY <1>1, <1>3, <1>5, <2>1, <2>4 DEF Accounts
    <2> QED
      BY <2>2, <2>3, <2>5, Local
  <1>6. CASE /\ r \in VKeyed
             /\ Return(r, [ctx[r] EXCEPT !.resv = TRUE])
             /\ reserved' = reserved \cup {r}
             /\ UNCHANGED slipped
    <2> DEFINE c == [ctx[r] EXCEPT !.resv = TRUE]
    <2>1. c \in Context
      BY <1>1, ContextFacts
    <2>2. c.resv = TRUE /\ c.usage = ctx[r].usage /\ c.provider = ctx[r].provider
      BY <1>1 DEF Context
    <2>3. Return(r, c)
      BY <1>6
    <2> HIDE DEF c
    <2> QED
      BY <1>5, <1>6, <2>1, <2>2, <2>3
  <1>7. CASE /\ r \in VKeyed
             /\ Pass(r)
             /\ reserved' = reserved \cup {r}
             /\ slipped' = slipped \cup {r}
    BY <1>1, <1>5, <1>7 DEF Pass
  <1> QED
    BY <1>4, <1>6, <1>7 DEF TokenBudget

LEMMA StoreMapIInv ==
  ASSUME IInv, NEW r \in Requests, StoreMap(r)
  PROVE  IInv'
  <1>1. Typed /\ Accounts(r) /\ ctx[r] \in Context
    BY ContextFacts DEF IInv
  <1> DEFINE n == scanned[r] + 1
             c == [ctx[r] EXCEPT !.mapping = n]
  <1>0. n \in Nat
    BY <1>1 DEF Typed
  <1>2. c \in Context
    BY <1>0, <1>1 DEF Context
  <1>3. c.resv = ctx[r].resv /\ c.usage = ctx[r].usage /\ c.provider = ctx[r].provider
           /\ c.blocked = ctx[r].blocked
    BY <1>1 DEF Context
  <1>4. ctx' = [ctx EXCEPT ![r] = c]
    BY <1>1 DEF StoreMap, Typed
  <1> HIDE DEF c
  <1>5. /\ ctx' \in [Requests -> Context] /\ ctx'[r] = c
        /\ \A q \in Requests \ {r} : ctx'[q] = ctx[q]
    BY <1>1, <1>2, <1>4 DEF Typed
  <1>6. UNCHANGED <<pc, reserved, slipped, metered, cache, tasks, served>>
    BY DEF StoreMap
  <1>s. scanned' \in [Requests -> Nat]
    BY <1>0, <1>1 DEF StoreMap, Typed
  <1>7. Typed'
    BY <1>1, <1>5, <1>6, <1>s DEF Typed
  <1>8. \A q \in Requests \ {r} : Same(q)
    BY <1>5, <1>6 DEF Same
  <1>9. Accounts(r)'
    BY <1>1, <1>3, <1>5, <1>6 DEF Accounts, Settled
  <1> QED
    BY <1>7, <1>8, <1>9, Local

LEMMA CalledIInv ==
  ASSUME IInv, NEW r \in Requests,
         \/ \E reported \in BOOLEAN :
              Answered(r, reported) \/ AnsweredNotRestored(r, reported)
         \/ ProviderError(r)
  PROVE  IInv'
  <1>1. Typed /\ Accounts(r) /\ ctx[r] \in Context
    BY ContextFacts DEF IInv
  <1>2. pc[r] = 7
    BY <1>1, InStage DEF Answered, AnsweredNotRestored, ProviderError, Calling
  <1>3. UNCHANGED <<scanned, reserved, slipped, metered, cache, tasks, served>>
    BY DEF Answered, AnsweredNotRestored, ProviderError, shared
  <1> DEFINE Upstreamed(c) == c.resv = ctx[r].resv /\ c.provider = "upstream"
  <1>4. ASSUME NEW c \in Context, Return(r, c), Upstreamed(c)
        PROVE  IInv'
    BY <1>2, <1>3, <1>4, QuietReturn
  <1>5. ASSUME NEW reported \in BOOLEAN, Answered(r, reported)
        PROVE  IInv'
    <2> DEFINE c == [Called(r, Restored(r), reported) EXCEPT !.mapping = 0]
    <2>1. c \in Context /\ Upstreamed(c)
      BY <1>1, CalledFacts
    <2>2. Return(r, c)
      BY <1>5 DEF Answered
    <2> HIDE DEF c, Upstreamed
    <2> QED
      BY <1>4, <2>1, <2>2
  <1>6. ASSUME NEW reported \in BOOLEAN, AnsweredNotRestored(r, reported)
        PROVE  IInv'
    <2>1. PICK text \in {Plain(r), Restored(r)} :
             Return(r, [Called(r, text, reported) EXCEPT !.blocked = TRUE])
      BY <1>6 DEF AnsweredNotRestored
    <2> DEFINE c == [Called(r, text, reported) EXCEPT !.blocked = TRUE]
    <2>2. c \in Context /\ Upstreamed(c)
      BY <1>1, CalledFacts
    <2> HIDE DEF c, Upstreamed
    <2> QED
      BY <1>4, <2>1, <2>2 DEF c
  <1>7. CASE ProviderError(r)
    <2> DEFINE c == [ctx[r] EXCEPT !.blocked = TRUE, !.provider = "upstream"]
    <2>1. c \in Context
      BY <1>1, ContextFacts
    <2>2. Upstreamed(c)
      BY <1>1 DEF Context
    <2>3. Return(r, c)
      BY <1>7 DEF ProviderError
    <2> HIDE DEF c, Upstreamed
    <2> QED
      BY <1>4, <2>1, <2>2, <2>3
  <1> QED
    BY <1>5, <1>6, <1>7

LEMMA MeterIInv ==
  ASSUME IInv, NEW r \in Requests, Meter(r)
  PROVE  IInv'
  <1>1. Typed /\ Accounts(r) /\ ctx[r] \in Context
    BY ContextFacts DEF IInv
  <1>2. pc[r] = 9 /\ ~ctx[r].blocked
    BY <1>1, InStage DEF Meter
  <1>3. Return(r, ctx[r])
    BY DEF Meter, Pass
  <1>4. /\ pc' \in [Requests -> 1..11] /\ ctx' \in [Requests -> Context]
        /\ pc'[r] = 10 /\ ctx'[r] = ctx[r]
        /\ \A q \in Requests \ {r} : pc'[q] = pc[q] /\ ctx'[q] = ctx[q]
    BY <1>1, <1>2, <1>3, ReturnFacts
  <1>5. UNCHANGED <<scanned, cache, tasks, served>>
    BY DEF Meter
  <1>6. Typed'
    BY <1>1, <1>4, <1>5 DEF Typed
  <1>7. \A q \in Requests \ {r} : Same(q)
    BY <1>4, <1>5 DEF Same, Meter, Record, Reconcile
  <1>8. r \notin served /\ r \notin tasks
    BY <1>1, <1>2 DEF Accounts
  <1>9. r \in metered' => r \in VKeyed
    BY <1>1 DEF Accounts, Meter, Record
  <1>10. /\ r \in reserved' => r \in VKeyed /\ (ctx[r].resv \/ r \in slipped')
         /\ ctx[r].usage /\ r \in reserved' => r \in slipped'
    BY <1>1 DEF Accounts, Meter, Reconcile
  <1>11. ctx[r].usage /\ r \in VKeyed => r \in metered'
    BY <1>1 DEF Accounts, Meter, Record
  <1>12. Accounts(r)'
    BY <1>1, <1>4, <1>5, <1>8, <1>9, <1>10, <1>11 DEF Accounts, Settled
  <1> QED
    BY <1>6, <1>7, <1>12, Local

LEMMA AnswerIInv ==
  ASSUME IInv, NEW r \in Requests, Answer(r)
  PROVE  IInv'
  <1>1. Typed /\ Accounts(r)
    BY DEF IInv
  <1>2. pc[r] = 10 /\ pc' = [pc EXCEPT ![r] = 11]
    BY Numbers DEF Answer, Advance
  <1>3. pc' \in [Requests -> 1..11] /\ pc'[r] = 11
    BY <1>1, <1>2 DEF Typed
  <1>4. UNCHANGED <<ctx, scanned, reserved, slipped, metered, cache>>
    BY DEF Answer
  <1>5. Typed'
    BY <1>1, <1>3, <1>4 DEF Typed
  <1>6. \A q \in Requests \ {r} : Same(q)
    BY <1>1, <1>2, <1>4 DEF Same, Answer, Typed
  <1>7. r \notin served /\ r \notin tasks
    BY <1>1, <1>2 DEF Accounts
  <1>8. (r \in served' => ~ctx[r].blocked) /\ (r \in tasks' => r \in served')
    BY <1>7 DEF Answer
  <1>9. Accounts(r)'
    BY <1>1, <1>2, <1>3, <1>4, <1>8 DEF Accounts, Settled
  <1> QED
    BY <1>5, <1>6, <1>9, Local

LEMMA AbortIInv ==
  ASSUME IInv, NEW r \in Requests, Abort(r)
  PROVE  IInv'
  <1>1. Typed /\ Accounts(r)
    BY DEF IInv
  <1>2. pc[r] # 11 /\ pc' = [pc EXCEPT ![r] = 11]
    BY Numbers DEF Abort
  <1>3. pc' \in [Requests -> 1..11] /\ pc'[r] = 11
    BY <1>1, <1>2 DEF Typed
  <1>4. UNCHANGED <<ctx, scanned, reserved, slipped, metered, cache, tasks, served>>
    BY DEF Abort, shared
  <1>5. Typed'
    BY <1>1, <1>3, <1>4 DEF Typed
  <1>6. \A q \in Requests \ {r} : Same(q)
    BY <1>1, <1>2, <1>4 DEF Same, Typed
  <1>7. Accounts(r)'
    BY <1>1, <1>2, <1>3, <1>4 DEF Accounts, Settled
  <1> QED
    BY <1>5, <1>6, <1>7, Local

(* Write-backs and expiry touch the cache, the maps and the pending tasks. *)
LEMMA CacheStepIInv ==
  ASSUME IInv, UNCHANGED <<pc, ctx, scanned, reserved, slipped, metered, served>>,
         tasks' \subseteq tasks, cache' \in [Keys -> Text]
  PROVE  IInv'
  <1>1. Typed'
    BY DEF IInv, Typed
  <1>2. ASSUME NEW q \in Requests PROVE Accounts(q)'
    BY DEF IInv, Accounts, Settled
  <1> QED
    BY <1>1, <1>2 DEF IInv

LEMMA NextIInv ==
  ASSUME IInv, [Next]_vars
  PROVE  IInv'
  <1> USE DEF IInv
  <1>1. ASSUME NEW r \in Requests, Step(r)
        PROVE  IInv'
    <2>1. CASE StoreMap(r)
      BY <2>1, StoreMapIInv
    <2>2. CASE SkipByFlag(r) \/ Auth(r) \/ SecurityIn(r) \/ Rewrite(r)
      BY <2>2, EarlyStages
    <2>3. CASE DispatchSkipped(r) \/ NoProvider(r)
      BY <2>3, EarlyStages
    <2>4. CASE ShortCircuit(r)
      BY <2>4, ShortCircuitIInv
    <2>5. CASE TokenBudget(r)
      BY <2>5, TokenBudgetIInv
    <2>6. CASE CacheHit(r) \/ CacheMiss(r)
      BY <2>6, CacheIInv
    <2>7. CASE \/ \E reported \in BOOLEAN :
                    Answered(r, reported) \/ AnsweredNotRestored(r, reported)
               \/ ProviderError(r)
      BY <2>7, CalledIInv
    <2>8. CASE SecurityOut(r)
      BY <2>8, SecurityOutIInv
    <2>9. CASE Meter(r)
      BY <2>9, MeterIInv
    <2>10. CASE Answer(r)
      BY <2>10, AnswerIInv
    <2> QED
      BY <1>1, <2>1, <2>2, <2>3, <2>4, <2>5, <2>6, <2>7, <2>8, <2>9, <2>10
         DEF Step, Dispatch
  <1>2. ASSUME NEW r \in Requests, Abort(r)
        PROVE  IInv'
    BY <1>2, AbortIInv
  <1>3. ASSUME NEW r \in Requests, WriteBack(r) \/ WriteBackLost(r)
        PROVE  IInv'
    <2>1. cache' \in [Keys -> Text]
      BY <1>3, PipelineAssumption DEF WriteBack, WriteBackLost, Typed, Context
    <2>2. UNCHANGED <<pc, ctx, scanned, reserved, slipped, metered, served>>
             /\ tasks' \subseteq tasks
      BY <1>3 DEF WriteBack, WriteBackLost
    <2> QED
      BY <2>1, <2>2, CacheStepIInv
  <1>4. ASSUME NEW k \in Keys, Expire(k)
        PROVE  IInv'
    <2>1. cache' \in [Keys -> Text]
      BY <1>4 DEF Expire, Typed, NoText, Text
    <2>2. UNCHANGED <<pc, ctx, scanned, reserved, slipped, metered, served, tasks>>
      BY <1>4 DEF Expire
    <2> QED
      BY <2>1, <2>2, CacheStepIInv
  <1>5. CASE UNCHANGED vars \/ \E m \in maps : ExpireMap(m)
    BY <1>5, CacheStepIInv DEF vars, shared, ExpireMap, Typed
  <1> QED
    BY <1>1, <1>2, <1>3, <1>4, <1>5 DEF Next

LEMMA IInvInductive == Spec => []IInv
  <1>1. Init => IInv
    BY InitIInv
  <1>2. IInv /\ [Next]_vars => IInv'
    BY NextIInv
  <1> QED
    BY <1>1, <1>2, PTL DEF Spec

(* A request answered with 200 and known usage has been metered exactly if *)
(* it has a key, and its reservation is settled unless the limiter failed  *)
(* for it (MeterStage, reconcile).                                         *)
THEOREM ServedSettled == Spec => []ServedIsSettled
  <1>0. Init => served \subseteq Requests
    BY DEF Init
  <1>1. served \subseteq Requests /\ [Next]_vars => (served \subseteq Requests)'
    BY DEF Next, vars, Step, SkipByFlag, ShortCircuit, Auth, TokenBudget, SecurityIn,
           Rewrite, CacheHit, CacheMiss, Dispatch, DispatchSkipped, NoProvider, Answered,
           AnsweredNotRestored, ProviderError, SecurityOut, Meter, Answer, Abort,
           WriteBack, WriteBackLost, Expire, ExpireMap, StoreMap
  <1>2. IInv /\ served \subseteq Requests => ServedIsSettled
    BY DEF IInv, Accounts, Settled, ServedIsSettled
  <1> QED
    BY <1>0, <1>1, <1>2, IInvInductive, PTL DEF Spec

----------------------------------------------------------------------------
(* The cache *)

(* A return from a stage keeps responses screened if none raw gets past    *)
(* the output filter unblocked.                                            *)
LEMMA ReturnScreened ==
  ASSUME IInv, SInv, NEW r \in Requests, NEW c \in Context, Return(r, c),
         pc[r] <= 9, UNCHANGED <<cache, served>>,
         pc[r] >= 8 /\ ~c.blocked => c.text.as # "raw"
  PROVE  SInv'
  <1>1. Typed /\ Accounts(r) /\ pc[r] \in 1..9
    BY DEF IInv, Typed
  <1>2. /\ pc'[r] = pc[r] + 1 /\ ctx'[r] = c
        /\ \A q \in Requests \ {r} : pc'[q] = pc[q] /\ ctx'[q] = ctx[q]
    BY <1>1, ReturnFacts
  <1>3. r \notin served'
    BY <1>1 DEF Accounts
  <1>4. Screened(r)'
    BY <1>1, <1>2, <1>3 DEF Screened
  <1>5. ASSUME NEW q \in Requests \ {r}
        PROVE  Screened(q)'
    BY <1>2 DEF SInv, Screened
  <1>6. CacheVetted'
    BY DEF SInv, CacheVetted
  <1> QED
    BY <1>4, <1>5, <1>6 DEF SInv

(* Returns from a stage before the output filter.                          *)
LEMMA EarlyScreened ==
  ASSUME IInv, SInv, NEW r \in Requests,
         \/ SkipByFlag(r) \/ Auth(r) \/ TokenBudget(r) \/ SecurityIn(r) \/ Rewrite(r)
         \/ CacheHit(r) \/ CacheMiss(r) \/ DispatchSkipped(r) \/ NoProvider(r)
         \/ \E reported \in BOOLEAN :
              Answered(r, reported) \/ AnsweredNotRestored(r, reported)
         \/ ProviderError(r)
  PROVE  SInv'
  <1>1. Typed
    BY DEF IInv
  <1>2. pc[r] <= 7
    <2>1. CASE SkipByFlag(r)
      <3>1. pc[r] \in 1..9 /\ Order[pc[r]] \in {"assemble", "cache", "routing"}
        BY <1>1, <2>1, InStage DEF SkipByFlag, Flagged, Typed
      <3> QED
        BY <3>1, Numbers
    <2>2. CASE \/ In(r, "auth") \/ In(r, "token_budget") \/ In(r, "security_in")
               \/ In(r, "assemble") \/ In(r, "routing") \/ In(r, "cache")
               \/ In(r, "dispatch")
      <3>1. pc[r] \in 1..7
        BY <1>1, <2>2, InStage
      <3> QED
        BY <3>1
    <2> QED
      BY <2>1, <2>2
         DEF Auth, TokenBudget, SecurityIn, Rewrite, CacheHit, CacheMiss, DispatchSkipped,
             NoProvider, Answered, AnsweredNotRestored, ProviderError, Calling
  <1>3. UNCHANGED <<cache, served>>
    BY DEF SkipByFlag, Auth, TokenBudget, SecurityIn, Rewrite, CacheHit, CacheMiss,
           DispatchSkipped, NoProvider, Answered, AnsweredNotRestored, ProviderError, shared
  <1>4. \E c \in Context : Return(r, c)
    <2>1. CASE CacheHit(r)
      BY <1>1, <2>1, HitFacts DEF CacheHit, HitContext
    <2>2. CASE \E reported \in BOOLEAN :
                 Answered(r, reported) \/ AnsweredNotRestored(r, reported)
      BY <1>1, <2>2, CalledFacts DEF Answered, AnsweredNotRestored
    <2> QED
      BY <1>1, <2>1, <2>2, ContextFacts
         DEF SkipByFlag, Auth, TokenBudget, SecurityIn, Rewrite, CacheMiss,
             DispatchSkipped, NoProvider, ProviderError, Pass, Block
  <1>5. pc[r] \in 1..7
    BY <1>1, <1>2 DEF Typed
  <1>6. pc[r] <= 9 /\ ~(pc[r] >= 8)
    BY <1>5
  <1> QED
    BY <1>3, <1>4, <1>6, ReturnScreened

LEMMA ShortCircuitScreened ==
  ASSUME IInv, SInv, NEW r \in Requests, ShortCircuit(r)
  PROVE  SInv'
  <1>1. Typed /\ ctx[r] \in Context
    BY ContextFacts DEF IInv
  <1>2. pc[r] <= 9 /\ ctx[r].blocked /\ Return(r, ctx[r])
    BY <1>1, InStage DEF ShortCircuit, Pass
  <1>3. UNCHANGED <<cache, served>>
    BY DEF ShortCircuit, shared
  <1> QED
    BY <1>1, <1>2, <1>3, ReturnScreened

LEMMA SecurityOutScreened ==
  ASSUME IInv, SInv, NEW r \in Requests, SecurityOut(r)
  PROVE  SInv'
  <1>1. Typed /\ ctx[r] \in Context
    BY ContextFacts DEF IInv
  <1>2. pc[r] = 8
    BY <1>1, InStage DEF SecurityOut
  <1>3. UNCHANGED <<cache, served>>
    BY DEF SecurityOut, shared
  <1>4. CASE Block(r)
    <2> DEFINE c == [ctx[r] EXCEPT !.blocked = TRUE]
    <2>0. c \in Context
      BY <1>1, ContextFacts
    <2>1. c.blocked
      BY <1>1 DEF Context
    <2>2. Return(r, c)
      BY <1>4 DEF Block
    <2> HIDE DEF c
    <2> QED
      BY <1>2, <1>3, <2>0, <2>1, <2>2, ReturnScreened
  <1>5. ASSUME NEW verdict \in {"vetted", "open"},
               Return(r, [ctx[r] EXCEPT !.text = Judged(@, verdict)])
        PROVE  SInv'
    <2> DEFINE c == [ctx[r] EXCEPT !.text = Judged(@, verdict)]
    <2>0. c \in Context
      BY <1>1, ContextFacts
    <2>1. c.text.as # "raw"
      BY <1>1 DEF Context, Text, Judged
    <2>2. Return(r, c)
      BY <1>5
    <2> HIDE DEF c
    <2> QED
      BY <1>2, <1>3, <2>0, <2>1, <2>2, ReturnScreened
  <1>6. CASE Pass(r) /\ ctx[r].text.as = "none"
    BY <1>1, <1>2, <1>3, <1>6, ReturnScreened DEF Pass
  <1> QED
    BY <1>4, <1>5, <1>6 DEF SecurityOut

LEMMA MeterScreened ==
  ASSUME IInv, SInv, NEW r \in Requests, Meter(r)
  PROVE  SInv'
  <1>1. Typed /\ ctx[r] \in Context
    BY ContextFacts DEF IInv
  <1>2. pc[r] = 9 /\ ~ctx[r].blocked /\ Return(r, ctx[r])
    BY <1>1, InStage DEF Meter, Pass
  <1>3. ctx[r].text.as # "raw"
    BY <1>2 DEF SInv, Screened
  <1>4. UNCHANGED <<cache, served>>
    BY DEF Meter
  <1> QED
    BY <1>1, <1>2, <1>3, <1>4, ReturnScreened

LEMMA StoreMapScreened ==
  ASSUME IInv, SInv, NEW r \in Requests, StoreMap(r)
  PROVE  SInv'
  <1>1. \A q \in Requests : /\ ctx'[q].text = ctx[q].text
                            /\ ctx'[q].blocked = ctx[q].blocked
    BY DEF IInv, Typed, Context, StoreMap
  <1>2. UNCHANGED <<pc, cache, served>>
    BY DEF StoreMap
  <1>3. ASSUME NEW q \in Requests PROVE Screened(q)'
    BY <1>1, <1>2 DEF SInv, Screened
  <1> QED
    BY <1>2, <1>3 DEF SInv, CacheVetted

LEMMA EndScreened ==
  ASSUME IInv, SInv, NEW r \in Requests, Answer(r) \/ Abort(r)
  PROVE  SInv'
  <1>1. pc' = [pc EXCEPT ![r] = 11] /\ UNCHANGED <<ctx, cache>>
    BY Numbers DEF Answer, Abort, Advance, shared
  <1>2. pc'[r] = 11 /\ \A q \in Requests \ {r} : pc'[q] = pc[q]
    BY <1>1 DEF IInv, Typed
  <1>3. \A q \in Requests \ {r} : q \in served' => q \in served
    BY DEF Answer, Abort
  <1>4. r \in served' => r \in served \/ (pc[r] = 10 /\ ~ctx[r].blocked)
    BY Numbers DEF Answer, Abort
  <1>5. ASSUME NEW q \in Requests PROVE Screened(q)'
    BY <1>1, <1>2, <1>3, <1>4 DEF SInv, Screened
  <1> QED
    BY <1>1, <1>5 DEF SInv, CacheVetted

LEMMA CacheStepScreened ==
  ASSUME IInv, SInv, UNCHANGED <<pc, ctx, served>>, CacheVetted'
  PROVE  SInv'
  <1>1. ASSUME NEW q \in Requests PROVE Screened(q)'
    BY DEF SInv, Screened
  <1> QED
    BY <1>1 DEF SInv

LEMMA NextScreened ==
  ASSUME IInv, SInv, [Next]_vars
  PROVE  SInv'
  <1>1. ASSUME NEW r \in Requests, Step(r)
        PROVE  SInv'
    BY <1>1, EarlyScreened, ShortCircuitScreened, SecurityOutScreened, MeterScreened,
       StoreMapScreened, EndScreened
       DEF Step, Dispatch
  <1>2. ASSUME NEW r \in Requests, Abort(r)
        PROVE  SInv'
    BY <1>2, EndScreened
  <1>3. ASSUME NEW r \in Requests, WriteBack(r)
        PROVE  SInv'
    <2>1. r \in served
      BY <1>3 DEF IInv, Accounts, WriteBack
    <2>2. ctx[r].text.as # "raw"
      BY <2>1 DEF SInv, Screened
    <2>3. CacheVetted'
      BY <1>3, <2>2 DEF SInv, CacheVetted, WriteBack, IInv, Typed
    <2> QED
      BY <1>3, <2>3, CacheStepScreened DEF WriteBack
  <1>4. ASSUME NEW r \in Requests, WriteBackLost(r)
        PROVE  SInv'
    BY <1>4, CacheStepScreened DEF WriteBackLost, SInv, CacheVetted
  <1>5. ASSUME NEW k \in Keys, Expire(k)
        PROVE  SInv'
    <2>1. CacheVetted'
      BY <1>5 DEF SInv, CacheVetted, Expire, IInv, Typed, NoText
    <2> QED
      BY <1>5, <2>1, CacheStepScreened DEF Expire
  <1>6. CASE UNCHANGED vars \/ \E m \in maps : ExpireMap(m)
    BY <1>6, CacheStepScreened DEF vars, shared, ExpireMap, SInv, CacheVetted
  <1> QED
    BY <1>1, <1>2, <1>3, <1>4, <1>5, <1>6 DEF Next

(* The cache holds only text that the output filter returned or failed on, *)
(* whatever requests interleave, abort or share a key (SecurityOutStage,   *)
(* _maybe_write_back_cache).                                               *)
THEOREM CacheHoldsVetted == Spec => []CacheVetted
  <1>1. Init => SInv
    BY InitIInv
  <1>2. IInv /\ SInv /\ [Next]_vars => SInv'
    BY NextScreened
  <1>3. SInv => CacheVetted
    BY DEF SInv
  <1> QED
    BY <1>1, <1>2, <1>3, IInvInductive, PTL DEF Spec

(* Write-backs are scheduled only for requests that were answered with 200 *)
(* and not blocked (_maybe_write_back_cache).                              *)
THEOREM BlockedWritesNothing == Spec => []BlockedLeavesNothing
  <1>0. Init => tasks \subseteq Requests
    BY DEF Init
  <1>1. tasks \subseteq Requests /\ [Next]_vars => (tasks \subseteq Requests)'
    BY DEF Next, vars, Step, SkipByFlag, ShortCircuit, Auth, TokenBudget, SecurityIn,
           Rewrite, CacheHit, CacheMiss, Dispatch, DispatchSkipped, NoProvider, Answered,
           AnsweredNotRestored, ProviderError, SecurityOut, Meter, Answer, Abort,
           WriteBack, WriteBackLost, Expire, ExpireMap, StoreMap, shared
  <1>2. IInv /\ tasks \subseteq Requests => BlockedLeavesNothing
    BY DEF IInv, Accounts, BlockedLeavesNothing
  <1> QED
    BY <1>0, <1>1, <1>2, IInvInductive, PTL DEF Spec

----------------------------------------------------------------------------
(* The pseudonym maps, and what is restored *)

(* A text with the placeholders that a request answered from upstream has. *)
FromWriter(t) == \E w \in served : /\ ~Hit(w)
                                   /\ t.unrestored = ctx[w].text.unrestored
                                   /\ t.mixed = ctx[w].text.mixed

(* Valkey has, or had, maps only of the messages scanned so far.           *)
MapsScanned(r) ==
    \A n \in Nat : /\ <<r, n>> \in maps \cup expired => n \in 1..scanned[r]
                   /\ ~(<<r, n>> \in maps /\ <<r, n>> \in expired)

(* Up to dispatch the map that is remembered is that of the last message   *)
(* scanned; only a request that needs a provider is scanned.               *)
Scanning(r) ==
    /\ ctx[r].mapping = scanned[r]
    /\ scanned[r] <= Len(Sensitive[r])
    /\ scanned[r] # 0 => Upstream /\ pc[r] = 7 /\ ~Hit(r)
    /\ \A n \in 1..scanned[r] : <<r, n>> \in maps \cup expired

(* After it, the answer has the holes of Left; maps match them.            *)
Answers(r) ==
    /\ ctx[r].text.unrestored = Left(r).unrestored
    /\ ctx[r].text.mixed = Left(r).mixed
    /\ \A n \in Nat : <<r, n>> \in maps =>
          <<r, n>> \in ctx[r].text.unrestored \cup ctx[r].text.mixed
    /\ \A n \in Nat : <<r, n>> \in ctx[r].text.unrestored => <<r, n>> \in maps \cup expired

Standing(r) == (pc[r] \in 8..10 /\ ~ctx[r].blocked) \/ r \in served

RestOK(r) ==
    /\ MapsScanned(r)
    /\ pc[r] <= 7 => Scanning(r)
    /\ Standing(r) /\ ~Hit(r) => Answers(r)
    /\ Hit(r) => FromWriter(ctx[r].text)
    /\ r \in tasks => ~Hit(r)

Rest ==
    /\ served \subseteq Requests
    /\ maps \cup expired \subseteq Messages
    /\ \A r \in Requests : RestOK(r)
    /\ \A k \in Keys : cache[k].as # "none" => FromWriter(cache[k])

LEMMA InitRest == Init => Rest
  <1> SUFFICES ASSUME Init PROVE Rest
    OBVIOUS
  <1>1. ASSUME NEW r \in Requests PROVE RestOK(r)
    <2>1. /\ pc[r] = 1 /\ scanned[r] = 0 /\ ctx[r] = NewContext
          /\ served = {} /\ maps = {} /\ expired = {} /\ tasks = {}
      BY <1>1 DEF Init
    <2>2. Len(Sensitive[r]) \in Nat
      BY PipelineAssumption
    <2>3. ~Hit(r) /\ ctx[r].mapping = 0
      BY <2>1 DEF Hit, NewContext
    <2> QED
      BY <2>1, <2>2, <2>3 DEF RestOK, MapsScanned, Scanning, Standing
  <1>2. \A k \in Keys : cache[k].as = "none"
    BY DEF Init, NoText
  <1> QED
    BY <1>1, <1>2 DEF Init, Rest

(* A text keeps its writer: an answered request does not change.           *)
LEMMA WriterStays ==
  ASSUME NEW t, FromWriter(t), served \subseteq served', \A w \in served : ctx'[w] = ctx[w]
  PROVE  FromWriter(t)'
  BY DEF FromWriter, Hit

(* A request that does not move keeps what is said of it.                  *)
LEMMA RestElsewhere ==
  ASSUME NEW q, RestOK(q), pc'[q] = pc[q] \/ (pc'[q] = 11 /\ q \notin served),
         ctx'[q] = ctx[q], scanned'[q] = scanned[q],
         q \in served' => q \in served, q \in tasks' => q \in tasks,
         \A n \in Nat : /\ <<q, n>> \in maps' <=> <<q, n>> \in maps
                        /\ <<q, n>> \in expired' <=> <<q, n>> \in expired,
         FromWriter(ctx[q].text) => FromWriter(ctx[q].text)',
         Len(Sensitive[q]) \in Nat
  PROVE  RestOK(q)'
  <1>1. Hit(q)' <=> Hit(q)
    BY DEF Hit
  <1>2. Left(q)' = Left(q)
    BY DEF Left
  <1>3. MapsScanned(q)'
    BY DEF RestOK, MapsScanned
  <1>4. Answers(q) => Answers(q)'
    BY <1>2 DEF Answers
  <1>5. Standing(q)' => Standing(q)
    BY DEF Standing
  <1>6. pc'[q] <= 7 => Scanning(q)'
    <2>1. pc'[q] <= 7 => pc'[q] = pc[q]
      OBVIOUS
    <2> QED
      BY <1>1, <2>1 DEF RestOK, Scanning, MapsScanned
  <1>7. Hit(q)' => FromWriter(ctx[q].text)'
    BY <1>1 DEF RestOK
  <1> QED
    BY <1>1, <1>3, <1>4, <1>5, <1>6, <1>7 DEF RestOK

(* What a step of r from a stage leaves alone.                             *)
LEMMA RestLocal ==
  ASSUME IInv, Rest, NEW r \in Requests, pc[r] # 11, RestOK(r)', UNCHANGED cache,
         \A q \in Requests \ {r} : /\ pc'[q] = pc[q] /\ ctx'[q] = ctx[q]
                                   /\ scanned'[q] = scanned[q]
                                   /\ q \in served' <=> q \in served
                                   /\ q \in tasks' => q \in tasks,
         served' \subseteq Requests, maps' \cup expired' \subseteq Messages,
         \A q \in Requests \ {r}, n \in Nat :
             /\ <<q, n>> \in maps' <=> <<q, n>> \in maps
             /\ <<q, n>> \in expired' <=> <<q, n>> \in expired
  PROVE  Rest'
  <1>1. r \notin served /\ served \subseteq Requests
    BY DEF IInv, Accounts, Rest
  <1>2. served \subseteq served' /\ \A w \in served : ctx'[w] = ctx[w]
    BY <1>1
  <1>3. \A t : FromWriter(t) => FromWriter(t)'
    BY <1>2, WriterStays
  <1>4. ASSUME NEW q \in Requests \ {r} PROVE RestOK(q)'
    <2>1. Len(Sensitive[q]) \in Nat
      BY PipelineAssumption
    <2>2. RestOK(q)
      BY DEF Rest
    <2> QED
      BY <1>3, <2>1, <2>2, RestElsewhere
  <1>5. ASSUME NEW k \in Keys PROVE (cache[k].as # "none" => FromWriter(cache[k]))'
    BY <1>3 DEF Rest
  <1> QED
    BY <1>4, <1>5 DEF Rest

(* A stage that neither scans nor calls a provider.                        *)
LEMMA RestReturn ==
  ASSUME IInv, Rest, NEW r \in Requests, NEW c \in Context, Return(r, c), pc[r] \in 1..9,
         UNCHANGED <<scanned, maps, expired, cache, tasks, served>>,
         c.mapping = ctx[r].mapping, c.text.mixed = ctx[r].text.mixed,
         c.text.unrestored = ctx[r].text.unrestored, c.provider = ctx[r].provider,
         pc[r] = 7 => c.blocked \/ Hit(r), ctx[r].blocked => c.blocked
  PROVE  Rest'
  <1>1. /\ pc'[r] = pc[r] + 1 /\ ctx'[r] = c
        /\ \A q \in Requests \ {r} : pc'[q] = pc[q] /\ ctx'[q] = ctx[q]
    BY ReturnFacts DEF IInv
  <1>2. RestOK(r) /\ r \notin served /\ r \notin tasks
    BY DEF IInv, Accounts, Rest
  <1>3. Hit(r)' <=> Hit(r)
    BY <1>1 DEF Hit
  <1>4. MapsScanned(r)'
    BY <1>2 DEF RestOK, MapsScanned
  <1>5. pc'[r] <= 7 => Scanning(r)'
    <2> SUFFICES ASSUME pc'[r] <= 7 PROVE Scanning(r)'
      OBVIOUS
    <2>1. pc[r] <= 7 /\ pc[r] # 7
      BY <1>1
    <2>2. Scanning(r) /\ scanned[r] = 0
      BY <1>2, <2>1 DEF RestOK, Scanning
    <2> QED
      BY <1>1, <2>2 DEF Scanning
  <1>6. Standing(r)' /\ ~Hit(r)' => Answers(r)'
    <2> SUFFICES ASSUME Standing(r)', ~Hit(r) PROVE Answers(r)'
      BY <1>3
    <2>1. pc[r] + 1 \in 8..10 /\ ~c.blocked
      BY <1>1, <1>2 DEF Standing
    <2>2. pc[r] \in 8..10 /\ ~ctx[r].blocked
      BY <2>1
    <2>3. Answers(r)
      BY <1>2, <2>2 DEF RestOK, Standing
    <2>4. Left(r)' = Left(r)
      BY DEF Left
    <2> QED
      BY <1>1, <2>3, <2>4 DEF Answers
  <1>7. Hit(r)' => FromWriter(ctx[r].text)'
    <2> SUFFICES ASSUME Hit(r) PROVE FromWriter(ctx[r].text)'
      BY <1>3
    <2>1. PICK w \in served : /\ ~Hit(w)
                              /\ ctx[r].text.unrestored = ctx[w].text.unrestored
                              /\ ctx[r].text.mixed = ctx[w].text.mixed
      BY <1>2 DEF RestOK, FromWriter
    <2>2. ctx'[w] = ctx[w] /\ w \in served'
      BY <1>1, <1>2 DEF Rest
    <2> QED
      BY <1>1, <2>1, <2>2 DEF FromWriter, Hit
  <1>8. RestOK(r)'
    BY <1>2, <1>4, <1>5, <1>6, <1>7 DEF RestOK
  <1>9. /\ served' \subseteq Requests /\ maps' \cup expired' \subseteq Messages
        /\ pc[r] # 11
    BY DEF Rest
  <1> QED
    BY <1>1, <1>8, <1>9, RestLocal

(* A dispatch that fails, whatever it took out of Valkey by then.          *)
LEMMA RestBlocked ==
  ASSUME IInv, Rest, NEW r \in Requests, NEW c \in Context, Return(r, c), pc[r] = 7,
         UNCHANGED <<scanned, expired, cache, tasks, served>>, maps' \subseteq maps,
         \A q \in Requests \ {r}, n \in Nat : <<q, n>> \in maps' <=> <<q, n>> \in maps,
         c.blocked, c.provider # "cache"
  PROVE  Rest'
  <1>1. /\ pc'[r] = 8 /\ ctx'[r] = c
        /\ \A q \in Requests \ {r} : pc'[q] = pc[q] /\ ctx'[q] = ctx[q]
    BY ReturnFacts DEF IInv
  <1>2. RestOK(r) /\ r \notin served /\ r \notin tasks
    BY DEF IInv, Accounts, Rest
  <1>3. ~Hit(r)' /\ ~Standing(r)'
    BY <1>1, <1>2 DEF Hit, Standing
  <1>4. MapsScanned(r)'
    BY <1>2 DEF RestOK, MapsScanned
  <1>5. RestOK(r)'
    BY <1>1, <1>2, <1>3, <1>4 DEF RestOK
  <1>6. /\ served' \subseteq Requests /\ maps' \cup expired' \subseteq Messages
        /\ pc[r] # 11
    BY DEF Rest
  <1> QED
    BY <1>1, <1>5, <1>6, RestLocal

LEMMA HitRest ==
  ASSUME IInv, Rest, NEW r \in Requests, CacheHit(r)
  PROVE  Rest'
  <1>t. Typed /\ pc[r] = 5
    BY InStage DEF IInv, CacheHit
  <1> DEFINE c == HitContext(r)
  <1>c. /\ c \in Context /\ c.provider = "cache" /\ c.mapping = ctx[r].mapping
        /\ c.text.unrestored = cache[KeyOf[r]].unrestored
        /\ c.text.mixed = cache[KeyOf[r]].mixed
    BY <1>t, HitFacts
  <1>0. Return(r, c) /\ UNCHANGED <<scanned, maps, expired, cache, tasks, served>>
    BY DEF CacheHit, HitContext, shared
  <1> HIDE DEF c
  <1>1. /\ pc'[r] = 6 /\ ctx'[r] = c
        /\ \A q \in Requests \ {r} : pc'[q] = pc[q] /\ ctx'[q] = ctx[q]
    BY <1>t, <1>c, <1>0, ReturnFacts
  <1>2. RestOK(r) /\ r \notin served /\ r \notin tasks
    BY <1>t DEF IInv, Accounts, Rest
  <1>3. Scanning(r)'
    <2>1. Scanning(r) /\ scanned[r] = 0
      BY <1>t, <1>2 DEF RestOK, Scanning
    <2> QED
      BY <1>0, <1>1, <1>c, <2>1 DEF Scanning
  <1>4. Hit(r)' /\ ~Standing(r)'
    BY <1>0, <1>1, <1>2, <1>c DEF Hit, Standing
  <1>5. FromWriter(ctx[r].text)'
    <2>1. FromWriter(cache[KeyOf[r]])
      BY PipelineAssumption DEF CacheHit, Rest
    <2>2. \A w \in served : ctx'[w] = ctx[w]
      BY <1>1, <1>2 DEF Rest
    <2> QED
      BY <1>0, <1>1, <1>c, <2>1, <2>2 DEF FromWriter, Hit
  <1>6. MapsScanned(r)'
    BY <1>0, <1>2 DEF RestOK, MapsScanned
  <1>7. RestOK(r)'
    BY <1>0, <1>2, <1>3, <1>4, <1>5, <1>6 DEF RestOK
  <1>8. /\ served' \subseteq Requests /\ maps' \cup expired' \subseteq Messages
        /\ pc[r] # 11
    BY <1>t, <1>0 DEF Rest
  <1> QED
    BY <1>0, <1>1, <1>7, <1>8, RestLocal

(* Storing the map of the next message.                                    *)
LEMMA StoreRest ==
  ASSUME IInv, Rest, NEW r \in Requests, StoreMap(r)
  PROVE  Rest'
  <1> DEFINE m == scanned[r] + 1
             c == [ctx[r] EXCEPT !.mapping = m]
  <1>t. Typed /\ pc[r] = 7 /\ ~Hit(r) /\ Upstream /\ ~ctx[r].blocked
    <2>1. Typed
      BY DEF IInv
    <2> QED
      BY <2>1, InStage DEF StoreMap
  <1>n. scanned[r] \in Nat /\ m \in Nat /\ Len(Sensitive[r]) \in Nat /\ m <= Len(Sensitive[r])
    BY <1>t, PipelineAssumption DEF Typed, StoreMap
  <1>0. /\ UNCHANGED <<pc, expired, cache, tasks, served>> /\ maps' = maps \cup {<<r, m>>}
        /\ ctx' = [ctx EXCEPT ![r] = c] /\ scanned' = [scanned EXCEPT ![r] = m]
    BY DEF StoreMap
  <1>c. c.mapping = m /\ c.provider = ctx[r].provider /\ c.blocked = ctx[r].blocked
    BY <1>t DEF Typed, Context
  <1>1. /\ ctx'[r] = c /\ \A q \in Requests \ {r} : ctx'[q] = ctx[q]
        /\ scanned'[r] = m /\ \A q \in Requests \ {r} : scanned'[q] = scanned[q]
    <2> HIDE DEF c, m
    <2> QED
      BY <1>t, <1>0 DEF Typed
  <1>2. RestOK(r) /\ r \notin served /\ r \notin tasks
    BY <1>t DEF IInv, Accounts, Rest
  <1>3. MapsScanned(r)'
    <2>1. <<r, m>> \notin expired
      BY <1>2, <1>n DEF RestOK, MapsScanned
    <2> SUFFICES ASSUME NEW n \in Nat
                 PROVE  /\ <<r, n>> \in maps' \cup expired => n \in 1..m
                        /\ ~(<<r, n>> \in maps' /\ <<r, n>> \in expired)
      BY <1>0, <1>1 DEF MapsScanned
    <2>2. /\ <<r, n>> \in maps \cup expired => n \in 1..scanned[r]
          /\ ~(<<r, n>> \in maps /\ <<r, n>> \in expired)
      BY <1>2 DEF RestOK, MapsScanned
    <2>3. <<r, n>> \in maps' => <<r, n>> \in maps \/ n = m
      BY <1>0
    <2> QED
      BY <1>n, <2>1, <2>2, <2>3
  <1>4. Scanning(r)'
    <2>1. ~Hit(r)'
      BY <1>t, <1>c, <1>1 DEF Hit
    <2>2. \A n \in 1..m : <<r, n>> \in maps' \cup expired
      <3>1. \A n \in 1..scanned[r] : <<r, n>> \in maps \cup expired
        BY <1>t, <1>2 DEF RestOK, Scanning
      <3>2. \A n \in 1..m : n \in 1..scanned[r] \/ n = m
        BY <1>n
      <3> QED
        BY <1>0, <3>1, <3>2
    <2> HIDE DEF c, m
    <2> QED
      BY <1>t, <1>n, <1>0, <1>1, <1>c, <2>1, <2>2 DEF Scanning
  <1>5. ~Standing(r)' /\ ~Hit(r)'
    BY <1>t, <1>0, <1>1, <1>2, <1>c DEF Standing, Hit
  <1>6. RestOK(r)'
    BY <1>0, <1>2, <1>3, <1>4, <1>5 DEF RestOK
  <1>7. maps' \cup expired' \subseteq Messages /\ served' \subseteq Requests
    BY <1>0, <1>n DEF Rest, Messages
  <1> HIDE DEF c, m
  <1> QED
    BY <1>t, <1>0, <1>1, <1>6, <1>7, RestLocal

(* Once every message is scanned, what a provider's answer becomes is Left. *)
LEMMA RestoredIsLeft ==
  ASSUME NEW r \in Requests, Scanning(r), MapsScanned(r), Filtered(r), scanned[r] \in Nat
  PROVE  /\ Restored(r).unrestored = Left(r).unrestored
         /\ Restored(r).mixed = Left(r).mixed
         /\ Left(r).unrestored \subseteq Sent(r)
         /\ Remembered(r) \in maps => Remembered(r) \notin Left(r).unrestored
         /\ \A n \in 1..scanned[r] :
               n # scanned[r] => <<r, n>> \in Left(r).unrestored \cup Left(r).mixed
  <1> DEFINE last == Len(Sensitive[r])
             sent == IF Upstream THEN {r} \X (1..last) ELSE {}
             alike == {m \in sent : Sensitive[r][m[2]] = Sensitive[r][last]}
             left == IF <<r, last>> \in expired
                     THEN [unrestored |-> sent, mixed |-> {}]
                     ELSE [unrestored |-> sent \ alike, mixed |-> alike \ {<<r, last>>}]
  <1>0. last \in Nat
    BY PipelineAssumption
  <1>1. Left(r) = left
    BY DEF Left
  <1>2. CASE ~Upstream \/ last = 0
    <2>1. scanned[r] = 0
      BY <1>0, <1>2 DEF Scanning
    <2>2. Sent(r) = {} /\ sent = {} /\ alike = {}
      <3>1. 1..0 = {}
        OBVIOUS
      <3> QED
        BY <1>2, <2>1, <3>1 DEF Sent
    <2>3. Remembered(r) \notin maps
      BY <2>1 DEF Remembered, Scanning, MapsScanned
    <2>4. Restored(r).unrestored = {} /\ Restored(r).mixed = {}
      BY <2>2, <2>3 DEF Restored, Plain
    <2>5. Left(r).unrestored = {} /\ Left(r).mixed = {}
      BY <1>1, <2>2
    <2> QED
      BY <2>1, <2>4, <2>5
  <1>3. CASE Upstream /\ last # 0
    <2>1. scanned[r] = last /\ ctx[r].mapping = last /\ last \in 1..last
      BY <1>0, <1>3 DEF Scanning, Filtered
    <2>2. Sent(r) = sent /\ Alike(r) = alike /\ Remembered(r) = <<r, last>>
      BY <1>3, <2>1 DEF Sent, Alike, Remembered
    <2>3. <<r, last>> \in expired <=> <<r, last>> \notin maps
      BY <1>0, <2>1 DEF Scanning, MapsScanned
    <2>4. <<r, last>> \in alike
      BY <1>3, <2>1
    <2>5. Restored(r).unrestored = left.unrestored /\ Restored(r).mixed = left.mixed
      BY <2>2, <2>3 DEF Restored, Plain
    <2>6. \A n \in 1..last : n # last => <<r, n>> \in left.unrestored \cup left.mixed
      <3> SUFFICES ASSUME NEW n \in 1..last, n # last
                   PROVE  <<r, n>> \in left.unrestored \cup left.mixed
        OBVIOUS
      <3>1. <<r, n>> \in sent /\ <<r, n>> # <<r, last>>
        BY <1>3
      <3> HIDE DEF sent, alike
      <3> QED
        BY <3>1
    <2> HIDE DEF sent, alike, last
    <2>7. left.unrestored \subseteq sent
      OBVIOUS
    <2>8. <<r, last>> \in maps => <<r, last>> \notin left.unrestored
      BY <2>3, <2>4
    <2> HIDE DEF left
    <2> QED
      BY <1>1, <2>1, <2>2, <2>5, <2>6, <2>7, <2>8
  <1> QED
    BY <1>2, <1>3

(* The provider answers, and the remembered map is applied and deleted.    *)
LEMMA AnsweredRest ==
  ASSUME IInv, Rest, NEW r \in Requests, NEW reported \in BOOLEAN, Answered(r, reported)
  PROVE  Rest'
  <1> DEFINE c == [Called(r, Restored(r), reported) EXCEPT !.mapping = 0]
  <1>t. Typed /\ pc[r] = 7 /\ ~Hit(r) /\ Filtered(r) /\ scanned[r] \in Nat
    <2>1. Typed
      BY DEF IInv
    <2> QED
      BY <2>1, InStage DEF Answered, Calling, Typed
  <1>0. /\ Return(r, c) /\ UNCHANGED <<scanned, expired, cache, tasks, served>>
        /\ maps' = maps \ {Remembered(r)}
    BY DEF Answered
  <1>c. c \in Context /\ c.provider = "upstream" /\ c.text = Restored(r)
    BY <1>t, CalledFacts
  <1> HIDE DEF c
  <1>1. /\ pc'[r] = 8 /\ ctx'[r] = c
        /\ \A q \in Requests \ {r} : pc'[q] = pc[q] /\ ctx'[q] = ctx[q]
    BY <1>t, <1>0, <1>c, ReturnFacts
  <1>2. RestOK(r) /\ r \notin served /\ r \notin tasks
    BY <1>t DEF IInv, Accounts, Rest
  <1>3. Scanning(r) /\ MapsScanned(r) /\ Remembered(r) = <<r, scanned[r]>>
    BY <1>t, <1>2 DEF RestOK, Scanning, Remembered
  <1>4. ~Hit(r)' /\ MapsScanned(r)'
    BY <1>0, <1>1, <1>3, <1>c DEF Hit, MapsScanned
  <1>5. Left(r)' = Left(r)
    BY <1>0 DEF Left
  <1>6. /\ Restored(r).unrestored = Left(r).unrestored
        /\ Restored(r).mixed = Left(r).mixed
        /\ Left(r).unrestored \subseteq Sent(r)
        /\ Remembered(r) \in maps => Remembered(r) \notin Left(r).unrestored
        /\ \A n \in 1..scanned[r] :
              n # scanned[r] => <<r, n>> \in Left(r).unrestored \cup Left(r).mixed
    BY <1>t, <1>3, RestoredIsLeft
  <1>7. ASSUME NEW n \in Nat, <<r, n>> \in maps'
        PROVE  <<r, n>> \in Left(r).unrestored \cup Left(r).mixed
    <2>1. <<r, n>> \in maps /\ n # scanned[r]
      BY <1>0, <1>3, <1>7
    <2>2. n \in 1..scanned[r]
      BY <1>3, <2>1 DEF MapsScanned
    <2> QED
      BY <1>6, <2>1, <2>2
  <1>8. ASSUME NEW n \in Nat, <<r, n>> \in Left(r).unrestored
        PROVE  <<r, n>> \in maps' \cup expired'
    <2>1. n \in 1..scanned[r]
      BY <1>6, <1>8 DEF Sent
    <2>2. <<r, n>> \in maps \cup expired
      BY <1>3, <2>1 DEF Scanning
    <2>3. <<r, n>> = Remembered(r) => <<r, n>> \notin maps
      BY <1>6, <1>8
    <2> QED
      BY <1>0, <2>2, <2>3
  <1>9. Answers(r)'
    BY <1>1, <1>c, <1>5, <1>6, <1>7, <1>8 DEF Answers
  <1>10. RestOK(r)'
    BY <1>0, <1>1, <1>2, <1>4, <1>9 DEF RestOK
  <1>11. maps' \cup expired' \subseteq Messages /\ served' \subseteq Requests
    BY <1>0 DEF Rest
  <1>12. \A q \in Requests \ {r}, n \in Nat : <<q, n>> \in maps' <=> <<q, n>> \in maps
    BY <1>0, <1>3
  <1> QED
    BY <1>t, <1>0, <1>1, <1>10, <1>11, <1>12, RestLocal

LEMMA AnswerRest ==
  ASSUME IInv, Rest, NEW r \in Requests, Answer(r)
  PROVE  Rest'
  <1>t. Typed /\ pc[r] = 10
    BY Numbers DEF IInv, Answer
  <1>0. /\ pc' = [pc EXCEPT ![r] = 11] /\ UNCHANGED <<ctx, scanned, maps, expired, cache>>
        /\ served' = IF ctx[r].blocked THEN served ELSE served \cup {r}
        /\ tasks' \subseteq tasks \cup {r} /\ (r \in tasks' => r \in tasks \/ ~Hit(r))
    BY <1>t DEF Answer, Advance
  <1>1. pc'[r] = 11 /\ \A q \in Requests \ {r} : pc'[q] = pc[q]
    BY <1>0, <1>t DEF Typed
  <1>2. RestOK(r) /\ r \notin served /\ r \notin tasks
    BY <1>t DEF IInv, Accounts, Rest
  <1>3. /\ Left(r)' = Left(r) /\ (Hit(r)' <=> Hit(r)) /\ (Answers(r) => Answers(r)')
        /\ MapsScanned(r)'
    BY <1>0, <1>2 DEF Left, Hit, Answers, RestOK, MapsScanned
  <1>4. Standing(r)' => Standing(r)
    BY <1>t, <1>0, <1>1 DEF Standing
  <1>5. Hit(r) => FromWriter(ctx[r].text)'
    <2>1. Hit(r) => FromWriter(ctx[r].text)
      BY <1>2 DEF RestOK
    <2>2. served \subseteq served' /\ \A w \in served : ctx'[w] = ctx[w]
      BY <1>0
    <2>3. ctx'[r].text = ctx[r].text
      BY <1>0
    <2> QED
      BY <2>1, <2>2, <2>3 DEF FromWriter, Hit
  <1>6. RestOK(r)'
    BY <1>0, <1>1, <1>2, <1>3, <1>4, <1>5 DEF RestOK
  <1>7. maps' \cup expired' \subseteq Messages /\ served' \subseteq Requests
    BY <1>0 DEF Rest
  <1> QED
    BY <1>t, <1>0, <1>1, <1>6, <1>7, RestLocal

(* Steps that move no request.                                             *)
LEMMA RestAside ==
  ASSUME Rest, UNCHANGED <<pc, ctx, scanned, served>>, tasks' \subseteq tasks,
         UNCHANGED <<maps, expired>>,
         \A k \in Keys : cache'[k].as = "none" \/ cache'[k] = cache[k] \/ FromWriter(cache'[k])
  PROVE  Rest'
  <1>1. \A t : FromWriter(t) => FromWriter(t)'
    BY WriterStays
  <1>2. ASSUME NEW q \in Requests PROVE RestOK(q)'
    <2>1. Len(Sensitive[q]) \in Nat
      BY PipelineAssumption
    <2>2. RestOK(q)
      BY DEF Rest
    <2> QED
      BY <1>1, <2>1, <2>2, RestElsewhere
  <1>3. ASSUME NEW k \in Keys, cache'[k].as # "none"
        PROVE  FromWriter(cache[k])'
    <2>1. FromWriter(cache'[k])
      BY <1>3 DEF Rest
    <2> QED
      BY <2>1 DEF FromWriter, Hit
  <1> QED
    BY <1>2, <1>3 DEF Rest

LEMMA ExpireMapRest ==
  ASSUME IInv, Rest, NEW m \in maps, ExpireMap(m)
  PROVE  Rest'
  <1>0. /\ UNCHANGED <<pc, ctx, scanned, cache, tasks, served>>
        /\ maps' = maps \ {m} /\ expired' = expired \cup {m}
    BY DEF ExpireMap
  <1>1. m \in Messages
    BY DEF Rest
  <1>2. ASSUME NEW r \in Requests PROVE RestOK(r)'
    <2>0. RestOK(r) /\ Len(Sensitive[r]) \in Nat
      BY PipelineAssumption DEF Rest
    <2>1. MapsScanned(r)'
      BY <1>0, <2>0 DEF RestOK, MapsScanned
    <2>2. (Hit(r)' <=> Hit(r)) /\ (Standing(r)' <=> Standing(r))
      BY <1>0 DEF Hit, Standing
    <2>3. Scanning(r) => Scanning(r)'
      BY <1>0, <2>2 DEF Scanning
    <2>4. ASSUME Answers(r), MapsScanned(r) PROVE Answers(r)'
      <3>1. CASE m # <<r, Len(Sensitive[r])>>
        <4>1. Left(r)' = Left(r)
          BY <1>0, <3>1 DEF Left
        <4> QED
          BY <1>0, <2>4, <4>1 DEF Answers
      <3>2. CASE m = <<r, Len(Sensitive[r])>>
        <4>1. m \notin expired
          BY <2>0, <2>4, <3>2 DEF MapsScanned
        <4>2. m \in Left(r).unrestored \cup Left(r).mixed
          BY <2>0, <2>4, <3>2 DEF Answers
        <4>3. m \notin Left(r).mixed
          BY <3>2, <4>1 DEF Left
        <4>4. m \notin Left(r).unrestored
          <5> DEFINE last == Len(Sensitive[r])
                     sent == IF Upstream THEN {r} \X (1..last) ELSE {}
                     alike == {e \in sent : Sensitive[r][e[2]] = Sensitive[r][last]}
          <5>1. Left(r).unrestored = sent \ alike
            BY <3>2, <4>1 DEF Left
          <5>2. m \in sent => m \in alike
            BY <3>2
          <5> HIDE DEF sent, alike
          <5> QED
            BY <5>1, <5>2
        <4> QED
          BY <4>2, <4>3, <4>4
      <3> QED
        BY <3>1, <3>2
    <2>5. FromWriter(ctx[r].text) => FromWriter(ctx[r].text)'
      <3>1. ctx'[r].text = ctx[r].text
        BY <1>0
      <3> QED
        BY <1>0, <3>1 DEF FromWriter, Hit
    <2> QED
      BY <1>0, <2>0, <2>1, <2>2, <2>3, <2>4, <2>5 DEF RestOK
  <1>3. ASSUME NEW k \in Keys, cache'[k].as # "none"
        PROVE  FromWriter(cache[k])'
    <2>1. FromWriter(cache[k])
      BY <1>0, <1>3 DEF Rest
    <2> QED
      BY <1>0, <2>1 DEF FromWriter, Hit
  <1>4. maps' \cup expired' \subseteq Messages /\ served' \subseteq Requests
    BY <1>0, <1>1 DEF Rest
  <1> QED
    BY <1>2, <1>3, <1>4 DEF Rest

LEMMA AbortRest ==
  ASSUME IInv, Rest, NEW r \in Requests, Abort(r)
  PROVE  Rest'
  <1>0. /\ pc' = [pc EXCEPT ![r] = 11] /\ pc[r] # 11
        /\ UNCHANGED <<ctx, scanned, maps, expired, cache, tasks, served>>
    BY Numbers DEF Abort, shared
  <1>1. pc'[r] = 11 /\ \A q \in Requests \ {r} : pc'[q] = pc[q]
    BY <1>0 DEF IInv, Typed
  <1>2. r \notin served /\ RestOK(r)
    BY <1>0 DEF IInv, Accounts, Rest
  <1>3. Len(Sensitive[r]) \in Nat
    BY PipelineAssumption
  <1>4. FromWriter(ctx[r].text) => FromWriter(ctx[r].text)'
    <2>1. ctx'[r].text = ctx[r].text
      BY <1>0
    <2> QED
      BY <1>0, <2>1 DEF FromWriter, Hit
  <1>5. RestOK(r)'
    BY <1>0, <1>1, <1>2, <1>3, <1>4, RestElsewhere
  <1>6. maps' \cup expired' \subseteq Messages /\ served' \subseteq Requests
    BY <1>0 DEF Rest
  <1> QED
    BY <1>0, <1>1, <1>5, <1>6, RestLocal

(* Setting other fields of a context leaves what is restored alone.        *)
LEMMA Untouched ==
  ASSUME Typed, NEW r \in Requests,
         NEW c \in {[ctx[r] EXCEPT !.resv = TRUE], [ctx[r] EXCEPT !.writeBack = TRUE],
                    [ctx[r] EXCEPT !.blocked = TRUE],
                    [ctx[r] EXCEPT !.text = Judged(@, "vetted")],
                    [ctx[r] EXCEPT !.text = Judged(@, "open")]}
  PROVE  /\ c \in Context /\ c.mapping = ctx[r].mapping /\ c.provider = ctx[r].provider
         /\ c.text.unrestored = ctx[r].text.unrestored
         /\ c.text.mixed = ctx[r].text.mixed
         /\ ctx[r].blocked => c.blocked
  <1>1. ctx[r] \in Context /\ ctx[r].text \in Text /\ c \in Context
    BY ContextFacts DEF Typed, Context
  <1>2. \A verdict \in {"vetted", "open"} :
           LET t == [ctx[r] EXCEPT !.text = Judged(ctx[r].text, verdict)]
           IN  /\ t.mapping = ctx[r].mapping /\ t.provider = ctx[r].provider
               /\ t.text = Judged(ctx[r].text, verdict) /\ t.blocked = ctx[r].blocked
    BY <1>1 DEF Context
  <1>3. \A verdict \in {"vetted", "open"} :
           /\ Judged(ctx[r].text, verdict).unrestored = ctx[r].text.unrestored
           /\ Judged(ctx[r].text, verdict).mixed = ctx[r].text.mixed
    BY <1>1 DEF Text, Judged
  <1>4. CASE \E verdict \in {"vetted", "open"} :
               c = [ctx[r] EXCEPT !.text = Judged(ctx[r].text, verdict)]
    <2>1. PICK verdict \in {"vetted", "open"} :
             c = [ctx[r] EXCEPT !.text = Judged(ctx[r].text, verdict)]
      BY <1>4
    <2>2. /\ c.mapping = ctx[r].mapping /\ c.provider = ctx[r].provider
          /\ c.text = Judged(ctx[r].text, verdict) /\ c.blocked = ctx[r].blocked
      BY <1>2, <2>1
    <2> QED
      BY <1>1, <1>3, <2>2
  <1>5. CASE c \in {[ctx[r] EXCEPT !.resv = TRUE], [ctx[r] EXCEPT !.writeBack = TRUE],
                    [ctx[r] EXCEPT !.blocked = TRUE]}
    BY <1>1, <1>5 DEF Context
  <1> QED
    BY <1>4, <1>5

(* Every stage but a hit, a map stored, a dispatch and the answer.         *)
LEMMA OtherRest ==
  ASSUME IInv, Rest, NEW r \in Requests,
         \/ SkipByFlag(r) \/ ShortCircuit(r) \/ Auth(r) \/ TokenBudget(r) \/ SecurityIn(r)
         \/ Rewrite(r) \/ CacheMiss(r) \/ DispatchSkipped(r) \/ NoProvider(r)
         \/ SecurityOut(r) \/ Meter(r)
  PROVE  Rest'
  <1>t. Typed /\ pc[r] \in 1..11 /\ ctx[r] \in Context
    BY ContextFacts DEF IInv, Typed
  <1> DEFINE Cs == {[ctx[r] EXCEPT !.resv = TRUE], [ctx[r] EXCEPT !.writeBack = TRUE],
                    [ctx[r] EXCEPT !.blocked = TRUE],
                    [ctx[r] EXCEPT !.text = Judged(@, "vetted")],
                    [ctx[r] EXCEPT !.text = Judged(@, "open")]}
  <1>1. UNCHANGED <<scanned, maps, expired, cache, tasks, served>>
    BY DEF SkipByFlag, ShortCircuit, Auth, TokenBudget, SecurityIn, Rewrite, CacheMiss,
           DispatchSkipped, NoProvider, SecurityOut, Meter, shared
  <1>2. Pass(r) \/ \E c \in Cs : Return(r, c)
    BY DEF SkipByFlag, ShortCircuit, Auth, TokenBudget, SecurityIn, Rewrite, CacheMiss,
           DispatchSkipped, NoProvider, SecurityOut, Meter, Pass, Block
  <1>3. Running(r) /\ (pc[r] = 7 => ctx[r].blocked \/ Hit(r) \/ Block(r))
    <2>1. CASE SkipByFlag(r)
      <3>1. \A i \in 1..9 : Order[i] \in Flagged => i # 7
        BY Numbers DEF Flagged
      <3>2. Running(r) /\ Order[pc[r]] \in Flagged /\ pc[r] \in 1..9
        BY <1>t, <2>1, InStage DEF SkipByFlag
      <3> QED
        BY <3>1, <3>2
    <2>2. CASE ShortCircuit(r) \/ DispatchSkipped(r) \/ NoProvider(r)
      BY <2>2 DEF ShortCircuit, DispatchSkipped, NoProvider, In
    <2>3. CASE \/ Auth(r) \/ TokenBudget(r) \/ SecurityIn(r) \/ Rewrite(r) \/ CacheMiss(r)
               \/ SecurityOut(r) \/ Meter(r)
      BY <1>t, <2>3, InStage
         DEF Auth, TokenBudget, SecurityIn, Rewrite, CacheMiss, SecurityOut, Meter, In
    <2> QED
      BY <2>1, <2>2, <2>3
  <1>4. pc[r] \in 1..9
    BY <1>t, <1>3, InStage
  <1>5. CASE pc[r] = 7 => ctx[r].blocked \/ Hit(r)
    <2>1. CASE Pass(r)
      BY <1>t, <1>1, <1>4, <1>5, <2>1, RestReturn DEF Pass
    <2>2. ASSUME NEW c \in Cs, Return(r, c) PROVE Rest'
      <3>1. /\ c \in Context /\ c.mapping = ctx[r].mapping /\ c.provider = ctx[r].provider
            /\ c.text.unrestored = ctx[r].text.unrestored
            /\ c.text.mixed = ctx[r].text.mixed
            /\ ctx[r].blocked => c.blocked
        BY <1>t, Untouched
      <3> HIDE DEF Cs
      <3> QED
        BY <1>1, <1>4, <1>5, <2>2, <3>1, RestReturn
    <2> QED
      BY <1>2, <2>1, <2>2
  <1>6. CASE pc[r] = 7 /\ Block(r) /\ ~Hit(r)
    <2> DEFINE c == [ctx[r] EXCEPT !.blocked = TRUE]
    <2>1. Return(r, c) /\ c \in Context /\ c.blocked /\ c.provider # "cache"
      BY <1>t, <1>6, ContextFacts DEF Block, Hit, Context
    <2> HIDE DEF c
    <2> QED
      BY <1>1, <1>6, <2>1, RestBlocked
  <1> QED
    BY <1>3, <1>5, <1>6

LEMMA FailedRest ==
  ASSUME IInv, Rest, NEW r \in Requests,
         \/ ProviderError(r)
         \/ \E reported \in BOOLEAN : AnsweredNotRestored(r, reported)
  PROVE  Rest'
  <1>t. Typed /\ ctx[r] \in Context
    BY ContextFacts DEF IInv
  <1>p. pc[r] = 7
    BY <1>t, InStage DEF ProviderError, AnsweredNotRestored, Calling
  <1>1. UNCHANGED <<scanned, expired, cache, tasks, served>>
    BY DEF ProviderError, AnsweredNotRestored, shared
  <1>2. maps' \in {maps, maps \ {Remembered(r)}}
    BY DEF ProviderError, AnsweredNotRestored, shared
  <1>3. /\ maps' \subseteq maps
        /\ \A q \in Requests \ {r}, n \in Nat : <<q, n>> \in maps' <=> <<q, n>> \in maps
    BY <1>2 DEF Remembered
  <1>4. CASE ProviderError(r)
    <2> DEFINE c == [ctx[r] EXCEPT !.blocked = TRUE, !.provider = "upstream"]
    <2>1. c \in Context /\ c.blocked /\ c.provider = "upstream"
      BY <1>t, ContextFacts DEF Context
    <2>2. Return(r, c)
      BY <1>4 DEF ProviderError
    <2> HIDE DEF c
    <2> QED
      BY <1>p, <1>1, <1>3, <2>1, <2>2, RestBlocked
  <1>5. ASSUME NEW reported \in BOOLEAN, AnsweredNotRestored(r, reported) PROVE Rest'
    <2>1. PICK text \in {Plain(r), Restored(r)} :
             Return(r, [Called(r, text, reported) EXCEPT !.blocked = TRUE])
      BY <1>5 DEF AnsweredNotRestored
    <2> DEFINE c == [Called(r, text, reported) EXCEPT !.blocked = TRUE]
    <2>2. c \in Context /\ c.blocked /\ c.provider = "upstream"
      BY <1>t, CalledFacts
    <2>3. Return(r, c)
      BY <2>1
    <2> HIDE DEF c
    <2> QED
      BY <1>p, <1>1, <1>3, <2>2, <2>3, RestBlocked
  <1> QED
    BY <1>4, <1>5

LEMMA RestInvariance == Spec => []Rest
  <1>1. ASSUME IInv, Rest, [Next]_vars PROVE Rest'
    <2>1. ASSUME NEW r \in Requests, Step(r) PROVE Rest'
      BY <1>1, <2>1, OtherRest, HitRest, StoreRest, AnsweredRest, FailedRest, AnswerRest
         DEF Step, Dispatch
    <2>2. ASSUME NEW r \in Requests, Abort(r) PROVE Rest'
      BY <1>1, <2>2, AbortRest
    <2>3. ASSUME NEW r \in Requests, WriteBack(r) PROVE Rest'
      <3>1. r \in served /\ ~Hit(r)
        BY <1>1, <2>3 DEF IInv, Accounts, Rest, RestOK, WriteBack
      <3>2. FromWriter(ctx[r].text)
        BY <3>1 DEF FromWriter
      <3>3. \A k \in Keys : cache'[k] = cache[k] \/ cache'[k] = ctx[r].text
        BY <1>1, <2>3 DEF WriteBack, IInv, Typed
      <3>4. \A k \in Keys : cache'[k] = cache[k] \/ FromWriter(cache'[k])
        BY <3>2, <3>3 DEF FromWriter
      <3>5. /\ UNCHANGED <<pc, ctx, scanned, served, maps, expired>>
            /\ tasks' \subseteq tasks
        BY <2>3 DEF WriteBack
      <3> QED
        BY <1>1, <3>4, <3>5, RestAside
    <2>4. ASSUME NEW r \in Requests, WriteBackLost(r) PROVE Rest'
      <3>1. /\ UNCHANGED <<pc, ctx, scanned, served, maps, expired, cache>>
            /\ tasks' \subseteq tasks
        BY <2>4 DEF WriteBackLost
      <3> QED
        BY <1>1, <3>1, RestAside
    <2>5. ASSUME NEW k \in Keys, Expire(k) PROVE Rest'
      <3>1. \A j \in Keys : cache'[j] = cache[j] \/ cache'[j].as = "none"
        BY <1>1, <2>5 DEF Expire, IInv, Typed, NoText
      <3>2. UNCHANGED <<pc, ctx, scanned, served, maps, expired, tasks>>
        BY <2>5 DEF Expire
      <3> QED
        BY <1>1, <3>1, <3>2, RestAside
    <2>6. ASSUME NEW m \in maps, ExpireMap(m) PROVE Rest'
      BY <1>1, <2>6, ExpireMapRest
    <2>7. CASE UNCHANGED vars
      <3>1. UNCHANGED <<pc, ctx, scanned, served, maps, expired, tasks, cache>>
        BY <2>7 DEF vars, shared
      <3> QED
        BY <1>1, <3>1, RestAside
    <2> QED
      BY <1>1, <2>1, <2>2, <2>3, <2>4, <2>5, <2>6, <2>7 DEF Next
  <1> QED
    BY <1>1, InitRest, IInvInductive, PTL DEF Spec

(* Valkey's pseudonym maps agree with the placeholders that an answer has, *)
(* for any requests, any messages and any placeholders they share: a map   *)
(* is dropped before it was applied only when its time to live runs out    *)
(* (depseudonymize), one is left behind only with its placeholders, and a  *)
(* hit has the placeholders of the request that wrote the entry.           *)
THEOREM MapsFollowPlaceholders == Spec => []MapsMatchPlaceholders
  <1>1. Rest => MapsMatchPlaceholders
    <2> SUFFICES ASSUME Rest, NEW r \in served
                 PROVE  LET text == ctx[r].text IN
                        IF Hit(r) THEN FromWriter(text)
                        ELSE \A n \in 1..Len(Sensitive[r]) :
                               /\ <<r, n>> \in maps => <<r, n>> \in text.unrestored \cup text.mixed
                               /\ <<r, n>> \in text.unrestored => <<r, n>> \in maps \cup expired
      BY DEF MapsMatchPlaceholders, FromWriter
    <2>1. r \in Requests /\ RestOK(r) /\ Len(Sensitive[r]) \in Nat
      BY PipelineAssumption DEF Rest
    <2>2. \A n \in 1..Len(Sensitive[r]) : n \in Nat
      BY <2>1
    <2>3. CASE Hit(r)
      BY <2>1, <2>3 DEF RestOK
    <2>4. CASE ~Hit(r)
      <3>1. Answers(r)
        BY <2>1, <2>4 DEF RestOK, Standing
      <3> QED
        BY <2>2, <2>4, <3>1 DEF Answers
    <2> QED
      BY <2>3, <2>4
  <1> QED
    BY <1>1, RestInvariance, PTL

(* An answer from upstream has the placeholders of exactly the messages    *)
(* whose names the last message does not use, or of all of them if the     *)
(* last map expired, and the values of the last message in the place of    *)
(* those that share its names: DispatchStage remembers one map.            *)
THEOREM LastMessageRestored == Spec => []OnlyLastIsRestored
  <1>1. Rest => OnlyLastIsRestored
    BY DEF Rest, RestOK, Standing, Answers, OnlyLastIsRestored
  <1> QED
    BY <1>1, RestInvariance, PTL

(* "the response is de-pseudonymized before returning to the client" holds *)
(* of the code where no request has two messages to pseudonymize and no    *)
(* map expires, from the cache as well.                                    *)
THEOREM SingleMessagesRestored ==
  ASSUME \A r \in Requests : Len(Sensitive[r]) <= 1
  PROVE  Spec => []RestoredInTime
  <1>1. ASSUME Rest, expired = {}, NEW r \in served, ~Hit(r)
        PROVE  ctx[r].text.unrestored = {} /\ ctx[r].text.mixed = {}
    <2>1. r \in Requests /\ Len(Sensitive[r]) \in Nat /\ Len(Sensitive[r]) <= 1
      BY <1>1, PipelineAssumption DEF Rest
    <2>2. /\ ctx[r].text.unrestored = Left(r).unrestored
          /\ ctx[r].text.mixed = Left(r).mixed
      BY <1>1, <2>1 DEF Rest, RestOK, Standing, Answers
    <2> DEFINE last == Len(Sensitive[r])
               sent == IF Upstream THEN {r} \X (1..last) ELSE {}
               alike == {e \in sent : Sensitive[r][e[2]] = Sensitive[r][last]}
    <2>3. \A n \in 1..last : n = last
      BY <2>1
    <2>4. sent \subseteq {<<r, last>>}
      BY <2>3
    <2>5. alike = sent
      BY <2>4
    <2>6. Left(r).unrestored = sent \ alike /\ Left(r).mixed = alike \ {<<r, last>>}
      BY <1>1 DEF Left
    <2> HIDE DEF sent, alike, last
    <2> QED
      BY <2>2, <2>4, <2>5, <2>6
  <1>2. Rest => RestoredInTime
    <2> SUFFICES ASSUME Rest, expired = {}, NEW r \in served
                 PROVE  ctx[r].text.unrestored = {} /\ ctx[r].text.mixed = {}
      BY DEF RestoredInTime, ServedIsRestored
    <2>1. CASE Hit(r)
      <3>1. FromWriter(ctx[r].text)
        BY <2>1 DEF Rest, RestOK
      <3> QED
        BY <1>1, <3>1 DEF FromWriter
    <2>2. CASE ~Hit(r)
      BY <1>1, <2>2
    <2> QED
      BY <2>1, <2>2
  <1> QED
    BY <1>2, RestInvariance, PTL

(* Type correctness of requests, contexts, maps, accounts and cache, for   *)
(* any requests and keys.                                                  *)
THEOREM PipelineTyped == Spec => []TypeOK
  <1> DEFINE Sets == reserved \cup slipped \cup spent \cup metered \cup tasks \cup served
                        \subseteq Requests
  <1>1. Init => Sets
    BY DEF Init
  <1>2. ASSUME Sets, [Next]_vars PROVE Sets'
    <2>1. ASSUME NEW r \in Requests, Step(r) PROVE Sets'
      BY <1>2, <2>1 DEF Step, SkipByFlag, ShortCircuit, Auth, TokenBudget, SecurityIn, Rewrite,
         CacheHit, CacheMiss, Dispatch, DispatchSkipped, NoProvider, StoreMap, Answered,
         AnsweredNotRestored, ProviderError, Spend, SecurityOut, Meter, Record, Reconcile,
         Answer, shared
    <2>2. ASSUME NEW r \in Requests, Abort(r) \/ WriteBack(r) \/ WriteBackLost(r) PROVE Sets'
      BY <1>2, <2>2 DEF Abort, WriteBack, WriteBackLost, shared
    <2>3. CASE \/ \E k \in Keys : Expire(k)
               \/ \E m \in maps : ExpireMap(m)
      BY <1>2, <2>3 DEF Expire, ExpireMap
    <2>4. CASE UNCHANGED vars
      BY <1>2, <2>4 DEF vars, shared
    <2> QED
      BY <1>2, <2>1, <2>2, <2>3, <2>4 DEF Next
  <1>3. IInv /\ Rest /\ Sets => TypeOK
    BY Numbers DEF IInv, Typed, Rest, TypeOK
  <1> QED
    BY <1>1, <1>2, <1>3, IInvInductive, RestInvariance, PTL DEF Spec
=============================================================================
