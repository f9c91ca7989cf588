---------------------------- MODULE ControlProofs ----------------------------
(***************************************************************************)
(* Proofs about the components that decide where a request goes, for any    *)
(* values of their constants:                                               *)
(*                                                                          *)
(*   ConfigCache   a copy in Valkey that disagrees with the database has    *)
(*                 one of the known causes (OnlyKnownStaleness);            *)
(*   ExactCache    eviction finds every stored entry (EvictionFindsAll) and *)
(*                 keeps the organisation within its quota (QuotaKept);     *)
(*   Routing       a clamped request stays local but in three cases         *)
(*                 (ClampedStaysLocal), and a new conversation owes nothing *)
(*                 to an older one (FreshNotInherited);                     *)
(*   Fleet         the Free tier's cap on models (FreeModelsCapped), no     *)
(*                 model row without a deployment (ModelsHaveADeployment),  *)
(*                 and a row that says pulling has a pull on its way        *)
(*                 (PullingHasAPull);                                       *)
(*   BedrockStream what the thread puts reaches the caller                  *)
(*                 (StreamsAreWhole), and once the thread is over only a    *)
(*                 lost wakeup keeps the request (OnlyLostWakeupsStick).    *)
(*                                                                          *)
(* Each invariant says what an operation between two of its steps still     *)
(* knows: a resolution about the rows it has read, a put about the counter  *)
(* and the other entries, a turn about its session, a placement about the   *)
(* room under the cap, a thread about the item that closes its stream.      *)
(***************************************************************************)
EXTENDS ConfigCache, ExactCache, Routing, Fleet, BedrockStream, SequenceTheorems, FiniteSetTheorems,
        WellFoundedInduction, NaturalsInduction, TLAPS

(* ConfigCache: a resolution that has read the rows will write what it      *)
(* read, later: each value is still what the database gives, or its key is  *)
(* among those a later commit has changed (ReadsAgree).                     *)

Values == Nat \cup {NotCached}

Resolution ==
    [at : {"idle", "get", "fetch", "set"}, todo : Seq(Ids), missing : Seq(Ids),
     read : Seq(Nat), old : SUBSET Ids]

Request == [at : {"idle"}, id : {<<>>}] \cup [at : {"clear"}, id : Ids]

CType ==
    /\ row \in [Ids -> Nat]
    /\ hot \in [Ids -> Values]
    /\ res \in [Resolvers -> Resolution]
    /\ api \in [Writers -> Request]
    /\ writes \in Nat
    /\ excused \subseteq Ids

(* What a resolution has to do, and what it has read. *)
HasWork ==
    \A r \in Resolvers : /\ res[r].at = "get" => res[r].todo # <<>>
                         /\ res[r].at = "fetch" => res[r].missing # <<>>
                         /\ res[r].at = "set" => /\ res[r].missing # <<>>
                                                 /\ Len(res[r].read) = Len(res[r].missing)

Agrees(r, n) ==
    res[r].read[n] = Fetched(res[r].missing[n]) \/ res[r].missing[n] \in res[r].old

ReadsAgree ==
    \A r \in Resolvers : res[r].at = "set" => \A n \in 1..Len(res[r].missing) : Agrees(r, n)

CInv == CType /\ HasWork /\ ReadsAgree /\ StaleIsExcused

LEMMA IdType == /\ \A i \in Ids : i[1] = "assignment" => <<"assignment", Global>> \in Ids
                /\ <<"assignment", Global>> \in Ids
  BY DEF Ids

LEMMA FetchedType == ASSUME CType, NEW i \in Ids PROVE Fetched(i) \in Nat
  BY IdType DEF CType, Fetched

LEMMA WantedType == ASSUME NEW q \in Resolutions PROVE Wanted(q) \in Seq(Ids) /\ Wanted(q) # <<>>
<1>1. q \in Ids
  BY DEF Resolutions, Ids
<1>2. <<"config", Global>> \in Ids
  BY DEF Ids
<1>3. CASE q[1] = "config"
  BY <1>1, <1>2, <1>3 DEF Wanted
<1>4. CASE q[1] # "config"
  BY <1>1, <1>4 DEF Wanted
<1>. QED BY <1>3, <1>4

(* Only the keys that depend on a row see a change of it. *)
LEMMA CommitLocal ==
    ASSUME CType, NEW i \in Ids, NEW v, row' = [row EXCEPT ![i] = v],
           NEW k \in Ids, k \notin DependsOn(i)
    PROVE  Fetched(k)' = Fetched(k)
<1>1. k # i
  BY DEF DependsOn
<1>2. row'[k] = row[k]
  BY <1>1 DEF CType
<1>3. CASE k[1] = "assignment"
  <2>1. i # <<"assignment", Global>>
    BY <1>3 DEF DependsOn
  <2>2. row'[<<"assignment", Global>>] = row[<<"assignment", Global>>]
    BY <2>1, IdType DEF CType
  <2>. QED BY <1>2, <2>2 DEF Fetched
<1>4. CASE k[1] # "assignment"
  BY <1>2, <1>4 DEF Fetched
<1>. QED BY <1>3, <1>4

(* Where the rows and the copies stay as they are, nothing is newly stale. *)
LEMMA NothingMoves ==
    ASSUME CInv, UNCHANGED <<row, hot, api, excused>>
    PROVE  StaleIsExcused'
  BY DEF CInv, StaleIsExcused, Stale, Fetched, BeingCleared

(* A resolution goes on without having read a row. *)
LEMMA Elsewhere ==
    ASSUME CInv, NEW r \in Resolvers, NEW x \in Resolution,
           res' = [res EXCEPT ![r] = x], x.at # "set",
           x.at = "get" => x.todo # <<>>, x.at = "fetch" => x.missing # <<>>,
           UNCHANGED <<row, hot, api, writes, excused>>
    PROVE  CInv'
<1>1. CType'
  BY DEF CInv, CType
<1>2. \A q \in Resolvers : res'[q] = IF q = r THEN x ELSE res[q]
  BY DEF CInv, CType
<1>3. HasWork'
  BY <1>2 DEF CInv, HasWork
<1>4. ReadsAgree'
  BY <1>2 DEF CInv, ReadsAgree, Agrees, Fetched
<1>. QED BY <1>1, <1>3, <1>4, NothingMoves DEF CInv

LEMMA IdleResType == IdleRes \in Resolution /\ IdleRes.at = "idle"
  BY DEF IdleRes, Resolution

LEMMA BeginStep == ASSUME CInv, NEW r \in Resolvers, Begin(r) PROVE CInv'
<1>1. PICK q \in Resolutions :
        res' = [res EXCEPT ![r] = [IdleRes EXCEPT !.at = "get", !.todo = Wanted(q)]]
  BY DEF Begin
<1> DEFINE x == [IdleRes EXCEPT !.at = "get", !.todo = Wanted(q)]
<1>2. x \in Resolution /\ x.at = "get" /\ x.todo = Wanted(q)
  <2>1. ASSUME NEW t \in Seq(Ids), NEW y \in Resolution
        PROVE  LET z == [y EXCEPT !.at = "get", !.todo = t]
               IN  z \in Resolution /\ z.at = "get" /\ z.todo = t
    BY DEF Resolution
  <2>. QED BY <2>1, WantedType, IdleResType
<1> HIDE DEF x
<1>3. res' = [res EXCEPT ![r] = x]
  BY <1>1 DEF x
<1>. QED BY <1>2, <1>3, WantedType, Elsewhere DEF Begin

LEMMA GetCopyStep == ASSUME CInv, NEW r \in Resolvers, GetCopy(r) PROVE CInv'
<1> DEFINE i == Head(res[r].todo)
           rest == Tail(res[r].todo)
           miss == IF hot[i] = NotCached THEN Append(res[r].missing, i) ELSE res[r].missing
           x == [res[r] EXCEPT !.todo = rest, !.missing = miss,
                               !.at = IF rest # <<>> THEN "get"
                                      ELSE IF miss # <<>> THEN "fetch" ELSE "idle"]
<1>1. res[r] \in Resolution /\ res[r].at = "get" /\ res[r].todo \in Seq(Ids) /\ res[r].todo # <<>>
      /\ res[r].missing \in Seq(Ids)
  BY DEF GetCopy, CInv, CType, HasWork, Resolution
<1>2. i \in Ids /\ rest \in Seq(Ids)
  BY <1>1
<1>3. miss \in Seq(Ids)
  BY <1>1, <1>2
<1> HIDE DEF i, rest, miss
<1>4. x \in Resolution /\ x.todo = rest /\ x.missing = miss
      /\ x.at = IF rest # <<>> THEN "get" ELSE IF miss # <<>> THEN "fetch" ELSE "idle"
  BY <1>1, <1>2, <1>3 DEF Resolution
<1>5. res' = [res EXCEPT ![r] = x]
  BY DEF GetCopy, CInv, CType, i, rest, miss
<1> HIDE DEF x
<1>. QED BY <1>4, <1>5, Elsewhere DEF GetCopy

(* What is read is what the database gives. *)
LEMMA FetchStep == ASSUME CInv, NEW r \in Resolvers, Fetch(r) PROVE CInv'
<1> DEFINE m == res[r].missing
           read == [n \in DOMAIN m |-> Fetched(m[n])]
           x == [res[r] EXCEPT !.at = "set", !.read = read]
<1>1. res[r] \in Resolution /\ m \in Seq(Ids) /\ m # <<>>
  BY DEF Fetch, CInv, CType, HasWork, Resolution
<1>2. DOMAIN m = 1..Len(m) /\ \A n \in 1..Len(m) : m[n] \in Ids
  BY <1>1
<1>3. read \in Seq(Nat) /\ Len(read) = Len(m) /\ \A n \in 1..Len(m) : read[n] = Fetched(m[n])
  <2>1. \A n \in 1..Len(m) : Fetched(m[n]) \in Nat
    BY <1>2, FetchedType DEF CInv
  <2>2. Len(m) \in Nat
    BY <1>1
  <2> HIDE DEF m
  <2>3. read = [n \in 1..Len(m) |-> Fetched(m[n])]
    BY <1>2
  <2>. QED BY <2>1, <2>2, <2>3
<1> HIDE DEF read
<1>4. x \in Resolution /\ x.at = "set" /\ x.missing = m /\ x.read = read
  BY <1>1, <1>3 DEF Resolution
<1>5. res' = [res EXCEPT ![r] = x] /\ UNCHANGED <<row, hot, api, writes, excused>>
  BY DEF Fetch, CInv, CType, read
<1> HIDE DEF x, m
<1>6. CType'
  BY <1>4, <1>5 DEF CInv, CType
<1>7. \A q \in Resolvers : res'[q] = IF q = r THEN x ELSE res[q]
  BY <1>5 DEF CInv, CType
<1>8. HasWork'
  BY <1>1, <1>3, <1>4, <1>7 DEF CInv, HasWork
<1>9. ReadsAgree'
  <2> SUFFICES ASSUME NEW q \in Resolvers, (res[q].at = "set")', NEW n \in (1..Len(res[q].missing))'
               PROVE  Agrees(q, n)'
    BY DEF ReadsAgree
  <2>1. CASE q # r
    <3>1. res'[q] = res[q] /\ Agrees(q, n)
      BY <1>7, <2>1 DEF CInv, ReadsAgree
    <3>. QED BY <1>5, <3>1 DEF Agrees, Fetched
  <2>2. CASE q = r
    <3>1. res'[q].missing = m /\ res'[q].read = read /\ n \in 1..Len(m)
      BY <1>4, <1>7, <2>2
    <3>2. read[n] = Fetched(m[n])
      BY <1>3, <3>1
    <3>3. res'[q].read[n] = IF m[n][1] = "assignment" /\ row[m[n]] = Absent
                            THEN row[<<"assignment", Global>>] ELSE row[m[n]]
      BY <3>1, <3>2 DEF Fetched
    <3>. QED BY <1>5, <3>1, <3>3 DEF Agrees, Fetched
  <2>. QED BY <2>1, <2>2
<1>. QED BY <1>5, <1>6, <1>8, <1>9, NothingMoves DEF CInv

(* A copy is written: it is what the database gives, or it is excused. *)
LEMMA FillStep == ASSUME CInv, NEW r \in Resolvers, Fill(r) PROVE CInv'
<1> DEFINE m == res[r].missing
           i == Head(m)
           v == Head(res[r].read)
           next == [res[r] EXCEPT !.missing = Tail(m), !.read = Tail(res[r].read)]
           x == IF Tail(m) = <<>> THEN IdleRes ELSE next
<1>1. /\ res[r] \in Resolution /\ res[r].at = "set" /\ m \in Seq(Ids) /\ m # <<>>
      /\ res[r].read \in Seq(Nat) /\ Len(res[r].read) = Len(m)
  BY DEF Fill, CInv, CType, HasWork, Resolution
<1>2. i \in Ids /\ v \in Nat /\ (v = Fetched(i) \/ i \in res[r].old)
  <2>1. 1 \in 1..Len(m) /\ i = m[1] /\ v = res[r].read[1] /\ i \in Ids /\ v \in Nat
    BY <1>1
  <2>2. Agrees(r, 1)
    BY <1>1, <2>1 DEF CInv, ReadsAgree
  <2>. QED BY <2>1, <2>2 DEF Agrees
<1>3. /\ x \in Resolution
      /\ Tail(m) = <<>> => x = IdleRes
      /\ Tail(m) # <<>> => /\ x.at = "set" /\ x.missing = Tail(m)
                           /\ x.read = Tail(res[r].read) /\ x.old = res[r].old
  <2> DEFINE t == Tail(m)
             u == Tail(res[r].read)
  <2>1. t \in Seq(Ids) /\ u \in Seq(Nat)
    <3>1. res[r].read # <<>>
      BY <1>1
    <3>. QED BY <1>1, <3>1
  <2> HIDE DEF m, t, u
  <2>2. next = [res[r] EXCEPT !.missing = t, !.read = u]
    BY DEF t, u
  <2> HIDE DEF next
  <2>3. /\ next \in Resolution /\ next.at = res[r].at /\ next.missing = t
        /\ next.read = u /\ next.old = res[r].old
    BY <1>1, <2>1, <2>2 DEF Resolution
  <2>. QED BY <1>1, <2>3, IdleResType DEF t, u
<1>4. /\ res' = [res EXCEPT ![r] = x] /\ UNCHANGED <<row, api, writes>>
      /\ hot' = IF Cacheable(i, v) THEN [hot EXCEPT ![i] = v] ELSE hot
      /\ excused' = IF ~Cacheable(i, v) THEN excused
                    ELSE IF i \in res[r].old THEN excused \cup {i} ELSE excused \ {i}
  <2>1. res' = [res EXCEPT ![r] = x]
    BY DEF Fill
  <2>. QED BY <2>1 DEF Fill
<1> HIDE DEF x, next, i, v
<1>5. CType'
  BY <1>2, <1>3, <1>4 DEF CInv, CType, Values
<1>6. \A q \in Resolvers : res'[q] = IF q = r THEN x ELSE res[q]
  BY <1>4 DEF CInv, CType
<1>7. HasWork'
  <2>1. Len(Tail(res[r].read)) = Len(Tail(m))
    <3>1. res[r].read # <<>> /\ Len(m) \in Nat
      BY <1>1
    <3>2. Len(Tail(res[r].read)) = Len(res[r].read) - 1 /\ Len(Tail(m)) = Len(m) - 1
      BY <1>1, <3>1
    <3>. QED BY <1>1, <3>2
  <2> HIDE DEF m
  <2>. QED BY <1>3, <1>6, <2>1, IdleResType DEF CInv, HasWork
<1>8. ReadsAgree'
  <2> SUFFICES ASSUME NEW q \in Resolvers, (res[q].at = "set")', NEW n \in (1..Len(res[q].missing))'
               PROVE  Agrees(q, n)'
    BY DEF ReadsAgree
  <2>1. CASE q # r
    <3>1. res'[q] = res[q] /\ Agrees(q, n)
      BY <1>6, <2>1 DEF CInv, ReadsAgree
    <3>. QED BY <1>4, <3>1 DEF Agrees, Fetched
  <2>2. CASE q = r
    <3>1. Tail(m) # <<>> /\ res'[q] = x
      BY <1>3, <1>6, <2>2, IdleResType
    <3>2. res'[q].missing = Tail(m) /\ res'[q].read = Tail(res[r].read) /\ res'[q].old = res[r].old
      BY <1>3, <3>1
    <3>3. n \in 1..Len(Tail(m))
      BY <3>2
    <3>4. n + 1 \in 1..Len(m) /\ Tail(m)[n] = m[n + 1] /\ Tail(res[r].read)[n] = res[r].read[n + 1]
      BY <1>1, <3>3
    <3>5. Agrees(r, n + 1)
      BY <1>1, <3>4 DEF CInv, ReadsAgree
    <3>6. res'[q].missing[n] = m[n + 1] /\ res'[q].read[n] = res[r].read[n + 1]
      BY <3>2, <3>4
    <3>. QED BY <1>4, <3>2, <3>5, <3>6 DEF Agrees, Fetched
  <2>. QED BY <2>1, <2>2
<1>9. StaleIsExcused'
  <2> SUFFICES ASSUME NEW k \in Ids, Stale(k)' PROVE k \in excused' \/ BeingCleared(k)'
    BY DEF StaleIsExcused
  <2>1. Fetched(k)' = Fetched(k) /\ (BeingCleared(k)' <=> BeingCleared(k))
    BY <1>4 DEF Fetched, BeingCleared
  <2>2. CASE k = i /\ Cacheable(i, v)
    <3>1. hot'[k] = v
      BY <1>2, <1>4, <2>2 DEF CInv, CType
    <3>. QED BY <1>2, <1>4, <2>1, <2>2, <3>1 DEF Stale
  <2>3. CASE ~(k = i /\ Cacheable(i, v))
    <3>1. hot'[k] = hot[k] /\ (k \in excused' <=> k \in excused)
      BY <1>2, <1>4, <2>3 DEF CInv, CType
    <3>2. Stale(k)
      BY <2>1, <3>1 DEF Stale
    <3>. QED BY <2>1, <3>1, <3>2 DEF CInv, StaleIsExcused
  <2>. QED BY <2>2, <2>3
<1>. QED BY <1>5, <1>7, <1>8, <1>9 DEF CInv

LEMMA ValkeyFailsStep == ASSUME CInv, NEW r \in Resolvers, ValkeyFails(r) PROVE CInv'
<1> DEFINE y == [res[r] EXCEPT !.at = "fetch", !.missing = res[r].todo, !.todo = <<>>]
           x == IF res[r].at = "get" /\ Head(res[r].todo)[1] # "config" THEN y ELSE IdleRes
<1>1. res[r] \in Resolution /\ (res[r].at = "get" => res[r].todo # <<>>)
  BY DEF CInv, CType, HasWork
<1>2. /\ x \in Resolution
      /\ \/ x.at = "fetch" /\ x.missing # <<>>
         \/ x.at = "idle"
  <2> DEFINE none == <<>>
             u == res[r].todo
  <2>1. none \in Seq(Ids) /\ u \in Seq(Ids)
    BY <1>1 DEF Resolution
  <2> HIDE DEF none, u
  <2>2. y \in Resolution /\ y.at = "fetch" /\ y.missing = u
    <3>1. y = [res[r] EXCEPT !.at = "fetch", !.missing = u, !.todo = none]
      BY DEF none, u
    <3> HIDE DEF y
    <3>. QED BY <1>1, <2>1, <3>1 DEF Resolution
  <2> HIDE DEF y
  <2>. QED BY <1>1, <2>2, IdleResType DEF u
<1>3. res' = [res EXCEPT ![r] = x]
  BY DEF ValkeyFails
<1> HIDE DEF x
<1>. QED BY <1>2, <1>3, Elsewhere DEF ValkeyFails

(* A row changes: the copies that depend on it are about to be deleted, or  *)
(* are excused, and what is being written back is marked as old.            *)
LEMMA CommitStep ==
    ASSUME CInv, NEW w \in Writers, NEW i \in Ids, NEW v \in Nat, NEW S \in {Clears(i), {}},
           Commit(w, i, v, S)
    PROVE  CInv'
<1>1. /\ api[w].at = "idle" /\ writes' = writes + 1 /\ row' = [row EXCEPT ![i] = v]
      /\ api' = [api EXCEPT ![w] = IF S = {} THEN Idle ELSE [at |-> "clear", id |-> i]]
      /\ excused' = excused \cup (DependsOn(i) \ S) /\ hot' = hot
  BY DEF Commit
<1>2. DependsOn(i) \subseteq Ids
  BY DEF DependsOn
<1> DEFINE y(r) == IF res[r].at = "set" THEN [res[r] EXCEPT !.old = @ \cup DependsOn(i)] ELSE res[r]
<1>3. res' = [r \in Resolvers |-> y(r)]
  BY DEF Commit
<1>4. ASSUME NEW r \in Resolvers
      PROVE  /\ y(r) \in Resolution /\ y(r).at = res[r].at /\ y(r).todo = res[r].todo
             /\ y(r).missing = res[r].missing /\ y(r).read = res[r].read
             /\ res[r].at = "set" => y(r).old = res[r].old \cup DependsOn(i)
  <2>1. res[r] \in Resolution
    BY DEF CInv, CType
  <2>. QED BY <1>2, <2>1 DEF Resolution
<1>5. \A r \in Resolvers : res'[r] = y(r)
  BY <1>3
<1> HIDE DEF y
<1>6. CType'
  <2>1. (IF S = {} THEN Idle ELSE [at |-> "clear", id |-> i]) \in Request
    BY DEF Idle, Request
  <2>2. api' \in [Writers -> Request]
    BY <1>1, <2>1 DEF CInv, CType
  <2>3. res' \in [Resolvers -> Resolution]
    BY <1>3, <1>4
  <2>4. row' \in [Ids -> Nat] /\ hot' \in [Ids -> Values] /\ writes' \in Nat /\ excused' \subseteq Ids
    BY <1>1, <1>2 DEF CInv, CType
  <2>. QED BY <2>2, <2>3, <2>4 DEF CType
<1>7. HasWork'
  BY <1>4, <1>5 DEF CInv, HasWork
<1>8. ReadsAgree'
  <2> SUFFICES ASSUME NEW r \in Resolvers, (res[r].at = "set")', NEW n \in (1..Len(res[r].missing))'
               PROVE  Agrees(r, n)'
    BY DEF ReadsAgree
  <2>1. /\ res[r].at = "set" /\ res'[r].missing = res[r].missing
        /\ res'[r].read = res[r].read /\ res'[r].old = res[r].old \cup DependsOn(i)
    BY <1>4, <1>5
  <2>2. n \in 1..Len(res[r].missing) /\ res[r].missing \in Seq(Ids)
    BY <2>1 DEF CInv, CType, Resolution
  <2>3. PICK k \in Ids : k = res[r].missing[n]
    BY <2>2
  <2>4. Agrees(r, n)
    BY <2>1, <2>2 DEF CInv, ReadsAgree
  <2>5. CASE k \in DependsOn(i)
    BY <2>1, <2>3, <2>5 DEF Agrees
  <2>6. CASE k \notin DependsOn(i)
    <3>1. Fetched(k)' = Fetched(k)
      BY <1>1, <2>6, CommitLocal DEF CInv
    <3>2. res'[r].missing[n] = k /\ res'[r].read[n] = res[r].read[n]
      BY <2>1, <2>3
    <3>3. res[r].read[n] = Fetched(k) \/ k \in res[r].old
      BY <2>3, <2>4 DEF Agrees, Fetched
    <3>4. CASE k \in res[r].old
      BY <2>1, <3>2, <3>4 DEF Agrees
    <3>5. CASE res[r].read[n] = Fetched(k)
      BY <3>1, <3>2, <3>5 DEF Agrees, Fetched
    <3>. QED BY <3>3, <3>4, <3>5
  <2>. QED BY <2>5, <2>6
<1>9. StaleIsExcused'
  <2> SUFFICES ASSUME NEW k \in Ids, Stale(k)' PROVE k \in excused' \/ BeingCleared(k)'
    BY DEF StaleIsExcused
  <2>1. CASE k \in DependsOn(i) /\ k \notin S
    BY <1>1, <2>1
  <2>2. CASE k \in S
    <3>1. S = Clears(i) /\ S # {}
      BY <2>2
    <3>2. api'[w] = [at |-> "clear", id |-> i]
      BY <1>1, <3>1 DEF CInv, CType
    <3>3. api'[w].at = "clear" /\ k \in Clears(api'[w].id)
      BY <2>2, <3>1, <3>2
    <3>. QED BY <3>3 DEF BeingCleared, Clears
  <2>3. CASE k \notin DependsOn(i)
    <3>1. Fetched(k)' = Fetched(k)
      BY <1>1, <2>3, CommitLocal DEF CInv
    <3>2. Stale(k)
      BY <1>1, <3>1 DEF Stale
    <3>3. CASE k \in excused
      BY <1>1, <3>3
    <3>4. CASE BeingCleared(k)
      <4>1. PICK o \in Writers : api[o].at = "clear" /\ k \in Clears(api[o].id)
        BY <3>4 DEF BeingCleared
      <4>2. o # w /\ api'[o] = api[o]
        BY <1>1, <4>1 DEF CInv, CType
      <4>. QED BY <4>1, <4>2 DEF BeingCleared, Clears
    <3>. QED BY <3>2, <3>3, <3>4 DEF CInv, StaleIsExcused
  <2>. QED BY <2>1, <2>2, <2>3
<1>. QED BY <1>6, <1>7, <1>8, <1>9 DEF CInv

LEMMA WriteStep == ASSUME CInv, NEW w \in Writers, Write(w) PROVE CInv'
<1>1. NewVersion \in Nat /\ Absent \in Nat
  BY DEF CInv, CType, NewVersion, Absent
<1>2. CASE SeedAssignments(w)
  BY <1>1, <1>2, IdType, CommitStep DEF SeedAssignments
<1>3. ASSUME NEW i \in Ids, NEW v \in Nat, Commit(w, i, v, Clears(i)) PROVE CInv'
  BY <1>3, CommitStep
<1>. QED BY <1>1, <1>2, <1>3
         DEF Write, CreateConfig, UpdateConfig, DeleteConfig, UpsertPolicy, DeletePolicy,
             UpsertAssignment, UpdateAssignment, DeleteAssignment

(* A request is over: the copies it was to delete are gone, or excused. *)
LEMMA Cleared ==
    ASSUME CInv, NEW w \in Writers, Invalidate(w) \/ InvalidateFails(w)
    PROVE  CInv'
<1> DEFINE S == Clears(api[w].id)
<1>1. api[w].at = "clear" /\ api' = [api EXCEPT ![w] = Idle] /\ UNCHANGED <<row, res, writes>>
  BY DEF Invalidate, InvalidateFails
<1>2. S \subseteq Ids
  <2>1. api[w].id \in Ids
    BY <1>1 DEF CInv, CType, Request
  <2>. QED BY <2>1, IdType DEF Clears
<1>3. /\ hot' \in [Ids -> Values] /\ excused' \subseteq Ids
      /\ \A k \in Ids \ S : hot'[k] = hot[k] /\ (k \in excused => k \in excused')
      /\ \A k \in S : k \in excused' \/ hot'[k] = NotCached
  <2> HIDE DEF S
  <2>1. CASE Invalidate(w)
    <3>1. hot' = [i \in Ids |-> IF i \in S THEN NotCached ELSE hot[i]] /\ excused' = excused \ S
      BY <2>1 DEF Invalidate, S
    <3>. QED BY <1>2, <3>1 DEF CInv, CType, Values
  <2>2. CASE InvalidateFails(w)
    <3>1. hot' = hot /\ excused' = excused \cup S
      BY <2>2 DEF InvalidateFails, S
    <3>. QED BY <1>2, <3>1 DEF CInv, CType
  <2>. QED BY <2>1, <2>2
<1>4. CType'
  <2>1. Idle \in Request
    BY DEF Idle, Request
  <2>2. api' \in [Writers -> Request]
    BY <1>1, <2>1 DEF CInv, CType
  <2>. QED BY <1>1, <1>3, <2>2 DEF CInv, CType
<1>5. HasWork' /\ ReadsAgree'
  BY <1>1 DEF CInv, HasWork, ReadsAgree, Agrees, Fetched
<1>6. StaleIsExcused'
  <2> SUFFICES ASSUME NEW k \in Ids, Stale(k)' PROVE k \in excused' \/ BeingCleared(k)'
    BY DEF StaleIsExcused
  <2>1. Fetched(k)' = Fetched(k)
    BY <1>1 DEF Fetched
  <2>2. CASE k \in S
    BY <1>3, <2>2 DEF Stale
  <2>3. CASE k \notin S
    <3>1. Stale(k)
      BY <1>3, <2>1, <2>3 DEF Stale
    <3>2. CASE BeingCleared(k)
      <4>1. PICK o \in Writers : api[o].at = "clear" /\ k \in Clears(api[o].id)
        BY <3>2 DEF BeingCleared
      <4>2. o # w /\ api'[o] = api[o]
        BY <1>1, <2>3, <4>1 DEF CInv, CType
      <4>. QED BY <4>1, <4>2 DEF BeingCleared, Clears
    <3>. QED BY <1>3, <2>3, <3>1, <3>2 DEF CInv, StaleIsExcused
  <2>. QED BY <2>2, <2>3
<1>. QED BY <1>4, <1>5, <1>6 DEF CInv

LEMMA ExpireStep == ASSUME CInv, NEW i \in Ids, Expire(i) PROVE CInv'
<1>1. /\ hot' = [hot EXCEPT ![i] = NotCached] /\ excused' = excused \ {i}
      /\ UNCHANGED <<row, res, api, writes>>
  BY DEF Expire
<1>2. CType'
  BY <1>1 DEF CInv, CType, Values
<1>3. HasWork' /\ ReadsAgree'
  BY <1>1 DEF CInv, HasWork, ReadsAgree, Agrees, Fetched
<1>4. ASSUME NEW k \in Ids, Stale(k)' PROVE k \in excused' \/ BeingCleared(k)'
  <2>1. k # i /\ hot'[k] = hot[k]
    BY <1>1, <1>4 DEF CInv, CType, Stale
  <2>2. Stale(k)
    BY <1>1, <1>4, <2>1 DEF Stale, Fetched
  <2>. QED BY <1>1, <2>1, <2>2 DEF CInv, StaleIsExcused, BeingCleared
<1>. QED BY <1>2, <1>3, <1>4 DEF CInv, StaleIsExcused

(* However resolvers, writes, failures and expiry interleave, a copy that   *)
(* the resolvers of config.py, policy.py and assignments.py serve and that  *)
(* disagrees with the database is due for deletion or has a known excuse.   *)
THEOREM OnlyKnownStaleness == Spec => []StaleIsExcused
<1>1. Init => CInv
  <2> SUFFICES ASSUME Init PROVE CInv
    OBVIOUS
  <2>1. \A r \in Resolvers : res[r] = IdleRes
    BY DEF Init
  <2>2. CType
    <3>1. Idle \in Request
      BY DEF Idle, Request
    <3>. QED BY <3>1, IdleResType DEF Init, CType, Values, Absent
  <2>3. HasWork /\ ReadsAgree
    BY <2>1, IdleResType DEF HasWork, ReadsAgree
  <2>4. StaleIsExcused
    BY DEF Init, StaleIsExcused, Stale
  <2>. QED BY <2>2, <2>3, <2>4 DEF CInv
<1>2. CInv /\ [Next]_cvars => CInv'
  <2> SUFFICES ASSUME CInv, [Next]_cvars PROVE CInv'
    OBVIOUS
  <2>1. ASSUME NEW r \in Resolvers, Begin(r) \/ Resolve(r) \/ ValkeyFails(r) PROVE CInv'
    BY <2>1, BeginStep, GetCopyStep, FetchStep, FillStep, ValkeyFailsStep DEF Resolve
  <2>2. ASSUME NEW w \in Writers, Write(w) \/ Invalidate(w) \/ InvalidateFails(w) PROVE CInv'
    BY <2>2, WriteStep, Cleared
  <2>3. ASSUME NEW i \in Ids, Expire(i) PROVE CInv'
    BY <2>3, ExpireStep
  <2>4. CASE UNCHANGED cvars
    <3>1. UNCHANGED <<row, hot, res, api, writes, excused>>
      BY <2>4 DEF cvars
    <3>. QED BY <3>1, NothingMoves DEF CInv, CType, HasWork, ReadsAgree, Agrees, Fetched
  <2>. QED BY <2>1, <2>2, <2>3, <2>4 DEF Next
<1>3. CInv => StaleIsExcused
  BY DEF CInv
<1>. QED BY <1>1, <1>2, <1>3, PTL DEF Spec
-----------------------------------------------------------------------------
(* ExactCache: an entry leaves the index only once it has been deleted. *)

LEMMA FirstIndex ==
    ASSUME NEW S, NEW s \in Seq(S), NEW e, \E i \in 1..Len(s) : s[i] = e
    PROVE  LET n == SelectInSeq(s, LAMBDA v : v = e) IN n \in 1..Len(s) /\ s[n] = e
<1>. DEFINE I == {i \in 1..Len(s) : s[i] = e}
<1>1. I # {} /\ I \subseteq Nat
  OBVIOUS
<1>2. PICK i \in I : \A k \in I : ~(<<k, i>> \in OpToRel(<, Nat))
  BY <1>1, WFMin, NatLessThanWellFounded
<1>3. ASSUME NEW k \in I PROVE i <= k
  <2>1. i \in Nat /\ k \in Nat
    BY <1>1
  <2>2. ~(k < i)
    BY <1>2, <2>1 DEF OpToRel
  <2>. QED BY <2>1, <2>2
<1>4. Min(I) \in I
  BY <1>3 DEF Min
<1>. QED BY <1>1, <1>4 DEF SelectInSeq

LEMMA RemoveAtKeeps ==
    ASSUME NEW S, NEW s \in Seq(S), NEW n \in 1..Len(s)
    PROVE  /\ RemoveAt(s, n) \in Seq(S)
           /\ \A k \in Range(s) : k # s[n] => k \in Range(RemoveAt(s, n))
<1>. DEFINE u == SubSeq(s, 1, n - 1)  w == SubSeq(s, n + 1, Len(s))
<1>1. /\ u \in Seq(S) /\ Len(u) = n - 1 /\ \A i \in 1..(n - 1) : u[i] = s[i]
      /\ w \in Seq(S) /\ Len(w) = Len(s) - n /\ \A i \in 1..(Len(s) - n) : w[i] = s[n + i]
  OBVIOUS
<1>2. RemoveAt(s, n) = u \o w
  BY DEF RemoveAt
<1>. HIDE DEF u, w
<1>3. /\ u \o w \in Seq(S) /\ Len(u \o w) = Len(s) - 1
      /\ \A i \in 1..(Len(s) - 1) :
           (u \o w)[i] = IF i <= Len(u) THEN u[i] ELSE w[i - Len(u)]
  <2>1. u \in Seq(S) /\ w \in Seq(S)
    BY <1>1
  <2>2. /\ u \o w \in Seq(S) /\ Len(u \o w) = Len(u) + Len(w)
        /\ \A i \in 1..(Len(u) + Len(w)) :
             (u \o w)[i] = IF i <= Len(u) THEN u[i] ELSE w[i - Len(u)]
    BY <2>1, ConcatProperties
  <2>3. Len(u) + Len(w) = Len(s) - 1
    BY <1>1
  <2>. QED BY <2>2, <2>3
<1>4. ASSUME NEW i \in 1..Len(s), s[i] # s[n] PROVE s[i] \in Range(u \o w)
  <2>. DEFINE q == u \o w
  <2>1. DOMAIN q = 1..(Len(s) - 1)
    BY <1>3
  <2>2. CASE i < n
    <3>1. i \in 1..(Len(s) - 1) /\ i <= Len(u)
      BY <1>1, <2>2
    <3>2. q[i] = s[i]
      BY <1>1, <1>3, <2>2, <3>1
    <3>. QED BY <2>1, <3>1, <3>2 DEF Range
  <2>3. CASE i > n
    <3>1. i - 1 \in 1..(Len(s) - 1) /\ ~(i - 1 <= Len(u)) /\ (i - 1) - Len(u) = i - n
      BY <1>1, <2>3
    <3>2. i - n \in 1..(Len(s) - n) /\ w[i - n] = s[n + (i - n)] /\ n + (i - n) = i
      BY <1>1, <2>3
    <3>3. q[i - 1] = s[i]
      BY <1>3, <3>1, <3>2
    <3>. QED BY <2>1, <3>1, <3>3 DEF Range
  <2>. QED BY <1>4, <2>2, <2>3
<1>5. \A k \in Range(s) : \E i \in 1..Len(s) : k = s[i]
  BY DEF Range
<1>. QED BY <1>2, <1>3, <1>4, <1>5

LEMMA RemoveFirstKeeps ==
    ASSUME NEW S, NEW s \in Seq(S), NEW e
    PROVE  /\ RemoveFirst(s, e) \in Seq(S)
           /\ \A k \in Range(s) : k # e => k \in Range(RemoveFirst(s, e))
<1>1. CASE \E i \in 1..Len(s) : s[i] = e
  <2>. DEFINE n == SelectInSeq(s, LAMBDA v : v = e)
  <2>1. n \in 1..Len(s) /\ s[n] = e
    BY <1>1, FirstIndex
  <2>2. RemoveFirst(s, e) = RemoveAt(s, n)
    BY <1>1 DEF RemoveFirst
  <2>. HIDE DEF n
  <2>. QED BY <2>1, <2>2, RemoveAtKeeps
<1>2. CASE ~\E i \in 1..Len(s) : s[i] = e
  BY <1>2 DEF RemoveFirst
<1>. QED BY <1>1, <1>2

XType ==
    /\ DOMAIN entry = Keys
    /\ idx \in Seq(Keys)
    /\ DOMAIN at = Requests
    /\ DOMAIN put = Requests

OnePut == \A r, q \in Requests : at[r] \in Putting /\ at[q] \in Putting => r = q

(* Between the DELETE of a victim and its ZREM nothing stores it again. *)
VictimIsGone ==
    \A r \in Requests : at[r] = "zrem" => \A k \in Keys : put[r].victim = k => ~(entry[k] > 0)

(* The only entry that is not indexed is the one a put has just stored. *)
IndexedBut ==
    \A k \in Keys : entry[k] > 0 => \/ k \in Range(idx)
                                    \/ \E r \in Requests : at[r] = "zadd" /\ KeyOf[r] = k

XInv == XType /\ (spoilt \subseteq {"own"} => OnePut /\ VictimIsGone /\ IndexedBut)

LEMMA Touched ==
    ASSUME XType, NEW k \in Keys, Touch(k)
    PROVE  idx' \in Seq(Keys) /\ k \in Range(idx') /\ Range(idx) \subseteq Range(idx')
<1>. DEFINE s == RemoveFirst(idx, k)
<1>1. s \in Seq(Keys) /\ \A x \in Range(idx) : x # k => x \in Range(s)
  BY RemoveFirstKeeps DEF XType
<1>2. idx' = Append(s, k)
  BY DEF Touch
<1>. HIDE DEF s
<1>3. /\ Append(s, k) \in Seq(Keys) /\ Len(Append(s, k)) = Len(s) + 1
      /\ Append(s, k)[Len(s) + 1] = k /\ \A i \in 1..Len(s) : Append(s, k)[i] = s[i]
  BY <1>1, AppendProperties
<1>4. Range(s) \subseteq Range(idx') /\ k \in Range(idx')
  BY <1>1, <1>2, <1>3 DEF Range
<1>. QED BY <1>1, <1>2, <1>3, <1>4

(* A request that stores and removes nothing, and begins no put. *)
LEMMA QuietStep ==
    ASSUME XInv, NEW r \in Requests, NEW step, Goto(r, step),
           DOMAIN put' = Requests, \A q \in Requests : q # r => put'[q] = put[q],
           step \in Putting => at[r] \in Putting, step # "zrem",
           at[r] = "zadd" => KeyOf[r] \in Range(idx'),
           entry' = entry, idx' \in Seq(Keys), Range(idx) \subseteq Range(idx'),
           spoilt \subseteq spoilt'
    PROVE  XInv'
<1>1. DOMAIN at' = Requests /\ at'[r] = step /\ \A q \in Requests : q # r => at'[q] = at[q]
  BY DEF XInv, XType, Goto
<1>2. XType'
  BY <1>1 DEF XInv, XType
<1>3. ASSUME spoilt' \subseteq {"own"} PROVE (OnePut /\ VictimIsGone /\ IndexedBut)'
  <2>1. OnePut /\ VictimIsGone /\ IndexedBut
    BY <1>3 DEF XInv
  <2>2. OnePut'
    BY <1>1, <2>1 DEF OnePut
  <2>3. VictimIsGone'
    BY <1>1, <2>1 DEF VictimIsGone
  <2>4. IndexedBut'
    BY <1>1, <2>1 DEF IndexedBut
  <2>. QED BY <2>2, <2>3, <2>4
<1>. QED BY <1>2, <1>3 DEF XInv

LEMMA LookupStep == ASSUME XInv, NEW r \in Requests, Lookup(r) \/ NoAnswer(r) PROVE XInv'
<1>1. PICK step \in {"touch", "dispatch", "done"} : Goto(r, step)
  BY DEF Lookup, NoAnswer, End
<1>2. step \notin Putting /\ step # "zrem" /\ at[r] # "zadd"
  BY DEF Lookup, NoAnswer, Putting
<1>3. /\ DOMAIN put' = Requests /\ \A q \in Requests : q # r => put'[q] = put[q]
      /\ entry' = entry /\ idx' = idx /\ spoilt' = spoilt
  BY DEF Lookup, NoAnswer, End, XInv, XType
<1>4. idx' \in Seq(Keys)
  BY <1>3 DEF XInv, XType
<1>. QED BY <1>1, <1>2, <1>3, <1>4, QuietStep

LEMMA TouchStep == ASSUME XInv, NEW r \in Requests, TouchHit(r) PROVE XInv'
<1>1. at[r] = "touch" /\ Goto(r, "done") /\ entry' = entry /\ spoilt' = spoilt
  BY DEF TouchHit, End
<1>2. DOMAIN put' = Requests /\ \A q \in Requests : q # r => put'[q] = put[q]
  BY DEF TouchHit, End, XInv, XType
<1>3. idx' \in Seq(Keys) /\ Range(idx) \subseteq Range(idx')
  BY ExactCacheAssumption, Touched DEF TouchHit, XInv
<1>. QED BY <1>1, <1>2, <1>3, QuietStep DEF Putting

LEMMA IndexStep == ASSUME XInv, NEW r \in Requests, IndexEntry(r) PROVE XInv'
<1>1. at[r] = "zadd" /\ Goto(r, "reread") /\ entry' = entry /\ spoilt' = spoilt /\ put' = put
  BY DEF IndexEntry
<1>2. DOMAIN put' = Requests
  BY <1>1 DEF XInv, XType
<1>3. idx' \in Seq(Keys) /\ Range(idx) \subseteq Range(idx') /\ KeyOf[r] \in Range(idx')
  BY ExactCacheAssumption, Touched DEF IndexEntry, XInv
<1>. QED BY <1>1, <1>2, <1>3, QuietStep DEF Putting

(* A step of a put that changes only its local variables or the counter. *)
LEMMA LocalStep ==
    ASSUME XInv, NEW r \in Requests,
           ReadOld(r) \/ ReadCurrent(r) \/ PickVictim(r) \/ ReadVictim(r)
           \/ LowerBytes(r) \/ RereadBytes(r) \/ RaiseBytes(r)
    PROVE  XInv'
<1>1. PICK step \in {"current", "lru", "set", "vsize", "delete", "raise", "done"} : Goto(r, step)
  BY DEF ReadOld, ReadCurrent, PickVictim, ReadVictim, LowerBytes, RereadBytes, RaiseBytes,
         End, AfterCheck
<1>2. at[r] \in Putting /\ at[r] # "zadd" /\ step # "zrem"
  BY DEF ReadOld, ReadCurrent, PickVictim, ReadVictim, LowerBytes, RereadBytes, RaiseBytes, Putting
<1>3. DOMAIN put' = Requests /\ \A q \in Requests : q # r => put'[q] = put[q]
  BY DEF ReadOld, ReadCurrent, PickVictim, ReadVictim, LowerBytes, RereadBytes, RaiseBytes,
         End, XInv, XType
<1>4. entry' = entry /\ idx' = idx /\ spoilt' = spoilt
  BY DEF ReadOld, ReadCurrent, PickVictim, ReadVictim, LowerBytes, RereadBytes, RaiseBytes
<1>5. idx' \in Seq(Keys)
  BY <1>4 DEF XInv, XType
<1>. QED BY <1>1, <1>2, <1>3, <1>4, <1>5, QuietStep

(* A put begins: another one under way makes it an overlap. *)
LEMMA AnswerStep == ASSUME XInv, NEW r \in Requests, AnswerArrives(r) PROVE XInv'
<1>1. PICK s \in Sizes :
        /\ IF s > MaxEntry THEN End(r)
           ELSE Goto(r, "old") /\ put' = [put EXCEPT ![r].size = s]
        /\ spoilt' = IF s <= MaxEntry /\ \E q \in Requests : at[q] \in Putting
                     THEN spoilt \cup {"overlap"} ELSE spoilt
  BY DEF AnswerArrives
<1>2. at[r] = "dispatch" /\ entry' = entry /\ idx' = idx
  BY DEF AnswerArrives
<1>3. DOMAIN put' = Requests /\ \A q \in Requests : q # r => put'[q] = put[q]
  BY <1>1 DEF End, XInv, XType
<1>4. spoilt \subseteq spoilt' /\ idx' \in Seq(Keys)
  BY <1>1, <1>2 DEF XInv, XType
<1>5. CASE s > MaxEntry
  <2>1. Goto(r, "done")
    BY <1>1, <1>5 DEF End
  <2>. QED BY <1>2, <1>3, <1>4, <2>1, QuietStep DEF Putting
<1>6. CASE ~(s > MaxEntry)
  <2>1. DOMAIN at' = Requests /\ at'[r] = "old" /\ \A q \in Requests : q # r => at'[q] = at[q]
    BY <1>1, <1>6 DEF Goto, XInv, XType
  <2>2. XType'
    BY <1>2, <1>3, <1>4, <2>1 DEF XInv, XType
  <2>3. ASSUME spoilt' \subseteq {"own"} PROVE (OnePut /\ VictimIsGone /\ IndexedBut)'
    <3>1. OnePut /\ VictimIsGone /\ IndexedBut
      BY <1>4, <2>3 DEF XInv
    <3>2. s <= MaxEntry => \A q \in Requests : at[q] \notin Putting
      BY <1>1, <2>3
    <3>3. s <= MaxEntry
      BY <1>6, ExactCacheAssumption
    <3>4. OnePut'
      BY <2>1, <3>2, <3>3 DEF OnePut
    <3>5. VictimIsGone'
      BY <1>2, <1>3, <2>1, <3>1 DEF VictimIsGone
    <3>6. IndexedBut'
      BY <1>2, <2>1, <3>1 DEF IndexedBut
    <3>. QED BY <3>4, <3>5, <3>6
  <2>. QED BY <2>2, <2>3 DEF XInv
<1>. QED BY <1>5, <1>6

LEMMA DeleteStep == ASSUME XInv, NEW r \in Requests, DeleteVictim(r) PROVE XInv'
<1>1. /\ at[r] = "delete" /\ entry' = [entry EXCEPT ![put[r].victim] = 0]
      /\ Goto(r, "zrem") /\ idx' = idx /\ put' = put /\ spoilt \subseteq spoilt'
  BY DEF DeleteVictim
<1>2. DOMAIN at' = Requests /\ at'[r] = "zrem" /\ \A q \in Requests : q # r => at'[q] = at[q]
  BY <1>1 DEF XInv, XType, Goto
<1>3. \A k \in Keys : entry'[k] = IF k = put[r].victim THEN 0 ELSE entry[k]
  BY <1>1 DEF XInv, XType
<1>4. XType'
  BY <1>1, <1>2 DEF XInv, XType
<1>5. ASSUME spoilt' \subseteq {"own"} PROVE (OnePut /\ VictimIsGone /\ IndexedBut)'
  <2>1. OnePut /\ VictimIsGone /\ IndexedBut
    BY <1>1, <1>5 DEF XInv
  <2>2. OnePut'
    BY <1>1, <1>2, <2>1 DEF OnePut, Putting
  <2>3. VictimIsGone'
    BY <1>1, <1>2, <1>3, <2>1 DEF VictimIsGone
  <2>4. IndexedBut'
    BY <1>1, <1>2, <1>3, <2>1 DEF IndexedBut
  <2>. QED BY <2>2, <2>3, <2>4
<1>. QED BY <1>4, <1>5 DEF XInv

LEMMA RemoveStep == ASSUME XInv, NEW r \in Requests, RemoveVictim(r) PROVE XInv'
<1>1. /\ at[r] = "zrem" /\ idx' = RemoveFirst(idx, put[r].victim) /\ Goto(r, "lower")
      /\ entry' = entry /\ spoilt' = spoilt
  BY DEF RemoveVictim
<1>2. DOMAIN at' = Requests /\ at'[r] = "lower" /\ \A q \in Requests : q # r => at'[q] = at[q]
  BY <1>1 DEF XInv, XType, Goto
<1>3. DOMAIN put' = Requests /\ \A q \in Requests : q # r => put'[q] = put[q]
  BY DEF RemoveVictim, XInv, XType
<1>4. idx' \in Seq(Keys) /\ \A k \in Range(idx) : k # put[r].victim => k \in Range(idx')
  BY <1>1, RemoveFirstKeeps DEF XInv, XType
<1>5. XType'
  BY <1>1, <1>2, <1>3, <1>4 DEF XInv, XType
<1>6. ASSUME spoilt' \subseteq {"own"} PROVE (OnePut /\ VictimIsGone /\ IndexedBut)'
  <2>1. OnePut /\ VictimIsGone /\ IndexedBut
    BY <1>1, <1>6 DEF XInv
  <2>2. OnePut'
    BY <1>1, <1>2, <2>1 DEF OnePut, Putting
  <2>3. VictimIsGone'
    BY <1>1, <1>2, <1>3, <2>1 DEF VictimIsGone
  <2>4. IndexedBut'
    <3>1. \A k \in Keys : entry[k] > 0 => k # put[r].victim
      BY <1>1, <2>1 DEF VictimIsGone
    <3>. QED BY <1>1, <1>2, <1>4, <2>1, <3>1 DEF IndexedBut
  <2>. QED BY <2>2, <2>3, <2>4
<1>. QED BY <1>5, <1>6 DEF XInv

LEMMA SetStep == ASSUME XInv, NEW r \in Requests, SetEntry(r) PROVE XInv'
<1>1. /\ at[r] = "set" /\ entry' = [entry EXCEPT ![KeyOf[r]] = put[r].size]
      /\ Goto(r, "zadd") /\ idx' = idx /\ put' = put /\ spoilt' = spoilt
  BY DEF SetEntry
<1>2. DOMAIN at' = Requests /\ at'[r] = "zadd" /\ \A q \in Requests : q # r => at'[q] = at[q]
  BY <1>1 DEF XInv, XType, Goto
<1>3. \A k \in Keys : k # KeyOf[r] => entry'[k] = entry[k]
  BY <1>1 DEF XInv, XType
<1>4. XType'
  BY <1>1, <1>2 DEF XInv, XType
<1>5. ASSUME spoilt' \subseteq {"own"} PROVE (OnePut /\ VictimIsGone /\ IndexedBut)'
  <2>1. OnePut /\ VictimIsGone /\ IndexedBut
    BY <1>1, <1>5 DEF XInv
  <2>2. OnePut'
    BY <1>1, <1>2, <2>1 DEF OnePut, Putting
  <2>3. \A q \in Requests : at'[q] # "zrem"
    BY <1>1, <1>2, <2>1 DEF OnePut, Putting
  <2>4. VictimIsGone'
    BY <2>3 DEF VictimIsGone
  <2>5. IndexedBut'
    <3>1. ASSUME NEW k \in Keys, entry'[k] > 0
          PROVE  k \in Range(idx') \/ \E q \in Requests : at'[q] = "zadd" /\ KeyOf[q] = k
      <4>1. CASE k = KeyOf[r]
        BY <1>2, <4>1
      <4>2. CASE k # KeyOf[r]
        BY <1>1, <1>2, <1>3, <2>1, <3>1, <4>2 DEF IndexedBut
      <4>. QED BY <4>1, <4>2
    <3>. QED BY <3>1 DEF IndexedBut
  <2>. QED BY <2>2, <2>4, <2>5
<1>. QED BY <1>4, <1>5 DEF XInv

(* A put that breaks off is outside the claim; a hit may break off freely. *)
LEMMA BreakStep == ASSUME XInv, NEW r \in Requests, BreakOff(r) PROVE XInv'
<1>1. Goto(r, "done") /\ entry' = entry /\ idx' = idx /\ spoilt \subseteq spoilt'
  BY DEF BreakOff, End
<1>2. DOMAIN put' = Requests /\ \A q \in Requests : q # r => put'[q] = put[q]
  BY DEF BreakOff, End, XInv, XType
<1>3. idx' \in Seq(Keys)
  BY <1>1 DEF XInv, XType
<1>4. CASE at[r] = "touch"
  BY <1>1, <1>2, <1>3, <1>4, QuietStep DEF Putting
<1>5. CASE at[r] \in Putting
  <2>1. "abort" \in spoilt'
    BY <1>5 DEF BreakOff
  <2>2. ~(spoilt' \subseteq {"own"})
    BY <2>1
  <2>3. XType'
    BY <1>1, <1>2, <1>3 DEF XInv, XType, Goto
  <2>. QED BY <2>2, <2>3 DEF XInv
<1>. QED BY <1>4, <1>5 DEF BreakOff

LEMMA ExpireEntryStep == ASSUME XInv, NEW k \in Keys, ExpireEntry(k) PROVE XInv'
<1>1. entry' = [entry EXCEPT ![k] = 0] /\ UNCHANGED <<idx, at, put, spoilt>>
  BY DEF ExpireEntry
<1>2. \A x \in Keys : entry'[x] > 0 => entry[x] > 0
  BY <1>1 DEF XInv, XType
<1>3. XType'
  BY <1>1 DEF XInv, XType
<1>4. ASSUME spoilt' \subseteq {"own"} PROVE (OnePut /\ VictimIsGone /\ IndexedBut)'
  <2>1. OnePut /\ VictimIsGone /\ IndexedBut
    BY <1>1, <1>4 DEF XInv
  <2>2. OnePut'
    BY <1>1, <2>1 DEF OnePut
  <2>3. VictimIsGone'
    BY <1>1, <1>2, <2>1 DEF VictimIsGone
  <2>4. IndexedBut'
    BY <1>1, <1>2, <2>1 DEF IndexedBut
  <2>. QED BY <2>2, <2>3, <2>4
<1>. QED BY <1>3, <1>4 DEF XInv

LEMMA CacheStep == ASSUME XInv, CacheNext PROVE XInv'
  BY LookupStep, TouchStep, IndexStep, LocalStep, AnswerStep, DeleteStep, RemoveStep, SetStep,
     BreakStep, ExpireEntryStep DEF CacheNext, Serve, Put, Evict

(* For any requests, keys, sizes and quota, and without the fairness: while *)
(* write-backs neither overlap nor break off, every entry that is stored    *)
(* between them is in the index that eviction reads, whatever expires and   *)
(* however lookups refresh the index meanwhile.                             *)
THEOREM EvictionFindsAll == CacheSpec => []StoredIsIndexed
<1>1. CacheInit => XInv
  BY DEF CacheInit, XInv, XType, OnePut, VictimIsGone, IndexedBut, Putting
<1>2. ASSUME XInv, CacheNext PROVE XInv'
  BY <1>2, CacheStep
<1>3. ASSUME XInv, UNCHANGED xvars PROVE XInv'
  BY <1>3 DEF xvars, XInv, XType, OnePut, VictimIsGone, IndexedBut
<1>4. XInv /\ [CacheNext]_xvars => XInv'
  BY <1>2, <1>3
<1>5. XInv => StoredIsIndexed
  BY DEF XInv, IndexedBut, StoredIsIndexed, Quiet, Putting
<1>. QED BY <1>1, <1>4, <1>5, PTL DEF CacheSpec

-----------------------------------------------------------------------------
(* Counting bytes. *)

Held(e, keys) == {x \in keys \X (1..MaxEntry) : x[2] <= e[x[1]]}

LEMMA HeldFinite ==
    ASSUME NEW e, NEW keys \in SUBSET Keys
    PROVE  /\ IsFiniteSet(Held(e, keys)) /\ BytesIn(e, keys) = Cardinality(Held(e, keys))
           /\ BytesIn(e, keys) \in Nat
<1>1. IsFiniteSet(keys) /\ IsFiniteSet(1..MaxEntry)
  BY ExactCacheAssumption, FS_Subset, FS_Interval
<1>2. IsFiniteSet(keys \X (1..MaxEntry))
  BY <1>1, FS_Product
<1>3. IsFiniteSet(Held(e, keys))
  BY <1>2, FS_Subset DEF Held
<1>4. BytesIn(e, keys) = Cardinality(Held(e, keys))
  BY DEF BytesIn, Held
<1>. QED BY <1>3, <1>4, FS_CardinalityType

(* Nothing grows, so the sum does not. *)
LEMMA BytesMonotone ==
    ASSUME NEW e, NEW f, NEW keys \in SUBSET Keys, NEW more \in SUBSET Keys,
           keys \subseteq more, e \in [Keys -> Nat], f \in [Keys -> Nat],
           \A k \in keys : e[k] <= f[k]
    PROVE  BytesIn(e, keys) <= BytesIn(f, more)
<1>1. ASSUME NEW x \in Held(e, keys) PROVE x \in Held(f, more)
  <2>1. x[1] \in keys /\ x[2] \in 1..MaxEntry /\ x[2] <= e[x[1]] /\ x \in more \X (1..MaxEntry)
    BY DEF Held
  <2>2. e[x[1]] \in Nat /\ f[x[1]] \in Nat /\ e[x[1]] <= f[x[1]] /\ x[2] \in Nat
    BY <2>1, ExactCacheAssumption
  <2>3. x[2] <= f[x[1]]
    BY <2>1, <2>2
  <2>. QED BY <2>1, <2>3 DEF Held
<1>. QED BY <1>1, HeldFinite, FS_Subset

(* The bytes under one key add up with the rest. *)
LEMMA BytesSplit ==
    ASSUME NEW e \in [Keys -> 0..MaxEntry], NEW keys \in SUBSET Keys, NEW k \in keys
    PROVE  BytesIn(e, keys) = BytesIn(e, keys \ {k}) + e[k]
<1>. DEFINE A == Held(e, keys \ {k})  B == {k} \X (1..e[k])
<1>1. e[k] \in Nat /\ e[k] <= MaxEntry
  BY ExactCacheAssumption
<1>2. IsFiniteSet(B) /\ Cardinality(B) = e[k]
  <2>1. IsFiniteSet({k}) /\ Cardinality({k}) = 1
    BY FS_Singleton
  <2>2. IsFiniteSet(1..e[k]) /\ Cardinality(1..e[k]) = e[k]
    BY <1>1, FS_Interval
  <2>3. IsFiniteSet(B) /\ Cardinality(B) = Cardinality({k}) * Cardinality(1..e[k])
    BY <2>1, <2>2, FS_Product
  <2>. QED BY <1>1, <2>1, <2>2, <2>3
<1>3. IsFiniteSet(A) /\ Cardinality(A) = BytesIn(e, keys \ {k})
  BY HeldFinite
<1>4. A \cap B = {}
  BY DEF Held
<1>5. Held(e, keys) = A \cup B
  <2>1. ASSUME NEW x \in Held(e, keys) PROVE x \in A \cup B
    <3>1. x \in keys \X (1..MaxEntry) /\ x[2] <= e[x[1]]
      BY DEF Held
    <3>2. CASE x[1] = k
      <4>1. x = <<x[1], x[2]>> /\ x[2] \in 1..e[k]
        BY <1>1, <3>1, <3>2, ExactCacheAssumption
      <4>. QED BY <3>2, <4>1
    <3>3. CASE x[1] # k
      BY <3>1, <3>3 DEF Held
    <3>. QED BY <3>2, <3>3
  <2>2. ASSUME NEW x \in A \cup B PROVE x \in Held(e, keys)
    <3>1. CASE x \in A
      BY <3>1 DEF Held
    <3>2. CASE x \in B
      <4>1. x[1] = k /\ x[2] \in 1..e[k] /\ x = <<x[1], x[2]>>
        BY <3>2
      <4>2. x[2] \in 1..MaxEntry /\ x[2] <= e[k]
        BY <1>1, <4>1, ExactCacheAssumption
      <4>. QED BY <4>1, <4>2 DEF Held
    <3>. QED BY <2>2, <3>1, <3>2
  <2>. QED BY <2>1, <2>2
<1>. HIDE DEF A, B
<1>6. Cardinality(A \cup B) = Cardinality(A) + Cardinality(B) - Cardinality(A \cap B)
  BY <1>2, <1>3, FS_Union
<1>7. Cardinality({}) = 0
  BY FS_EmptySet
<1>8. Cardinality(A) \in Nat
  BY <1>3, FS_CardinalityType
<1>. QED BY <1>1, <1>2, <1>3, <1>4, <1>5, <1>6, <1>7, <1>8, HeldFinite

-----------------------------------------------------------------------------
(* ExactCache: what a put knows of the counter and of the other entries. *)

PutRecord == [size : 0..MaxEntry, old : 0..MaxEntry, current : Nat,
              victim : Keys \cup {NoKey}, vsize : 0..MaxEntry]

QType ==
    /\ entry \in [Keys -> 0..MaxEntry]
    /\ bytes \in Nat
    /\ put \in [Requests -> PutRecord]

Others(e, r) == BytesIn(e, Keys \ {KeyOf[r]})

(* The bytes that stay whatever becomes of r's key and of its victim. *)
Spared(e, r, v) == BytesIn(e, (Keys \ {KeyOf[r]}) \ {v})

(* Of the put of r, at step, with local variables p: the counter covers the *)
(* other entries and the old size, less the victim that is being evicted,   *)
(* and after the loop they leave room for the new entry.                    *)
PutOK(r, step, p, e, n) ==
    /\ step = "old" => BytesIn(e, Keys) <= n
    /\ step \in {"current", "lru", "vsize", "set", "zadd", "reread", "raise"} =>
         Others(e, r) + p.old <= n
    /\ step \in {"lru", "vsize", "raise"} => p.current = n
    /\ step = "delete" /\ (p.victim = KeyOf[r] => p.vsize = 0) =>
         Spared(e, r, p.victim) + p.old + p.vsize <= p.current
    /\ step = "zrem" => Others(e, r) + p.old + p.vsize <= p.current
    /\ step = "lower" => Others(e, r) + p.old <= p.current
    /\ step \in {"set", "zadd", "reread", "raise"} => Others(e, r) + p.size <= Quota
    /\ step \in {"zadd", "reread", "raise"} => e[KeyOf[r]] <= p.size

PutsOK == \A r \in Requests : at[r] \in Putting => PutOK(r, at[r], put[r], entry, bytes)

(* A put that evicts has a victim. *)
Evicting == {"vsize", "delete", "zrem"}

VictimKnown == \A r \in Requests : at[r] \in Evicting => put[r].victim \in Keys

QInv == QType /\ XInv /\ VictimKnown /\ (spoilt = {} => QuotaHeld /\ PutsOK)

(* The put of r takes a step: nobody else's matters. *)
LEMMA PutMoves ==
    ASSUME QInv, XInv', NEW r \in Requests, at[r] \in Putting,
           NEW step \in Putting, Goto(r, step),
           NEW p \in PutRecord, put' = [put EXCEPT ![r] = p],
           step \in Evicting => p.victim \in Keys,
           entry' \in [Keys -> 0..MaxEntry], bytes' \in Nat,
           spoilt \subseteq spoilt',
           PutsOK /\ OnePut /\ spoilt' = {} => PutOK(r, step, p, entry', bytes')
    PROVE  QInv'
<1>1. at'[r] = step /\ \A q \in Requests : q # r => at'[q] = at[q]
  BY DEF Goto, QInv, XInv, XType
<1>2. QType'
  BY DEF QInv, QType
<1>3. ASSUME spoilt' = {} PROVE (QuotaHeld /\ PutsOK)'
  <2>1. PutsOK /\ OnePut
    BY <1>3 DEF QInv, XInv
  <2>2. OnePut'
    BY <1>3 DEF XInv
  <2>3. ~Quiet'
    BY <1>1 DEF Quiet
  <2>4. put'[r] = p
    BY DEF QInv, QType
  <2>5. \A q \in Requests : at'[q] \in Putting => q = r
    BY <1>1, <2>2 DEF OnePut
  <2>6. PutsOK'
    BY <1>1, <1>3, <2>1, <2>4, <2>5 DEF PutsOK
  <2>. QED BY <2>3, <2>6 DEF QuotaHeld
<1>4. put'[r] = p /\ \A q \in Requests : q # r => put'[q] = put[q]
  BY DEF QInv, QType
<1>5. VictimKnown'
  BY <1>1, <1>4 DEF QInv, VictimKnown
<1>. QED BY <1>2, <1>3, <1>5 DEF QInv

LEMMA PutFields ==
    ASSUME NEW p \in PutRecord
    PROVE  /\ p.size \in 0..MaxEntry /\ p.old \in 0..MaxEntry /\ p.current \in Nat
           /\ p.victim \in Keys \cup {NoKey} /\ p.vsize \in 0..MaxEntry
           /\ p.size \in Nat /\ p.old \in Nat /\ p.vsize \in Nat
  BY ExactCacheAssumption DEF PutRecord

(* The loop is left only with room for the new entry. *)
LEMMA CheckLeavesRoom ==
    ASSUME NEW r \in Requests, NEW p \in PutRecord, NEW e, NEW n \in Nat, p.current = n,
           Others(e, r) + p.old <= n
    PROVE  /\ AfterCheck(p, n) \in Putting
           /\ PutOK(r, AfterCheck(p, n), p, e, n)
<1>1. Others(e, r) \in Nat
  BY HeldFinite DEF Others
<1>2. p.size \in Nat /\ p.old \in Nat
  BY PutFields
<1>3. CASE OverQuota(p, n)
  BY <1>3 DEF AfterCheck, PutOK, Putting
<1>4. CASE ~OverQuota(p, n)
  <2>1. Others(e, r) + p.size <= Quota
    <3>1. ~(n + p.size - p.old > Quota)
      BY <1>4 DEF OverQuota
    <3>. QED BY <1>1, <1>2, <3>1, ExactCacheAssumption
  <2>2. AfterCheck(p, n) = "set"
    BY <1>4 DEF AfterCheck
  <2>. QED BY <2>1, <2>2 DEF PutOK, Putting
<1>. QED BY <1>3, <1>4

(* The key of the put and the others. *)
LEMMA StoredSplit ==
    ASSUME NEW r \in Requests, NEW e \in [Keys -> 0..MaxEntry]
    PROVE  /\ BytesIn(e, Keys) = Others(e, r) + e[KeyOf[r]]
           /\ Others(e, r) \in Nat /\ e[KeyOf[r]] \in 0..MaxEntry
           /\ BytesIn(e, Keys) \in Nat
  BY BytesSplit, HeldFinite, ExactCacheAssumption DEF Others

LEMMA ReadOldOK == ASSUME QInv, XInv', NEW r \in Requests, ReadOld(r) PROVE QInv'
<1>. DEFINE p == put[r]  K == KeyOf[r]  o == [p EXCEPT !.old = entry[K]]
<1>1. /\ at[r] = "old" /\ put' = [put EXCEPT ![r] = o] /\ Goto(r, "current")
      /\ entry' = entry /\ bytes' = bytes /\ spoilt' = spoilt
  BY DEF ReadOld
<1>2. entry \in [Keys -> 0..MaxEntry] /\ bytes \in Nat /\ p \in PutRecord /\ K \in Keys
  BY ExactCacheAssumption DEF QInv, QType
<1>3. o \in PutRecord /\ o.old = entry[K]
  BY <1>2 DEF PutRecord
<1>. HIDE DEF o
<1>4. ASSUME PutsOK PROVE PutOK(r, "current", o, entry, bytes)
  <2>1. BytesIn(entry, Keys) <= bytes
    BY <1>1, <1>4 DEF PutsOK, PutOK, Putting
  <2>2. Others(entry, r) + o.old <= bytes
    BY <1>2, <1>3, <2>1, StoredSplit
  <2>. QED BY <2>2 DEF PutOK
<1>. QED BY <1>1, <1>2, <1>3, <1>4, PutMoves DEF Putting, Evicting

LEMMA ReadCurrentOK == ASSUME QInv, XInv', NEW r \in Requests, ReadCurrent(r) PROVE QInv'
<1>. DEFINE p == put[r]  o == [p EXCEPT !.current = bytes]
<1>1. /\ at[r] = "current" /\ put' = [put EXCEPT ![r] = o] /\ Goto(r, AfterCheck(p, bytes))
      /\ entry' = entry /\ bytes' = bytes /\ spoilt' = spoilt
  BY DEF ReadCurrent
<1>2. entry \in [Keys -> 0..MaxEntry] /\ bytes \in Nat /\ p \in PutRecord
  BY DEF QInv, QType
<1>3. o \in PutRecord /\ o.current = bytes /\ o.old = p.old /\ o.size = p.size
  BY <1>2 DEF PutRecord
<1>. HIDE DEF o
<1>4. AfterCheck(p, bytes) = AfterCheck(o, bytes) /\ AfterCheck(o, bytes) \in Putting \ Evicting
  BY <1>3 DEF AfterCheck, OverQuota, Putting, Evicting
<1>5. ASSUME PutsOK PROVE PutOK(r, AfterCheck(o, bytes), o, entry, bytes)
  <2>1. Others(entry, r) + o.old <= bytes
    BY <1>1, <1>3, <1>5 DEF PutsOK, PutOK, Putting
  <2>. QED BY <1>2, <1>3, <2>1, CheckLeavesRoom
<1>. QED BY <1>1, <1>2, <1>3, <1>4, <1>5, PutMoves DEF Putting, Evicting

LEMMA LowerBytesOK == ASSUME QInv, XInv', NEW r \in Requests, LowerBytes(r) PROVE QInv'
<1>. DEFINE p == put[r]
<1>1. /\ at[r] = "lower" /\ put' = put /\ Goto(r, AfterCheck(p, p.current))
      /\ entry' = entry /\ bytes' = p.current /\ spoilt' = spoilt
  BY DEF LowerBytes
<1>2. /\ entry \in [Keys -> 0..MaxEntry] /\ p \in PutRecord /\ p.current \in Nat
      /\ put = [put EXCEPT ![r] = p]
  BY PutFields DEF QInv, QType
<1>3. AfterCheck(p, p.current) \in Putting \ Evicting
  BY DEF AfterCheck, Putting, Evicting
<1>4. ASSUME PutsOK PROVE PutOK(r, AfterCheck(p, p.current), p, entry, p.current)
  <2>1. Others(entry, r) + p.old <= p.current
    BY <1>1, <1>4 DEF PutsOK, PutOK, Putting
  <2>. QED BY <1>2, <2>1, CheckLeavesRoom
<1>. QED BY <1>1, <1>2, <1>3, <1>4, PutMoves DEF Putting, Evicting

(* An empty index means that nothing is stored, and an entry fits alone. *)
LEMMA PickVictimOK ==
    ASSUME MaxEntry <= Quota, QInv, XInv', NEW r \in Requests, PickVictim(r) PROVE QInv'
<1>. DEFINE p == put[r]
<1>1. at[r] = "lru" /\ entry' = entry /\ bytes' = bytes /\ spoilt' = spoilt /\ idx' = idx
  BY DEF PickVictim
<1>2. /\ entry \in [Keys -> 0..MaxEntry] /\ bytes \in Nat /\ p \in PutRecord
      /\ put = [put EXCEPT ![r] = p] /\ p.size \in 0..MaxEntry
  BY PutFields DEF QInv, QType
<1>3. CASE idx = <<>>
  <2>1. Goto(r, "set") /\ put' = put
    BY <1>3 DEF PickVictim
  <2>2. ASSUME PutsOK, OnePut, spoilt' = {} PROVE PutOK(r, "set", p, entry, bytes)
    <3>1. Others(entry, r) + p.old <= bytes
      BY <1>1, <2>2 DEF PutsOK, PutOK, Putting
    <3>2. \A q \in Requests : at[q] # "zadd"
      BY <1>1, <2>2 DEF OnePut, Putting
    <3>3. IndexedBut
      BY <1>1, <2>2 DEF QInv, XInv
    <3>4. ASSUME NEW k \in Keys PROVE ~(entry[k] > 0)
      BY <1>3, <3>2, <3>3 DEF IndexedBut, Range
    <3>5. Held(entry, Keys \ {KeyOf[r]}) = {}
      <4>1. ASSUME NEW x \in Held(entry, Keys \ {KeyOf[r]}) PROVE FALSE
        <5>1. x[1] \in Keys /\ x[2] \in 1..MaxEntry /\ x[2] <= entry[x[1]]
          BY DEF Held
        <5>2. entry[x[1]] > 0
          BY <1>2, <5>1, ExactCacheAssumption
        <5>. QED BY <3>4, <5>1, <5>2
      <4>. QED BY <4>1
    <3>6. Others(entry, r) = 0
      BY <3>5, HeldFinite, FS_EmptySet DEF Others
    <3>7. Others(entry, r) + p.size <= Quota
      BY <1>2, <3>6, ExactCacheAssumption
    <3>. QED BY <3>1, <3>7 DEF PutOK
  <2>. QED BY <1>1, <1>2, <2>1, <2>2, PutMoves DEF Putting, Evicting
<1>4. CASE idx # <<>>
  <2>. DEFINE o == [p EXCEPT !.victim = Head(idx)]
  <2>1. Goto(r, "vsize") /\ put' = [put EXCEPT ![r] = o]
    BY <1>4 DEF PickVictim
  <2>2. Head(idx) \in Keys
    BY <1>4 DEF QInv, XInv, XType
  <2>3. o \in PutRecord /\ o.victim = Head(idx) /\ o.old = p.old /\ o.current = p.current
    BY <1>2, <2>2 DEF PutRecord
  <2>. HIDE DEF o
  <2>4. ASSUME PutsOK PROVE PutOK(r, "vsize", o, entry, bytes)
    <3>1. Others(entry, r) + p.old <= bytes /\ p.current = bytes
      BY <1>1, <2>4 DEF PutsOK, PutOK, Putting
    <3>. QED BY <2>2, <2>3, <3>1 DEF PutOK
  <2>5. o \in PutRecord /\ o.victim \in Keys
    BY <2>2, <2>3
  <2>. QED BY <1>1, <1>2, <2>1, <2>4, <2>5, PutMoves DEF Putting, Evicting
<1>. QED BY <1>3, <1>4

LEMMA ReadVictimOK == ASSUME QInv, XInv', NEW r \in Requests, ReadVictim(r) PROVE QInv'
<1>. DEFINE p == put[r]  v == p.victim  o == [p EXCEPT !.vsize = entry[v]]
<1>1. /\ at[r] = "vsize" /\ put' = [put EXCEPT ![r] = o] /\ Goto(r, "delete")
      /\ entry' = entry /\ bytes' = bytes /\ spoilt' = spoilt
  BY DEF ReadVictim
<1>2. entry \in [Keys -> 0..MaxEntry] /\ bytes \in Nat /\ p \in PutRecord /\ v \in Keys
  BY <1>1 DEF QInv, QType, VictimKnown, Evicting
<1>3. entry[v] \in 0..MaxEntry /\ entry[v] \in Nat
  BY <1>2, ExactCacheAssumption
<1>4. /\ o \in PutRecord /\ o.vsize = entry[v] /\ o.victim = v
      /\ o.old = p.old /\ o.current = p.current
  BY <1>2, <1>3 DEF PutRecord
<1>. HIDE DEF o
<1>5. ASSUME PutsOK PROVE PutOK(r, "delete", o, entry, bytes)
  <2>1. Others(entry, r) + p.old <= bytes /\ p.current = bytes
    BY <1>1, <1>5 DEF PutsOK, PutOK, Putting
  <2>2. v = KeyOf[r] /\ o.vsize = 0 => Spared(entry, r, v) + o.old + o.vsize <= o.current
    <3>1. ASSUME v = KeyOf[r], o.vsize = 0 PROVE Spared(entry, r, v) = Others(entry, r)
      <4>1. (Keys \ {KeyOf[r]}) \ {v} = Keys \ {KeyOf[r]}
        BY <3>1
      <4>. QED BY <4>1 DEF Spared, Others
    <3>. QED BY <1>2, <1>4, <2>1, <3>1, PutFields, StoredSplit
  <2>3. v # KeyOf[r] => Spared(entry, r, v) + o.old + o.vsize <= o.current
    <3>1. ASSUME v # KeyOf[r] PROVE Others(entry, r) = Spared(entry, r, v) + entry[v]
      <4>1. v \in Keys \ {KeyOf[r]}
        BY <1>2, <3>1
      <4>. QED BY <1>2, <4>1, BytesSplit DEF Spared, Others
    <3>2. Spared(entry, r, v) \in Nat
      BY HeldFinite DEF Spared
    <3>. QED BY <1>2, <1>3, <1>4, <2>1, <3>1, <3>2, PutFields
  <2>. QED BY <1>4, <2>2, <2>3 DEF PutOK
<1>. QED BY <1>1, <1>2, <1>4, <1>5, PutMoves DEF Putting, Evicting

LEMMA DeleteVictimOK == ASSUME QInv, XInv', NEW r \in Requests, DeleteVictim(r) PROVE QInv'
<1>. DEFINE p == put[r]  v == p.victim  K == KeyOf[r]  f == [entry EXCEPT ![v] = 0]
<1>1. /\ at[r] = "delete" /\ put' = put /\ Goto(r, "zrem") /\ entry' = f /\ bytes' = bytes
      /\ spoilt' = IF v = K /\ p.vsize > 0 THEN spoilt \cup {"own"} ELSE spoilt
  BY DEF DeleteVictim
<1>2. /\ entry \in [Keys -> 0..MaxEntry] /\ bytes \in Nat /\ p \in PutRecord /\ v \in Keys
      /\ put = [put EXCEPT ![r] = p] /\ p.vsize \in Nat
  BY <1>1, PutFields DEF QInv, QType, VictimKnown, Evicting
<1>3. /\ f \in [Keys -> 0..MaxEntry] /\ f[v] = 0
      /\ \A k \in Keys : f[k] \in Nat /\ entry[k] \in Nat /\ f[k] <= entry[k]
  BY <1>2, ExactCacheAssumption
<1>4. entry \in [Keys -> Nat] /\ f \in [Keys -> Nat]
  BY <1>2, <1>3
<1>. HIDE DEF f
<1>5. Others(f, r) <= Spared(entry, r, v)
  <2>1. BytesIn(f, (Keys \ {K}) \ {v}) <= BytesIn(entry, (Keys \ {K}) \ {v})
    BY <1>3, <1>4, BytesMonotone
  <2>2. CASE v = K
    <3>1. (Keys \ {K}) \ {v} = Keys \ {K}
      BY <2>2
    <3>. QED BY <2>1, <3>1 DEF Others, Spared
  <2>3. CASE v # K
    <3>1. v \in Keys \ {K}
      BY <1>2, <2>3
    <3>2. Others(f, r) = BytesIn(f, (Keys \ {K}) \ {v}) + 0
      BY <1>3, <3>1, BytesSplit DEF Others
    <3>3. BytesIn(f, (Keys \ {K}) \ {v}) \in Nat
      BY HeldFinite
    <3>. QED BY <2>1, <3>2, <3>3 DEF Spared
  <2>. QED BY <2>2, <2>3
<1>6. ASSUME PutsOK, spoilt' = {} PROVE PutOK(r, "zrem", p, f, bytes)
  <2>1. v = K => p.vsize = 0
    BY <1>1, <1>2, <1>6
  <2>2. Spared(entry, r, v) + p.old + p.vsize <= p.current
    BY <1>1, <1>6, <2>1 DEF PutsOK, PutOK, Putting
  <2>3. Others(f, r) \in Nat /\ Spared(entry, r, v) \in Nat
    BY HeldFinite DEF Others, Spared
  <2>4. Others(f, r) + p.old + p.vsize <= p.current
    BY <1>2, <1>5, <2>2, <2>3, PutFields
  <2>. QED BY <2>4 DEF PutOK
<1>7. spoilt \subseteq spoilt'
  BY <1>1
<1>. QED BY <1>1, <1>2, <1>3, <1>6, <1>7, PutMoves DEF Putting, Evicting

LEMMA RemoveVictimOK == ASSUME QInv, XInv', NEW r \in Requests, RemoveVictim(r) PROVE QInv'
<1>. DEFINE p == put[r]  n == NonNegative(p.current - p.vsize)
            o == [p EXCEPT !.current = n, !.victim = NoKey, !.vsize = 0]
<1>1. /\ at[r] = "zrem" /\ Goto(r, "lower") /\ entry' = entry /\ bytes' = bytes
      /\ spoilt' = spoilt
  BY DEF RemoveVictim
<1>2. put' = [put EXCEPT ![r] = o]
  BY DEF RemoveVictim
<1>3. entry \in [Keys -> 0..MaxEntry] /\ bytes \in Nat /\ p \in PutRecord
  BY DEF QInv, QType
<1>4. n \in Nat /\ n >= p.current - p.vsize
  BY <1>3, PutFields DEF NonNegative
<1>. HIDE DEF n
<1>5. o \in PutRecord /\ o.current = n /\ o.old = p.old
  <2>1. 0 \in 0..MaxEntry
    BY ExactCacheAssumption
  <2>. QED BY <1>3, <1>4, <2>1 DEF PutRecord
<1>. HIDE DEF o
<1>6. ASSUME PutsOK PROVE PutOK(r, "lower", o, entry, bytes)
  <2>1. Others(entry, r) + p.old + p.vsize <= p.current
    BY <1>1, <1>6 DEF PutsOK, PutOK, Putting
  <2>2. Others(entry, r) \in Nat
    BY HeldFinite DEF Others
  <2>3. Others(entry, r) + o.old <= o.current
    BY <1>3, <1>4, <1>5, <2>1, <2>2, PutFields
  <2>. QED BY <2>3 DEF PutOK
<1>. QED BY <1>1, <1>2, <1>3, <1>5, <1>6, PutMoves DEF Putting, Evicting

LEMMA SetEntryOK == ASSUME QInv, XInv', NEW r \in Requests, SetEntry(r) PROVE QInv'
<1>. DEFINE p == put[r]  K == KeyOf[r]  f == [entry EXCEPT ![K] = p.size]
<1>1. /\ at[r] = "set" /\ put' = put /\ Goto(r, "zadd") /\ entry' = f /\ bytes' = bytes
      /\ spoilt' = spoilt
  BY DEF SetEntry
<1>2. /\ entry \in [Keys -> 0..MaxEntry] /\ bytes \in Nat /\ p \in PutRecord /\ K \in Keys
      /\ put = [put EXCEPT ![r] = p] /\ p.size \in 0..MaxEntry /\ p.size \in Nat
  BY PutFields, ExactCacheAssumption DEF QInv, QType
<1>3. /\ f \in [Keys -> 0..MaxEntry] /\ f[K] = p.size
      /\ \A k \in Keys \ {K} : f[k] = entry[k]
  BY <1>2
<1>4. f \in [Keys -> Nat] /\ entry \in [Keys -> Nat]
  BY <1>2, <1>3, ExactCacheAssumption
<1>. HIDE DEF f
<1>5. Others(f, r) <= Others(entry, r)
  <2>1. \A k \in Keys \ {K} : f[k] <= entry[k]
    BY <1>3, <1>4
  <2>. QED BY <1>4, <2>1, BytesMonotone DEF Others
<1>6. ASSUME PutsOK PROVE PutOK(r, "zadd", p, f, bytes)
  <2>1. Others(entry, r) + p.old <= bytes /\ Others(entry, r) + p.size <= Quota
    BY <1>1, <1>6 DEF PutsOK, PutOK, Putting
  <2>2. Others(entry, r) \in Nat /\ Others(f, r) \in Nat
    BY HeldFinite DEF Others
  <2>3. Others(f, r) + p.old <= bytes /\ Others(f, r) + p.size <= Quota
    BY <1>2, <1>5, <2>1, <2>2, PutFields, ExactCacheAssumption
  <2>. QED BY <1>2, <1>3, <2>3 DEF PutOK
<1>. QED BY <1>1, <1>2, <1>3, <1>6, PutMoves DEF Putting, Evicting

LEMMA IndexEntryOK == ASSUME QInv, XInv', NEW r \in Requests, IndexEntry(r) PROVE QInv'
<1>. DEFINE p == put[r]
<1>1. /\ at[r] = "zadd" /\ put' = put /\ Goto(r, "reread") /\ entry' = entry
      /\ bytes' = bytes /\ spoilt' = spoilt
  BY DEF IndexEntry
<1>2. /\ entry \in [Keys -> 0..MaxEntry] /\ bytes \in Nat /\ p \in PutRecord
      /\ put = [put EXCEPT ![r] = p]
  BY DEF QInv, QType
<1>3. ASSUME PutsOK PROVE PutOK(r, "reread", p, entry, bytes)
  BY <1>1, <1>3 DEF PutsOK, PutOK, Putting
<1>. QED BY <1>1, <1>2, <1>3, PutMoves DEF Putting, Evicting

LEMMA RereadBytesOK == ASSUME QInv, XInv', NEW r \in Requests, RereadBytes(r) PROVE QInv'
<1>. DEFINE p == put[r]  o == [p EXCEPT !.current = bytes]
<1>1. /\ at[r] = "reread" /\ put' = [put EXCEPT ![r] = o] /\ Goto(r, "raise")
      /\ entry' = entry /\ bytes' = bytes /\ spoilt' = spoilt
  BY DEF RereadBytes
<1>2. entry \in [Keys -> 0..MaxEntry] /\ bytes \in Nat /\ p \in PutRecord
  BY DEF QInv, QType
<1>3. o \in PutRecord /\ o.current = bytes /\ o.old = p.old /\ o.size = p.size
  BY <1>2 DEF PutRecord
<1>. HIDE DEF o
<1>4. ASSUME PutsOK PROVE PutOK(r, "raise", o, entry, bytes)
  BY <1>1, <1>3, <1>4 DEF PutsOK, PutOK, Putting
<1>. QED BY <1>1, <1>2, <1>3, <1>4, PutMoves DEF Putting, Evicting

LEMMA NoPutType == NoPut \in PutRecord
  BY ExactCacheAssumption DEF NoPut, PutRecord

(* The put ends: the counter is raised by what it added. *)
LEMMA RaiseBytesOK == ASSUME QInv, XInv', NEW r \in Requests, RaiseBytes(r) PROVE QInv'
<1>. DEFINE p == put[r]
<1>1. /\ at[r] = "raise" /\ put' = [put EXCEPT ![r] = NoPut] /\ Goto(r, "done")
      /\ entry' = entry /\ bytes' = NonNegative(p.current + p.size - p.old) /\ spoilt' = spoilt
  BY DEF RaiseBytes, End
<1>2. entry \in [Keys -> 0..MaxEntry] /\ bytes \in Nat /\ p \in PutRecord
  BY DEF QInv, QType
<1>3. bytes' \in Nat /\ bytes' >= p.current + p.size - p.old
  BY <1>1, <1>2, PutFields DEF NonNegative
<1>4. QType'
  BY <1>1, <1>2, <1>3, NoPutType DEF QInv, QType
<1>5. DOMAIN at' = Requests /\ at'[r] = "done" /\ \A q \in Requests : q # r => at'[q] = at[q]
  BY <1>1 DEF Goto, QInv, XInv, XType
<1>6. VictimKnown'
  BY <1>1, <1>5 DEF QInv, QType, VictimKnown, Evicting
<1>7. ASSUME spoilt' = {} PROVE (QuotaHeld /\ PutsOK)'
  <2>1. PutsOK /\ OnePut
    BY <1>1, <1>7 DEF QInv, XInv
  <2>2. \A q \in Requests : at'[q] \notin Putting
    BY <1>1, <1>5, <2>1 DEF OnePut, Putting
  <2>3. /\ Others(entry, r) + p.old <= bytes /\ p.current = bytes
        /\ Others(entry, r) + p.size <= Quota /\ entry[KeyOf[r]] <= p.size
    BY <1>1, <2>1 DEF PutsOK, PutOK, Putting
  <2>4. BytesIn(entry, Keys) <= Quota /\ BytesIn(entry, Keys) <= bytes'
    BY <1>2, <1>3, <2>3, StoredSplit, PutFields, ExactCacheAssumption
  <2>. QED BY <1>1, <2>2, <2>4 DEF QuotaHeld, PutsOK, Stored
<1>. QED BY <1>4, <1>6, <1>7 DEF QInv

LEMMA AnswerArrivesOK == ASSUME QInv, XInv', NEW r \in Requests, AnswerArrives(r) PROVE QInv'
<1>1. PICK s \in Sizes :
        /\ IF s > MaxEntry THEN End(r)
           ELSE Goto(r, "old") /\ put' = [put EXCEPT ![r].size = s]
        /\ spoilt' = IF s <= MaxEntry /\ \E q \in Requests : at[q] \in Putting
                     THEN spoilt \cup {"overlap"} ELSE spoilt
  BY DEF AnswerArrives
<1>2. at[r] = "dispatch" /\ entry' = entry /\ bytes' = bytes
  BY DEF AnswerArrives
<1>3. PICK step \in {"old", "done"} :
        /\ Goto(r, step) /\ put' \in [Requests -> PutRecord]
        /\ step = "old" => s <= MaxEntry
        /\ \A q \in Requests : q # r => put'[q] = put[q]
  <2>1. CASE s > MaxEntry
    <3>1. Goto(r, "done") /\ put' = [put EXCEPT ![r] = NoPut]
      BY <1>1, <2>1 DEF End
    <3>. QED BY <3>1, NoPutType DEF QInv, QType
  <2>2. CASE ~(s > MaxEntry)
    <3>. DEFINE o == [put[r] EXCEPT !.size = s]
    <3>1. Goto(r, "old") /\ put' = [put EXCEPT ![r] = o]
      BY <1>1, <2>2
    <3>2. s \in 0..MaxEntry
      BY <2>2, ExactCacheAssumption
    <3>3. put[r] \in PutRecord
      BY DEF QInv, QType
    <3>4. o \in PutRecord
      BY <3>2, <3>3 DEF PutRecord
    <3>. HIDE DEF o
    <3>. QED BY <3>1, <3>2, <3>4 DEF QInv, QType
  <2>. QED BY <2>1, <2>2
<1>4. at'[r] = step /\ \A q \in Requests : q # r => at'[q] = at[q]
  BY <1>3 DEF Goto, QInv, XInv, XType
<1>5. QType'
  BY <1>2, <1>3 DEF QInv, QType
<1>6. VictimKnown'
  BY <1>3, <1>4 DEF QInv, VictimKnown, Evicting
<1>7. ASSUME spoilt' = {} PROVE (QuotaHeld /\ PutsOK)'
  <2>1. spoilt = {} /\ QuotaHeld /\ PutsOK
    BY <1>1, <1>7 DEF QInv
  <2>2. CASE step = "done"
    <3>1. QuotaHeld'
      BY <1>2, <1>4, <2>1, <2>2 DEF QuotaHeld, Quiet, Stored, Putting
    <3>2. PutsOK'
      BY <1>2, <1>3, <1>4, <2>1, <2>2 DEF PutsOK, Putting
    <3>. QED BY <3>1, <3>2
  <2>3. CASE step = "old"
    <3>1. \A q \in Requests : at[q] \notin Putting
      BY <1>1, <1>3, <1>7, <2>3
    <3>2. BytesIn(entry, Keys) <= bytes
      BY <2>1, <3>1 DEF QuotaHeld, Quiet, Stored
    <3>3. PutOK(r, "old", put'[r], entry, bytes)
      BY <3>2 DEF PutOK
    <3>4. PutsOK'
      BY <1>2, <1>4, <2>3, <3>1, <3>3 DEF PutsOK
    <3>5. ~Quiet'
      BY <1>4, <2>3 DEF Quiet, Putting
    <3>. QED BY <3>4, <3>5 DEF QuotaHeld
  <2>. QED BY <2>2, <2>3
<1>. QED BY <1>5, <1>6, <1>7 DEF QInv

(* A step outside the puts, or one that breaks a put off. *)
LEMMA OutsideOK ==
    ASSUME QInv, XInv', NEW r \in Requests, NEW step \in {"touch", "dispatch", "done"},
           Goto(r, step), put' \in [Requests -> PutRecord],
           \A q \in Requests : q # r => put'[q] = put[q],
           entry' = entry, bytes' = bytes, spoilt \subseteq spoilt',
           at[r] \in Putting => spoilt' # {}
    PROVE  QInv'
<1>1. at'[r] = step /\ \A q \in Requests : q # r => at'[q] = at[q]
  BY DEF Goto, QInv, XInv, XType
<1>2. QType'
  BY DEF QInv, QType
<1>3. VictimKnown'
  BY <1>1 DEF QInv, VictimKnown, Evicting
<1>4. ASSUME spoilt' = {} PROVE (QuotaHeld /\ PutsOK)'
  <2>1. spoilt = {} /\ QuotaHeld /\ PutsOK /\ at[r] \notin Putting
    BY <1>4 DEF QInv
  <2>2. QuotaHeld'
    BY <1>1, <2>1 DEF QuotaHeld, Quiet, Stored
  <2>3. PutsOK'
    BY <1>1, <2>1 DEF PutsOK, Putting
  <2>. QED BY <2>2, <2>3
<1>. QED BY <1>2, <1>3, <1>4 DEF QInv

LEMMA OutsideSteps ==
    ASSUME QInv, XInv', NEW r \in Requests,
           Lookup(r) \/ TouchHit(r) \/ NoAnswer(r) \/ BreakOff(r)
    PROVE  QInv'
<1>1. PICK step \in {"touch", "dispatch", "done"} : Goto(r, step)
  BY DEF Lookup, TouchHit, NoAnswer, BreakOff, End
<1>2. /\ put' \in [Requests -> PutRecord]
      /\ \A q \in Requests : q # r => put'[q] = put[q]
  BY NoPutType DEF Lookup, TouchHit, NoAnswer, BreakOff, End, QInv, QType
<1>3. entry' = entry /\ bytes' = bytes /\ spoilt \subseteq spoilt'
  BY DEF Lookup, TouchHit, NoAnswer, BreakOff
<1>4. at[r] \in Putting => spoilt' # {}
  BY DEF Lookup, TouchHit, NoAnswer, BreakOff, Putting
<1>. QED BY <1>1, <1>2, <1>3, <1>4, OutsideOK

LEMMA ExpireEntryOK == ASSUME QInv, XInv', NEW k \in Keys, ExpireEntry(k) PROVE QInv'
<1>. DEFINE f == [entry EXCEPT ![k] = 0]
<1>1. entry' = f /\ at' = at /\ put' = put /\ bytes' = bytes /\ spoilt' = spoilt
  BY DEF ExpireEntry
<1>2. entry \in [Keys -> 0..MaxEntry] /\ entry \in [Keys -> Nat]
  BY ExactCacheAssumption DEF QInv, QType
<1>3. /\ f \in [Keys -> 0..MaxEntry] /\ f \in [Keys -> Nat]
      /\ \A x \in Keys : f[x] \in Nat /\ entry[x] \in Nat /\ f[x] <= entry[x]
  BY <1>2, ExactCacheAssumption
<1>. HIDE DEF f
<1>4. ASSUME NEW keys \in SUBSET Keys
      PROVE  /\ BytesIn(f, keys) \in Nat /\ BytesIn(entry, keys) \in Nat
             /\ BytesIn(f, keys) <= BytesIn(entry, keys)
  BY <1>2, <1>3, BytesMonotone, HeldFinite
<1>5. QType' /\ VictimKnown'
  BY <1>1, <1>3 DEF QInv, QType, VictimKnown
<1>6. ASSUME spoilt = {} PROVE (QuotaHeld /\ PutsOK)'
  <2>1. QuotaHeld /\ PutsOK
    BY <1>6 DEF QInv
  <2>2. QuotaHeld'
    <3>1. CASE Quiet
      BY <1>1, <1>4, <1>6, <2>1, <3>1, ExactCacheAssumption DEF QuotaHeld, Stored, QInv, QType
    <3>2. CASE ~Quiet
      BY <1>1, <3>2 DEF QuotaHeld, Quiet
    <3>. QED BY <3>1, <3>2
  <2>3. ASSUME NEW r \in Requests, at[r] \in Putting
        PROVE  PutOK(r, at[r], put[r], f, bytes)
    <3>. DEFINE p == put[r]
    <3>1. PutOK(r, at[r], p, entry, bytes)
      BY <2>1, <2>3 DEF PutsOK
    <3>2. p \in PutRecord /\ bytes \in Nat /\ KeyOf[r] \in Keys
      BY ExactCacheAssumption DEF QInv, QType
    <3>3. /\ p.size \in Nat /\ p.old \in Nat /\ p.vsize \in Nat /\ p.current \in Nat
      BY <3>2, PutFields
    <3>4. BytesIn(f, Keys) <= BytesIn(entry, Keys)
          /\ BytesIn(f, Keys) \in Nat /\ BytesIn(entry, Keys) \in Nat
      BY <1>4
    <3>5. Others(f, r) <= Others(entry, r) /\ Others(f, r) \in Nat /\ Others(entry, r) \in Nat
      BY <1>4 DEF Others
    <3>6. Spared(f, r, p.victim) <= Spared(entry, r, p.victim)
          /\ Spared(f, r, p.victim) \in Nat /\ Spared(entry, r, p.victim) \in Nat
      BY <1>4 DEF Spared
    <3>. HIDE DEF p
    <3>7. f[KeyOf[r]] <= entry[KeyOf[r]] /\ f[KeyOf[r]] \in Nat /\ entry[KeyOf[r]] \in Nat
      BY <1>3, <3>2
    <3>8. at[r] = "old" => BytesIn(f, Keys) <= bytes
      BY <3>1, <3>2, <3>4 DEF PutOK
    <3>9. at[r] \in {"current", "lru", "vsize", "set", "zadd", "reread", "raise"} =>
            Others(f, r) + p.old <= bytes
      BY <3>1, <3>2, <3>3, <3>5 DEF PutOK
    <3>10. at[r] = "delete" /\ (p.victim = KeyOf[r] => p.vsize = 0) =>
             Spared(f, r, p.victim) + p.old + p.vsize <= p.current
      BY <3>1, <3>3, <3>6 DEF PutOK
    <3>11. /\ at[r] = "zrem" => Others(f, r) + p.old + p.vsize <= p.current
           /\ at[r] = "lower" => Others(f, r) + p.old <= p.current
      BY <3>1, <3>3, <3>5 DEF PutOK
    <3>12. at[r] \in {"set", "zadd", "reread", "raise"} => Others(f, r) + p.size <= Quota
      BY <3>1, <3>3, <3>5, ExactCacheAssumption DEF PutOK
    <3>13. at[r] \in {"zadd", "reread", "raise"} => f[KeyOf[r]] <= p.size
      BY <3>1, <3>3, <3>7 DEF PutOK
    <3>14. at[r] \in {"lru", "vsize", "raise"} => p.current = bytes
      BY <3>1 DEF PutOK
    <3>15. PutOK(r, at[r], p, f, bytes)
      BY <3>8, <3>9, <3>10, <3>11, <3>12, <3>13, <3>14 DEF PutOK
    <3>. QED BY <3>15 DEF p
  <2>4. PutsOK'
    BY <1>1, <2>3 DEF PutsOK
  <2>. QED BY <2>2, <2>4
<1>. QED BY <1>1, <1>5, <1>6 DEF QInv

(* Whatever the keys, sizes and requests, and without the fairness: if one  *)
(* entry fits into the quota, then as long as write-backs neither overlap   *)
(* nor break off nor evict what they overwrite, the organisation is within  *)
(* its quota between write-backs, and the counter never understates what is *)
(* stored, although entries expire behind its back.                         *)
THEOREM QuotaKept == ASSUME MaxEntry <= Quota PROVE CacheSpec => []QuotaHeld
<1>1. CacheInit => XInv
  BY DEF CacheInit, XInv, XType, OnePut, VictimIsGone, IndexedBut, Putting
<1>2. CacheInit => QInv
  <2>1. ASSUME CacheInit PROVE Held(entry, Keys) = {}
    BY <2>1, ExactCacheAssumption DEF CacheInit, Held
  <2>2. ASSUME CacheInit PROVE Stored = 0
    BY <2>1, <2>2, HeldFinite, FS_EmptySet DEF Stored
  <2>3. ASSUME CacheInit PROVE QType /\ VictimKnown /\ PutsOK
    BY <2>3, NoPutType, ExactCacheAssumption
       DEF CacheInit, QType, VictimKnown, Evicting, PutsOK, Putting
  <2>4. ASSUME CacheInit PROVE QuotaHeld
    BY <2>2, <2>4, ExactCacheAssumption DEF CacheInit, QuotaHeld
  <2>. QED BY <1>1, <2>3, <2>4 DEF QInv
<1>3. ASSUME QInv, CacheNext PROVE QInv'
  <2>1. XInv'
    BY <1>3, CacheStep DEF QInv
  <2>. QED BY <1>3, <2>1, OutsideSteps, AnswerArrivesOK, ReadOldOK, ReadCurrentOK, PickVictimOK,
           ReadVictimOK, DeleteVictimOK, RemoveVictimOK, LowerBytesOK, SetEntryOK, IndexEntryOK,
           RereadBytesOK, RaiseBytesOK, ExpireEntryOK DEF CacheNext, Serve, Put, Evict
<1>4. ASSUME QInv, UNCHANGED xvars PROVE QInv'
  BY <1>4 DEF xvars, QInv, QType, XInv, XType, OnePut, VictimIsGone, IndexedBut, VictimKnown,
              QuotaHeld, Quiet, Stored, PutsOK
<1>5. QInv /\ [CacheNext]_xvars => QInv'
  BY <1>3, <1>4
<1>6. QInv => QuotaHeld
  BY DEF QInv, QuotaHeld
<1>. QED BY <1>2, <1>5, <1>6, PTL DEF CacheSpec

-----------------------------------------------------------------------------
(* Routing: chains can be ordered, and what an ordered chain contains. *)

(* s lists n members of chain, none twice, the cheapest first. *)
Lists(in, s, n) ==
    \A i, j \in 1..n : i < j => s[i] # s[j] /\ Rank(in, s[i]) <= Rank(in, s[j])

LEMMA CheapestExists ==
    ASSUME NEW in, NEW chain \in SUBSET Offers, chain # {}
    PROVE  \E m \in chain : \A o \in chain : Rank(in, m) <= Rank(in, o)
<1>1. \A m \in chain : Rank(in, m) \in Nat
  BY RoutingAssumption DEF Rank
<1>. DEFINE R == {Rank(in, m) : m \in chain}
<1>2. R # {} /\ R \subseteq Nat
  BY <1>1
<1>3. PICK least \in R : \A n \in R : ~(<<n, least>> \in OpToRel(<, Nat))
  <2>. HIDE DEF R
  <2>. QED BY <1>2, WFMin, NatLessThanWellFounded
<1>4. PICK m \in chain : least = Rank(in, m)
  BY <1>3
<1>5. ASSUME NEW o \in chain PROVE Rank(in, m) <= Rank(in, o)
  <2>1. Rank(in, o) \in R /\ Rank(in, o) \in Nat /\ Rank(in, m) \in Nat
    BY <1>1
  <2>2. ~(Rank(in, o) < Rank(in, m))
    BY <1>3, <1>4, <2>1 DEF OpToRel
  <2>. QED BY <2>1, <2>2
<1>. QED BY <1>5

LEMMA PrependCheapest ==
    ASSUME NEW in, NEW chain \in SUBSET Offers, NEW n \in Nat,
           NEW m \in chain, \A o \in chain : Rank(in, m) <= Rank(in, o),
           NEW f \in [1..n -> chain \ {m}], Lists(in, f, n)
    PROVE  \E s \in [1..(n + 1) -> chain] : Lists(in, s, n + 1)
<1>. DEFINE s == [i \in 1..(n + 1) |-> IF i = 1 THEN m ELSE f[i - 1]]
<1>1. ASSUME NEW i \in 1..(n + 1), i # 1 PROVE i - 1 \in 1..n /\ f[i - 1] \in chain \ {m}
  <2>1. i - 1 \in 1..n
    BY <1>1
  <2>. QED BY <2>1
<1>2. s \in [1..(n + 1) -> chain]
  BY <1>1
<1>3. ASSUME NEW i \in 1..(n + 1), NEW j \in 1..(n + 1), i < j
      PROVE  s[i] # s[j] /\ Rank(in, s[i]) <= Rank(in, s[j])
  <2>1. j # 1
    BY <1>3
  <2>2. s[j] = f[j - 1] /\ j - 1 \in 1..n /\ f[j - 1] \in chain \ {m}
    BY <1>1, <2>1
  <2>3. CASE i = 1
    BY <2>2, <2>3
  <2>4. CASE i # 1
    <3>1. s[i] = f[i - 1] /\ i - 1 \in 1..n /\ i - 1 < j - 1
      BY <1>1, <1>3, <2>4
    <3>. QED BY <2>2, <3>1 DEF Lists
  <2>. QED BY <2>3, <2>4
<1>4. Lists(in, s, n + 1)
  BY <1>3 DEF Lists
<1>. QED BY <1>2, <1>4

(* By the least size of a chain that cannot be ordered. *)
LEMMA OrderExists ==
    ASSUME NEW in, NEW chain \in SUBSET Offers
    PROVE  \E s \in [1..Cardinality(chain) -> chain] : Lists(in, s, Cardinality(chain))
<1>. DEFINE Fails(c) == ~\E s \in [1..Cardinality(c) -> c] : Lists(in, s, Cardinality(c))
            Bad == {Cardinality(c) : c \in {d \in SUBSET Offers : Fails(d)}}
<1>1. \A c \in SUBSET Offers : IsFiniteSet(c) /\ Cardinality(c) \in Nat
  BY RoutingAssumption, FS_Subset, FS_CardinalityType
<1>2. SUFFICES ASSUME Fails(chain) PROVE FALSE
  OBVIOUS
<1>3. Bad # {} /\ Bad \subseteq Nat
  BY <1>1, <1>2
<1>4. PICK least \in Bad : \A n \in Bad : ~(<<n, least>> \in OpToRel(<, Nat))
  <2>. HIDE DEF Bad
  <2>. QED BY <1>3, WFMin, NatLessThanWellFounded
<1>5. PICK c \in SUBSET Offers : Fails(c) /\ Cardinality(c) = least
  BY <1>4
<1>6. c # {}
  <2>1. ASSUME c = {} PROVE FALSE
    <3>1. Cardinality(c) = 0
      BY <2>1, FS_EmptySet
    <3>2. [i \in {} |-> i] \in [1..0 -> c] /\ Lists(in, [i \in {} |-> i], 0)
      BY DEF Lists
    <3>. QED BY <1>5, <3>1, <3>2
  <2>. QED BY <2>1
<1>7. PICK m \in c : \A o \in c : Rank(in, m) <= Rank(in, o)
  BY <1>6, CheapestExists
<1>. DEFINE d == c \ {m}  n == Cardinality(d)
<1>8. n \in Nat /\ least = n + 1 /\ d \in SUBSET Offers
  <2>1. IsFiniteSet(c) /\ d \in SUBSET Offers
    BY <1>1
  <2>2. Cardinality(d) = Cardinality(c) - 1
    BY <1>7, <2>1, FS_RemoveElement
  <2>. QED BY <1>1, <1>5, <2>1, <2>2
<1>9. ~Fails(d)
  <2>1. ASSUME Fails(d) PROVE FALSE
    <3>1. n \in Bad
      BY <1>8, <2>1
    <3>2. ~(n < least)
      <4>. HIDE DEF Bad, n
      <4>. QED BY <1>3, <1>4, <1>8, <3>1 DEF OpToRel
    <3>. QED BY <1>8, <3>2
  <2>. QED BY <2>1
<1>10. PICK f \in [1..n -> d] : Lists(in, f, n)
  BY <1>9
<1>11. \E s \in [1..(n + 1) -> c] : Lists(in, s, n + 1)
  <2>. HIDE DEF n
  <2>. QED BY <1>7, <1>8, <1>10, PrependCheapest
<1>. QED BY <1>5, <1>8, <1>11

LEMMA OrderedChain ==
    ASSUME NEW in, NEW chain \in SUBSET Offers
    PROVE  /\ Ordered(in, chain) \in [1..Cardinality(chain) -> chain]
           /\ Range(Ordered(in, chain)) \subseteq chain
           /\ chain # {} => Head(Ordered(in, chain)) \in chain
<1>. DEFINE n == Cardinality(chain)
            Sorted(s) == \A i, j \in DOMAIN s :
                           i < j => s[i] # s[j] /\ Rank(in, s[i]) <= Rank(in, s[j])
<1>1. PICK s \in [1..n -> chain] : Lists(in, s, n)
  BY OrderExists
<1>2. Sorted(s)
  BY <1>1 DEF Lists
<1>3. Ordered(in, chain) \in [1..n -> chain]
  <2>1. Ordered(in, chain) = CHOOSE x \in [1..n -> chain] : Sorted(x)
    BY DEF Ordered
  <2>. HIDE DEF n, Sorted
  <2>. QED BY <1>2, <2>1
<1>4. Range(Ordered(in, chain)) \subseteq chain
  BY <1>3 DEF Range
<1>5. chain # {} => Head(Ordered(in, chain)) \in chain
  <2>1. IsFiniteSet(chain) /\ n \in Nat /\ (chain # {} => n # 0)
    BY RoutingAssumption, FS_Subset, FS_CardinalityType, FS_EmptySet
  <2>. HIDE DEF n
  <2>2. ASSUME NEW x \in [1..n -> chain], chain # {} PROVE Head(x) \in chain
    <3>1. Len(x) = n /\ 1 \in 1..n
      BY <2>1, <2>2
    <3>. QED BY <2>2, <3>1
  <2>. QED BY <1>3, <2>2
<1>. QED BY <1>3, <1>4, <1>5

(* What decide() returns for a clamped request. *)
LEMMA ClampedDecision ==
    ASSUME NEW t \in Turns, NEW in, NEW e,
           last' = Decide(t, in, e),
           IF in.pii THEN in.sensitivity = "local_only" ELSE ClampLocal(turn[t].sig)
    PROVE  /\ Range(last'.chain) \subseteq LocalModels
           /\ \/ last'.model \in LocalModels
              \/ last'.escalated /\ Target(in) # None
              \/ Vetoed(in)
              \/ \A m \in LocalModels : m \notin in.allowed \/ in.mode = "commercial_only"
<1>. DEFINE sig == turn[t].sig  C == Chain(in, sig)  final == PickFinal(in, sig, e)
<1>1. /\ last'.model = final /\ last'.escalated = e
      /\ last'.chain = Ordered(in, C \ {final})
  BY DEF Decide
<1>2. C = PolicyChain(in) \cap LocalModels /\ C \subseteq Offers
  BY DEF Chain, SensitivityMode, PolicyChain
<1>3. Range(last'.chain) \subseteq LocalModels
  <2>1. C \ {final} \in SUBSET Offers
    BY <1>2
  <2>. QED BY <1>1, <1>2, <2>1, OrderedChain
<1>4. CASE e /\ Target(in) # None
  BY <1>1, <1>3, <1>4
<1>5. CASE Vetoed(in)
  BY <1>3, <1>5
<1>6. CASE ~(e /\ Target(in) # None) /\ ~Vetoed(in)
  <2>1. CASE C # {}
    <3>1. \/ final = Chosen(in) /\ Chosen(in) \in C
          \/ final = Head(Ordered(in, C))
      BY <1>6, <2>1 DEF PickFinal
    <3>2. Head(Ordered(in, C)) \in C
      BY <1>2, <2>1, OrderedChain
    <3>. QED BY <1>1, <1>2, <1>3, <3>1, <3>2
  <2>2. CASE C = {}
    <3>1. ASSUME NEW m \in LocalModels PROVE m \notin in.allowed \/ in.mode = "commercial_only"
      BY <1>2, <2>2, RoutingAssumption DEF PolicyChain
    <3>. QED BY <1>3, <3>1
  <2>. QED BY <2>1, <2>2
<1>. QED BY <1>4, <1>5, <1>6

(* For any offers, costs, policies and requests: under personal data that   *)
(* must stay local, and under a nearly spent budget, every fallback is a    *)
(* local model, and so is the first choice, except in the three cases in    *)
(* which _pick_final passes the clamped chain by.                           *)
THEOREM ClampedStaysLocal == RouteSpec => []ClampHeld
<1>1. RouteInit => ClampHeld
  BY DEF RouteInit, ClampHeld, Decided, NoDecision
<1>2. ASSUME ClampHeld, [RouteNext]_rvars PROVE ClampHeld'
  <2>1. ASSUME last' = NoDecision PROVE ClampHeld'
    BY <2>1 DEF ClampHeld, Decided, NoDecision
  <2>2. ASSUME NEW t \in Turns, NEW e, Route(t, e) PROVE ClampHeld'
    <3>1. PICK in \in Inputs : last' = Decide(t, in, e)
      BY <2>2 DEF Route
    <3>2. last'.in = in /\ last'.sig = turn[t].sig
      BY <3>1 DEF Decide
    <3>. QED BY <3>1, <3>2, ClampedDecision DEF ClampHeld
  <2>3. ASSUME NEW t \in Turns,
               Arrive(t) \/ ReadSticky(t) \/ ReadFails(t) \/ Reset(t) \/ Mark(t) \/ WriteFails(t)
        PROVE  ClampHeld'
    BY <2>1, <2>3 DEF Arrive, ReadSticky, ReadFails, Reset, Mark, WriteFails, Proceed
  <2>4. ASSUME NEW t \in Turns, Judge(t) \/ Escalate(t) PROVE ClampHeld'
    BY <2>1, <2>2, <2>4 DEF Judge, Escalate, Proceed
  <2>5. ASSUME NEW s \in Sessions, Lapse(s) PROVE ClampHeld'
    BY <2>1, <2>5 DEF Lapse
  <2>6. CASE UNCHANGED rvars
    BY <1>2, <2>6 DEF rvars, ClampHeld, Decided
  <2>. QED BY <1>2, <2>3, <2>4, <2>5, <2>6 DEF RouteNext
<1>. QED BY <1>1, <1>2, PTL DEF RouteSpec

-----------------------------------------------------------------------------
(* Fleet: a placement that has passed the cap's check still has room. *)

Placing == {"find", "mark", "post", "track"}

(* There is room for m next to the models in R. *)
Room(m, R) == m \in Utility \/ m \in R \/ Cardinality(R) < ModelLimit

FType ==
    /\ placed \in [Deployments -> [Models -> {"none", "available", "removed"}]]
    /\ DOMAIN job = Jobs
    /\ IsFiniteSet(Registered)

OnePlacing == \A j, o \in Jobs : job[j] \in Placing /\ job[o] \in Placing => j = o

PlacingHasRoom == \A j \in Jobs : job[j] \in Placing => Room(ModelOf[j], Registered)

CapInv ==
    /\ FType
    /\ bypass \/ (Cardinality(Registered) <= ModelLimit /\ OnePlacing /\ PlacingHasRoom)

(* Removing models leaves room where there was some. *)
LEMMA Shrink ==
    ASSUME NEW R, IsFiniteSet(R), Cardinality(R) <= ModelLimit, NEW S \in SUBSET R
    PROVE  /\ IsFiniteSet(S) /\ Cardinality(S) <= ModelLimit
           /\ \A m : Room(m, R) => Room(m, S)
<1>1. IsFiniteSet(S) /\ Cardinality(S) \in Nat /\ Cardinality(R) \in Nat
      /\ Cardinality(S) <= Cardinality(R)
  BY FS_Subset, FS_CardinalityType
<1>2. Cardinality(S) <= ModelLimit
  BY <1>1, FleetAssumption
<1>3. ASSUME NEW m, Room(m, R), m \notin Utility, m \notin S PROVE Cardinality(S) < ModelLimit
  <2>1. CASE m \in R
    <3>1. S # R
      BY <1>3, <2>1
    <3>2. Cardinality(S) # Cardinality(R)
      BY <3>1, FS_Subset
    <3>. QED BY <1>1, <3>2, FleetAssumption
  <2>2. CASE Cardinality(R) < ModelLimit
    BY <1>1, <2>2, FleetAssumption
  <2>. QED BY <1>3, <2>1, <2>2 DEF Room
<1>. QED BY <1>1, <1>2, <1>3 DEF Room

(* A step that starts no placement and stores no model. *)
LEMMA NoNewModel ==
    ASSUME CapInv, DOMAIN job' = Jobs,
           placed' \in [Deployments -> [Models -> {"none", "available", "removed"}]],
           Registered' \subseteq Registered,
           \A j \in Jobs : job'[j] \in Placing => job[j] \in Placing,
           bypass' = bypass
    PROVE  CapInv'
<1>. DEFINE R == Registered  S == Registered'
<1>1. IsFiniteSet(R) /\ S \in SUBSET R
  BY DEF CapInv, FType
<1>2. IsFiniteSet(S)
  BY <1>1, FS_Subset
<1>3. FType'
  BY <1>2 DEF FType
<1>4. CASE bypass
  BY <1>3, <1>4 DEF CapInv
<1>5. CASE ~bypass
  <2>1. Cardinality(R) <= ModelLimit /\ OnePlacing /\ PlacingHasRoom
    BY <1>5 DEF CapInv
  <2>2. Cardinality(S) <= ModelLimit /\ \A m : Room(m, R) => Room(m, S)
    BY <1>1, <2>1, Shrink
  <2>3. OnePlacing'
    BY <2>1 DEF OnePlacing
  <2>4. ASSUME NEW j \in Jobs, job'[j] \in Placing PROVE Room(ModelOf[j], S)
    BY <2>1, <2>2, <2>4 DEF PlacingHasRoom
  <2>5. PlacingHasRoom'
    BY <2>4 DEF PlacingHasRoom, Room
  <2>. QED BY <1>3, <2>2, <2>3, <2>5 DEF CapInv
<1>. QED BY <1>4, <1>5

(* A step that changes no row of ollama_models. *)
LEMMA SameModels ==
    ASSUME CapInv, placed' = placed PROVE Registered' = Registered /\ FType /\
           placed' \in [Deployments -> [Models -> {"none", "available", "removed"}]]
  BY DEF CapInv, FType, Registered

(* A placement begins, checked or not. *)
LEMMA PlacementBegins ==
    ASSUME CapInv, NEW j \in Jobs, Step(j, "find"), placed' = placed,
           bypass' \/ (~bypass /\ WithinCap(ModelOf[j]) /\ ~Underway(j))
    PROVE  CapInv'
<1>1. FType'
  BY SameModels DEF FType, Step
<1>2. CASE bypass'
  BY <1>1, <1>2 DEF CapInv
<1>3. CASE ~bypass'
  <2>1. Cardinality(Registered) <= ModelLimit /\ OnePlacing /\ PlacingHasRoom
        /\ WithinCap(ModelOf[j]) /\ ~Underway(j)
    BY <1>3 DEF CapInv
  <2>2. \A o \in Jobs : job'[o] \in Placing => o = j
    BY <2>1 DEF Underway, Placing, Step, CapInv, FType
  <2>3. Registered' = Registered
    BY SameModels
  <2>4. OnePlacing'
    BY <2>2 DEF OnePlacing
  <2>5. Room(ModelOf[j], Registered')
    BY <2>1, <2>3 DEF WithinCap, Room
  <2>6. PlacingHasRoom'
    BY <2>2, <2>5 DEF PlacingHasRoom, Room
  <2>. QED BY <1>1, <2>1, <2>3, <2>4, <2>6 DEF CapInv
<1>. QED BY <1>2, <1>3

LEMMA TrackStep == ASSUME CapInv, NEW j \in Jobs, TrackModel(j) PROVE CapInv'
<1>. DEFINE R == Registered  S == Registered'  m == ModelOf[j]
<1>1. job[j] = "track" /\ job' = [job EXCEPT ![j] = "settle"] /\ bypass' = bypass
  BY DEF TrackModel, Step
<1>2. FType
  BY DEF CapInv
<1>3. CASE placed' = placed
  <2>1. DOMAIN job' = Jobs /\ \A o \in Jobs : job'[o] \in Placing => job[o] \in Placing
    BY <1>1, <1>2 DEF FType, Placing
  <2>. QED BY <1>1, <1>3, <2>1, SameModels, NoNewModel
<1>4. CASE placed' # placed
  <2>1. placed' = [placed EXCEPT ![on[j]][m] = "available"]
    BY <1>4 DEF TrackModel
  <2>2. placed' \in [Deployments -> [Models -> {"none", "available", "removed"}]]
    BY <1>2, <2>1 DEF FType
  <2>3. S \subseteq R \cup ({m} \ Utility)
    BY <1>2, <2>1 DEF FType, Registered
  <2>4. IsFiniteSet(R)
    BY <1>2 DEF FType
  <2>5. IsFiniteSet(R \cup {m}) /\ IsFiniteSet(S)
    <3>1. IsFiniteSet(R \cup {m})
      BY <2>4, FS_AddElement
    <3>. QED BY <2>3, <3>1, FS_Subset
  <2>6. FType'
    BY <1>1, <1>2, <2>2, <2>5 DEF FType
  <2>7. CASE bypass
    BY <1>1, <2>6, <2>7 DEF CapInv
  <2>8. CASE ~bypass
    <3>1. Cardinality(R) <= ModelLimit /\ OnePlacing /\ PlacingHasRoom
      BY <2>8 DEF CapInv
    <3>2. Room(m, R)
      BY <1>1, <3>1 DEF PlacingHasRoom, Placing
    <3>3. Cardinality(S) <= ModelLimit
      <4>1. CASE m \in Utility \/ m \in R
        <5>1. S \in SUBSET R
          BY <2>3, <4>1
        <5>. QED BY <2>4, <3>1, <5>1, Shrink
      <4>2. CASE m \notin R /\ Cardinality(R) < ModelLimit
        <5>1. Cardinality(R \cup {m}) = Cardinality(R) + 1
          BY <2>4, <4>2, FS_AddElement
        <5>2. Cardinality(S) <= Cardinality(R \cup {m})
          BY <2>3, <2>5, FS_Subset
        <5>3. Cardinality(S) \in Nat /\ Cardinality(R) \in Nat
          BY <2>4, <2>5, FS_CardinalityType
        <5>. QED BY <4>2, <5>1, <5>2, <5>3, FleetAssumption
      <4>. QED BY <3>2, <4>1, <4>2 DEF Room
    <3>4. \A o \in Jobs : job'[o] \notin Placing
      <4>1. ASSUME NEW o \in Jobs PROVE job'[o] \notin Placing
        <5>1. CASE o = j
          BY <1>1, <1>2, <5>1 DEF FType, Placing
        <5>2. CASE o # j
          BY <1>1, <1>2, <3>1, <5>2 DEF FType, Placing, OnePlacing
        <5>. QED BY <5>1, <5>2
      <4>. QED BY <4>1
    <3>5. OnePlacing' /\ PlacingHasRoom'
      BY <3>4 DEF OnePlacing, PlacingHasRoom
    <3>. QED BY <2>6, <3>3, <3>5 DEF CapInv
  <2>. QED BY <2>7, <2>8
<1>. QED BY <1>3, <1>4

LEMMA FleetStep == ASSUME CapInv, FleetNext PROVE CapInv'
<1>1. FType
  BY DEF CapInv
<1>2. ASSUME NEW j \in Jobs, EnforceModelCap(j) \/ BeginUncapped(j) PROVE CapInv'
  <2>1. placed' = placed
    BY <1>2 DEF EnforceModelCap, BeginUncapped
  <2>2. CASE Step(j, "find") /\ (bypass' \/ (~bypass /\ WithinCap(ModelOf[j]) /\ ~Underway(j)))
    BY <2>1, <2>2, PlacementBegins
  <2>3. CASE (Step(j, "failed") \/ Step(j, "done")) /\ bypass' = bypass
    <3>1. DOMAIN job' = Jobs /\ \A o \in Jobs : job'[o] \in Placing => job[o] \in Placing
      BY <1>1, <2>3 DEF FType, Placing, Step
    <3>. QED BY <2>1, <2>3, <3>1, SameModels, NoNewModel
  <2>. QED BY <1>2, <2>2, <2>3 DEF EnforceModelCap, BeginUncapped
<1>3. ASSUME NEW j \in Jobs,
             FindDeployment(j) \/ MarkPulling(j) \/ PullEnds(j) \/ SettlePull(j) \/ LosePull(j)
      PROVE  CapInv'
  <2>1. placed' = placed /\ bypass' = bypass
    BY <1>3 DEF FindDeployment, MarkPulling, PullEnds, SettlePull, LosePull
  <2>2. DOMAIN job' = Jobs /\ \A o \in Jobs : job'[o] \in Placing => job[o] \in Placing
    BY <1>1, <1>3 DEF FindDeployment, MarkPulling, PullEnds, SettlePull, LosePull, Step,
                      FType, Placing
  <2>. QED BY <2>1, <2>2, SameModels, NoNewModel
<1>4. ASSUME NEW j \in Jobs, TrackModel(j) PROVE CapInv'
  BY <1>4, TrackStep
<1>5. ASSUME NEW j \in Jobs, DeleteModels(j) PROVE CapInv'
  <2>1. PICK d \in Deployments : placed' = [placed EXCEPT ![d] = [m \in Models |-> "none"]]
    BY <1>5 DEF DeleteModels
  <2>2. placed' \in [Deployments -> [Models -> {"none", "available", "removed"}]]
    BY <1>1, <2>1 DEF FType
  <2>3. Registered' \subseteq Registered
    BY <1>1, <2>1 DEF FType, Registered
  <2>4. DOMAIN job' = Jobs /\ \A o \in Jobs : job'[o] \in Placing => job[o] \in Placing
    BY <1>1, <1>5 DEF DeleteModels, Step, FType, Placing
  <2>5. bypass' = bypass
    BY <1>5 DEF DeleteModels
  <2>. QED BY <2>2, <2>3, <2>4, <2>5, NoNewModel
<1>6. ASSUME NEW j \in Jobs, DeleteDeployment(j) PROVE CapInv'
  <2>1. placed' = placed /\ bypass' = bypass
    BY <1>6 DEF DeleteDeployment
  <2>2. DOMAIN job' = Jobs /\ \A o \in Jobs : job'[o] \in Placing => job[o] \in Placing
    BY <1>1, <1>6 DEF DeleteDeployment, Step, FType, Placing
  <2>. QED BY <2>1, <2>2, SameModels, NoNewModel
<1>7. ASSUME NEW d \in Deployments,
             CreateDeployment(d) \/ StartDeployment(d) \/ StopDeployment(d)
      PROVE  CapInv'
  <2>1. placed' = placed /\ bypass' = bypass /\ job' = job
    BY <1>7 DEF CreateDeployment, StartDeployment, StopDeployment
  <2>2. DOMAIN job' = Jobs /\ \A o \in Jobs : job'[o] \in Placing => job[o] \in Placing
    BY <1>1, <2>1 DEF FType
  <2>. QED BY <2>1, <2>2, SameModels, NoNewModel
<1>8. ASSUME NEW d \in Deployments, NEW m \in Models, RemoveModel(d, m) PROVE CapInv'
  <2>1. placed' = [placed EXCEPT ![d][m] = "removed"] /\ bypass' = bypass /\ job' = job
    BY <1>8 DEF RemoveModel
  <2>2. placed' \in [Deployments -> [Models -> {"none", "available", "removed"}]]
    BY <1>1, <2>1 DEF FType
  <2>3. Registered' \subseteq Registered
    BY <1>1, <2>1 DEF FType, Registered
  <2>4. DOMAIN job' = Jobs /\ \A o \in Jobs : job'[o] \in Placing => job[o] \in Placing
    BY <1>1, <2>1 DEF FType
  <2>. QED BY <2>1, <2>2, <2>3, <2>4, NoNewModel
<1>. QED BY <1>2, <1>3, <1>4, <1>5, <1>6, <1>7, <1>8 DEF FleetNext, Pull

(* The Free tier's cap on models holds for any fleet, any limit and any     *)
(* jobs, as long as every model came through place_model's check with no    *)
(* other placement under way and no licence: a removal between the check    *)
(* and the end of the download only makes more room.                        *)
THEOREM FreeModelsCapped == FleetSpec => []ModelCapHeld
<1>1. FleetInit => CapInv
  <2>1. ASSUME FleetInit PROVE Registered = {}
    BY <2>1 DEF FleetInit, Registered
  <2>2. IsFiniteSet({}) /\ Cardinality({}) = 0
    BY FS_EmptySet
  <2>3. ASSUME FleetInit PROVE OnePlacing /\ PlacingHasRoom
    BY <2>3 DEF FleetInit, OnePlacing, PlacingHasRoom, Placing
  <2>4. ASSUME FleetInit PROVE FType
    BY <2>1, <2>2, <2>4 DEF FleetInit, FType
  <2>5. ASSUME FleetInit PROVE Cardinality(Registered) <= ModelLimit
    BY <2>1, <2>2, <2>5, FleetAssumption
  <2>. QED BY <2>3, <2>4, <2>5 DEF CapInv
<1>2. ASSUME CapInv, UNCHANGED fvars PROVE CapInv'
  <2>1. placed' = placed /\ bypass' = bypass /\ job' = job
    BY <1>2 DEF fvars
  <2>2. DOMAIN job' = Jobs /\ \A o \in Jobs : job'[o] \in Placing => job[o] \in Placing
    BY <1>2, <2>1 DEF CapInv, FType
  <2>. QED BY <1>2, <2>1, <2>2, SameModels, NoNewModel
<1>3. CapInv /\ [FleetNext]_fvars => CapInv'
  BY <1>2, FleetStep
<1>4. CapInv => ModelCapHeld
  BY DEF CapInv, ModelCapHeld
<1>. QED BY <1>1, <1>3, <1>4, PTL DEF FleetSpec

(* The rows of ollama_models always belong to a deployment that exists, for *)
(* any fleet: deleting a deployment fails while it has models, and a pull   *)
(* that outlives its deployment stores nothing.                             *)
THEOREM ModelsHaveADeployment == FleetSpec => []NoOrphans
<1>. DEFINE Row == [Deployments -> [Models -> {"none", "available", "removed"}]]
            OrphanInv == placed \in Row /\ DOMAIN dep = Deployments /\ NoOrphans
<1>1. FleetInit => OrphanInv
  BY DEF FleetInit, NoOrphans, Live
<1>2. ASSUME OrphanInv, [FleetNext]_fvars PROVE OrphanInv'
  <2>. USE DEF NoOrphans, Live
  <2>1. ASSUME placed' = placed, DOMAIN dep' = Deployments,
               \A d \in Deployments : dep[d] # "none" => dep'[d] # "none"
        PROVE  OrphanInv'
    BY <1>2, <2>1
  <2>2. ASSUME NEW j \in Jobs, EnforceModelCap(j) \/ BeginUncapped(j) \/ FindDeployment(j)
                               \/ PullEnds(j) \/ LosePull(j)
        PROVE  OrphanInv'
    BY <1>2, <2>1, <2>2 DEF EnforceModelCap, BeginUncapped, FindDeployment, PullEnds, LosePull
  <2>3. ASSUME NEW j \in Jobs, MarkPulling(j) \/ SettlePull(j) PROVE OrphanInv'
    BY <1>2, <2>1, <2>3 DEF MarkPulling, SettlePull, SetStatus
  <2>4. ASSUME NEW j \in Jobs, TrackModel(j) PROVE OrphanInv'
    BY <1>2, <2>4 DEF TrackModel
  <2>5. ASSUME NEW j \in Jobs, DeleteModels(j) PROVE OrphanInv'
    BY <1>2, <2>5 DEF DeleteModels
  <2>6. ASSUME NEW j \in Jobs, DeleteDeployment(j) PROVE OrphanInv'
    BY <1>2, <2>6 DEF DeleteDeployment, Deletable
  <2>7. ASSUME NEW d \in Deployments,
               CreateDeployment(d) \/ StartDeployment(d) \/ StopDeployment(d)
        PROVE  OrphanInv'
    BY <1>2, <2>1, <2>7 DEF CreateDeployment, StartDeployment, StopDeployment, SetStatus
  <2>8. ASSUME NEW d \in Deployments, NEW m \in Models, RemoveModel(d, m) PROVE OrphanInv'
    BY <1>2, <2>8 DEF RemoveModel
  <2>9. CASE UNCHANGED fvars
    BY <1>2, <2>1, <2>9 DEF fvars
  <2>. QED BY <1>2, <2>2, <2>3, <2>4, <2>5, <2>6, <2>7, <2>8, <2>9 DEF FleetNext, Pull
<1>3. OrphanInv => NoOrphans
  OBVIOUS
<1>. QED BY <1>1, <1>2, <1>3, PTL DEF FleetSpec

-----------------------------------------------------------------------------
(* Routing: why a request of a new conversation is on its way to escalate. *)

RouteSteps == {"waiting", "sticky", "judge", "reset", "touch", "mark", "stay"}

TurnRecord == [at : RouteSteps, sig : Signals \cup {None}, fresh : BOOLEAN,
               policy : DeEscalations \cup {None}]

RType == turn \in [Turns -> TurnRecord]

Resets(t, x) == SessionOf[t] # None => x.policy = "idle_reset"

FreshOK(t, x) ==
    /\ x.at = "mark" => ShouldEscalate(x.sig)
    /\ x.fresh /\ Resets(t, x) => /\ x.at # "touch"
                                  /\ x.at = "stay" => ShouldEscalate(x.sig)

FreshInv == FreshStartsClean /\ \A t \in Turns : FreshOK(t, turn[t])

(* A step that decides nothing and takes one request on. *)
LEMMA FreshProceeds ==
    ASSUME RType, FreshInv, NEW t \in Turns, NEW step \in RouteSteps, Proceed(t, step),
           FreshOK(t, [turn[t] EXCEPT !.at = step])
    PROVE  RType' /\ FreshInv'
<1>0. RType'
  <2>1. turn' = [turn EXCEPT ![t] = [turn[t] EXCEPT !.at = step]]
    BY DEF Proceed, RType, TurnRecord
  <2>2. [turn[t] EXCEPT !.at = step] \in TurnRecord
    BY DEF RType, TurnRecord
  <2>. QED BY <2>1, <2>2 DEF RType
<1>1. turn' = [turn EXCEPT ![t] = [turn[t] EXCEPT !.at = step]] /\ last' = NoDecision
  BY DEF Proceed, RType, TurnRecord
<1>2. \A u \in Turns : FreshOK(u, turn'[u])
  BY <1>1 DEF FreshInv, RType
<1>3. FreshStartsClean'
  BY <1>1 DEF FreshStartsClean, Decided, NoDecision
<1>. QED BY <1>0, <1>2, <1>3 DEF FreshInv, FreshOK, Resets

LEMMA FreshFields ==
    ASSUME RType, NEW t \in Turns, NEW step
    PROVE  LET x == [turn[t] EXCEPT !.at = step] IN
           /\ x.at = step /\ x.sig = turn[t].sig /\ x.fresh = turn[t].fresh
           /\ x.policy = turn[t].policy
<1>1. turn[t] \in TurnRecord BY DEF RType
<1>. QED BY <1>1 DEF TurnRecord

LEMMA FreshStep ==
    ASSUME RType, FreshInv, NEW t \in Turns,
           \/ ReadSticky(t) \/ ReadFails(t) \/ Reset(t) \/ Mark(t) \/ WriteFails(t)
    PROVE  RType' /\ FreshInv'
<1>. USE DEF RouteSteps, Resets
<1>1. FreshOK(t, turn[t]) BY DEF FreshInv
<1>2. ASSUME Proceed(t, "judge") \/ Proceed(t, "reset") PROVE RType' /\ FreshInv'
  BY <1>2, FreshFields, FreshProceeds DEF FreshOK
<1>3. CASE ReadSticky(t)
  <2>1. CASE Proceed(t, "stay") /\ SessionOf[t] # None /\ turn[t].policy = "never"
    BY <2>1, FreshFields, FreshProceeds DEF FreshOK
  <2>2. CASE Proceed(t, "touch") /\ ~turn[t].fresh
    BY <2>2, FreshFields, FreshProceeds DEF FreshOK
  <2>. QED BY <1>2, <1>3, <2>1, <2>2 DEF ReadSticky
<1>4. CASE ReadFails(t) BY <1>2, <1>4 DEF ReadFails
<1>5. CASE Reset(t) BY <1>2, <1>5 DEF Reset
<1>6. ASSUME turn[t].at \in {"touch", "mark"}, Proceed(t, "stay") PROVE RType' /\ FreshInv'
  BY <1>1, <1>6, FreshFields, FreshProceeds DEF FreshOK
<1>7. CASE Mark(t) BY <1>6, <1>7 DEF Mark
<1>8. CASE WriteFails(t) BY <1>2, <1>6, <1>8 DEF WriteFails
<1>. QED BY <1>3, <1>4, <1>5, <1>7, <1>8

(* The decision: one that escalates a new conversation was judged to. *)
LEMMA FreshDecides ==
    ASSUME RType, FreshInv, NEW t \in Turns, NEW e, Route(t, e),
           e /\ turn[t].fresh /\ Resets(t, turn[t]) => ShouldEscalate(turn[t].sig)
    PROVE  RType' /\ FreshInv'
<1>1. PICK in \in Inputs : last' = Decide(t, in, e)
  BY DEF Route
<1>2. /\ last'.sig = turn[t].sig /\ last'.escalated = e /\ last'.fresh = turn[t].fresh
      /\ last'.policy = turn[t].policy /\ last'.session = SessionOf[t]
  BY <1>1 DEF Decide
<1>3. FreshStartsClean'
  BY <1>2 DEF FreshStartsClean, Resets, ShouldEscalate, Pressure, ThresholdDelta
<1>4. turn' = [turn EXCEPT ![t] = Waiting] BY DEF Route
<1>5. FreshOK(t, Waiting) /\ Waiting \in TurnRecord
  BY DEF FreshOK, Waiting, TurnRecord, RouteSteps
<1>6. RType' BY <1>4, <1>5 DEF RType
<1>7. \A u \in Turns : FreshOK(u, turn'[u])
  BY <1>4, <1>5 DEF FreshInv, RType
<1>. QED BY <1>3, <1>6, <1>7 DEF FreshInv, FreshOK, Resets

(* Under idle_reset a request that begins a new conversation is escalated   *)
(* for a reason of its own only, for any requests and sessions: whatever    *)
(* another request of the session writes between its GET and its decision,  *)
(* it does not inherit the other's escalation.                              *)
THEOREM FreshNotInherited == RouteSpec => []FreshStartsClean
<1>1. RouteInit => RType /\ FreshInv
  BY DEF RouteInit, RType, TurnRecord, RouteSteps, Waiting,
         FreshInv, FreshStartsClean, Decided, NoDecision, FreshOK
<1>2. ASSUME RType, FreshInv, [RouteNext]_rvars PROVE RType' /\ FreshInv'
  <2>1. ASSUME last' = NoDecision, turn' = turn PROVE RType' /\ FreshInv'
    BY <1>2, <2>1 DEF RType, FreshInv, FreshStartsClean, Decided, NoDecision, FreshOK, Resets
  <2>2. ASSUME NEW t \in Turns, Arrive(t) PROVE RType' /\ FreshInv'
    <3>1. PICK sig \in Signals, fresh \in BOOLEAN, policy \in DeEscalations :
            turn' = [turn EXCEPT ![t] = [at |-> "sticky", sig |-> sig, fresh |-> fresh,
                                         policy |-> policy]]
      BY <2>2 DEF Arrive
    <3>. DEFINE x == [at |-> "sticky", sig |-> sig, fresh |-> fresh, policy |-> policy]
    <3>2. FreshOK(t, x) /\ x \in TurnRecord BY DEF FreshOK, TurnRecord, RouteSteps
    <3>. HIDE DEF x
    <3>3. turn' = [turn EXCEPT ![t] = x] BY <3>1 DEF x
    <3>4. RType' /\ \A u \in Turns : FreshOK(u, turn'[u]) BY <1>2, <3>2, <3>3 DEF FreshInv, RType
    <3>5. FreshStartsClean' BY <2>2 DEF Arrive, FreshStartsClean, Decided, NoDecision
    <3>. QED BY <3>4, <3>5 DEF FreshInv, FreshOK, Resets
  <2>3. ASSUME NEW t \in Turns, Judge(t) PROVE RType' /\ FreshInv'
    <3>1. CASE ~ShouldEscalate(turn[t].sig)
      BY <1>2, <2>3, <3>1, FreshDecides DEF Judge
    <3>2. CASE ShouldEscalate(turn[t].sig)
      <4>1. PICK step \in {"stay", "mark"} : Proceed(t, step) BY <2>3, <3>2 DEF Judge
      <4>. QED BY <1>2, <3>2, <4>1, FreshFields, FreshProceeds DEF FreshOK, RouteSteps
    <3>. QED BY <3>1, <3>2
  <2>4. ASSUME NEW t \in Turns, Escalate(t) PROVE RType' /\ FreshInv'
    BY <1>2, <2>4, FreshDecides DEF Escalate, FreshInv, FreshOK
  <2>5. ASSUME NEW s \in Sessions, Lapse(s) PROVE RType' /\ FreshInv'
    BY <2>1, <2>5 DEF Lapse
  <2>6. CASE UNCHANGED rvars
    BY <1>2, <2>6 DEF rvars, RType, FreshInv, FreshStartsClean, Decided, FreshOK, Resets
  <2>. QED BY <1>2, <2>2, <2>3, <2>4, <2>5, <2>6, FreshStep DEF RouteNext
<1>3. FreshInv => FreshStartsClean BY DEF FreshInv
<1>. QED BY <1>1, <1>2, <1>3, PTL DEF RouteSpec

-----------------------------------------------------------------------------
(* Fleet: why a deployment is "pulling". *)

Busy == {"post", "track", "settle"}

PullInv ==
    /\ DOMAIN dep = Deployments /\ DOMAIN job = Jobs /\ DOMAIN on = Jobs
    /\ PullingIsUnderway

(* Steps that change no status to "pulling" and take no job from its pull. *)
LEMMA PullsGoOn ==
    ASSUME PullInv, DOMAIN dep' = Deployments, DOMAIN job' = Jobs, DOMAIN on' = Jobs,
           crashed \subseteq crashed',
           \A d \in Deployments : dep'[d] = "pulling" => dep[d] = "pulling",
           \A j \in Jobs : job[j] \in Busy => on'[j] = on[j] /\ job'[j] \in Busy
    PROVE  PullInv'
  BY DEF PullInv, PullingIsUnderway, Busy

LEMMA PullInvStep == ASSUME PullInv, FleetNext PROVE PullInv'
<1>. USE DEF PullInv, Step, SetStatus, Live, Busy
<1>1. ASSUME NEW j \in Jobs,
             \/ EnforceModelCap(j) \/ BeginUncapped(j) \/ FindDeployment(j)
             \/ PullEnds(j) \/ TrackModel(j) \/ DeleteModels(j)
      PROVE  PullInv'
  BY <1>1, PullsGoOn
     DEF EnforceModelCap, BeginUncapped, FindDeployment, PullEnds, TrackModel, DeleteModels
<1>2. ASSUME NEW j \in Jobs, MarkPulling(j) PROVE PullInv'
  BY <1>2 DEF MarkPulling, PullingIsUnderway
<1>3. ASSUME NEW j \in Jobs, SettlePull(j) PROVE PullInv'
  BY <1>3 DEF SettlePull, PullingIsUnderway
<1>4. ASSUME NEW j \in Jobs, LosePull(j) PROVE PullInv'
  BY <1>4 DEF LosePull, PullingIsUnderway
<1>5. ASSUME NEW j \in Jobs, DeleteDeployment(j) PROVE PullInv'
  BY <1>5, PullsGoOn DEF DeleteDeployment
<1>6. ASSUME NEW d \in Deployments,
             \/ CreateDeployment(d) \/ StartDeployment(d) \/ StopDeployment(d)
             \/ \E m \in Models : RemoveModel(d, m)
      PROVE  PullInv'
  BY <1>6, PullsGoOn DEF CreateDeployment, StartDeployment, StopDeployment, RemoveModel
<1>. QED BY <1>1, <1>2, <1>3, <1>4, <1>5, <1>6 DEF FleetNext, Pull

(* The safety core of PullSettles, for any fleet and jobs: a deployment in  *)
(* "pulling" has a pull that will settle it, unless a process died during   *)
(* one.  No other order of placements, pulls, stops, deletions and          *)
(* creations leaves the status behind.                                      *)
THEOREM PullingHasAPull == FleetSpec => []PullingIsUnderway
<1>1. FleetInit => PullInv
  BY DEF FleetInit, PullInv, PullingIsUnderway
<1>2. PullInv /\ UNCHANGED fvars => PullInv'
  BY DEF fvars, PullInv, PullingIsUnderway
<1>3. PullInv /\ [FleetNext]_fvars => PullInv'
  BY <1>2, PullInvStep
<1>4. PullInv => PullingIsUnderway BY DEF PullInv
<1>. QED BY <1>1, <1>3, <1>4, PTL DEF FleetSpec
-----------------------------------------------------------------------------
(* Fleet: a job works on a deployment of the fleet. *)

OnTheFleet ==
    \A j \in Jobs : job[j] \notin {"new", "find", "done", "failed"} => on[j] \in Deployments

Places == FleetTypeOK /\ DOMAIN job = Jobs /\ DOMAIN on = Jobs

LEMMA StatusTyped ==
    ASSUME dep \in [Deployments -> Statuses], NEW d \in Deployments, NEW s \in Statuses,
           SetStatus(d, s)
    PROVE  dep' \in [Deployments -> Statuses]
BY DEF SetStatus

LEMMA JobTyped ==
    ASSUME Places, NEW j \in Jobs, Pull(j) \/ LosePull(j) \/ DeleteModels(j) \/ DeleteDeployment(j)
    PROVE  Places'
<1>1. FleetTypeOK /\ DOMAIN job = Jobs /\ DOMAIN on = Jobs
  BY DEF Places
<1>2. DOMAIN job' = Jobs /\ DOMAIN on' = Jobs
  BY <1>1 DEF Pull, FindDeployment, MarkPulling, PullEnds, TrackModel, SettlePull, LosePull,
              DeleteModels, DeleteDeployment, Step
<1>3. dep' \in [Deployments -> Statuses]
  <2>1. "pulling" \in Statuses /\ "running" \in Statuses /\ "none" \in Statuses
    BY DEF Statuses
  <2>2. job[j] \in {"mark", "settle", "delete"} => on[j] \in Deployments
    BY <1>1 DEF FleetTypeOK
  <2>. QED BY <1>1, <2>1, <2>2, StatusTyped
           DEF FleetTypeOK, Pull, FindDeployment, MarkPulling, PullEnds, TrackModel, SettlePull,
               LosePull, DeleteModels, DeleteDeployment
<1>4. placed' \in [Deployments -> [Models -> {"none", "available", "removed"}]]
  <2>1. CASE TrackModel(j)
    <3>1. on[j] \in Deployments
      BY <1>1, <2>1 DEF TrackModel, FleetTypeOK
    <3>. QED BY <1>1, <2>1, <3>1 DEF TrackModel, FleetTypeOK
  <2>2. CASE DeleteModels(j)
    BY <1>1, <2>2 DEF DeleteModels, FleetTypeOK
  <2>3. CASE placed' = placed
    BY <1>1, <2>3 DEF FleetTypeOK
  <2>. QED BY <2>1, <2>2, <2>3
           DEF Pull, FindDeployment, MarkPulling, PullEnds, SettlePull, LosePull, DeleteDeployment
<1>5. crashed' \subseteq Deployments /\ bypass' \in BOOLEAN
  BY <1>1 DEF FleetTypeOK, Pull, FindDeployment, MarkPulling, PullEnds, TrackModel, SettlePull,
              LosePull, DeleteModels, DeleteDeployment
<1>6. OnTheFleet'
  <2> SUFFICES ASSUME NEW o \in Jobs, job'[o] \notin {"new", "find", "done", "failed"}
               PROVE  on'[o] \in Deployments
    BY DEF OnTheFleet
  <2>1. CASE FindDeployment(j) \/ DeleteModels(j)
    BY <1>1, <2>1 DEF FindDeployment, DeleteModels, Step, FleetTypeOK
  <2>2. CASE MarkPulling(j) \/ PullEnds(j) \/ TrackModel(j) \/ SettlePull(j) \/ LosePull(j)
             \/ DeleteDeployment(j)
    BY <1>1, <2>2 DEF MarkPulling, PullEnds, TrackModel, SettlePull, LosePull, DeleteDeployment,
                      Step, FleetTypeOK
  <2>. QED BY <2>1, <2>2 DEF Pull
<1>7. FleetTypeOK'
  BY <1>3, <1>4, <1>5, <1>6 DEF FleetTypeOK, OnTheFleet
<1>. QED BY <1>2, <1>7 DEF Places

(* Type correctness of the fleet, for any deployments, models and jobs, and *)
(* a job that has found its deployment works on one of the fleet.           *)
THEOREM FleetTyped == FleetSpec => []FleetTypeOK
<1>1. FleetInit => Places
  <2> SUFFICES ASSUME FleetInit PROVE Places
    OBVIOUS
  <2>1. dep \in [Deployments -> Statuses]
    BY DEF FleetInit, Statuses
  <2>2. placed \in [Deployments -> [Models -> {"none", "available", "removed"}]]
    BY DEF FleetInit
  <2>3. \A j \in Jobs : job[j] = "new"
    BY DEF FleetInit
  <2>4. crashed = {} /\ bypass \in BOOLEAN /\ DOMAIN job = Jobs /\ DOMAIN on = Jobs
    BY DEF FleetInit
  <2>. QED BY <2>1, <2>2, <2>3, <2>4 DEF Places, FleetTypeOK
<1>2. Places /\ [FleetNext]_fvars => Places'
  <2> SUFFICES ASSUME Places, [FleetNext]_fvars PROVE Places'
    OBVIOUS
  <2>1. ASSUME NEW j \in Jobs, EnforceModelCap(j) \/ BeginUncapped(j) PROVE Places'
    BY <2>1 DEF EnforceModelCap, BeginUncapped, Step, Places, FleetTypeOK
  <2>2. ASSUME NEW d \in Deployments, CreateDeployment(d) \/ StartDeployment(d) \/ StopDeployment(d)
        PROVE  Places'
    <3>1. "unknown" \in Statuses /\ "running" \in Statuses /\ "stopped" \in Statuses
      BY DEF Statuses
    <3>2. dep' \in [Deployments -> Statuses]
      BY <2>2, <3>1, StatusTyped
         DEF CreateDeployment, StartDeployment, StopDeployment, Places, FleetTypeOK
    <3>. QED BY <2>2, <3>2
             DEF CreateDeployment, StartDeployment, StopDeployment, Places, FleetTypeOK
  <2>3. ASSUME NEW d \in Deployments, NEW m \in Models, RemoveModel(d, m) PROVE Places'
    BY <2>3 DEF RemoveModel, Places, FleetTypeOK
  <2>4. CASE UNCHANGED fvars
    BY <2>4 DEF fvars, Places, FleetTypeOK
  <2>. QED BY <2>1, <2>2, <2>3, <2>4, JobTyped DEF FleetNext
<1>3. Places => FleetTypeOK
  BY DEF Places
<1>. QED BY <1>1, <1>2, <1>3, PTL DEF FleetSpec

-----------------------------------------------------------------------------
(* BedrockStream: what is in the queue, and who will resume the coroutine.  *)

(* The reader still has to come to the closing item. *)
Open == why = "open"

(* Only the last item closes; it is there from its put until the reader     *)
(* takes it, and the thread puts none after it.                            *)
ClosingIsLast ==
    /\ \A i \in 1..Len(queue) - 1 : queue[i] = "delta"
    /\ Closed => closing /\ thread # "read"
    /\ thread \in {"returning", "over"} => closing
    /\ closing => thread # "read"
    /\ closing /\ Open => Closed
    /\ why \in {"complete", "error"} => queue = <<>> /\ closing

(* A coroutine that waits has a getter in the queue or was resumed; the     *)
(* loop sleeps only over one that has nothing to do.                       *)
ReaderStands ==
    /\ Open <=> reader \in {"get", "register", "wait"}
    /\ reader = "wait" => getter \/ ready
    /\ getter \/ ready => reader = "wait"
    /\ getter => ~ready
    /\ asleep => \/ reader = "wait" /\ (ready => thread # "over")
                 \/ reader = "finally" /\ thread # "over"

StreamInv == StreamTypeOK /\ ClosingIsLast /\ ReaderStands

LEMMA PutItemKeeps ==
    ASSUME StreamInv, NEW item \in {"delta", "end", "error"}, PutItem(item) PROVE StreamInv'
<1>1. /\ thread = "read" /\ queue' = Append(queue, item) /\ closing' = (item # "delta")
      /\ sent' = IF item = "delta" THEN sent + 1 ELSE sent
      /\ thread' = "wake" /\ UNCHANGED <<reader, why, getter, ready, asleep, got>>
  BY DEF PutItem
<1>2. /\ queue \in Seq({"delta", "end", "error"}) /\ ~Closed /\ ~closing
      /\ sent \in Nat /\ got \in Nat /\ sent = got + Len(queue)
  BY <1>1 DEF StreamInv, StreamTypeOK, ClosingIsLast
<1>3. /\ queue' \in Seq({"delta", "end", "error"}) /\ Len(queue') = Len(queue) + 1
      /\ Len(queue) \in Nat /\ queue' # <<>>
      /\ queue'[Len(queue')] = item /\ \A i \in 1..Len(queue) : queue'[i] = queue[i]
  BY <1>1, <1>2
<1>4. Closed' <=> item # "delta"
  BY <1>3 DEF Closed
<1>5. \A i \in 1..Len(queue) : queue[i] = "delta"
  <2>1. queue # <<>> => queue[Len(queue)] = "delta"
    BY <1>2 DEF Closed
  <2> QED
    BY <2>1, <1>2, <1>3 DEF StreamInv, ClosingIsLast
<1>6. StreamTypeOK'
  <2>1. CASE item = "delta"
    <3>1. sent' = sent + 1 /\ ~Closed' /\ got' = got
      BY <1>1, <1>4, <2>1
    <3>2. sent' = got' + Len(queue') - 0 /\ sent' \in Nat
      BY <1>2, <1>3, <3>1
    <3> QED
      BY <1>1, <1>3, <3>1, <3>2 DEF StreamInv, StreamTypeOK
  <2>2. CASE item # "delta"
    <3>1. sent' = sent /\ Closed' /\ got' = got
      BY <1>1, <1>4, <2>2
    <3>2. sent' = got' + Len(queue') - 1 /\ sent' \in Nat
      BY <1>2, <1>3, <3>1
    <3> QED
      BY <1>1, <1>3, <3>1, <3>2 DEF StreamInv, StreamTypeOK
  <2> QED
    BY <2>1, <2>2
<1>7. ClosingIsLast'
  <2>1. ~(why \in {"complete", "error"})
    BY <1>2 DEF StreamInv, ClosingIsLast
  <2>2. \A i \in 1..Len(queue') - 1 : queue'[i] = "delta"
    BY <1>3, <1>5
  <2> QED
    BY <1>1, <1>4, <2>1, <2>2 DEF ClosingIsLast, Open
<1>8. ReaderStands'
  BY <1>1 DEF StreamInv, ReaderStands, Open
<1> QED
  BY <1>6, <1>7, <1>8 DEF StreamInv

LEMMA GetItemKeeps == ASSUME StreamInv, GetItem PROVE StreamInv'
<1>1. /\ ~asleep /\ reader = "get" /\ queue # <<>> /\ queue' = Tail(queue)
      /\ UNCHANGED <<thread, closing, sent, getter, ready, asleep>>
  BY DEF GetItem
<1>2. /\ queue \in Seq({"delta", "end", "error"}) /\ why = "open" /\ Len(queue) \in Nat \ {0}
      /\ sent \in Nat /\ got \in Nat
      /\ sent = got + Len(queue) - IF Closed THEN 1 ELSE 0
  BY <1>1 DEF StreamInv, StreamTypeOK, ReaderStands, Open
<1>3. /\ queue' \in Seq({"delta", "end", "error"}) /\ Len(queue') = Len(queue) - 1
      /\ \A i \in 1..Len(queue') : queue'[i] = queue[i + 1]
      /\ Head(queue) = queue[1] /\ Head(queue) \in {"delta", "end", "error"}
  BY <1>1, <1>2
<1>4. \A i \in 1..Len(queue) - 1 : queue[i] = "delta"
  BY DEF StreamInv, ClosingIsLast
<1>5. CASE Head(queue) = "delta"
  <2>1. got' = got + 1 /\ UNCHANGED <<reader, why>>
    BY <1>5 DEF GetItem
  <2>2. Closed' <=> Closed
    <3>1. CASE Len(queue) = 1
      <4>1. queue' = <<>>
        BY <1>3, <3>1
      <4> QED
        BY <1>3, <1>5, <3>1, <4>1 DEF Closed
    <3>2. CASE Len(queue) > 1
      <4>1. queue' # <<>> /\ queue'[Len(queue')] = queue[Len(queue)]
        BY <1>2, <1>3, <3>2
      <4> QED
        BY <1>1, <4>1 DEF Closed
    <3>3. Len(queue) = 1 \/ Len(queue) > 1
      <4>1. Len(queue) \in Nat /\ Len(queue) # 0
        BY <1>2
      <4> QED
        BY <4>1
    <3> QED
      BY <3>1, <3>2, <3>3
  <2>3. StreamTypeOK'
    <3>1. sent' = got' + Len(queue') - (IF Closed' THEN 1 ELSE 0) /\ got' \in Nat
      BY <1>1, <1>2, <1>3, <2>1, <2>2
    <3> QED
      BY <1>1, <1>3, <2>1, <3>1 DEF StreamInv, StreamTypeOK
  <2>4. ClosingIsLast'
    <3>1. \A i \in 1..Len(queue') - 1 : queue'[i] = "delta"
      BY <1>2, <1>3, <1>4
    <3> QED
      BY <1>1, <1>2, <2>1, <2>2, <3>1 DEF StreamInv, ClosingIsLast, Open
  <2>5. ReaderStands'
    BY <1>1, <2>1 DEF StreamInv, ReaderStands, Open
  <2> QED
    BY <2>3, <2>4, <2>5 DEF StreamInv
<1>6. CASE Head(queue) # "delta"
  <2>1. /\ reader' = "finally" /\ got' = got
        /\ why' = IF Head(queue) = "end" THEN "complete" ELSE "error"
    BY <1>6 DEF GetItem
  <2>2. Len(queue) = 1
    BY <1>2, <1>3, <1>4, <1>6
  <2>3. Closed
    BY <1>1, <1>3, <1>6, <2>2 DEF Closed
  <2>4. queue' = <<>>
    BY <1>3, <2>2
  <2>5. ~Closed' /\ Len(queue') = 0
    BY <2>4 DEF Closed
  <2>6. StreamTypeOK'
    <3>1. sent' = got' + Len(queue') - (IF Closed' THEN 1 ELSE 0)
      BY <1>1, <1>2, <2>1, <2>2, <2>3, <2>5
    <3> QED
      BY <1>1, <1>3, <2>1, <3>1 DEF StreamInv, StreamTypeOK
  <2>7. closing /\ thread # "read"
    BY <2>3 DEF StreamInv, ClosingIsLast
  <2>8. ClosingIsLast'
    <3>1. \A i \in 1..Len(queue') - 1 : queue'[i] = "delta"
      BY <2>5
    <3> QED
      BY <1>1, <2>1, <2>4, <2>5, <2>7, <3>1 DEF ClosingIsLast, Open
  <2>9. ReaderStands'
    BY <1>1, <2>1 DEF StreamInv, ReaderStands, Open
  <2> QED
    BY <2>6, <2>8, <2>9 DEF StreamInv
<1> QED
  BY <1>5, <1>6

(* The steps that leave the queue alone. *)
LEMMA QueueStays ==
    ASSUME StreamInv, UNCHANGED <<queue, closing, sent, got>>,
           thread' \in {"read", "wake", "returning", "over"},
           thread' = "read" => ~closing,
           thread' \in {"returning", "over"} => closing,
           reader' \in {"get", "register", "wait", "finally", "over"},
           why' \in {why, "cancelled"},
           {getter', ready', asleep'} \subseteq BOOLEAN
    PROVE  StreamTypeOK' /\ ClosingIsLast'
<1>1. Closed' <=> Closed
  BY DEF Closed
<1>2. StreamTypeOK'
  BY <1>1 DEF StreamInv, StreamTypeOK
<1>3. ClosingIsLast'
  BY <1>1 DEF StreamInv, StreamTypeOK, ClosingIsLast, Open
<1> QED
  BY <1>2, <1>3

LEMMA StreamStep == ASSUME StreamInv, [StreamNext]_qvars PROVE StreamInv'
<1>t. /\ thread \in {"read", "wake", "returning", "over"}
      /\ reader \in {"get", "register", "wait", "finally", "over"}
      /\ {getter, ready, asleep} \subseteq BOOLEAN
      /\ thread = "read" => ~closing
      /\ thread \in {"returning", "over"} => closing
  BY DEF StreamInv, StreamTypeOK, ClosingIsLast
<1>1. CASE WakeupNext
  <2>1. /\ UNCHANGED <<queue, closing, sent, got, reader, why, asleep>> /\ thread = "wake"
        /\ getter' = FALSE /\ ready' = (ready \/ getter)
        /\ thread' = IF closing THEN "returning" ELSE "read"
    BY <1>1 DEF WakeupNext
  <2>2. StreamTypeOK' /\ ClosingIsLast'
    BY <1>t, <2>1, QueueStays
  <2>3. ReaderStands'
    BY <2>1, <1>t DEF StreamInv, ReaderStands, Open
  <2> QED
    BY <2>2, <2>3 DEF StreamInv
<1>2. CASE ThreadReturns
  <2>1. /\ UNCHANGED <<queue, closing, sent, got, reader, why, getter, ready>>
        /\ thread = "returning" /\ thread' = "over" /\ asleep' = FALSE
    BY <1>2 DEF ThreadReturns
  <2>2. StreamTypeOK' /\ ClosingIsLast'
    BY <1>t, <2>1, QueueStays
  <2>3. ReaderStands'
    BY <2>1, <1>t DEF StreamInv, ReaderStands, Open
  <2> QED
    BY <2>2, <2>3 DEF StreamInv
<1>3. CASE FindEmpty \/ Register \/ Resume \/ Cancel \/ Finish
  <2>1. /\ UNCHANGED <<queue, closing, sent, got, thread>> /\ why' \in {why, "cancelled"}
        /\ reader' \in {"get", "register", "wait", "finally", "over"}
        /\ {getter', ready', asleep'} \subseteq BOOLEAN
    BY <1>3, <1>t DEF FindEmpty, Register, Resume, Cancel, Finish
  <2>2. StreamTypeOK' /\ ClosingIsLast'
    BY <1>t, <2>1, QueueStays
  <2>3. ReaderStands'
    <3>1. CASE FindEmpty  BY <3>1, <1>t DEF FindEmpty, StreamInv, ReaderStands, Open
    <3>2. CASE Register   BY <3>2, <1>t DEF Register, StreamInv, ReaderStands, Open
    <3>3. CASE Resume     BY <3>3, <1>t DEF Resume, StreamInv, ReaderStands, Open
    <3>4. CASE Cancel     BY <3>4, <1>t DEF Cancel, StreamInv, ReaderStands, Open
    <3>5. CASE Finish     BY <3>5, <1>t DEF Finish, StreamInv, ReaderStands, Open
    <3> QED
      BY <1>3, <3>1, <3>2, <3>3, <3>4, <3>5
  <2> QED
    BY <2>2, <2>3 DEF StreamInv
<1>4. CASE Sleep \/ OthersWake \/ UNCHANGED qvars
  <2>1. /\ UNCHANGED <<queue, closing, sent, got, thread, why, reader, getter, ready>>
        /\ asleep' \in BOOLEAN
    BY <1>4, <1>t DEF Sleep, OthersWake, qvars
  <2>2. StreamTypeOK' /\ ClosingIsLast'
    BY <1>t, <2>1, QueueStays
  <2>3. ReaderStands'
    BY <1>4, <2>1, <1>t DEF Sleep, OthersWake, qvars, StreamInv, ReaderStands, Open
  <2> QED
    BY <2>2, <2>3 DEF StreamInv
<1> QED
  BY <1>1, <1>2, <1>3, <1>4, PutItemKeeps, GetItemKeeps DEF StreamNext, Drain, Consume

LEMMA StreamInvariance == StreamSpec => []StreamInv
<1>1. StreamInit => StreamInv
  <2> SUFFICES ASSUME StreamInit PROVE StreamInv
    OBVIOUS
  <2>1. queue = <<>> /\ ~Closed
    BY DEF StreamInit, Closed
  <2>2. StreamTypeOK
    <3>1. sent = got + Len(queue) - 0 /\ sent \in Nat /\ got \in Nat
      BY <2>1 DEF StreamInit
    <3>2. sent = got + Len(queue) - IF Closed THEN 1 ELSE 0
      BY <2>1, <3>1
    <3>3. {closing, getter, ready, asleep} \subseteq BOOLEAN
      BY DEF StreamInit
    <3>4. /\ queue \in Seq({"delta", "end", "error"})
          /\ thread \in {"read", "wake", "returning", "over"}
          /\ reader \in {"get", "register", "wait", "finally", "over"}
          /\ why \in {"open", "complete", "error", "cancelled"}
      BY DEF StreamInit
    <3> QED
      BY <3>1, <3>2, <3>3, <3>4 DEF StreamTypeOK
  <2>3. ClosingIsLast /\ ReaderStands
    BY <2>1 DEF StreamInit, ClosingIsLast, ReaderStands, Open
  <2> QED
    BY <2>2, <2>3 DEF StreamInv
<1> QED
  BY <1>1, StreamStep, PTL DEF StreamSpec

(* A stream that is complete for its caller has delivered every delta the   *)
(* thread has put, for any number of them, however the thread and the event *)
(* loop interleave and whenever the request is cancelled.                  *)
THEOREM StreamsAreWhole == StreamSpec => []DeliveredWhole
<1>1. StreamInv => DeliveredWhole
  BY DEF StreamInv, StreamTypeOK, ClosingIsLast, DeliveredWhole, Closed
<1> QED
  BY <1>1, StreamInvariance, PTL

(* Once the thread is over nothing keeps the coroutine, and with it the     *)
(* request, waiting but a wakeup lost between the two steps of get().      *)
THEOREM OnlyLostWakeupsStick == StreamSpec => []StuckOnlyIfLost
<1>1. StreamInv => StuckOnlyIfLost
  BY DEF StreamInv, ClosingIsLast, ReaderStands, StuckOnlyIfLost, WakeupLost, Open, Closed
<1> QED
  BY <1>1, StreamInvariance, PTL

(* Type correctness of the bridge, with the count of the elements: what was *)
(* put and not delivered is in the queue.                                   *)
THEOREM StreamsTyped == StreamSpec => []StreamTypeOK
<1>1. StreamInv => StreamTypeOK
  BY DEF StreamInv
<1> QED
  BY <1>1, StreamInvariance, PTL
=============================================================================
