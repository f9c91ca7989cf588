---------------------------- MODULE MemoryProofs ----------------------------
(***************************************************************************)
(* Proofs about what is remembered: the scratchpad, the rolling summaries   *)
(* of a conversation, and the index of a repository's code.                *)
(*                                                                         *)
(* The scratchpad's invariant IInv follows a value from its verdict to the *)
(* reader: the status of a row is the verdict on its value, the value a    *)
(* get() carries from its select to its re-warm was judged active, and a   *)
(* verdict is never changed once its value can be in a row, because it is  *)
(* given only to a put() that has not written yet.  Settled says what the  *)
(* tiers hold while calls come one by one.                                 *)
(*                                                                         *)
(* The summaries' invariant SInv says of every conversation that its       *)
(* versions are unique and complete: an INSERT that the unique index lets  *)
(* through is then the latest one, so that whatever a request has read too *)
(* long ago to be the latest cannot be built upon.                         *)
(*                                                                         *)
(* The indexer's invariant JInv follows a run that overlaps no other: the  *)
(* clone is at its branch while it reads, and a file it is done with is     *)
(* stored as it was read.                                                  *)
(***************************************************************************)
EXTENDS Scratchpad, Summaries, CodeIndex, SequenceTheorems, FiniteSetTheorems, TLAPS

----------------------------------------------------------------------------
(* Values and verdicts *)


Unwritten == {"new", "count", "filter"}

VerdictPending == \A p \in Puts : at[p] \in Unwritten => verdict[p] = "none"

RowsJudged ==
    \A k \in Keys : row[k].status # "none" =>
        row[k].val \in Puts /\ verdict[row[k].val] = row[k].status

SeenJudged == \A g \in Gets : Judged(seen[g])

IInv ==
    /\ TypeOK
    /\ VerdictPending
    /\ RowsJudged
    /\ SeenJudged
    /\ NeverServesQuarantined

LEMMA InitHolds == ASSUME ScratchpadAssumption, Init PROVE IInv
  <1>1. TypeOK
    BY DEF Init, TypeOK, NoRow, Row, States
  <1>2. VerdictPending
    BY DEF Init, VerdictPending
  <1>3. RowsJudged
    BY DEF Init, RowsJudged, NoRow
  <1>4. SeenJudged /\ NeverServesQuarantined
    BY DEF Init, SeenJudged, NeverServesQuarantined, Judged
  <1> QED BY <1>1, <1>2, <1>3, <1>4 DEF IInv

(* Where a call of a kind can go. *)
LEMMA BeginTyped ==
  ASSUME ScratchpadAssumption, IInv, NEW c \in Calls, NEW s \in States, Begin(c, s)
  PROVE  /\ at' \in [Calls -> States]
         /\ serial' \in BOOLEAN
         /\ at[c] = "new"
         /\ \A d \in Calls : at'[d] \in Unwritten /\ d # c => at[d] \in Unwritten
  BY DEF IInv, TypeOK, Begin

LEMMA GoTyped ==
  ASSUME ScratchpadAssumption, IInv, NEW c \in Calls, NEW s \in States, Go(c, s)
  PROVE  /\ at' \in [Calls -> States]
         /\ serial' \in BOOLEAN
         /\ \A d \in Calls : at'[d] \in Unwritten /\ d # c => at[d] \in Unwritten
         /\ at'[c] = s
  BY DEF IInv, TypeOK, Go

(* A step that leaves values and verdicts alone. *)
LEMMA MovesOnly ==
  ASSUME IInv,
         at' \in [Calls -> States], serial' \in BOOLEAN, expired' \subseteq Puts,
         \A p \in Puts : at'[p] \in Unwritten => verdict[p] = "none",
         UNCHANGED <<row, hot, verdict, seen, got>>
  PROVE  IInv'
  BY DEF IInv, TypeOK, VerdictPending, RowsJudged, SeenJudged, NeverServesQuarantined, Judged

LEMMA PutHolds ==
  ASSUME ScratchpadAssumption, IInv, NEW p \in Puts, Put(p) PROVE IInv'
  <1> p \in Calls BY DEF Calls
  <1>k. KeyOf[p] \in Keys BY DEF ScratchpadAssumption
  <1>1. CASE PutTooLarge(p)
    <2>1. "failed" \in States /\ Begin(p, "failed") BY <1>1 DEF PutTooLarge, States
    <2>2. at'[p] = "failed" BY <2>1 DEF Begin, IInv, TypeOK
    <2>3. at' \in [Calls -> States] /\ serial' \in BOOLEAN
          /\ \A d \in Calls : at'[d] \in Unwritten /\ d # p => at[d] \in Unwritten
      BY <2>1, BeginTyped
    <2>4. \A q \in Puts : at'[q] \in Unwritten => verdict[q] = "none"
      BY <2>2, <2>3 DEF IInv, VerdictPending, Unwritten, Calls
    <2> QED BY <1>1, <2>3, <2>4, MovesOnly DEF PutTooLarge, IInv, TypeOK
  <1>2. CASE PutSelect(p)
    <2>1. PICK s \in {"count", "filter"} : Begin(p, s)
      BY <1>2 DEF PutSelect
    <2>2. s \in States BY DEF States
    <2>3. at' \in [Calls -> States] /\ serial' \in BOOLEAN /\ at[p] = "new"
          /\ \A d \in Calls : at'[d] \in Unwritten /\ d # p => at[d] \in Unwritten
      BY <2>1, <2>2, BeginTyped
    <2>4. \A q \in Puts : at'[q] \in Unwritten => verdict[q] = "none"
      BY <2>3 DEF IInv, VerdictPending, Unwritten, Calls
    <2> QED BY <1>2, <2>3, <2>4, MovesOnly DEF PutSelect, IInv, TypeOK
  <1>3. CASE PutCount(p)
    <2>1. PICK s \in {"failed", "filter"} : Go(p, s)
      BY <1>3 DEF PutCount
    <2>2. s \in States BY DEF States
    <2>3. at' \in [Calls -> States] /\ serial' \in BOOLEAN /\ at[p] = "count"
          /\ \A d \in Calls : at'[d] \in Unwritten /\ d # p => at[d] \in Unwritten
      BY <1>3, <2>1, <2>2, GoTyped DEF PutCount
    <2>4. \A q \in Puts : at'[q] \in Unwritten => verdict[q] = "none"
      BY <2>3 DEF IInv, VerdictPending, Unwritten, Calls
    <2> QED BY <1>3, <2>3, <2>4, MovesOnly DEF PutCount, IInv, TypeOK
  <1>4. CASE PutFilter(p)
    <2>1. PICK v \in {"active", "quarantined"} : verdict' = [verdict EXCEPT ![p] = v]
      BY <1>4 DEF PutFilter
    <2>2. at[p] = "filter" /\ Go(p, "upsert") /\ UNCHANGED <<row, hot, expired, seen, got>>
      BY <1>4 DEF PutFilter
    <2>3. at' \in [Calls -> States] /\ serial' \in BOOLEAN /\ at'[p] = "upsert"
          /\ \A d \in Calls : at'[d] \in Unwritten /\ d # p => at[d] \in Unwritten
      BY <2>2, GoTyped DEF States
    <2>4. verdict[p] = "none" BY <2>2 DEF IInv, VerdictPending, Unwritten
    <2>5. \A q \in Puts : q # p => verdict'[q] = verdict[q]
      BY <2>1 DEF IInv, TypeOK
    <2>6. TypeOK'
      BY <2>1, <2>2, <2>3 DEF IInv, TypeOK
    <2>7. VerdictPending'
      BY <2>3, <2>5 DEF IInv, VerdictPending, Unwritten, Calls
    <2>8. \A x \in Puts \cup {None} : Judged(x) => Judged(x)'
      BY <2>4, <2>5 DEF Judged
    <2>9. SeenJudged' /\ NeverServesQuarantined'
      BY <2>2, <2>8 DEF IInv, TypeOK, SeenJudged, NeverServesQuarantined, Judged
    <2>10. RowsJudged'
      <3> SUFFICES ASSUME NEW k \in Keys, row[k].status # "none"
                   PROVE  row[k].val \in Puts /\ verdict'[row[k].val] = row[k].status
        BY <2>2 DEF RowsJudged
      <3>1. row[k].val \in Puts /\ verdict[row[k].val] = row[k].status
        BY DEF IInv, RowsJudged
      <3>2. row[k].val # p BY <3>1, <2>4
      <3> QED BY <3>1, <3>2, <2>5
    <2> QED BY <2>6, <2>7, <2>9, <2>10 DEF IInv
  <1>5. CASE PutUpsert(p)
    <2>1. /\ at[p] = "upsert" /\ Go(p, "cache") /\ UNCHANGED <<hot, expired, verdict, seen, got>>
          /\ row' = [row EXCEPT ![KeyOf[p]] = [val |-> p, status |-> verdict[p]]]
      BY <1>5 DEF PutUpsert
    <2>2. at' \in [Calls -> States] /\ serial' \in BOOLEAN /\ at'[p] = "cache"
          /\ \A d \in Calls : at'[d] \in Unwritten /\ d # p => at[d] \in Unwritten
      BY <2>1, GoTyped DEF States
    <2>3. [val |-> p, status |-> verdict[p]] \in Row
      BY DEF IInv, TypeOK, Row
    <2>4. TypeOK'
      BY <2>1, <2>2, <2>3, <1>k DEF IInv, TypeOK
    <2>5. VerdictPending'
      BY <2>1, <2>2 DEF IInv, VerdictPending, Unwritten, Calls
    <2>6. RowsJudged'
      <3> SUFFICES ASSUME NEW k \in Keys, row'[k].status # "none"
                   PROVE  row'[k].val \in Puts /\ verdict[row'[k].val] = row'[k].status
        BY <2>1 DEF RowsJudged
      <3>1. CASE k = KeyOf[p]
        BY <3>1, <2>1 DEF IInv, TypeOK
      <3>2. CASE k # KeyOf[p]
        <4>1. row'[k] = row[k] BY <3>2, <2>1 DEF IInv, TypeOK
        <4> QED BY <4>1 DEF IInv, RowsJudged
      <3> QED BY <3>1, <3>2
    <2>7. SeenJudged' /\ NeverServesQuarantined'
      BY <2>1 DEF IInv, SeenJudged, NeverServesQuarantined, Judged
    <2> QED BY <2>4, <2>5, <2>6, <2>7 DEF IInv
  <1>6. CASE PutCache(p)
    <2> DEFINE v == IF verdict[p] = "active" THEN p ELSE None
    <2>1. /\ at[p] = "cache" /\ Go(p, "done") /\ UNCHANGED <<row, expired, verdict, seen, got>>
          /\ hot' = [hot EXCEPT ![KeyOf[p]] = v]
      BY <1>6 DEF PutCache
    <2>2. at' \in [Calls -> States] /\ serial' \in BOOLEAN /\ at'[p] = "done"
          /\ \A d \in Calls : at'[d] \in Unwritten /\ d # p => at[d] \in Unwritten
      BY <2>1, GoTyped DEF States
    <2>3. v \in Puts \cup {None} /\ Judged(v)
      BY DEF Judged
    <2> HIDE DEF v
    <2>4. TypeOK'
      BY <2>1, <2>2, <2>3, <1>k DEF IInv, TypeOK
    <2>5. VerdictPending'
      BY <2>1, <2>2 DEF IInv, VerdictPending, Unwritten, Calls
    <2>6. RowsJudged' /\ SeenJudged'
      BY <2>1 DEF IInv, RowsJudged, SeenJudged, Judged
    <2>7. NeverServesQuarantined'
      BY <2>1, <2>3 DEF IInv, TypeOK, NeverServesQuarantined, Judged
    <2> QED BY <2>4, <2>5, <2>6, <2>7 DEF IInv
  <1> QED BY <1>1, <1>2, <1>3, <1>4, <1>5, <1>6 DEF Put

LEMMA GetHolds ==
  ASSUME ScratchpadAssumption, IInv, NEW g \in Gets, Get(g) PROVE IInv'
  <1> g \in Calls /\ g \notin Puts BY DEF Calls, ScratchpadAssumption
  <1>k. KeyOf[g] \in Keys BY DEF ScratchpadAssumption
  <1>1. CASE GetHot(g)
    <2> DEFINE v == hot[KeyOf[g]]
    <2>1. PICK s \in {"select", "done"} : Begin(g, s)
      BY <1>1 DEF GetHot
    <2>2. got' = [got EXCEPT ![g] = v] /\ UNCHANGED <<row, hot, expired, verdict, seen>>
      BY <1>1 DEF GetHot
    <2>3. at' \in [Calls -> States] /\ serial' \in BOOLEAN
          /\ \A d \in Calls : at'[d] \in Unwritten /\ d # g => at[d] \in Unwritten
      BY <2>1, BeginTyped DEF States
    <2>4. v \in Puts \cup {None} /\ Judged(v)
      BY <1>k DEF IInv, TypeOK, NeverServesQuarantined
    <2> HIDE DEF v
    <2>5. TypeOK'
      BY <2>2, <2>3, <2>4 DEF IInv, TypeOK
    <2>6. VerdictPending'
      BY <2>2, <2>3 DEF IInv, VerdictPending, Calls
    <2>7. RowsJudged' /\ SeenJudged'
      BY <2>2 DEF IInv, RowsJudged, SeenJudged, Judged
    <2>8. NeverServesQuarantined'
      BY <2>2, <2>4 DEF IInv, TypeOK, NeverServesQuarantined, Judged
    <2> QED BY <2>5, <2>6, <2>7, <2>8 DEF IInv
  <1>2. CASE GetSelect(g)
    <2> DEFINE r == row[KeyOf[g]]
               v == IF Readable(r) THEN r.val ELSE None
    <2>1. PICK s \in {"warm", "done"} : Go(g, s)
      BY <1>2 DEF GetSelect
    <2>2. seen' = [seen EXCEPT ![g] = v] /\ UNCHANGED <<row, hot, expired, verdict, got>>
      BY <1>2 DEF GetSelect
    <2>3. at' \in [Calls -> States] /\ serial' \in BOOLEAN
          /\ \A d \in Calls : at'[d] \in Unwritten /\ d # g => at[d] \in Unwritten
      BY <2>1, GoTyped DEF States
    <2>4. v \in Puts \cup {None} /\ Judged(v)
      <3>1. r.status = "active" => r.val \in Puts /\ verdict[r.val] = "active"
        BY <1>k DEF IInv, RowsJudged
      <3> QED BY <3>1 DEF Judged, Readable
    <2> HIDE DEF v
    <2>5. TypeOK'
      BY <2>2, <2>3, <2>4 DEF IInv, TypeOK
    <2>6. VerdictPending'
      BY <2>2, <2>3 DEF IInv, VerdictPending, Calls
    <2>7. RowsJudged' /\ NeverServesQuarantined'
      BY <2>2 DEF IInv, RowsJudged, NeverServesQuarantined, Judged
    <2>8. SeenJudged'
      BY <2>2, <2>4 DEF IInv, TypeOK, SeenJudged, Judged
    <2> QED BY <2>5, <2>6, <2>7, <2>8 DEF IInv
  <1>3. CASE GetWarm(g)
    <2>1. /\ Go(g, "done") /\ UNCHANGED <<row, expired, verdict, seen>>
          /\ hot' = [hot EXCEPT ![KeyOf[g]] = seen[g]]
          /\ got' = [got EXCEPT ![g] = seen[g]]
      BY <1>3 DEF GetWarm
    <2>2. at' \in [Calls -> States] /\ serial' \in BOOLEAN
          /\ \A d \in Calls : at'[d] \in Unwritten /\ d # g => at[d] \in Unwritten
      BY <2>1, GoTyped DEF States
    <2>3. seen[g] \in Puts \cup {None} /\ Judged(seen[g])
      BY DEF IInv, TypeOK, SeenJudged
    <2>4. TypeOK'
      BY <2>1, <2>2, <2>3, <1>k DEF IInv, TypeOK
    <2>5. VerdictPending'
      BY <2>1, <2>2 DEF IInv, VerdictPending, Calls
    <2>6. RowsJudged' /\ SeenJudged'
      BY <2>1 DEF IInv, RowsJudged, SeenJudged, Judged
    <2>7. NeverServesQuarantined'
      BY <2>1, <2>3 DEF IInv, TypeOK, NeverServesQuarantined, Judged
    <2> QED BY <2>4, <2>5, <2>6, <2>7 DEF IInv
  <1> QED BY <1>1, <1>2, <1>3 DEF Get

LEMMA DeleteHolds ==
  ASSUME ScratchpadAssumption, IInv, NEW d \in Deletes, Delete(d) PROVE IInv'
  <1> d \in Calls /\ d \notin Puts BY DEF Calls, ScratchpadAssumption
  <1>k. KeyOf[d] \in Keys BY DEF ScratchpadAssumption
  <1>1. CASE DeleteHot(d)
    <2>1. /\ Begin(d, "row") /\ UNCHANGED <<row, expired, verdict, seen, got>>
          /\ hot' = [hot EXCEPT ![KeyOf[d]] = None]
      BY <1>1 DEF DeleteHot
    <2>2. at' \in [Calls -> States] /\ serial' \in BOOLEAN
          /\ \A c \in Calls : at'[c] \in Unwritten /\ c # d => at[c] \in Unwritten
      BY <2>1, BeginTyped DEF States
    <2>3. TypeOK'
      BY <2>1, <2>2, <1>k DEF IInv, TypeOK
    <2>4. VerdictPending'
      BY <2>1, <2>2 DEF IInv, VerdictPending, Calls
    <2>5. RowsJudged' /\ SeenJudged'
      BY <2>1 DEF IInv, RowsJudged, SeenJudged, Judged
    <2>6. NeverServesQuarantined'
      BY <2>1 DEF IInv, TypeOK, NeverServesQuarantined, Judged
    <2> QED BY <2>3, <2>4, <2>5, <2>6 DEF IInv
  <1>2. CASE DeleteRow(d)
    <2>1. /\ Go(d, "done") /\ UNCHANGED <<hot, expired, verdict, seen, got>>
          /\ row' = [row EXCEPT ![KeyOf[d]] = NoRow]
      BY <1>2 DEF DeleteRow
    <2>2. at' \in [Calls -> States] /\ serial' \in BOOLEAN
          /\ \A c \in Calls : at'[c] \in Unwritten /\ c # d => at[c] \in Unwritten
      BY <2>1, GoTyped DEF States
    <2>3. NoRow \in Row BY DEF NoRow, Row
    <2>4. TypeOK'
      BY <2>1, <2>2, <2>3, <1>k DEF IInv, TypeOK
    <2>5. VerdictPending'
      BY <2>1, <2>2 DEF IInv, VerdictPending, Calls
    <2>6. RowsJudged'
      <3> SUFFICES ASSUME NEW k \in Keys, row'[k].status # "none"
                   PROVE  row'[k].val \in Puts /\ verdict[row'[k].val] = row'[k].status
        BY <2>1 DEF RowsJudged
      <3>1. k # KeyOf[d] BY <2>1 DEF IInv, TypeOK, NoRow
      <3>2. row'[k] = row[k] BY <3>1, <2>1 DEF IInv, TypeOK
      <3> QED BY <3>2 DEF IInv, RowsJudged
    <2>7. SeenJudged' /\ NeverServesQuarantined'
      BY <2>1 DEF IInv, SeenJudged, NeverServesQuarantined, Judged
    <2> QED BY <2>4, <2>5, <2>6, <2>7 DEF IInv
  <1> QED BY <1>1, <1>2 DEF Delete

LEMMA FailHolds ==
  ASSUME IInv, NEW c \in Calls, Fail(c) PROVE IInv'
  <1>1. at' = [at EXCEPT ![c] = "failed"] /\ serial' = FALSE
    BY DEF Fail
  <1>2. at' \in [Calls -> States]
    BY <1>1 DEF IInv, TypeOK, States
  <1>3. \A p \in Puts : at'[p] \in Unwritten => verdict[p] = "none"
    <2> TAKE p \in Puts
    <2>1. p \in Calls BY DEF Calls
    <2>2. CASE p = c BY <2>2, <1>1 DEF IInv, TypeOK, Unwritten
    <2>3. CASE p # c
      <3>1. at'[p] = at[p] BY <2>1, <2>3, <1>1 DEF IInv, TypeOK
      <3> QED BY <3>1 DEF IInv, VerdictPending
    <2> QED BY <2>2, <2>3
  <1> QED BY <1>1, <1>2, <1>3, MovesOnly DEF Fail, IInv, TypeOK

LEMMA EnvironmentHolds ==
  ASSUME IInv, NEW k \in Keys, Drop(k) \/ RowExpires(k) PROVE IInv'
  <1>1. CASE Drop(k)
    <2>1. hot' = [hot EXCEPT ![k] = None] /\ UNCHANGED <<row, expired, at, verdict, seen, got, serial>>
      BY <1>1 DEF Drop
    <2>2. TypeOK'
      BY <2>1 DEF IInv, TypeOK
    <2>3. VerdictPending' /\ RowsJudged' /\ SeenJudged'
      BY <2>1 DEF IInv, VerdictPending, RowsJudged, SeenJudged, Judged
    <2>4. NeverServesQuarantined'
      BY <2>1 DEF IInv, TypeOK, NeverServesQuarantined, Judged
    <2> QED BY <2>2, <2>3, <2>4 DEF IInv
  <1>2. CASE RowExpires(k)
    <2>1. row[k].val \in Puts
      <3>1. row[k] \in Row BY DEF IInv, TypeOK
      <3> QED BY <3>1, <1>2 DEF RowExpires, Row
    <2>2. expired' \subseteq Puts BY <2>1, <1>2 DEF RowExpires, IInv, TypeOK
    <2> QED BY <1>2, <2>2, MovesOnly DEF RowExpires, IInv, TypeOK, VerdictPending
  <1> QED BY <1>1, <1>2

LEMMA StepHolds == ASSUME ScratchpadAssumption, IInv, [Next]_vars PROVE IInv'
  <1>1. CASE UNCHANGED vars
    BY <1>1, MovesOnly DEF vars, IInv, TypeOK, VerdictPending
  <1>2. CASE Next
    BY <1>2, PutHolds, GetHolds, DeleteHolds, FailHolds, EnvironmentHolds DEF Next
  <1> QED BY <1>1, <1>2

(* The invariant, for any keys, calls and limit. *)
THEOREM Invariance == ASSUME ScratchpadAssumption PROVE Spec => []IInv
  <1>1. Init => IInv BY InitHolds
  <1>2. IInv /\ [Next]_vars => IInv' BY StepHolds
  <1> QED BY <1>1, <1>2, PTL DEF Spec

(* Type correctness of rows, hot copies and calls. *)
THEOREM TypeCorrect == ASSUME ScratchpadAssumption PROVE Spec => []TypeOK
  <1>1. IInv => TypeOK BY DEF IInv
  <1> QED BY <1>1, Invariance, PTL

(* get() never returns, and Valkey never holds, a value that put() was     *)
(* told to quarantine, for any number of concurrent calls.                 *)
THEOREM QuarantineHolds == ASSUME ScratchpadAssumption PROVE Spec => []NeverServesQuarantined
  <1>1. IInv => NeverServesQuarantined BY DEF IInv
  <1> QED BY <1>1, Invariance, PTL

----------------------------------------------------------------------------
(* The tiers agree *)

(* The tiers agree about a key. *)
Agree(k) == hot[k] # None => row[k] = [val |-> hot[k], status |-> "active"]

(* While calls come one by one, the tiers disagree only about the key of a *)
(* put() that has written its row and not yet the hot copy, and the call   *)
(* that is under way knows what the tier it is about to follow holds.      *)
OneByOne == \A c, d \in Calls : InProgress(c) /\ InProgress(d) => c = d

Agreed == \A k \in Keys : Agree(k) \/ \E p \in Puts : at[p] = "cache" /\ KeyOf[p] = k

PutFollows ==
    \A p \in Puts : at[p] = "cache" => row[KeyOf[p]] = [val |-> p, status |-> verdict[p]]

GetFollows ==
    \A g \in Gets : at[g] = "warm" => row[KeyOf[g]] = [val |-> seen[g], status |-> "active"]

DeleteFollows == \A d \in Deletes : at[d] = "row" => hot[KeyOf[d]] = None

Settled == serial => OneByOne /\ Agreed /\ PutFollows /\ GetFollows /\ DeleteFollows

(* A call that moves from s to t has the tiers to itself. *)
Moves(c, s, t) == at[c] = s /\ at' = [at EXCEPT ![c] = t] /\ serial
                  /\ \A d \in Calls \ {c} : ~InProgress(d)

LEMMA BeginAlone ==
  ASSUME IInv, NEW c \in Calls, NEW t, Begin(c, t), serial'
  PROVE  Moves(c, "new", t) /\ \A k \in Keys : (Settled => Agree(k))
  <1>1. serial /\ \A d \in Calls : ~InProgress(d)
    BY DEF Begin
  <1>2. Settled => \A k \in Keys : Agree(k)
    BY <1>1 DEF Settled, Agreed, Calls, InProgress
  <1> QED
    BY <1>1, <1>2 DEF Begin, Moves

LEMMA GoAlone ==
  ASSUME IInv, Settled, NEW c \in Calls, InProgress(c), NEW t, Go(c, t), serial'
  PROVE  /\ Moves(c, at[c], t)
         /\ at[c] # "cache" => \A k \in Keys : Agree(k)
         /\ \A k \in Keys \ {KeyOf[c]} : Agree(k)
  <1>1. serial
    BY DEF Go
  <1>2. \A d \in Calls \ {c} : ~InProgress(d)
    BY <1>1 DEF Settled, OneByOne
  <1>3. \A p \in Puts : at[p] = "cache" => p = c
    BY <1>2 DEF InProgress, Calls
  <1>4. Agreed
    BY <1>1 DEF Settled
  <1>5. at[c] # "cache" => \A k \in Keys : Agree(k)
    BY <1>3, <1>4 DEF Agreed
  <1>6. \A k \in Keys \ {KeyOf[c]} : Agree(k)
    BY <1>3, <1>4 DEF Agreed
  <1> QED
    BY <1>1, <1>2, <1>5, <1>6 DEF Go, Moves

(* After its move only the call that moved is under way, if any is.        *)
LEMMA MovesAlone ==
  ASSUME IInv, NEW c \in Calls, NEW s, NEW t, Moves(c, s, t),
         \A k \in Keys : Agree(k)' \/ (c \in Puts /\ t = "cache" /\ KeyOf[c] = k),
         c \in Puts /\ t = "cache" =>
            row'[KeyOf[c]] = [val |-> c, status |-> verdict'[c]],
         c \in Gets /\ t = "warm" =>
            row'[KeyOf[c]] = [val |-> seen'[c], status |-> "active"],
         c \in Deletes /\ t = "row" => hot'[KeyOf[c]] = None
  PROVE  Settled'
  <1>1. at'[c] = t /\ \A d \in Calls \ {c} : at'[d] = at[d]
    BY DEF Moves, IInv, TypeOK
  <1>2. \A d \in Calls \ {c} : at'[d] \in {"new", "done", "failed"}
    BY <1>1 DEF Moves, InProgress
  <1>3. OneByOne'
    BY <1>2 DEF OneByOne, InProgress
  <1>4. Agreed'
    BY <1>1 DEF Agreed
  <1>5. PutFollows'
    <2> SUFFICES ASSUME NEW p \in Puts, at'[p] = "cache"
                 PROVE  row'[KeyOf[p]] = [val |-> p, status |-> verdict'[p]]
      BY DEF PutFollows
    <2>1. p = c
      BY <1>2 DEF Calls
    <2> QED
      BY <1>1, <2>1
  <1>6. GetFollows'
    <2> SUFFICES ASSUME NEW g \in Gets, at'[g] = "warm"
                 PROVE  row'[KeyOf[g]] = [val |-> seen'[g], status |-> "active"]
      BY DEF GetFollows
    <2>1. g = c
      BY <1>2 DEF Calls
    <2> QED
      BY <1>1, <2>1
  <1>7. DeleteFollows'
    <2> SUFFICES ASSUME NEW d \in Deletes, at'[d] = "row"
                 PROVE  hot'[KeyOf[d]] = None
      BY DEF DeleteFollows
    <2>1. d = c
      BY <1>2 DEF Calls
    <2> QED
      BY <1>1, <2>1
  <1> QED
    BY <1>3, <1>4, <1>5, <1>6, <1>7 DEF Settled

LEMMA PutAgrees ==
  ASSUME ScratchpadAssumption, IInv, Settled, serial', NEW p \in Puts, Put(p) PROVE Settled'
  <1> p \in Calls /\ p \notin Gets /\ p \notin Deletes
    BY DEF Calls, ScratchpadAssumption
  <1>k. KeyOf[p] \in Keys
    BY DEF ScratchpadAssumption
  <1>1. CASE PutTooLarge(p)
    <2>1. Begin(p, "failed") /\ UNCHANGED <<row, hot, verdict, seen>>
      BY <1>1 DEF PutTooLarge
    <2>2. Moves(p, "new", "failed") /\ \A k \in Keys : Agree(k)
      BY <2>1, BeginAlone
    <2>3. \A k \in Keys : Agree(k)'
      BY <2>1, <2>2 DEF Agree
    <2> QED
      BY <2>2, <2>3, MovesAlone
  <1>2. CASE PutSelect(p)
    <2>1. PICK s \in {"count", "filter"} : Begin(p, s)
      BY <1>2 DEF PutSelect
    <2>2. UNCHANGED <<row, hot, verdict, seen>>
      BY <1>2 DEF PutSelect
    <2>3. Moves(p, "new", s) /\ \A k \in Keys : Agree(k)
      BY <2>1, BeginAlone
    <2>4. s # "cache" /\ \A k \in Keys : Agree(k)'
      BY <2>2, <2>3 DEF Agree
    <2> QED
      BY <2>3, <2>4, MovesAlone
  <1>3. CASE PutCount(p)
    <2>1. PICK s \in {"failed", "filter"} : Go(p, s)
      BY <1>3 DEF PutCount
    <2>2. UNCHANGED <<row, hot, verdict, seen>> /\ at[p] = "count" /\ InProgress(p)
      BY <1>3 DEF PutCount, InProgress
    <2>3. Moves(p, "count", s) /\ \A k \in Keys : Agree(k)
      BY <2>1, <2>2, GoAlone
    <2>4. s # "cache" /\ \A k \in Keys : Agree(k)'
      BY <2>2, <2>3 DEF Agree
    <2> QED
      BY <2>3, <2>4, MovesAlone
  <1>4. CASE PutFilter(p)
    <2>1. /\ UNCHANGED <<row, hot, seen>> /\ at[p] = "filter" /\ InProgress(p)
          /\ Go(p, "upsert")
      BY <1>4 DEF PutFilter, InProgress
    <2>2. Moves(p, "filter", "upsert") /\ \A k \in Keys : Agree(k)
      BY <2>1, GoAlone
    <2> QED
      BY <2>1, <2>2, MovesAlone DEF Agree
  <1>5. CASE PutUpsert(p)
    <2>1. /\ UNCHANGED <<hot, verdict, seen>> /\ at[p] = "upsert" /\ InProgress(p)
          /\ Go(p, "cache")
          /\ row' = [row EXCEPT ![KeyOf[p]] = [val |-> p, status |-> verdict[p]]]
      BY <1>5 DEF PutUpsert, InProgress
    <2>2. Moves(p, "upsert", "cache") /\ \A k \in Keys : Agree(k)
      BY <2>1, GoAlone
    <2>3. /\ row'[KeyOf[p]] = [val |-> p, status |-> verdict'[p]]
          /\ \A k \in Keys \ {KeyOf[p]} : row'[k] = row[k]
      BY <1>k, <2>1 DEF IInv, TypeOK
    <2>4. \A k \in Keys \ {KeyOf[p]} : Agree(k)'
      BY <2>1, <2>2, <2>3 DEF Agree
    <2> QED
      BY <2>2, <2>3, <2>4, MovesAlone
  <1>6. CASE PutCache(p)
    <2> DEFINE v == IF verdict[p] = "active" THEN p ELSE None
    <2>1. /\ UNCHANGED <<row, verdict, seen>> /\ at[p] = "cache" /\ InProgress(p)
          /\ Go(p, "done") /\ hot' = [hot EXCEPT ![KeyOf[p]] = v]
      BY <1>6 DEF PutCache, InProgress
    <2>2. Moves(p, "cache", "done") /\ \A k \in Keys \ {KeyOf[p]} : Agree(k)
      BY <2>1, GoAlone
    <2>3. row[KeyOf[p]] = [val |-> p, status |-> verdict[p]]
      BY <2>1, <2>2 DEF Settled, PutFollows, Moves
    <2>4. hot'[KeyOf[p]] = v /\ \A k \in Keys \ {KeyOf[p]} : hot'[k] = hot[k]
      BY <1>k, <2>1 DEF IInv, TypeOK
    <2>5. Agree(KeyOf[p])'
      BY <2>1, <2>3, <2>4 DEF Agree
    <2>6. \A k \in Keys \ {KeyOf[p]} : Agree(k)'
      BY <2>1, <2>2, <2>4 DEF Agree
    <2> QED
      BY <2>2, <2>5, <2>6, MovesAlone
  <1> QED
    BY <1>1, <1>2, <1>3, <1>4, <1>5, <1>6 DEF Put

LEMMA GetAgrees ==
  ASSUME ScratchpadAssumption, IInv, Settled, serial', NEW g \in Gets, Get(g) PROVE Settled'
  <1> g \in Calls /\ g \notin Puts /\ g \notin Deletes
    BY DEF Calls, ScratchpadAssumption
  <1>k. KeyOf[g] \in Keys
    BY DEF ScratchpadAssumption
  <1>1. CASE GetHot(g)
    <2>1. PICK s \in {"select", "done"} : Begin(g, s)
      BY <1>1 DEF GetHot
    <2>2. UNCHANGED <<row, hot, verdict, seen>>
      BY <1>1 DEF GetHot
    <2>3. Moves(g, "new", s) /\ \A k \in Keys : Agree(k)
      BY <2>1, BeginAlone
    <2>4. s # "warm" /\ \A k \in Keys : Agree(k)'
      BY <2>2, <2>3 DEF Agree
    <2> QED
      BY <2>3, <2>4, MovesAlone
  <1>2. CASE GetSelect(g)
    <2> DEFINE r == row[KeyOf[g]]
               t == IF Readable(r) THEN "warm" ELSE "done"
    <2>1. /\ UNCHANGED <<row, hot, verdict>> /\ at[g] = "select" /\ InProgress(g)
          /\ Go(g, t)
          /\ seen' = [seen EXCEPT ![g] = IF Readable(r) THEN r.val ELSE None]
      BY <1>2 DEF GetSelect, InProgress
    <2>2. Moves(g, "select", t) /\ \A k \in Keys : Agree(k)
      BY <2>1, GoAlone
    <2>3. t = "warm" => r = [val |-> seen'[g], status |-> "active"]
      <3>1. r \in Row
        BY <1>k DEF IInv, TypeOK
      <3>2. Readable(r) => r = [val |-> r.val, status |-> "active"]
        BY <3>1 DEF Row, Readable
      <3>3. Readable(r) => seen'[g] = r.val
        BY <2>1 DEF IInv, TypeOK
      <3> QED
        BY <3>2, <3>3
    <2>4. \A k \in Keys : Agree(k)'
      BY <2>1, <2>2 DEF Agree
    <2> QED
      BY <2>1, <2>2, <2>3, <2>4, MovesAlone
  <1>3. CASE GetWarm(g)
    <2>1. /\ UNCHANGED <<row, verdict, seen>> /\ at[g] = "warm" /\ InProgress(g)
          /\ Go(g, "done") /\ hot' = [hot EXCEPT ![KeyOf[g]] = seen[g]]
      BY <1>3 DEF GetWarm, InProgress
    <2>2. Moves(g, "warm", "done") /\ \A k \in Keys : Agree(k)
      BY <2>1, GoAlone
    <2>3. row[KeyOf[g]] = [val |-> seen[g], status |-> "active"]
      BY <2>1, <2>2 DEF Settled, GetFollows, Moves
    <2>4. hot'[KeyOf[g]] = seen[g] /\ \A k \in Keys \ {KeyOf[g]} : hot'[k] = hot[k]
      BY <1>k, <2>1 DEF IInv, TypeOK
    <2>5. Agree(KeyOf[g])'
      BY <2>1, <2>3, <2>4 DEF Agree
    <2>6. \A k \in Keys \ {KeyOf[g]} : Agree(k)'
      BY <2>1, <2>2, <2>4 DEF Agree
    <2> QED
      BY <2>2, <2>5, <2>6, MovesAlone
  <1> QED
    BY <1>1, <1>2, <1>3 DEF Get

LEMMA DeleteAgrees ==
  ASSUME ScratchpadAssumption, IInv, Settled, serial', NEW d \in Deletes, Delete(d)
  PROVE  Settled'
  <1> d \in Calls /\ d \notin Puts /\ d \notin Gets
    BY DEF Calls, ScratchpadAssumption
  <1>k. KeyOf[d] \in Keys
    BY DEF ScratchpadAssumption
  <1>1. CASE DeleteHot(d)
    <2>1. /\ UNCHANGED <<row, verdict, seen>> /\ Begin(d, "row")
          /\ hot' = [hot EXCEPT ![KeyOf[d]] = None]
      BY <1>1 DEF DeleteHot
    <2>2. Moves(d, "new", "row") /\ \A k \in Keys : Agree(k)
      BY <2>1, BeginAlone
    <2>3. hot'[KeyOf[d]] = None /\ \A k \in Keys \ {KeyOf[d]} : hot'[k] = hot[k]
      BY <1>k, <2>1 DEF IInv, TypeOK
    <2>4. \A k \in Keys : Agree(k)'
      BY <2>1, <2>2, <2>3 DEF Agree
    <2> QED
      BY <2>2, <2>3, <2>4, MovesAlone
  <1>2. CASE DeleteRow(d)
    <2>1. /\ UNCHANGED <<hot, verdict, seen>> /\ at[d] = "row" /\ InProgress(d)
          /\ Go(d, "done") /\ row' = [row EXCEPT ![KeyOf[d]] = NoRow]
      BY <1>2 DEF DeleteRow, InProgress
    <2>2. Moves(d, "row", "done") /\ \A k \in Keys : Agree(k)
      BY <2>1, GoAlone
    <2>3. hot[KeyOf[d]] = None
      BY <2>1, <2>2 DEF Settled, DeleteFollows, Moves
    <2>4. \A k \in Keys \ {KeyOf[d]} : row'[k] = row[k]
      BY <2>1 DEF IInv, TypeOK
    <2>5. \A k \in Keys : Agree(k)'
      BY <2>1, <2>2, <2>3, <2>4 DEF Agree
    <2> QED
      BY <2>2, <2>5, MovesAlone
  <1> QED
    BY <1>1, <1>2 DEF Delete

(* Valkey may drop a hot copy and a row may expire at any time.            *)
LEMMA EnvironmentAgrees ==
  ASSUME IInv, Settled, NEW k \in Keys, Drop(k) \/ RowExpires(k) PROVE Settled'
  <1>1. /\ UNCHANGED <<row, at, verdict, seen, serial>>
        /\ \A j \in Keys : hot'[j] \in {None, hot[j]}
    BY DEF Drop, RowExpires, IInv, TypeOK
  <1>2. \A j \in Keys : Agree(j) => Agree(j)'
    BY <1>1 DEF Agree
  <1>3. OneByOne => OneByOne'
    BY <1>1 DEF OneByOne, InProgress
  <1>4. Agreed => Agreed'
    BY <1>1, <1>2 DEF Agreed
  <1>5. PutFollows /\ GetFollows => PutFollows' /\ GetFollows'
    BY <1>1 DEF PutFollows, GetFollows
  <1>6. DeleteFollows => DeleteFollows'
    <2>1. CASE Drop(k)
      BY <1>1, <2>1 DEF DeleteFollows, Drop, IInv, TypeOK
    <2>2. CASE RowExpires(k)
      BY <1>1, <2>2 DEF DeleteFollows, RowExpires
    <2> QED
      BY <2>1, <2>2
  <1> QED
    BY <1>1, <1>3, <1>4, <1>5, <1>6 DEF Settled

LEMMA SettledAtStart == ASSUME Init PROVE Settled
  BY DEF Init, Settled, OneByOne, Agreed, Agree, PutFollows, GetFollows, DeleteFollows,
         InProgress, Calls

LEMMA SettledKept ==
  ASSUME ScratchpadAssumption, IInv, Settled, [Next]_vars PROVE Settled'
  <1>1. CASE UNCHANGED vars
    <2>1. UNCHANGED <<row, hot, at, verdict, seen, serial>>
      BY <1>1 DEF vars
    <2>2. (OneByOne <=> OneByOne') /\ (Agreed <=> Agreed')
      BY <2>1 DEF OneByOne, Agreed, Agree, InProgress
    <2>3. /\ PutFollows <=> PutFollows'
          /\ GetFollows <=> GetFollows'
          /\ DeleteFollows <=> DeleteFollows'
      BY <2>1 DEF PutFollows, GetFollows, DeleteFollows
    <2> QED
      BY <2>1, <2>2, <2>3 DEF Settled
  <1>2. CASE Next /\ serial'
    <2>1. ASSUME NEW c \in Calls, Fail(c) PROVE FALSE
      BY <1>2, <2>1 DEF Fail
    <2> QED
      BY <1>2, <2>1, PutAgrees, GetAgrees, DeleteAgrees, EnvironmentAgrees DEF Next
  <1>3. CASE ~serial'
    BY <1>3 DEF Settled
  <1> QED
    BY <1>1, <1>2, <1>3

(* As long as scratchpad calls come one by one and none fails, Valkey      *)
(* holds for a key only what its row holds and only if the row is active:  *)
(* for any keys and calls, with hot copies dropped and rows expiring at    *)
(* any time.                                                               *)
THEOREM TiersHold == ASSUME ScratchpadAssumption PROVE Spec => []TiersAgree
  <1>1. Init => Settled
    BY SettledAtStart
  <1>2. IInv /\ Settled /\ [Next]_vars => Settled'
    BY SettledKept
  <1>3. Settled => TiersAgree
    BY DEF Settled, TiersAgree, Agreed, Agree, InProgress, Calls
  <1> QED
    BY <1>1, <1>2, <1>3, Invariance, PTL DEF Spec
-----------------------------------------------------------------------------
(* The limit on keys *)

Unquarantined == \A p \in Puts : verdict[p] # "quarantined"

(* A row is none or has a verdict on it, and so does a put() that has yet  *)
(* to write its row.                                                       *)
RowsWritten ==
    /\ \A k \in Keys : row[k].status = "none" => row[k] = NoRow
    /\ \A p \in Puts : at[p] = "upsert" => verdict[p] # "none"

(* A put() that will write its row writes over an active one, or there is  *)
(* room for one more.                                                      *)
HasRoom(p) ==
    at[p] \in {"filter", "upsert"} =>
        KeyOf[p] \in Active \/ Cardinality(Active) < MaxKeys

Roomy == Cardinality(Active) =< MaxKeys /\ \A p \in Puts : HasRoom(p)

Bounded == serial /\ Unquarantined => Roomy

KInv == IInv /\ Settled /\ RowsWritten /\ Bounded

LEMMA ActiveCounted ==
  ASSUME IsFiniteSet(Keys) PROVE IsFiniteSet(Active) /\ Cardinality(Active) \in Nat
  <1>1. Active \in SUBSET Keys
    BY DEF Active
  <1>2. IsFiniteSet(Active)
    BY <1>1, FS_Subset
  <1> QED
    BY <1>2, FS_CardinalityType

LEMMA RowsWrittenKept ==
  ASSUME ScratchpadAssumption, IInv, RowsWritten, [Next]_vars PROVE RowsWritten'
  <1>t. /\ at \in [Calls -> States] /\ row \in [Keys -> Row]
        /\ verdict \in [Puts -> {"none", "active", "quarantined"}] /\ Puts \subseteq Calls
    BY DEF IInv, TypeOK, Calls
  <1>1. ASSUME NEW p \in Puts, PutFilter(p) PROVE RowsWritten'
    <2>1. PICK v \in {"active", "quarantined"} : verdict' = [verdict EXCEPT ![p] = v]
      BY <1>1 DEF PutFilter
    <2>2. row' = row /\ at' = [at EXCEPT ![p] = "upsert"]
      BY <1>1 DEF PutFilter, Go
    <2>3. \A q \in Puts : verdict'[q] = IF q = p THEN v ELSE verdict[q]
      BY <2>1, <1>t
    <2>4. \A q \in Puts : q # p => at'[q] = at[q]
      BY <2>2, <1>t
    <2> QED
      BY <2>2, <2>3, <2>4 DEF RowsWritten
  <1>2. ASSUME NEW p \in Puts, PutUpsert(p) PROVE RowsWritten'
    <2>1. /\ at[p] = "upsert" /\ verdict' = verdict /\ at' = [at EXCEPT ![p] = "cache"]
          /\ row' = [row EXCEPT ![KeyOf[p]] = [val |-> p, status |-> verdict[p]]]
      BY <1>2 DEF PutUpsert, Go
    <2>2. \A q \in Puts : at'[q] = IF q = p THEN "cache" ELSE at[q]
      BY <2>1, <1>t
    <2>3. \A k \in Keys : row'[k] = IF k = KeyOf[p] THEN [val |-> p, status |-> verdict[p]]
                                                     ELSE row[k]
      BY <2>1, <1>t
    <2> QED
      BY <2>1, <2>2, <2>3 DEF RowsWritten
  <1>3. ASSUME NEW d \in Deletes, DeleteRow(d) PROVE RowsWritten'
    <2>1. /\ verdict' = verdict /\ at' = [at EXCEPT ![d] = "done"]
          /\ row' = [row EXCEPT ![KeyOf[d]] = NoRow]
      BY <1>3 DEF DeleteRow, Go
    <2>2. \A q \in Puts : at'[q] = "upsert" => at[q] = "upsert"
      BY <2>1, <1>t
    <2>3. \A k \in Keys : row'[k] = IF k = KeyOf[d] THEN NoRow ELSE row[k]
      BY <2>1, <1>t
    <2> QED
      BY <2>1, <2>2, <2>3 DEF RowsWritten
  <1>4. ASSUME row' = row, verdict' = verdict, NEW c \in Calls, NEW s, s # "upsert",
               at' = [at EXCEPT ![c] = s]
        PROVE  RowsWritten'
    <2>1. \A q \in Puts : at'[q] = "upsert" => at[q] = "upsert"
      BY <1>4, <1>t
    <2> QED
      BY <1>4, <2>1 DEF RowsWritten
  <1>5. ASSUME row' = row, verdict' = verdict, at' = at PROVE RowsWritten'
    BY <1>5 DEF RowsWritten
  <1>6. ASSUME NEW p \in Puts, Put(p) PROVE RowsWritten'
    <2>1. CASE PutTooLarge(p)  BY <2>1, <1>4 DEF PutTooLarge, Begin, Calls
    <2>2. CASE PutSelect(p)
      <3>1. PICK s \in {"count", "filter"} : Begin(p, s)  BY <2>2 DEF PutSelect
      <3> QED BY <2>2, <3>1, <1>4 DEF PutSelect, Begin, Calls
    <2>3. CASE PutCount(p)
      <3>1. PICK s \in {"failed", "filter"} : Go(p, s)  BY <2>3 DEF PutCount
      <3> QED BY <2>3, <3>1, <1>4 DEF PutCount, Go, Calls
    <2>4. CASE PutCache(p)  BY <2>4, <1>4 DEF PutCache, Go, Calls
    <2> QED
      BY <1>1, <1>2, <1>6, <2>1, <2>2, <2>3, <2>4 DEF Put
  <1>7. ASSUME NEW g \in Gets, Get(g) PROVE RowsWritten'
    <2>1. CASE GetHot(g)
      <3>1. PICK s \in {"select", "done"} : Begin(g, s)  BY <2>1 DEF GetHot
      <3> QED BY <2>1, <3>1, <1>4 DEF GetHot, Begin, Calls
    <2>2. CASE GetSelect(g)
      <3>1. PICK s \in {"warm", "done"} : Go(g, s)  BY <2>2 DEF GetSelect
      <3> QED BY <2>2, <3>1, <1>4 DEF GetSelect, Go, Calls
    <2>3. CASE GetWarm(g)  BY <2>3, <1>4 DEF GetWarm, Go, Calls
    <2> QED
      BY <1>7, <2>1, <2>2, <2>3 DEF Get
  <1>8. ASSUME NEW d \in Deletes, Delete(d) PROVE RowsWritten'
    <2>1. CASE DeleteHot(d)  BY <2>1, <1>4 DEF DeleteHot, Begin, Calls
    <2> QED BY <1>3, <1>8, <2>1 DEF Delete
  <1>9. ASSUME NEW c \in Calls, Fail(c) PROVE RowsWritten'
    BY <1>9, <1>4 DEF Fail
  <1>10. ASSUME NEW k \in Keys, Drop(k) \/ RowExpires(k) PROVE RowsWritten'
    BY <1>10, <1>5 DEF Drop, RowExpires
  <1>11. CASE UNCHANGED vars
    BY <1>11, <1>5 DEF vars
  <1> QED
    BY <1>6, <1>7, <1>8, <1>9, <1>10, <1>11 DEF Next

(* No verdict is taken back, and no two calls that overlapped no longer do. *)
LEMMA WereSo ==
  ASSUME ScratchpadAssumption, IInv, [Next]_vars PROVE
    /\ serial' => serial
    /\ Unquarantined' => Unquarantined
  <1>t. /\ verdict \in [Puts -> {"none", "active", "quarantined"}]
    BY DEF IInv, TypeOK
  <1>1. ASSUME verdict' = verdict PROVE Unquarantined' => Unquarantined
    BY <1>1 DEF Unquarantined
  <1>2. ASSUME NEW p \in Puts, PutFilter(p) PROVE Unquarantined' => Unquarantined
    <2>1. verdict[p] = "none"
      BY <1>2 DEF PutFilter, IInv, VerdictPending, Unwritten
    <2>2. \A q \in Puts : q # p => verdict'[q] = verdict[q]
      BY <1>2, <1>t DEF PutFilter
    <2> QED
      BY <2>1, <2>2 DEF Unquarantined
  <1>3. CASE UNCHANGED vars
    BY <1>1, <1>3 DEF vars
  <1>4. ASSUME NEW p \in Puts, Put(p)
        PROVE  (serial' => serial) /\ (Unquarantined' => Unquarantined)
    <2>1. serial' => serial
      BY <1>4 DEF Put, PutTooLarge, PutSelect, PutCount, PutFilter, PutUpsert, PutCache,
                  Begin, Go
    <2>2. PutFilter(p) \/ verdict' = verdict
      BY <1>4 DEF Put, PutTooLarge, PutSelect, PutCount, PutUpsert, PutCache
    <2> QED
      BY <1>1, <1>2, <2>1, <2>2
  <1>5. ASSUME NEW g \in Gets, Get(g)
        PROVE  (serial' => serial) /\ (Unquarantined' => Unquarantined)
    <2>1. serial' => serial
      BY <1>5 DEF Get, GetHot, GetSelect, GetWarm, Begin, Go
    <2>2. verdict' = verdict
      BY <1>5 DEF Get, GetHot, GetSelect, GetWarm
    <2> QED
      BY <1>1, <2>1, <2>2
  <1>6. ASSUME NEW d \in Deletes, Delete(d)
        PROVE  (serial' => serial) /\ (Unquarantined' => Unquarantined)
    <2>1. serial' => serial
      BY <1>6 DEF Delete, DeleteHot, DeleteRow, Begin, Go
    <2>2. verdict' = verdict
      BY <1>6 DEF Delete, DeleteHot, DeleteRow
    <2> QED
      BY <1>1, <2>1, <2>2
  <1>7. ASSUME NEW c \in Calls, Fail(c)
        PROVE  (serial' => serial) /\ (Unquarantined' => Unquarantined)
    BY <1>1, <1>7 DEF Fail
  <1>8. ASSUME NEW k \in Keys, Drop(k) \/ RowExpires(k)
        PROVE  (serial' => serial) /\ (Unquarantined' => Unquarantined)
    BY <1>1, <1>8 DEF Drop, RowExpires
  <1> QED
    BY <1>3, <1>4, <1>5, <1>6, <1>7, <1>8 DEF Next

(* A step that leaves the rows alone and takes no put() to its row.        *)
LEMMA RoomyStays ==
  ASSUME IInv, Roomy, row' = row, NEW c \in Calls, NEW s, at' = [at EXCEPT ![c] = s],
         c \in Puts /\ s \in {"filter", "upsert"} =>
            \/ at[c] \in {"filter", "upsert"}
            \/ KeyOf[c] \in Active \/ Cardinality(Active) < MaxKeys
  PROVE  Roomy'
  <1>1. Active' = Active
    BY DEF Active
  <1>2. \A q \in Puts : at'[q] = IF q = c THEN s ELSE at[q]
    BY DEF IInv, TypeOK, Calls
  <1>3. ASSUME NEW q \in Puts PROVE HasRoom(q)'
    BY <1>1, <1>2 DEF Roomy, HasRoom
  <1> QED
    BY <1>1, <1>3 DEF Roomy

(* Nothing but the put() that writes its row is about to write one.        *)
LEMMA AloneInRoom ==
  ASSUME IInv, Settled, serial, NEW c \in Calls, InProgress(c), NEW s,
         s \notin {"filter", "upsert"}, at' = [at EXCEPT ![c] = s]
  PROVE  \A q \in Puts : HasRoom(q)'
  <1>1. \A q \in Puts : q # c => ~InProgress(q)
    BY DEF Settled, OneByOne, Calls
  <1>2. \A q \in Puts : at'[q] = IF q = c THEN s ELSE at[q]
    BY DEF IInv, TypeOK, Calls
  <1> QED
    BY <1>1, <1>2 DEF HasRoom, InProgress

LEMMA PutKeepsRoom ==
  ASSUME ScratchpadAssumption, IsFiniteSet(Keys), IInv, Settled, RowsWritten, Roomy,
         serial, Unquarantined, serial', Unquarantined', NEW p \in Puts, Put(p)
  PROVE  Roomy'
  <1> p \in Calls
    BY DEF Calls
  <1>k. KeyOf[p] \in Keys
    BY DEF ScratchpadAssumption
  <1>a. IsFiniteSet(Active) /\ Cardinality(Active) \in Nat /\ MaxKeys \in Nat
    BY ActiveCounted DEF ScratchpadAssumption
  <1>s. \A k \in Keys : row[k] # NoRow => k \in Active
    <2> TAKE k \in Keys
    <2> HAVE row[k] # NoRow
    <2>1. row[k].status # "none"
      BY DEF RowsWritten
    <2>2. row[k].val \in Puts /\ verdict[row[k].val] = row[k].status
      BY <2>1 DEF IInv, RowsJudged
    <2>3. row[k] \in Row
      BY DEF IInv, TypeOK
    <2> QED
      BY <2>1, <2>2, <2>3 DEF Unquarantined, Active, Row
  <1>1. CASE PutTooLarge(p)
    BY <1>1, RoomyStays DEF PutTooLarge, Begin
  <1>2. CASE PutSelect(p)
    <2> DEFINE s == IF row[KeyOf[p]] = NoRow THEN "count" ELSE "filter"
    <2>1. row' = row /\ at' = [at EXCEPT ![p] = s]
      BY <1>2 DEF PutSelect, Begin
    <2>2. s \in {"filter", "upsert"} => KeyOf[p] \in Active
      BY <1>k, <1>s
    <2> HIDE DEF s
    <2> QED
      BY <2>1, <2>2, RoomyStays
  <1>3. CASE PutCount(p)
    <2> DEFINE s == IF Cardinality(Active) >= MaxKeys THEN "failed" ELSE "filter"
    <2>1. row' = row /\ at' = [at EXCEPT ![p] = s]
      BY <1>3 DEF PutCount, Go
    <2>2. s \in {"filter", "upsert"} => Cardinality(Active) < MaxKeys
      BY <1>a
    <2> HIDE DEF s
    <2> QED
      BY <2>1, <2>2, RoomyStays
  <1>4. CASE PutFilter(p)
    BY <1>4, RoomyStays DEF PutFilter, Go
  <1>5. CASE PutUpsert(p)
    <2>1. /\ at[p] = "upsert" /\ at' = [at EXCEPT ![p] = "cache"] /\ verdict' = verdict
          /\ row' = [row EXCEPT ![KeyOf[p]] = [val |-> p, status |-> verdict[p]]]
      BY <1>5 DEF PutUpsert, Go
    <2>2. verdict[p] = "active"
      BY <2>1 DEF RowsWritten, Unquarantined, IInv, TypeOK
    <2>3. \A k \in Keys : row'[k] = IF k = KeyOf[p] THEN [val |-> p, status |-> "active"]
                                                     ELSE row[k]
      BY <2>1, <2>2 DEF IInv, TypeOK
    <2>4. Active' = Active \cup {KeyOf[p]}
      BY <2>3, <1>k DEF Active
    <2>5. Cardinality(Active') =< MaxKeys
      <3>1. KeyOf[p] \in Active \/ Cardinality(Active) < MaxKeys
        BY <2>1 DEF Roomy, HasRoom
      <3>2. Cardinality(Active \cup {KeyOf[p]}) =
              IF KeyOf[p] \in Active THEN Cardinality(Active) ELSE Cardinality(Active) + 1
        BY <1>a, FS_AddElement
      <3> QED
        BY <3>1, <3>2, <2>4, <1>a DEF Roomy
    <2>6. InProgress(p)
      BY <2>1 DEF InProgress
    <2> QED
      BY <2>1, <2>5, <2>6, AloneInRoom DEF Roomy
  <1>6. CASE PutCache(p)
    BY <1>6, RoomyStays DEF PutCache, Go
  <1> QED
    BY <1>1, <1>2, <1>3, <1>4, <1>5, <1>6 DEF Put

LEMMA OthersKeepRoom ==
  ASSUME ScratchpadAssumption, IsFiniteSet(Keys), IInv, Settled, RowsWritten, Roomy,
         serial, serial', [Next]_vars, \A p \in Puts : ~Put(p)
  PROVE  Roomy'
  <1>g. Gets \cap Puts = {} /\ Deletes \cap Puts = {} /\ Gets \subseteq Calls
        /\ Deletes \subseteq Calls
    BY DEF ScratchpadAssumption, Calls
  <1>1. ASSUME NEW g \in Gets, Get(g) PROVE Roomy'
    <2>1. PICK s : row' = row /\ at' = [at EXCEPT ![g] = s]
      <3>1. CASE GetHot(g)     BY <3>1 DEF GetHot, Begin
      <3>2. CASE GetSelect(g)  BY <3>2 DEF GetSelect, Go
      <3>3. CASE GetWarm(g)    BY <3>3 DEF GetWarm, Go
      <3> QED BY <1>1, <3>1, <3>2, <3>3 DEF Get
    <2> QED
      BY <2>1, <1>g, RoomyStays
  <1>2. ASSUME NEW d \in Deletes, DeleteHot(d) PROVE Roomy'
    BY <1>2, <1>g, RoomyStays DEF DeleteHot, Begin
  <1>3. ASSUME NEW d \in Deletes, DeleteRow(d) PROVE Roomy'
    <2>1. /\ at[d] = "row" /\ at' = [at EXCEPT ![d] = "done"]
          /\ row' = [row EXCEPT ![KeyOf[d]] = NoRow]
      BY <1>3 DEF DeleteRow, Go
    <2>2. \A k \in Keys : row'[k] = IF k = KeyOf[d] THEN NoRow ELSE row[k]
      BY <2>1 DEF IInv, TypeOK
    <2>3. Active' \in SUBSET Active
      BY <2>2 DEF Active, NoRow
    <2>4. IsFiniteSet(Active) /\ Cardinality(Active) \in Nat /\ MaxKeys \in Nat
      BY ActiveCounted DEF ScratchpadAssumption
    <2>5. Cardinality(Active') =< Cardinality(Active) /\ Cardinality(Active') \in Nat
      BY <2>3, <2>4, FS_Subset, FS_CardinalityType
    <2>6. Cardinality(Active') =< MaxKeys
      BY <2>4, <2>5 DEF Roomy
    <2>7. InProgress(d)
      BY <2>1 DEF InProgress
    <2> QED
      BY <2>1, <2>6, <2>7, <1>g, AloneInRoom DEF Roomy
  <1>4. ASSUME NEW k \in Keys, Drop(k) \/ RowExpires(k) PROVE Roomy'
    <2>1. row' = row /\ at' = at
      BY <1>4 DEF Drop, RowExpires
    <2> QED
      BY <2>1 DEF Roomy, HasRoom, Active
  <1>5. ASSUME UNCHANGED vars PROVE Roomy'
    <2>1. row' = row /\ at' = at
      BY <1>5 DEF vars
    <2> QED
      BY <2>1 DEF Roomy, HasRoom, Active
  <1>6. ASSUME NEW c \in Calls, Fail(c) PROVE FALSE
    BY <1>6 DEF Fail
  <1> QED
    BY <1>1, <1>2, <1>3, <1>4, <1>5, <1>6 DEF Next, Delete

(* "Abuse limits ... explicit errors": as long as no calls overlapped or    *)
(* failed and no value was quarantined, put() keeps the session within      *)
(* max_keys active keys, for any finite set of keys, any calls and limit.  *)
THEOREM KeysLimited ==
  ASSUME ScratchpadAssumption, IsFiniteSet(Keys) PROVE Spec => []KeyLimitHeld
  <1>1. Init => KInv
    <2> SUFFICES ASSUME Init PROVE KInv
      OBVIOUS
    <2>1. RowsWritten
      BY DEF Init, RowsWritten, Calls
    <2>2. Active = {}
      BY DEF Init, Active, NoRow
    <2>3. Cardinality(Active) = 0
      BY <2>2, FS_EmptySet
    <2>4. Roomy
      BY <2>3 DEF Roomy, HasRoom, Init, Calls, ScratchpadAssumption
    <2> QED
      BY <2>1, <2>4, InitHolds, SettledAtStart DEF KInv, Bounded
  <1>2. ASSUME KInv, [Next]_vars PROVE KInv'
    <2>1. IInv' /\ Settled' /\ RowsWritten'
      BY <1>2, StepHolds, SettledKept, RowsWrittenKept DEF KInv
    <2>2. ASSUME serial', Unquarantined' PROVE Roomy'
      <3>1. serial /\ Unquarantined
        BY <1>2, <2>2, WereSo DEF KInv
      <3>2. Roomy
        BY <1>2, <3>1 DEF KInv, Bounded
      <3> QED
        BY <1>2, <2>2, <3>1, <3>2, PutKeepsRoom, OthersKeepRoom DEF KInv
    <2> QED
      BY <2>1, <2>2 DEF KInv, Bounded
  <1>3. KInv => KeyLimitHeld
    BY DEF KInv, Bounded, Roomy, KeyLimitHeld, Unquarantined
  <1> QED
    BY <1>1, <1>2, <1>3, PTL DEF Spec
----------------------------------------------------------------------------
(* Conversation summaries *)

(* The conversation of a row, and what the requests call it. *)
Key(i) == <<table[i].org, table[i].conv>>

Ends == {Conversation[t][1] : t \in Turns} \cup {Conversation[t][2] : t \in Turns}

Conversations == {Conversation[t] : t \in Turns}

SumRow == [org: Ends, conv: Ends, version: Nat \ {0}, of: Conversations, covers: Nat,
           status: {"active", "superseded"}, supersededBy: Nat]

Views == [of: Conversations \cup {<<>>}, covers: Nat]

SumTyped ==
    /\ table \in Seq(SumRow)
    /\ found \in [Turns -> Nat] /\ new \in [Turns -> Nat]
    /\ view \in [Turns -> Views]
    /\ step \in [Turns -> Outcomes \cup {"count", "select", "dispatch", "filter",
                                         "insert", "mark", "recall"}]

(* Every row was stored by a request, whose conversation it summarizes. *)
Written == \A i \in DOMAIN table : \E u \in Turns : Key(i) = Stored(u) /\ table[i].of = Conversation[u]

(* The rows i and j of one conversation: versions are unique, none is left *)
(* out, a later one covers more and the latest is active.                  *)
OneRow(i, j) == table[i].version = table[j].version => i = j
Complete(i) == \A v \in 1..table[i].version :
                  \E j \in DOMAIN table : Key(j) = Key(i) /\ table[j].version = v
Grows(i, j) == table[i].version < table[j].version => table[i].covers < table[j].covers
Current(i) == IsLatest(i, Key(i)) => table[i].status = "active"

Versioned ==
    \A i \in DOMAIN table : ~Mirrored(Key(i)) =>
        /\ Complete(i) /\ Current(i)
        /\ \A j \in DOMAIN table : Key(j) = Key(i) => OneRow(i, j) /\ Grows(i, j)

(* What a request knows of the row i that it found: it does not reach far  *)
(* enough, or the request has inserted a later one, j.                     *)
TooShort(t, i) ==
    step[t] \in {"dispatch", "filter", "insert"} => table[i].covers < Older[t]
Later(t, i, j) ==
    step[t] = "mark" => Key(j) = Conversation[t] /\ table[i].version < table[j].version

KnowsFound(t, i) ==
    /\ Key(i) = Conversation[t]
    /\ ~Mirrored(Conversation[t]) =>
         /\ TooShort(t, i)
         /\ \A j \in DOMAIN table : j = new[t] => Later(t, i, j)

Knows(t) ==
    /\ step[t] \in {"count", "select"} => found[t] = 0
    /\ step[t] = "mark" => found[t] # 0 /\ new[t] \in DOMAIN table
    /\ found[t] # 0 => found[t] \in DOMAIN table
    /\ \A i \in DOMAIN table : i = found[t] => KnowsFound(t, i)

Reaches(t) == step[t] \in {"mark", "recall", "injected"} =>
                /\ view[t].covers >= Older[t]
                /\ ~Mirrored(Conversation[t]) => view[t].of = Conversation[t]

SInv == SumTyped /\ Written /\ Versioned /\ \A t \in Turns : Knows(t) /\ Reaches(t)

SameTurn(u) == /\ step'[u] = step[u] /\ found'[u] = found[u]
               /\ new'[u] = new[u] /\ view'[u] = view[u]

(* Rows are added and marked; what they say is never changed.              *)
RowsKept ==
    /\ 0 \notin DOMAIN table'
    /\ \A i \in DOMAIN table :
         /\ i \in DOMAIN table' /\ Key(i)' = Key(i)
         /\ table'[i].version = table[i].version /\ table'[i].covers = table[i].covers
         /\ table'[i].of = table[i].of

LEMMA SomeView ==
  /\ NoView \in Views
  /\ \A c \in Conversations, n \in Nat : [of |-> c, covers |-> n] \in Views
  BY DEF NoView, Views

LEMMA TurnKept ==
  ASSUME RowsKept, NEW u \in Turns, SameTurn(u), Knows(u), Reaches(u)
  PROVE  Knows(u)' /\ Reaches(u)'
  <1>1. Reaches(u)'
    BY DEF SameTurn, Reaches, Mirrored
  <1>2. /\ step'[u] \in {"count", "select"} => found'[u] = 0
        /\ step'[u] = "mark" => found'[u] # 0 /\ new'[u] \in DOMAIN table'
        /\ found'[u] # 0 => found'[u] \in DOMAIN table'
    BY DEF SameTurn, Knows, RowsKept
  <1>3. ASSUME NEW i \in DOMAIN table', i = found'[u] PROVE KnowsFound(u, i)'
    <2>1. i \in DOMAIN table /\ KnowsFound(u, i)
      BY <1>3 DEF SameTurn, Knows, RowsKept
    <2>2. Key(i)' = Conversation[u]
      BY <2>1 DEF RowsKept, KnowsFound
    <2>3. ASSUME ~Mirrored(Conversation[u]), NEW j \in DOMAIN table', j = new'[u],
                 step'[u] = "mark"
          PROVE  Key(j)' = Conversation[u] /\ table'[i].version < table'[j].version
      <3>1. j \in DOMAIN table
        BY <2>3 DEF SameTurn, Knows
      <3>2. Later(u, i, j)
        BY <2>1, <2>3, <3>1 DEF KnowsFound, SameTurn
      <3> QED
        BY <2>1, <2>3, <3>1, <3>2 DEF Later, SameTurn, RowsKept
    <2>4. ~Mirrored(Conversation[u]) => TooShort(u, i)'
      BY <2>1 DEF KnowsFound, TooShort, RowsKept, SameTurn
    <2> QED
      BY <2>2, <2>3, <2>4 DEF KnowsFound, Later, Mirrored
  <1> QED
    BY <1>1, <1>2, <1>3 DEF Knows

LEMMA TableFacts ==
  ASSUME SumTyped
  PROVE  /\ Len(table) \in Nat /\ DOMAIN table = 1..Len(table)
         /\ \A i \in DOMAIN table :
              /\ table[i] \in SumRow /\ table[i].version \in Nat \ {0}
              /\ table[i].covers \in Nat /\ table[i].of \in Conversations /\ i \in Nat \ {0}
  <1>1. table \in Seq(SumRow)
    BY DEF SumTyped
  <1>2. Len(table) \in Nat /\ DOMAIN table = 1..Len(table)
    BY <1>1
  <1>3. ASSUME NEW i \in DOMAIN table
        PROVE  table[i] \in SumRow /\ i \in Nat \ {0}
    BY <1>1, <1>2, <1>3
  <1> QED
    BY <1>2, <1>3 DEF SumRow

(* A row that a request finds was stored for its own conversation, unless  *)
(* the conversation mirrors another.                                       *)
LEMMA OwnKey ==
  ASSUME SummariesAssumption, Written, NEW t \in Turns, NEW i \in DOMAIN table,
         Key(i) = Conversation[t], ~Mirrored(Conversation[t])
  PROVE  Stored(t) = Conversation[t] /\ table[i].of = Conversation[t]
  <1>1. PICK u \in Turns : Key(i) = Stored(u) /\ table[i].of = Conversation[u]
    BY DEF Written
  <1>2. /\ Conversation[t] = <<Conversation[t][1], Conversation[t][2]>>
        /\ Conversation[u] = <<Conversation[u][1], Conversation[u][2]>>
    BY DEF SummariesAssumption
  <1>3. Conversation[t] = <<Conversation[u][2], Conversation[u][1]>>
    BY <1>1 DEF Stored
  <1>4. Conversation[u] = Mirror(Conversation[t])
    BY <1>2, <1>3 DEF Mirror
  <1>5. Mirror(Conversation[t]) = Conversation[t]
    BY <1>4 DEF Mirrored
  <1> QED
    BY <1>1, <1>4, <1>5 DEF Mirror, Stored

LEMMA MirroredStored ==
  ASSUME SummariesAssumption, NEW t \in Turns, Mirrored(Conversation[t])
  PROVE  Mirrored(Stored(t))
  <1>1. Stored(t) = Mirror(Conversation[t]) /\ Mirror(Stored(t)) = Conversation[t]
    BY DEF SummariesAssumption, Stored, Mirror
  <1> QED
    BY <1>1 DEF Mirrored

(* The unique index lets only the latest version of a conversation in, and *)
(* what a request saw of the latest before it does not reach far enough.   *)
LEMMA NextIsLatest ==
  ASSUME SummariesAssumption, SInv, NEW t \in Turns, step[t] = "insert", Insertable(t),
         ~Mirrored(Stored(t))
  PROVE  /\ NextVersion(t) \in Nat \ {0}
         /\ \A j \in DOMAIN table : Key(j) = Stored(t) =>
              table[j].version < NextVersion(t) /\ table[j].covers < Older[t]
         /\ \A v \in 1..NextVersion(t) - 1 :
              \E j \in DOMAIN table : Key(j) = Stored(t) /\ table[j].version = v
  <1>0. SumTyped /\ Written /\ Versioned /\ Knows(t) /\ Older[t] \in Nat
    BY DEF SInv, SummariesAssumption
  <1>1. \A j \in DOMAIN table : Key(j) = Stored(t) =>
            /\ table[j].version # NextVersion(t)
            /\ Complete(j) /\ table[j].version \in Nat \ {0} /\ table[j].covers \in Nat
    BY <1>0, TableFacts DEF Insertable, Ids, Key, Versioned
  <1>2. CASE found[t] = 0
    <2>1. NextVersion(t) = 1
      BY <1>2 DEF NextVersion
    <2>2. ASSUME NEW j \in DOMAIN table, Key(j) = Stored(t) PROVE FALSE
      <3>1. 1 \in 1..table[j].version /\ Complete(j)
        BY <1>1, <2>2
      <3>2. PICK k \in DOMAIN table : Key(k) = Key(j) /\ table[k].version = 1
        BY <3>1 DEF Complete
      <3> QED
        BY <1>1, <2>1, <2>2, <3>2
    <2> QED
      BY <2>1, <2>2
  <1>3. CASE found[t] # 0
    <2>1. PICK f \in DOMAIN table : f = found[t]
      BY <1>0, <1>3 DEF Knows
    <2>2. KnowsFound(t, f) /\ ~Mirrored(Conversation[t])
      BY <1>0, <2>1, MirroredStored DEF Knows
    <2>3. Key(f) = Stored(t) /\ table[f].covers < Older[t]
      BY <1>0, <2>2, OwnKey DEF KnowsFound, TooShort
    <2>4. NextVersion(t) = table[f].version + 1
      BY <1>3, <2>1 DEF NextVersion
    <2>5. table[f].version \in Nat \ {0} /\ table[f].covers \in Nat /\ Complete(f)
      BY <1>1, <2>3
    <2>6. ASSUME NEW j \in DOMAIN table, Key(j) = Stored(t)
          PROVE  table[j].version < NextVersion(t) /\ table[j].covers < Older[t]
      <3>1. table[j].version \in Nat \ {0} /\ table[j].covers \in Nat /\ Complete(j)
        BY <1>1, <2>6
      <3>2. ~(NextVersion(t) \in 1..table[j].version)
        BY <1>1, <2>6, <3>1 DEF Complete
      <3>3. table[j].version <= table[f].version
        BY <2>4, <2>5, <3>1, <3>2
      <3>4. OneRow(j, f) /\ Grows(j, f)
        BY <1>0, <2>3, <2>6 DEF Versioned
      <3>5. table[j].covers <= table[f].covers
        BY <2>5, <3>1, <3>3, <3>4 DEF OneRow, Grows
      <3> QED
        BY <1>0, <2>3, <2>4, <2>5, <3>1, <3>3, <3>5
    <2>7. ASSUME NEW v \in 1..NextVersion(t) - 1
          PROVE  \E j \in DOMAIN table : Key(j) = Stored(t) /\ table[j].version = v
      <3>1. v \in 1..table[f].version
        BY <2>4, <2>5
      <3> QED
        BY <2>3, <2>5, <3>1 DEF Complete
    <2>8. NextVersion(t) \in Nat \ {0}
      BY <2>4, <2>5
    <2> QED
      BY <2>6, <2>7, <2>8
  <1> QED
    BY <1>2, <1>3

LEMMA NextVersionTyped ==
  ASSUME SInv, NEW t \in Turns PROVE NextVersion(t) \in Nat \ {0}
  <1>1. SumTyped /\ Knows(t)
    BY DEF SInv
  <1>2. found[t] # 0 => table[found[t]].version \in Nat \ {0}
    BY <1>1, TableFacts DEF Knows
  <1> QED
    BY <1>2 DEF NextVersion

(* The row that InsertSummary adds. *)
LEMMA InsertedRow ==
  ASSUME SummariesAssumption, SInv, NEW t \in Turns, InsertSummary(t), NEW n, n = Len(table) + 1
  PROVE  /\ table' \in Seq(SumRow) /\ n \notin DOMAIN table /\ n \in Nat \ {0}
         /\ DOMAIN table' = DOMAIN table \cup {n}
         /\ \A i \in DOMAIN table : table'[i] = table[i]
         /\ Key(n)' = Stored(t) /\ table'[n].version = NextVersion(t)
         /\ table'[n].covers = Older[t] /\ table'[n].status = "active"
         /\ table'[n].of = Conversation[t] /\ RowsKept
  <1> DEFINE r == [org |-> Stored(t)[1], conv |-> Stored(t)[2],
                   version |-> NextVersion(t),
                   of |-> Conversation[t], covers |-> Older[t],
                   status |-> "active", supersededBy |-> 0]
  <1>1. table' = Append(table, r)
    BY DEF InsertSummary
  <1>2. table \in Seq(SumRow) /\ SumTyped
    BY DEF SInv, SumTyped
  <1>3. r \in SumRow
    <2>1. Stored(t)[1] \in Ends /\ Stored(t)[2] \in Ends
      BY DEF Stored, Ends
    <2>2. NextVersion(t) \in Nat \ {0} /\ Older[t] \in Nat
      BY NextVersionTyped DEF SummariesAssumption
    <2>3. Conversation[t] \in Conversations
      BY DEF Conversations
    <2> QED
      BY <2>1, <2>2, <2>3 DEF SumRow
  <1>4. r.version = NextVersion(t) /\ r.covers = Older[t] /\ r.status = "active"
        /\ r.of = Conversation[t]
        /\ <<r.org, r.conv>> = Stored(t)
    BY DEF Stored
  <1> HIDE DEF r
  <1>5. /\ table' \in Seq(SumRow) /\ Len(table') = n /\ table'[n] = r
        /\ \A i \in 1..Len(table) : table'[i] = table[i]
    BY <1>1, <1>2, <1>3, AppendProperties
  <1>6. /\ DOMAIN table = 1..Len(table) /\ DOMAIN table' = 1..Len(table')
        /\ Len(table) \in Nat
    BY <1>2, <1>5
  <1>7. /\ n \notin DOMAIN table /\ n \in Nat \ {0}
        /\ DOMAIN table' = DOMAIN table \cup {n}
    BY <1>5, <1>6
  <1>8. RowsKept
    BY <1>5, <1>6 DEF RowsKept, Key
  <1>9. Key(n)' = Stored(t)
    BY <1>4, <1>5 DEF Key
  <1> QED
    BY <1>4, <1>5, <1>6, <1>7, <1>8, <1>9

LEMMA InsertVersioned ==
  ASSUME SummariesAssumption, SInv, NEW t \in Turns, InsertSummary(t)
  PROVE  Versioned'
  <1>1. PICK n : n = Len(table) + 1
    OBVIOUS
  <1>2. /\ n \notin DOMAIN table /\ DOMAIN table' = DOMAIN table \cup {n}
        /\ \A i \in DOMAIN table : table'[i] = table[i]
        /\ Key(n)' = Stored(t) /\ table'[n].version = NextVersion(t)
        /\ table'[n].covers = Older[t] /\ table'[n].status = "active"
    BY <1>1, InsertedRow
  <1>3. \A i \in DOMAIN table : Key(i)' = Key(i)
    BY <1>2 DEF Key
  <1>4. SumTyped /\ Versioned /\ step[t] = "insert" /\ Insertable(t)
    BY DEF SInv, InsertSummary
  <1>5. ~Mirrored(Stored(t)) =>
         /\ NextVersion(t) \in Nat \ {0}
         /\ \A j \in DOMAIN table : Key(j) = Stored(t) =>
              table[j].version < NextVersion(t) /\ table[j].covers < Older[t]
         /\ \A v \in 1..NextVersion(t) - 1 :
              \E j \in DOMAIN table : Key(j) = Stored(t) /\ table[j].version = v
    BY <1>4, NextIsLatest
  <1>6. \A j \in DOMAIN table : table[j].version \in Nat /\ table[j].covers \in Nat
    BY <1>4, TableFacts
  <1>7. Older[t] \in Nat
    BY DEF SummariesAssumption
  <1>8. ASSUME NEW i \in DOMAIN table', ~Mirrored(Key(i)'),
               NEW j \in DOMAIN table', Key(j)' = Key(i)'
        PROVE  OneRow(i, j)' /\ Grows(i, j)'
    <2>1. CASE i \in DOMAIN table /\ j \in DOMAIN table
      <3>1. OneRow(i, j) /\ Grows(i, j)
        BY <1>3, <1>4, <1>8, <2>1 DEF Versioned
      <3> QED
        BY <1>2, <2>1, <3>1 DEF OneRow, Grows
    <2>2. CASE i = n /\ j \in DOMAIN table
      <3>1. table[j].version < NextVersion(t) /\ NextVersion(t) \in Nat
        BY <1>2, <1>3, <1>5, <1>8, <2>2
      <3> QED
        BY <1>2, <1>6, <2>2, <3>1 DEF OneRow, Grows
    <2>3. CASE i \in DOMAIN table /\ j = n
      <3>1. /\ table[i].version < NextVersion(t) /\ NextVersion(t) \in Nat
            /\ table[i].covers < Older[t]
        BY <1>2, <1>3, <1>5, <1>8, <2>3
      <3> QED
        BY <1>2, <1>6, <2>3, <3>1 DEF OneRow, Grows
    <2>4. CASE i = n /\ j = n
      <3>1. NextVersion(t) \in Nat
        BY <1>2, <1>5, <1>8, <2>4
      <3> QED
        BY <1>2, <2>4, <3>1 DEF OneRow, Grows
    <2> QED
      BY <1>2, <2>1, <2>2, <2>3, <2>4
  <1>9. ASSUME NEW i \in DOMAIN table', ~Mirrored(Key(i)')
        PROVE  Complete(i)'
    <2> SUFFICES ASSUME NEW v \in 1..table'[i].version
                 PROVE  \E j \in DOMAIN table' : Key(j)' = Key(i)' /\ table'[j].version = v
      BY DEF Complete
    <2>1. CASE i \in DOMAIN table
      <3>1. Complete(i) /\ v \in 1..table[i].version
        BY <1>2, <1>3, <1>4, <1>9, <2>1 DEF Versioned
      <3>2. PICK j \in DOMAIN table : Key(j) = Key(i) /\ table[j].version = v
        BY <3>1 DEF Complete
      <3> QED
        BY <1>2, <1>3, <2>1, <3>2
    <2>2. CASE i = n
      <3>1. NextVersion(t) \in Nat \ {0} /\ v \in 1..NextVersion(t)
        BY <1>2, <1>5, <1>9, <2>2
      <3>2. CASE v = NextVersion(t)
        BY <1>2, <2>2, <3>2
      <3>3. CASE v # NextVersion(t)
        <4>1. v \in 1..NextVersion(t) - 1
          BY <3>1, <3>3
        <4>2. PICK j \in DOMAIN table : Key(j) = Stored(t) /\ table[j].version = v
          BY <1>2, <1>5, <1>9, <2>2, <4>1
        <4> QED
          BY <1>2, <1>3, <2>2, <4>2
      <3> QED
        BY <3>2, <3>3
    <2> QED
      BY <1>2, <2>1, <2>2
  <1>10. ASSUME NEW i \in DOMAIN table', ~Mirrored(Key(i)')
         PROVE  Current(i)'
    <2>1. CASE i = n
      BY <1>2, <2>1 DEF Current
    <2>2. CASE i \in DOMAIN table
      <3> SUFFICES ASSUME IsLatest(i, Key(i))' PROVE table'[i].status = "active"
        BY DEF Current
      <3>1. \A j \in DOMAIN table' : Key(j)' = Key(i)' => table'[j].version <= table'[i].version
        BY DEF IsLatest, Ids, Key
      <3>2. \A j \in DOMAIN table : Key(j) = Key(i) => table[j].version <= table[i].version
        BY <1>2, <1>3, <2>2, <3>1
      <3>3. IsLatest(i, Key(i))
        BY <2>2, <3>2 DEF IsLatest, Ids, Key
      <3> QED
        BY <1>2, <1>3, <1>4, <1>10, <2>2, <3>3 DEF Versioned, Current
    <2> QED
      BY <1>2, <2>1, <2>2
  <1> QED
    BY <1>8, <1>9, <1>10 DEF Versioned, Mirrored

(* The row that MarkSuperseded marks is not its conversation's latest.     *)
LEMMA MarkedRow ==
  ASSUME SInv, NEW t \in Turns, MarkSuperseded(t)
  PROVE  /\ table' \in Seq(SumRow) /\ RowsKept /\ DOMAIN table' = DOMAIN table
         /\ \A i \in DOMAIN table : i # found[t] => table'[i] = table[i]
  <1> DEFINE r == [table[found[t]] EXCEPT !.status = "superseded", !.supersededBy = new[t]]
  <1>1. SumTyped /\ Knows(t) /\ step[t] = "mark"
    BY DEF SInv, MarkSuperseded
  <1>2. PICK f \in DOMAIN table : f = found[t]
    BY <1>1 DEF Knows
  <1>3. table \in Seq(SumRow) /\ table[f] \in SumRow /\ new[t] \in Nat
        /\ DOMAIN table = 1..Len(table) /\ Len(table) \in Nat
    BY <1>1, TableFacts DEF SumTyped
  <1>4. r \in SumRow /\ r.org = table[f].org /\ r.conv = table[f].conv
        /\ r.version = table[f].version /\ r.covers = table[f].covers /\ r.of = table[f].of
    BY <1>2, <1>3 DEF SumRow
  <1>5. DOMAIN table' = DOMAIN table /\ table'[f] = r
        /\ \A i \in DOMAIN table : i # f => table'[i] = table[i]
    BY <1>2, <1>3 DEF MarkSuperseded
  <1> HIDE DEF r
  <1>6. table' \in Seq(SumRow)
    <2>1. table' = [table EXCEPT ![f] = r]
      BY <1>2, <1>3 DEF MarkSuperseded, r
    <2> QED
      BY <1>2, <1>3, <1>4, <2>1, ExceptSeq
  <1>7. RowsKept
    BY <1>3, <1>4, <1>5 DEF RowsKept, Key
  <1> QED
    BY <1>2, <1>5, <1>6, <1>7

LEMMA MarkVersioned ==
  ASSUME SummariesAssumption, SInv, NEW t \in Turns, MarkSuperseded(t)
  PROVE  Versioned'
  <1>1. SumTyped /\ Knows(t) /\ step[t] = "mark" /\ Versioned
    BY DEF SInv, MarkSuperseded
  <1>2. RowsKept /\ DOMAIN table' = DOMAIN table
        /\ \A i \in DOMAIN table : i # found[t] => table'[i] = table[i]
    BY MarkedRow
  <1>3. \A i \in DOMAIN table :
          /\ Key(i)' = Key(i) /\ table'[i].version = table[i].version
          /\ table'[i].covers = table[i].covers
    BY <1>2 DEF RowsKept
  <1>4. ASSUME NEW i \in DOMAIN table, ~Mirrored(Key(i)),
               NEW j \in DOMAIN table, Key(j) = Key(i)
        PROVE  OneRow(i, j)' /\ Grows(i, j)'
    BY <1>1, <1>3, <1>4 DEF Versioned, OneRow, Grows
  <1>5. ASSUME NEW i \in DOMAIN table, ~Mirrored(Key(i)) PROVE Complete(i)'
    <2>1. Complete(i)
      BY <1>1, <1>5 DEF Versioned
    <2> QED
      BY <1>2, <1>3, <2>1 DEF Complete
  <1>6. ASSUME NEW i \in DOMAIN table, ~Mirrored(Key(i)) PROVE Current(i)'
    <2> SUFFICES ASSUME IsLatest(i, Key(i))' PROVE table'[i].status = "active"
      BY DEF Current
    <2>1. \A j \in DOMAIN table : Key(j) = Key(i) => table[j].version <= table[i].version
      BY <1>2, <1>3 DEF IsLatest, Ids, Key
    <2>2. CASE i # found[t]
      <3>1. IsLatest(i, Key(i)) /\ table'[i] = table[i]
        BY <1>2, <2>1, <2>2 DEF IsLatest, Ids, Key
      <3> QED
        BY <1>1, <1>6, <3>1 DEF Versioned, Current
    <2>3. CASE i = found[t]
      <3>1. PICK j \in DOMAIN table : j = new[t]
        BY <1>1 DEF Knows
      <3>2. Key(i) = Conversation[t]
        BY <1>1, <2>3 DEF Knows, KnowsFound
      <3>3. Key(j) = Key(i) /\ table[i].version < table[j].version
        BY <1>1, <1>6, <2>3, <3>1, <3>2 DEF Knows, KnowsFound, Later
      <3>4. table[i].version \in Nat /\ table[j].version \in Nat
        BY <1>1, TableFacts
      <3>5. table[j].version <= table[i].version
        BY <2>1, <3>3
      <3> QED
        BY <3>3, <3>4, <3>5
    <2> QED
      BY <2>2, <2>3
  <1> QED
    BY <1>2, <1>3, <1>4, <1>5, <1>6 DEF Versioned, Mirrored

(* Steps that leave the table alone, and the step of one request. *)
LEMMA TableStill ==
  ASSUME SInv, UNCHANGED table
  PROVE  Written' /\ Versioned' /\ RowsKept
  <1>1. SumTyped
    BY DEF SInv
  <1>2. 0 \notin DOMAIN table
    BY <1>1, TableFacts
  <1>3. RowsKept
    BY <1>2 DEF RowsKept, Key
  <1>4. Written => Written'
    BY DEF Written, Key
  <1>5. Versioned => Versioned'
    BY DEF Versioned, Key, Complete, Current, OneRow, Grows, IsLatest, Ids
  <1> QED
    BY <1>3, <1>4, <1>5 DEF SInv

LEMMA OneTurn ==
  ASSUME SInv, NEW t \in Turns, SumTyped', Written', Versioned', RowsKept,
         Knows(t)', Reaches(t)', \A u \in Turns \ {t} : SameTurn(u)
  PROVE  SInv'
  <1>1. ASSUME NEW u \in Turns PROVE Knows(u)' /\ Reaches(u)'
    <2>1. CASE u # t
      BY <2>1, TurnKept DEF SInv
    <2> QED
      BY <2>1
  <1> QED
    BY <1>1 DEF SInv

(* A request that learns nothing moves on: below the threshold, or after   *)
(* the model call or the filter, or to its end.                            *)
LEMMA QuietTurn ==
  ASSUME SInv, NEW t \in Turns, NEW s, StepTo(t, s),
         s \in Outcomes \cup {"select", "filter", "insert", "recall"},
         s = "select" => step[t] = "count",
         s \in {"filter", "insert"} => step[t] \in {"dispatch", "filter"},
         s \in {"recall", "injected"} => step[t] = "recall",
         UNCHANGED <<table, found, new>>,
         view' = view \/ (view' = [view EXCEPT ![t] = NoView] /\ s \notin {"recall", "injected"})
  PROVE  SInv'
  <1>1. SumTyped /\ Knows(t) /\ Reaches(t)
    BY DEF SInv
  <1>2. step' = [step EXCEPT ![t] = s] /\ step'[t] = s
        /\ \A u \in Turns \ {t} : step'[u] = step[u]
    BY <1>1 DEF StepTo, SumTyped
  <1>3. /\ view' \in [Turns -> Views]
        /\ \A u \in Turns \ {t} : view'[u] = view[u]
    BY <1>1, SomeView DEF SumTyped
  <1>4. SumTyped'
    BY <1>1, <1>2, <1>3 DEF SumTyped
  <1>5. Written' /\ Versioned' /\ RowsKept
    BY TableStill
  <1>6. \A u \in Turns \ {t} : SameTurn(u)
    BY <1>2, <1>3 DEF SameTurn
  <1>7. Reaches(t)'
    BY <1>1, <1>2 DEF Reaches, Outcomes, Mirrored
  <1>8. Knows(t)'
    <2>1. /\ step'[t] \in {"count", "select"} => found'[t] = 0
          /\ step'[t] # "mark"
          /\ found'[t] # 0 => found'[t] \in DOMAIN table'
      BY <1>1, <1>2 DEF Knows, Outcomes
    <2>2. ASSUME NEW i \in DOMAIN table', i = found'[t] PROVE KnowsFound(t, i)'
      <3>1. KnowsFound(t, i) /\ i \in DOMAIN table
        BY <1>1, <2>2 DEF Knows
      <3>2. Key(i)' = Conversation[t]
        BY <3>1 DEF KnowsFound, Key
      <3>3. ~Mirrored(Conversation[t]) => TooShort(t, i)'
        BY <1>2, <3>1 DEF KnowsFound, TooShort, Outcomes
      <3> QED
        BY <2>1, <3>2, <3>3 DEF KnowsFound, Later, Mirrored
    <2> QED
      BY <2>1, <2>2 DEF Knows
  <1> QED
    BY <1>4, <1>5, <1>6, <1>7, <1>8, OneTurn

(* The latest row is active, so that one which is passed over is too short. *)
LEMMA SelectHolds ==
  ASSUME SummariesAssumption, SInv, NEW t \in Turns, SelectLatest(t) PROVE SInv'
  <1>0. SumTyped /\ Knows(t) /\ Written /\ Versioned /\ step[t] = "select" /\ found[t] = 0
        /\ Older[t] \in Nat /\ UNCHANGED <<table, new>>
    BY DEF SInv, SelectLatest, Knows, SummariesAssumption
  <1>1. Written' /\ Versioned' /\ RowsKept
    BY <1>0, TableStill
  <1>2. CASE Ids(Conversation[t]) = {}
    <2>1. step' = [step EXCEPT ![t] = "dispatch"] /\ UNCHANGED <<found, view>>
      BY <1>2 DEF SelectLatest, StepTo
    <2>2. step'[t] = "dispatch" /\ \A u \in Turns \ {t} : step'[u] = step[u]
      BY <1>0, <2>1 DEF SumTyped
    <2>3. SumTyped'
      BY <1>0, <2>1 DEF SumTyped
    <2>4. \A u \in Turns \ {t} : SameTurn(u)
      BY <1>0, <2>1, <2>2 DEF SameTurn
    <2>5. Reaches(t)'
      BY <2>2 DEF Reaches
    <2>6. Knows(t)'
      <3>1. 0 \notin DOMAIN table'
        BY <1>1 DEF RowsKept
      <3> QED
        BY <1>0, <2>1, <2>2, <3>1 DEF Knows
    <2> QED
      BY <1>1, <2>3, <2>4, <2>5, <2>6, OneTurn
  <1>3. CASE Ids(Conversation[t]) # {}
    <2>1. PICK i \in Ids(Conversation[t]) :
            /\ IsLatest(i, Conversation[t])
            /\ found' = [found EXCEPT ![t] = i]
            /\ IF Covers(table[i], t)
               THEN /\ StepTo(t, "recall")
                    /\ view' = [view EXCEPT ![t] = [of |-> table[i].of, covers |-> table[i].covers]]
               ELSE StepTo(t, "dispatch") /\ UNCHANGED view
      BY <1>3 DEF SelectLatest
    <2>2. i \in DOMAIN table /\ Key(i) = Conversation[t]
      BY DEF Ids, Key
    <2>3. i \in Nat \ {0} /\ table[i].covers \in Nat /\ table[i].of \in Conversations
      BY <1>0, <2>2, TableFacts
    <2>4. ~Mirrored(Conversation[t]) => table[i].status = "active"
      BY <1>0, <2>1, <2>2 DEF Versioned, Current
    <2>5. PICK s \in {"recall", "dispatch"} :
            /\ step' = [step EXCEPT ![t] = s]
            /\ s = "recall" => /\ view' = [view EXCEPT ![t] = [of |-> table[i].of, covers |-> table[i].covers]]
                               /\ table[i].covers >= Older[t]
            /\ s = "dispatch" => UNCHANGED view /\ ~Covers(table[i], t)
      BY <2>1 DEF StepTo, Covers
    <2>6. step'[t] = s /\ found'[t] = i
          /\ \A u \in Turns \ {t} : step'[u] = step[u] /\ found'[u] = found[u]
      BY <1>0, <2>1, <2>5 DEF SumTyped
    <2>7. /\ view' \in [Turns -> Views]
          /\ \A u \in Turns \ {t} : view'[u] = view[u]
      <3>1. [of |-> table[i].of, covers |-> table[i].covers] \in Views
        BY <2>3, SomeView
      <3> QED
        BY <1>0, <2>5, <3>1 DEF SumTyped
    <2>8. SumTyped'
      BY <1>0, <2>1, <2>3, <2>5, <2>7 DEF SumTyped, Outcomes
    <2>9. \A u \in Turns \ {t} : SameTurn(u)
      BY <1>0, <2>6, <2>7 DEF SameTurn
    <2>10. Reaches(t)'
      <3>1. ~Mirrored(Conversation[t]) => table[i].of = Conversation[t]
        BY <1>0, <2>2, OwnKey
      <3>2. s = "recall" => view'[t] = [of |-> table[i].of, covers |-> table[i].covers]
        BY <1>0, <2>5 DEF SumTyped
      <3> QED
        BY <1>0, <2>5, <2>6, <3>1, <3>2 DEF Reaches, Mirrored
    <2>11. KnowsFound(t, i)'
      <3>1. Key(i)' = Conversation[t]
        BY <1>0, <2>2 DEF Key
      <3>2. ~Mirrored(Conversation[t]) => TooShort(t, i)'
        BY <1>0, <2>3, <2>4, <2>5, <2>6 DEF TooShort, Covers
      <3> QED
        BY <2>5, <2>6, <3>1, <3>2 DEF KnowsFound, Later, Mirrored
    <2>12. Knows(t)'
      BY <1>0, <2>2, <2>5, <2>6, <2>11 DEF Knows
    <2> QED
      BY <1>1, <2>8, <2>9, <2>10, <2>12, OneTurn
  <1> QED
    BY <1>2, <1>3

LEMMA InsertHolds ==
  ASSUME SummariesAssumption, SInv, NEW t \in Turns, InsertSummary(t) PROVE SInv'
  <1>0. SumTyped /\ Knows(t) /\ Written /\ step[t] = "insert" /\ UNCHANGED found
        /\ Older[t] \in Nat /\ Insertable(t)
    BY DEF SInv, InsertSummary, SummariesAssumption
  <1>1. PICK n : n = Len(table) + 1
    OBVIOUS
  <1>2. /\ table' \in Seq(SumRow) /\ n \notin DOMAIN table /\ n \in Nat \ {0}
        /\ DOMAIN table' = DOMAIN table \cup {n}
        /\ \A i \in DOMAIN table : table'[i] = table[i]
        /\ Key(n)' = Stored(t) /\ table'[n].version = NextVersion(t) /\ RowsKept
        /\ table'[n].of = Conversation[t]
    BY <1>1, InsertedRow
  <1>3. Versioned'
    BY InsertVersioned
  <1>4. Written'
    <2> SUFFICES ASSUME NEW i \in DOMAIN table'
                 PROVE  \E u \in Turns : Key(i)' = Stored(u) /\ table'[i].of = Conversation[u]
      BY DEF Written, Stored
    <2>1. CASE i = n
      BY <1>2, <2>1
    <2>2. CASE i \in DOMAIN table
      BY <1>0, <1>2, <2>2 DEF Written, RowsKept
    <2> QED
      BY <1>2, <2>1, <2>2
  <1>5. PICK s \in {"recall", "mark"} :
          /\ step' = [step EXCEPT ![t] = s]
          /\ new' = [new EXCEPT ![t] = n]
          /\ view' = [view EXCEPT ![t] = [of |-> Conversation[t], covers |-> Older[t]]]
          /\ s = "mark" => found[t] # 0
    BY <1>1 DEF InsertSummary, StepTo
  <1>6. /\ step'[t] = s /\ new'[t] = n
        /\ view'[t] = [of |-> Conversation[t], covers |-> Older[t]]
        /\ \A u \in Turns \ {t} : SameTurn(u)
    BY <1>0, <1>5 DEF SumTyped, SameTurn
  <1>7. SumTyped'
    <2>1. [of |-> Conversation[t], covers |-> Older[t]] \in Views
      BY <1>0, SomeView DEF Conversations
    <2> QED
      BY <1>0, <1>2, <1>5, <2>1 DEF SumTyped
  <1>8. Reaches(t)'
    BY <1>0, <1>6 DEF Reaches
  <1>9. ASSUME NEW i \in DOMAIN table', i = found'[t] PROVE KnowsFound(t, i)'
    <2>1. i \in DOMAIN table /\ i # 0 /\ KnowsFound(t, i)
      BY <1>0, <1>2, <1>9 DEF Knows, RowsKept
    <2>2. Key(i) = Conversation[t] /\ Key(i)' = Key(i)
          /\ table'[i].version = table[i].version
      BY <1>2, <2>1 DEF KnowsFound, RowsKept
    <2>3. ASSUME ~Mirrored(Conversation[t])
          PROVE  Key(n)' = Conversation[t] /\ table'[i].version < table'[n].version
      <3>1. Stored(t) = Conversation[t]
        BY <1>0, <2>1, <2>2, <2>3, OwnKey
      <3>2. NextVersion(t) = table[i].version + 1
        BY <1>0, <1>9, <2>1 DEF NextVersion
      <3>3. table[i].version \in Nat
        BY <1>0, <2>1, TableFacts
      <3> QED
        BY <1>2, <2>2, <3>1, <3>2, <3>3
    <2>4. TooShort(t, i)'
      BY <1>5, <1>6 DEF TooShort
    <2> QED
      BY <1>6, <2>2, <2>3, <2>4 DEF KnowsFound, Later, Mirrored
  <1>10. Knows(t)'
    BY <1>0, <1>2, <1>5, <1>6, <1>9 DEF Knows
  <1> QED
    BY <1>2, <1>3, <1>4, <1>6, <1>7, <1>8, <1>10, OneTurn

LEMMA MarkHolds ==
  ASSUME SummariesAssumption, SInv, NEW t \in Turns, MarkSuperseded(t) PROVE SInv'
  <1>0. SumTyped /\ Knows(t) /\ Reaches(t) /\ Written /\ step[t] = "mark"
        /\ UNCHANGED <<found, new, view>> /\ step' = [step EXCEPT ![t] = "recall"]
    BY DEF SInv, MarkSuperseded, StepTo
  <1>1. table' \in Seq(SumRow) /\ RowsKept /\ DOMAIN table' = DOMAIN table
    BY MarkedRow
  <1>2. Versioned'
    BY MarkVersioned
  <1>3. Written'
    BY <1>0, <1>1 DEF Written, RowsKept, Stored
  <1>4. step'[t] = "recall" /\ \A u \in Turns \ {t} : SameTurn(u)
    BY <1>0 DEF SumTyped, SameTurn
  <1>5. SumTyped'
    BY <1>0, <1>1 DEF SumTyped
  <1>6. Reaches(t)'
    BY <1>0, <1>4 DEF Reaches, Mirrored
  <1>7. ASSUME NEW i \in DOMAIN table', i = found'[t] PROVE KnowsFound(t, i)'
    <2>1. Key(i)' = Conversation[t]
      BY <1>0, <1>1, <1>7 DEF Knows, KnowsFound, RowsKept
    <2> QED
      BY <1>4, <2>1 DEF KnowsFound, TooShort, Later
  <1>8. Knows(t)'
    BY <1>0, <1>1, <1>4, <1>7 DEF Knows
  <1> QED
    BY <1>1, <1>2, <1>3, <1>4, <1>5, <1>6, <1>8, OneTurn

LEMMA OtherTurns ==
  ASSUME SInv, NEW t \in Turns,
         Count(t) \/ Dispatch(t) \/ FilterOnWrite(t) \/ Raise(t) \/ Recall(t)
  PROVE  SInv'
  <1> USE DEF Outcomes
  <1>1. CASE Count(t)
    BY <1>1, QuietTurn DEF Count
  <1>2. CASE Dispatch(t)
    BY <1>2, QuietTurn DEF Dispatch
  <1>3. CASE FilterOnWrite(t)
    BY <1>3, QuietTurn DEF FilterOnWrite
  <1>4. CASE Raise(t)
    BY <1>4, QuietTurn DEF Raise
  <1>5. CASE Recall(t)
    <2>1. CASE StepTo(t, "injected") /\ UNCHANGED view
      <3>1. step[t] = "recall" /\ UNCHANGED <<table, found, new>> /\ view' = view
        BY <1>5, <2>1 DEF Recall
      <3> QED
        BY <2>1, <3>1, QuietTurn
    <2>2. CASE StepTo(t, "original") /\ view' = [view EXCEPT ![t] = NoView]
      BY <1>5, <2>2, QuietTurn DEF Recall
    <2> QED
      BY <1>5, <2>1, <2>2 DEF Recall
  <1> QED
    BY <1>1, <1>2, <1>3, <1>4, <1>5

(* The invariant, for any requests, conversations and histories. *)
THEOREM SummariesInvariance == ASSUME SummariesAssumption PROVE SumSpec => []SInv
  <1>1. SumInit => SInv
    <2> SUFFICES ASSUME SumInit PROVE SInv
      OBVIOUS
    <2>1. table = <<>> /\ DOMAIN table = {}
      BY DEF SumInit
    <2>2. table \in Seq(SumRow)
      BY <2>1
    <2>3. SumTyped
      BY <2>2, SomeView DEF SumInit, SumTyped
    <2>4. Written /\ Versioned
      BY <2>1 DEF Written, Versioned
    <2>5. \A t \in Turns : Knows(t) /\ Reaches(t)
      BY <2>1 DEF SumInit, Knows, Reaches
    <2> QED
      BY <2>3, <2>4, <2>5 DEF SInv
  <1>2. ASSUME SInv, [SumNext]_svars PROVE SInv'
    <2>1. ASSUME NEW t \in Turns, MaybeSummarize(t) PROVE SInv'
      BY <1>2, <2>1, OtherTurns, SelectHolds, InsertHolds, MarkHolds DEF MaybeSummarize
    <2>2. CASE UNCHANGED svars
      <3>1. UNCHANGED <<table, step, found, new, view>>
        BY <2>2 DEF svars
      <3>2. Written' /\ Versioned' /\ RowsKept
        BY <1>2, <3>1, TableStill
      <3>3. SumTyped'
        BY <1>2, <3>1 DEF SInv, SumTyped
      <3>4. ASSUME NEW u \in Turns PROVE Knows(u)' /\ Reaches(u)'
        <4>1. SameTurn(u)
          BY <3>1 DEF SameTurn
        <4> QED
          BY <1>2, <3>2, <4>1, TurnKept DEF SInv
      <3> QED
        BY <3>2, <3>3, <3>4 DEF SInv
    <2> QED
      BY <1>2, <2>1, <2>2 DEF SumNext
  <1> QED
    BY <1>1, <1>2, PTL DEF SumSpec

(* However many requests of a conversation summarize at the same time,     *)
(* find rows that are no longer the latest, fail before they have marked   *)
(* one or come with a shorter history: a later version covers more turns   *)
(* than every earlier one and the latest is active, in a conversation that *)
(* mirrors no other one.                                                   *)
THEOREM SummariesGrow == ASSUME SummariesAssumption PROVE SumSpec => []CoverageGrows
  <1>1. SInv => CoverageGrows
    <2> SUFFICES ASSUME SInv, NEW i \in DOMAIN table, NEW j \in DOMAIN table,
                        Key(i) = Key(j), ~Mirrored(Key(i))
                 PROVE  /\ table[i].version < table[j].version =>
                              table[i].covers < table[j].covers
                        /\ IsLatest(i, Key(i)) => table[i].status = "active"
      BY DEF CoverageGrows, Key
    <2> QED
      BY DEF SInv, Versioned, Grows, Current
  <1> QED
    BY <1>1, SummariesInvariance, PTL

(* In every conversation, mirrored or not, what a request sends upstream   *)
(* for its older turns covers as many, and they are turns of its own        *)
(* conversation unless that one mirrors another.                            *)
THEOREM NoTurnElided == ASSUME SummariesAssumption PROVE SumSpec => []NothingElided
  <1>1. SInv => NothingElided
    BY DEF SInv, NothingElided, Reaches
  <1> QED
    BY <1>1, SummariesInvariance, PTL

(* Of a row, and of what a request holds: a version is one that earlier     *)
(* rows lead up to, a row superseded names a later one, and so does a       *)
(* request that is about to mark one.                                      *)
Named(i) ==
    /\ table[i].version \in 1..i
    /\ table[i].status = "superseded" <=> table[i].supersededBy \in (i + 1)..Len(table)
    /\ table[i].status = "active" <=> table[i].supersededBy = 0

Holds(t) ==
    /\ found[t] \in 0..Len(table) /\ new[t] \in 0..Len(table)
    /\ step[t] = "mark" => found[t] # 0 /\ found[t] < new[t]

NameInv == SumTyped /\ (\A i \in DOMAIN table : Named(i)) /\ \A t \in Turns : Holds(t)

(* A step that leaves the rows and the requests' rows alone. *)
LEMMA NamesStill ==
    ASSUME NameInv, SumTyped', UNCHANGED <<table, new>>,
           \A t \in Turns : /\ step'[t] = "mark" => step[t] = "mark"
                            /\ found'[t] = found[t] \/ (found'[t] \in DOMAIN table /\ step'[t] # "mark")
    PROVE  NameInv'
  <1>1. \A i \in DOMAIN table' : Named(i)'
    BY DEF NameInv, Named
  <1>2. \A t \in Turns : Holds(t)'
    BY TableFacts DEF NameInv, Holds
  <1> QED
    BY <1>1, <1>2 DEF NameInv

LEMMA InsertNames ==
    ASSUME NameInv, SumTyped', NEW t \in Turns, InsertSummary(t)
    PROVE  NameInv'
  <1> DEFINE n == Len(table)
  <1>0. n \in Nat /\ DOMAIN table = 1..n /\ table \in Seq(SumRow)
    BY TableFacts DEF NameInv, SumTyped
  <1>1. PICK r : /\ table' = Append(table, r) /\ r.version = NextVersion(t)
                 /\ r.status = "active" /\ r.supersededBy = 0
    BY DEF InsertSummary
  <1>2. /\ new' = [new EXCEPT ![t] = n + 1] /\ found' = found
        /\ step' = [step EXCEPT ![t] = IF found[t] = 0 THEN "recall" ELSE "mark"]
    BY DEF InsertSummary, StepTo
  <1>3. /\ Len(table') = n + 1 /\ DOMAIN table' = 1..(n + 1) /\ table'[n + 1] = r
        /\ \A i \in 1..n : table'[i] = table[i]
    BY <1>0, <1>1
  <1>4. NextVersion(t) \in 1..(n + 1)
    <2>1. found[t] \in 0..n
      BY DEF NameInv, Holds
    <2>2. found[t] # 0 => table[found[t]].version \in 1..found[t]
      BY <1>0, <2>1 DEF NameInv, Named
    <2> QED
      BY <1>0, <2>1, <2>2 DEF NextVersion
  <1>5. ASSUME NEW i \in 1..n PROVE Named(i)'
    <2>1. table'[i] = table[i] /\ Named(i) /\ table[i] \in SumRow
      BY <1>0, <1>3 DEF NameInv
    <2>2. table[i].supersededBy \in Nat /\ table[i].status \in {"active", "superseded"}
      BY <2>1 DEF SumRow
    <2>3. table[i].supersededBy \in (i + 1)..(n + 1) <=> table[i].supersededBy \in (i + 1)..n
      BY <1>0, <2>1, <2>2 DEF Named
    <2> HIDE DEF n
    <2> QED
      BY <1>3, <2>1, <2>3 DEF Named, n
  <1>6. ASSUME NEW i \in DOMAIN table', i \notin 1..n PROVE Named(i)'
    <2>1. i = n + 1 /\ table'[i] = r
      BY <1>0, <1>3, <1>6
    <2>2. /\ table'[i].version \in 1..i /\ table'[i].status = "active"
          /\ table'[i].supersededBy = 0
      BY <1>1, <1>4, <2>1
    <2>3. 0 \notin (i + 1)..Len(table')
      BY <1>0, <2>1
    <2> QED
      BY <2>2, <2>3 DEF Named
  <1>7. \A i \in DOMAIN table' : Named(i)'
    BY <1>5, <1>6
  <1>8. ASSUME NEW u \in Turns PROVE Holds(u)'
    <2>1. Holds(u) /\ new'[u] = (IF u = t THEN n + 1 ELSE new[u]) /\ found'[u] = found[u]
          /\ (u # t => step'[u] = step[u]) /\ (u = t /\ step'[u] = "mark" => found[u] # 0)
      BY <1>2 DEF NameInv, SumTyped
    <2> QED
      BY <1>0, <1>3, <2>1 DEF Holds
  <1> QED
    BY <1>7, <1>8 DEF NameInv

LEMMA MarkNames ==
    ASSUME NameInv, SumTyped', NEW t \in Turns, MarkSuperseded(t)
    PROVE  NameInv'
  <1>0. DOMAIN table = 1..Len(table) /\ Len(table) \in Nat
    BY TableFacts DEF NameInv
  <1>1. /\ table' = [table EXCEPT ![found[t]].status = "superseded",
                                  ![found[t]].supersededBy = new[t]]
        /\ step[t] = "mark" /\ UNCHANGED <<found, new>>
        /\ step' = [step EXCEPT ![t] = "recall"]
    BY DEF MarkSuperseded, StepTo
  <1>2. found[t] \in DOMAIN table /\ new[t] \in (found[t] + 1)..Len(table)
    BY <1>0, <1>1 DEF NameInv, Holds
  <1>3. /\ DOMAIN table' = DOMAIN table
        /\ \A i \in DOMAIN table \ {found[t]} : table'[i] = table[i]
        /\ table'[found[t]] = [table[found[t]] EXCEPT !.status = "superseded",
                                                      !.supersededBy = new[t]]
    BY <1>1, <1>2
  <1>4. Len(table') = Len(table)
    <2>1. table \in Seq(SumRow) /\ table' \in Seq(SumRow)
      BY DEF NameInv, SumTyped
    <2> QED
      BY <1>0, <1>3, <2>1, LenProperties
  <1>5. ASSUME NEW i \in DOMAIN table' PROVE Named(i)'
    <2>1. Named(i) /\ table[i] \in SumRow
      BY <1>0, <1>3 DEF NameInv, SumTyped
    <2>2. CASE i # found[t]
      BY <1>3, <1>4, <2>1, <2>2 DEF Named
    <2>3. CASE i = found[t]
      <3>1. /\ table'[i].version = table[i].version /\ table'[i].status = "superseded"
            /\ table'[i].supersededBy = new[t]
        BY <1>3, <2>1, <2>3 DEF SumRow
      <3> QED
        BY <1>0, <1>2, <1>4, <2>1, <2>3, <3>1 DEF Named
    <2> QED
      BY <2>2, <2>3
  <1>6. ASSUME NEW u \in Turns PROVE Holds(u)'
    <2>1. step'[u] = "mark" => step[u] = "mark"
      BY <1>1 DEF NameInv, SumTyped
    <2> QED
      BY <1>1, <1>4, <2>1 DEF NameInv, Holds
  <1> QED
    BY <1>5, <1>6 DEF NameInv

(* However requests of a conversation overlap or fail between the insert    *)
(* and the mark: a summary is superseded exactly when it names the later    *)
(* row that replaced it, so that following these names comes to an end.    *)
THEOREM SuccessorsAreLater == ASSUME SummariesAssumption PROVE SumSpec => []SummariesTypeOK
  <1>1. SumInit => (SumTyped => NameInv)
    <2> SUFFICES ASSUME SumInit, SumTyped PROVE NameInv
      OBVIOUS
    <2>1. DOMAIN table = {} /\ Len(table) = 0
      BY DEF SumInit
    <2> QED
      BY <2>1 DEF SumInit, NameInv, Holds
  <1>2. ASSUME NameInv, SumTyped', [SumNext]_svars PROVE NameInv'
    <2>1. ASSUME NEW t \in Turns, MaybeSummarize(t) PROVE NameInv'
      <3> DEFINE Rest == \A u \in Turns : /\ step'[u] = "mark" => step[u] = "mark"
                                          /\ found'[u] = found[u]
      <3>1. CASE Count(t) \/ Dispatch(t) \/ FilterOnWrite(t) \/ Raise(t) \/ Recall(t)
        <4>1. PICK s \in {"original", "select", "filter", "insert", "failed", "injected"} :
                StepTo(t, s)
          BY <3>1 DEF Count, Dispatch, FilterOnWrite, Raise, Recall
        <4>2. UNCHANGED <<table, found, new>>
          BY <3>1 DEF Count, Dispatch, FilterOnWrite, Raise, Recall
        <4>3. s # "mark"
          BY <4>1
        <4>4. Rest
          BY <1>2, <4>1, <4>2, <4>3 DEF StepTo, NameInv, SumTyped
        <4> QED
          BY <1>2, <4>2, <4>4, NamesStill
      <3>2. CASE SelectLatest(t)
        <4>1. UNCHANGED <<table, new>> /\ (StepTo(t, "dispatch") \/ StepTo(t, "recall"))
          BY <3>2 DEF SelectLatest
        <4>2. found' = found \/ \E i \in DOMAIN table : found' = [found EXCEPT ![t] = i]
          BY <3>2 DEF SelectLatest, Ids
        <4>3. \A u \in Turns :
                /\ step'[u] = "mark" => step[u] = "mark"
                /\ found'[u] = found[u] \/ (found'[u] \in DOMAIN table /\ step'[u] # "mark")
          BY <1>2, <4>1, <4>2 DEF StepTo, NameInv, SumTyped
        <4> QED
          BY <1>2, <4>1, <4>3, NamesStill
      <3> QED
        BY <1>2, <2>1, <3>1, <3>2, InsertNames, MarkNames DEF MaybeSummarize
    <2>2. CASE UNCHANGED svars
      BY <1>2, <2>2, NamesStill DEF svars
    <2> QED
      BY <1>2, <2>1, <2>2 DEF SumNext
  <1>3. NameInv => SummariesTypeOK
    <2> SUFFICES ASSUME NameInv PROVE SummariesTypeOK
      OBVIOUS
    <2>1. \A i \in DOMAIN table : /\ table[i].version \in 1..Len(table) /\ table[i].covers \in Nat
                                  /\ Named(i)
      BY TableFacts DEF NameInv, Named
    <2> QED
      BY <2>1 DEF NameInv, Named, Holds, SumTyped, Views, Conversations, SummariesTypeOK
  <1>4. SInv => SumTyped
    BY DEF SInv
  <1> QED
    BY <1>1, <1>2, <1>3, <1>4, SummariesInvariance, PTL DEF SumSpec

-----------------------------------------------------------------------------
(* CodeIndex: a run that overlaps no other. *)

IndexType ==
    /\ origin \in [Branches -> [Paths -> SUBSET Hashes]]
    /\ local \in [Branches -> [Paths -> SUBSET Hashes]]
    /\ head \in Branches \cup {NoBranch}
    /\ chunks \in [Branches \X Paths -> [Hashes -> Nat]]
    /\ doing \in [Runs -> {"idle", "checkout", "pull", "read", "diff", "write", "done", "failed"}]
    /\ tree \in [Runs -> [Paths -> SUBSET Hashes]]
    /\ asked \in [Runs -> [Paths -> SUBSET Hashes]]
    /\ unread \in [Runs -> SUBSET Paths]
    /\ work \in [Runs -> SUBSET Paths]
    /\ DOMAIN todo = Runs
    /\ \A r \in Runs : todo[r] # <<>> =>
           \E p \in Paths, f \in SUBSET Hashes : f # {} /\ todo[r] = <<p, f>>

(* It is the only one under way. *)
OnlyOne == \A r \in alone : r \in Runs /\ Indexing = {r}

(* While it reads, the clone is at what it pulled, and so is what it has    *)
(* read.                                                                    *)
Reads(r) ==
    /\ doing[r] = "pull" => head = BranchOf[r]
    /\ doing[r] = "read" =>
         /\ head = BranchOf[r] /\ local[head] = asked[r]
         /\ \A p \in Paths \ unread[r] : tree[r][p] = asked[r][p]
    /\ doing[r] \in {"diff", "write"} => \A p \in Paths : tree[r][p] = asked[r][p]

(* While it writes, a file it is done with is stored as it read it, and one *)
(* it is at lacks what it has yet to insert, and nothing else.              *)
Writes(r) ==
    doing[r] = "write" =>
      \A p \in Paths \ work[r] :
          IF todo[r] # <<>> /\ todo[r][1] = p
          THEN /\ Existing(BranchOf[r], p) \cup todo[r][2] = asked[r][p]
               /\ Existing(BranchOf[r], p) \cap todo[r][2] = {}
          ELSE Existing(BranchOf[r], p) = asked[r][p]

(* A file being inserted is off the list. *)
Inserts(r) == doing[r] = "write" /\ todo[r] # <<>> => todo[r][1] \notin work[r]

(* A run that has not come to its writes has nothing to insert. *)
Waits(r) == doing[r] # "write" => todo[r] = <<>>

(* Past the checkout there is a clone. *)
Cloned == \A r \in Runs : doing[r] \in {"pull", "read"} => head \in Branches

JInv == /\ IndexType /\ OnlyOne /\ Cloned /\ \A r \in Runs : Waits(r)
        /\ \A r \in alone : Reads(r) /\ Writes(r) /\ Inserts(r)

LEMMA FilesType ==
  /\ \A b \in Branches : \A f \in Files[b] : f \in SUBSET Hashes
  /\ \A f \in UNION Range(Files) : f \in SUBSET Hashes
  /\ \A r \in Runs : BranchOf[r] \in Branches
  /\ Empty \in [Paths -> SUBSET Hashes]
<1>1. \A f \in UNION Range(Files) : f \in SUBSET Hashes
  BY DEF Hashes
<1>. QED BY <1>1, CodeIndexAssumption DEF Empty

LEMMA IndexInitInv == IndexInit => JInv
<1>. SUFFICES ASSUME IndexInit PROVE JInv
  OBVIOUS
<1>1. origin \in [Branches -> [Paths -> SUBSET Hashes]]
  BY FilesType DEF IndexInit
<1>2. IndexType
  BY <1>1, FilesType DEF IndexInit, IndexType
<1>. QED BY <1>2 DEF IndexInit, JInv, OnlyOne, Cloned, Waits

(* A run keeps to itself what a step of another run, or of the remote,      *)
(* changes: the others have ended or not begun.                             *)
LEMMA OnlyOneMoves ==
    ASSUME JInv, NEW s \in Runs, s \in Indexing, NEW r \in alone
    PROVE  r = s
  BY DEF JInv, OnlyOne

LEMMA IndexPush ==
    ASSUME JInv, NEW b \in Branches, NEW p \in Paths, Push(b, p) PROVE JInv'
<1>1. PICK f \in Files[b] : origin' = [origin EXCEPT ![b][p] = f]
  BY DEF Push
<1>2. origin' \in [Branches -> [Paths -> SUBSET Hashes]]
  BY <1>1, FilesType DEF JInv, IndexType
<1>3. UNCHANGED <<local, created, head, chunks, doing, tree, unread, work, todo, asked, alone>>
  BY DEF Push
<1>. QED BY <1>2, <1>3 DEF JInv, IndexType, OnlyOne, Cloned, Indexing, Waits, Reads, Writes, Inserts, Existing

LEMMA IndexBegins ==
    ASSUME JInv, NEW s \in Runs, Index(s) PROVE JInv'
<1>1. /\ doing[s] = "idle" /\ doing' = [doing EXCEPT ![s] = "checkout"]
      /\ alone' = IF Indexing = {} THEN {s} ELSE {}
      /\ UNCHANGED <<origin, local, created, head, chunks, tree, unread, work, todo, asked>>
  BY DEF Index, GoOn
<1>2. IndexType'
  BY <1>1 DEF JInv, IndexType
<1>3. \A r \in Runs : doing'[r] = IF r = s THEN "checkout" ELSE doing[r]
  BY <1>1 DEF JInv, IndexType
<1>4. OnlyOne'
  BY <1>1, <1>3 DEF OnlyOne, Indexing
<1>5. \A r \in Runs : Waits(r)'
  BY <1>1, <1>3 DEF JInv, Waits
<1>6. \A r \in alone' : (Reads(r) /\ Writes(r) /\ Inserts(r))'
  BY <1>1, <1>3 DEF Reads, Writes, Inserts
<1>7. Cloned'
  BY <1>1, <1>3 DEF JInv, Cloned
<1>. QED BY <1>2, <1>4, <1>5, <1>6, <1>7 DEF JInv

(* A step of a run under way that ends nothing. *)
LEMMA RunMoves ==
    ASSUME JInv, NEW s \in Runs, s \in Indexing, alone' = alone,
           NEW d \in {"checkout", "pull", "read", "diff", "write"}, doing' = [doing EXCEPT ![s] = d],
           d = "write" \/ todo' = todo, d = "write" \/ doing[s] # "write",
           DOMAIN todo' = DOMAIN todo, \A r \in Runs \ {s} : todo'[r] = todo[r],
           head' = head \/ head' \in Branches,
           d \in {"pull", "read"} => head' \in Branches,
           IndexType', s \in alone => (Reads(s) /\ Writes(s) /\ Inserts(s))'
    PROVE  JInv'
<1>1. \A r \in Runs : doing'[r] = IF r = s THEN d ELSE doing[r]
  BY DEF JInv, IndexType
<1>2. Indexing' = Indexing
  BY <1>1 DEF Indexing
<1>3. OnlyOne'
  BY <1>2 DEF JInv, OnlyOne
<1>4. \A r \in Runs : Waits(r)'
  BY <1>1 DEF JInv, Waits
<1>5. \A r \in alone' : (Reads(r) /\ Writes(r) /\ Inserts(r))'
  BY OnlyOneMoves
<1>6. Cloned'
  BY <1>1 DEF JInv, Cloned
<1>. QED BY <1>3, <1>4, <1>5, <1>6 DEF JInv

LEMMA CloneMoves == ASSUME JInv, NEW s \in Runs, Clone(s) PROVE JInv'
<1>. DEFINE b == BranchOf[s]
<1>1. /\ doing[s] = "checkout" /\ b \in Branches
      /\ local' = [local EXCEPT ![b] = origin[b]] /\ head' = b
      /\ asked' = [asked EXCEPT ![s] = origin[b]]
      /\ unread' = [unread EXCEPT ![s] = Paths]
      /\ doing' = [doing EXCEPT ![s] = "read"]
      /\ UNCHANGED <<origin, chunks, tree, work, todo, alone>>
  BY FilesType DEF Clone, GoOn
<1>2. IndexType'
  BY <1>1 DEF JInv, IndexType
<1>3. doing'[s] = "read" /\ local'[b] = origin[b] /\ asked'[s] = origin[b] /\ unread'[s] = Paths
  BY <1>1 DEF JInv, IndexType
<1>4. (Reads(s) /\ Writes(s) /\ Inserts(s))'
  BY <1>1, <1>3 DEF Reads, Writes, Inserts
<1>5. s \in Indexing
  BY <1>1 DEF Indexing
<1>. QED BY <1>1, <1>2, <1>4, <1>5, RunMoves

LEMMA CheckoutMoves == ASSUME JInv, NEW s \in Runs, Checkout(s) PROVE JInv'
<1>. DEFINE b == BranchOf[s]
<1>1. /\ doing[s] = "checkout" /\ b \in Branches
      /\ local' = IF b \in created THEN local ELSE [local EXCEPT ![b] = origin[b]]
      /\ head' = b /\ doing' = [doing EXCEPT ![s] = "pull"]
      /\ UNCHANGED <<origin, chunks, tree, unread, work, todo, asked, alone>>
  BY FilesType DEF Checkout, GoOn
<1>2. IndexType'
  BY <1>1 DEF JInv, IndexType
<1>3. doing'[s] = "pull"
  BY <1>1 DEF JInv, IndexType
<1>4. (Reads(s) /\ Writes(s) /\ Inserts(s))'
  BY <1>1, <1>3 DEF Reads, Writes, Inserts
<1>5. s \in Indexing
  BY <1>1 DEF Indexing
<1>. QED BY <1>1, <1>2, <1>4, <1>5, RunMoves

LEMMA PullMoves == ASSUME JInv, NEW s \in Runs, Pull(s) PROVE JInv'
<1>. DEFINE b == BranchOf[s]
<1>1. /\ doing[s] = "pull" /\ b \in Branches
      /\ local' = [local EXCEPT ![head] = origin[head]]
      /\ asked' = [asked EXCEPT ![s] = origin[b]]
      /\ unread' = [unread EXCEPT ![s] = Paths]
      /\ doing' = [doing EXCEPT ![s] = "read"]
      /\ UNCHANGED <<origin, head, chunks, tree, work, todo, alone>>
  BY FilesType DEF Pull, GoOn
<1>2. IndexType'
  <2>1. local' \in [Branches -> [Paths -> SUBSET Hashes]]
    BY <1>1 DEF JInv, IndexType
  <2>. QED BY <1>1, <2>1 DEF JInv, IndexType
<1>3. doing'[s] = "read" /\ asked'[s] = origin[b] /\ unread'[s] = Paths
  BY <1>1 DEF JInv, IndexType
<1>4. s \in alone => head = b /\ local'[head] = origin[b]
  BY <1>1 DEF JInv, IndexType, Reads
<1>5. s \in alone => (Reads(s) /\ Writes(s) /\ Inserts(s))'
  BY <1>1, <1>3, <1>4 DEF Reads, Writes, Inserts
<1>6. s \in Indexing /\ head \in Branches
  BY <1>1 DEF Indexing, JInv, Cloned
<1>. QED BY <1>1, <1>2, <1>5, <1>6, RunMoves

LEMMA ReadMoves == ASSUME JInv, NEW s \in Runs, NEW p \in Paths, ReadFile(s, p) PROVE JInv'
<1>. DEFINE d == IF unread[s] = {p} THEN "diff" ELSE "read"
<1>1. /\ doing[s] = "read" /\ p \in unread[s] /\ d \in {"read", "diff"}
      /\ tree' = [tree EXCEPT ![s][p] = local[head][p]]
      /\ unread' = [unread EXCEPT ![s] = unread[s] \ {p}]
      /\ UNCHANGED <<origin, local, head, chunks, work, todo, asked, alone>>
  BY DEF ReadFile
<1>2. doing' = [doing EXCEPT ![s] = d]
  BY <1>1 DEF ReadFile, GoOn, JInv, IndexType
<1>3. d = "diff" => unread[s] = {p}
  OBVIOUS
<1>. HIDE DEF d
<1>4. head \in Branches /\ s \in Indexing
  BY <1>1 DEF JInv, Cloned, Indexing
<1>5. IndexType'
  BY <1>1, <1>2, <1>4 DEF JInv, IndexType
<1>6. /\ doing'[s] = d /\ unread'[s] = unread[s] \ {p}
      /\ \A q \in Paths : tree'[s][q] = IF q = p THEN local[head][p] ELSE tree[s][q]
  BY <1>1, <1>2 DEF JInv, IndexType
<1>7. ASSUME s \in alone PROVE (Reads(s) /\ Writes(s) /\ Inserts(s))'
  <2>1. /\ head = BranchOf[s] /\ local[head] = asked[s]
        /\ \A q \in Paths \ unread[s] : tree[s][q] = asked[s][q]
    BY <1>1, <1>7 DEF JInv, Reads
  <2>2. \A q \in Paths \ unread'[s] : tree'[s][q] = asked[s][q]
    BY <1>6, <2>1
  <2>3. d = "diff" => \A q \in Paths : tree'[s][q] = asked[s][q]
    BY <1>3, <1>6, <2>2
  <2>4. Reads(s)'
    BY <1>1, <1>6, <2>1, <2>2, <2>3 DEF Reads
  <2>5. Writes(s)' /\ Inserts(s)'
    BY <1>1, <1>6 DEF Writes, Inserts
  <2>. QED BY <2>4, <2>5
<1>. QED BY <1>1, <1>2, <1>4, <1>5, <1>7, RunMoves

LEMMA DiffMoves == ASSUME JInv, NEW s \in Runs, Diff(s) PROVE JInv'
<1>1. /\ doing[s] = "diff"
      /\ work' = [work EXCEPT ![s] = {p \in Paths : Changed(s, p)}]
      /\ doing' = [doing EXCEPT ![s] = "write"]
      /\ UNCHANGED <<origin, local, head, chunks, tree, unread, todo, asked, alone>>
  BY DEF Diff, GoOn
<1>2. IndexType'
  BY <1>1 DEF JInv, IndexType
<1>3. doing'[s] = "write" /\ work'[s] = {p \in Paths : Changed(s, p)} /\ todo[s] = <<>>
  BY <1>1 DEF JInv, IndexType, Waits
<1>4. \A p \in Paths : Existing(BranchOf[s], p)' = Existing(BranchOf[s], p)
  BY <1>1 DEF Existing
<1>5. s \in alone => (Reads(s) /\ Writes(s) /\ Inserts(s))'
  BY <1>1, <1>3, <1>4 DEF JInv, Reads, Writes, Inserts, Changed
<1>6. s \in Indexing
  BY <1>1 DEF Indexing
<1>. QED BY <1>1, <1>2, <1>5, <1>6, RunMoves

LEMMA DeleteMoves ==
    ASSUME JInv, NEW s \in Runs, NEW p \in Paths, DeletePathChunks(s, p) PROVE JInv'
<1>. DEFINE b == BranchOf[s]
<1>1. /\ doing[s] = "write" /\ p \in work[s] /\ todo[s] = <<>> /\ b \in Branches
      /\ chunks' = [chunks EXCEPT ![<<b, p>>] = [h \in Hashes |-> 0]]
      /\ work' = [work EXCEPT ![s] = work[s] \ {p}]
      /\ todo' = [todo EXCEPT ![s] = IF tree[s][p] = {} THEN <<>> ELSE <<p, tree[s][p]>>]
      /\ UNCHANGED <<origin, local, head, doing, tree, unread, asked, alone>>
  BY FilesType DEF DeletePathChunks
<1>2. /\ work'[s] = work[s] \ {p}
      /\ todo'[s] = IF tree[s][p] = {} THEN <<>> ELSE <<p, tree[s][p]>>
      /\ DOMAIN todo' = DOMAIN todo /\ \A r \in Runs \ {s} : todo'[r] = todo[r]
      /\ tree[s][p] \in SUBSET Hashes
  BY <1>1 DEF JInv, IndexType
<1>3. IndexType'
  <2>1. chunks' \in [Branches \X Paths -> [Hashes -> Nat]]
    BY <1>1 DEF JInv, IndexType
  <2>2. work' \in [Runs -> SUBSET Paths]
    BY <1>1 DEF JInv, IndexType
  <2>3. \A r \in Runs : todo'[r] # <<>> =>
           \E q \in Paths, f \in SUBSET Hashes : f # {} /\ todo'[r] = <<q, f>>
    <3>1. ASSUME NEW r \in Runs, r # s, todo'[r] # <<>>
          PROVE \E q \in Paths, f \in SUBSET Hashes : f # {} /\ todo'[r] = <<q, f>>
      BY <1>2, <3>1 DEF JInv, IndexType
    <3>2. todo'[s] # <<>> => \E q \in Paths, f \in SUBSET Hashes : f # {} /\ todo'[s] = <<q, f>>
      BY <1>2
    <3>. QED BY <3>1, <3>2
  <2>. QED BY <1>1, <1>2, <2>1, <2>2, <2>3 DEF JInv, IndexType
<1>4. \A q \in Paths : Existing(b, q)' = IF q = p THEN {} ELSE Existing(b, q)
  BY <1>1 DEF Existing, JInv, IndexType
<1>5. s \in alone => (Reads(s) /\ Writes(s) /\ Inserts(s))'
  <2>. SUFFICES ASSUME s \in alone PROVE (Reads(s) /\ Writes(s) /\ Inserts(s))'
    OBVIOUS
  <2>1. \A q \in Paths : tree[s][q] = asked[s][q]
    BY <1>1 DEF JInv, Reads
  <2>2. \A q \in Paths \ work[s] : Existing(b, q) = asked[s][q]
    BY <1>1 DEF JInv, Writes
  <2>3. todo'[s] # <<>> => todo'[s][1] = p /\ todo'[s][2] = tree[s][p]
    BY <1>2
  <2>4. todo'[s] = <<>> => tree[s][p] = {}
    BY <1>2
  <2>5. Writes(s)'
    <3>1. ASSUME NEW q \in Paths \ work'[s]
          PROVE IF todo'[s] # <<>> /\ todo'[s][1] = q
                THEN /\ Existing(b, q)' \cup todo'[s][2] = asked[s][q]
                     /\ Existing(b, q)' \cap todo'[s][2] = {}
                ELSE Existing(b, q)' = asked[s][q]
      <4>1. CASE q = p
        BY <1>4, <2>1, <2>3, <2>4, <4>1
      <4>2. CASE q # p
        BY <1>2, <1>4, <2>2, <2>3, <4>2
      <4>. QED BY <4>1, <4>2
    <3>. QED BY <1>1, <3>1 DEF Writes
  <2>6. Reads(s)'
    BY <1>1, <2>1 DEF Reads
  <2>7. Inserts(s)'
    BY <1>2, <2>3 DEF Inserts
  <2>. QED BY <2>5, <2>6, <2>7
<1>6. s \in Indexing /\ doing' = [doing EXCEPT ![s] = "write"]
  BY <1>1 DEF Indexing, JInv, IndexType
<1>. QED BY <1>1, <1>2, <1>3, <1>5, <1>6, RunMoves

LEMMA InsertMoves == ASSUME JInv, NEW s \in Runs, InsertChunk(s) PROVE JInv'
<1>. DEFINE b == BranchOf[s]
<1>1. /\ doing[s] = "write" /\ todo[s] # <<>> /\ b \in Branches
  BY FilesType DEF InsertChunk
<1>2. PICK p \in Paths, left \in SUBSET Hashes : left # {} /\ todo[s] = <<p, left>>
  BY <1>1 DEF JInv, IndexType
<1>3. PICK h \in left :
        /\ chunks' = [chunks EXCEPT ![<<b, p>>][h] = chunks[<<b, p>>][h] + 1]
        /\ todo' = [todo EXCEPT ![s] = IF left = {h} THEN <<>> ELSE <<p, left \ {h}>>]
  <2>. DEFINE q == todo[s][1]  l == todo[s][2]  g == CHOOSE x \in l : TRUE
  <2>1. /\ chunks' = [chunks EXCEPT ![<<b, q>>][g] = chunks[<<b, q>>][g] + 1]
        /\ todo' = [todo EXCEPT ![s] = IF l = {g} THEN <<>> ELSE <<q, l \ {g}>>]
    BY DEF InsertChunk
  <2>2. q = p /\ l = left
    BY <1>2
  <2>3. g \in l
    BY <1>2, <2>2
  <2>. HIDE DEF q, l, g
  <2>. QED BY <2>1, <2>2, <2>3
<1>4. UNCHANGED <<origin, local, head, doing, tree, unread, work, asked, alone>>
  BY DEF InsertChunk
<1>5. /\ todo'[s] = IF left = {h} THEN <<>> ELSE <<p, left \ {h}>>
      /\ DOMAIN todo' = DOMAIN todo /\ \A r \in Runs \ {s} : todo'[r] = todo[r]
  BY <1>3 DEF JInv, IndexType
<1>6. IndexType'
  <2>1. chunks' \in [Branches \X Paths -> [Hashes -> Nat]]
    BY <1>1, <1>3 DEF JInv, IndexType
  <2>2. \A r \in Runs : todo'[r] # <<>> =>
           \E q \in Paths, f \in SUBSET Hashes : f # {} /\ todo'[r] = <<q, f>>
    <3>1. ASSUME NEW r \in Runs, r # s, todo'[r] # <<>>
          PROVE \E q \in Paths, f \in SUBSET Hashes : f # {} /\ todo'[r] = <<q, f>>
      BY <1>5, <3>1 DEF JInv, IndexType
    <3>2. todo'[s] # <<>> => \E q \in Paths, f \in SUBSET Hashes : f # {} /\ todo'[s] = <<q, f>>
      <4>1. left \ {h} \in SUBSET Hashes /\ (left # {h} => left \ {h} # {})
        BY <1>2
      <4>. QED BY <1>5, <4>1
    <3>. QED BY <3>1, <3>2
  <2>. QED BY <1>4, <1>5, <2>1, <2>2 DEF JInv, IndexType
<1>7. \A q \in Paths : Existing(b, q)' = IF q = p THEN Existing(b, p) \cup {h}
                                         ELSE Existing(b, q)
  <2>1. \A q \in Paths \ {p} : chunks'[<<b, q>>] = chunks[<<b, q>>]
    BY <1>1, <1>3 DEF JInv, IndexType
  <2>2. chunks'[<<b, p>>] = [chunks[<<b, p>>] EXCEPT ![h] = chunks[<<b, p>>][h] + 1]
    BY <1>1, <1>3 DEF JInv, IndexType
  <2>3. chunks[<<b, p>>] \in [Hashes -> Nat] /\ h \in Hashes
    BY <1>1 DEF JInv, IndexType
  <2>4. \A g \in Hashes : chunks'[<<b, p>>][g] > 0 <=> (g = h \/ chunks[<<b, p>>][g] > 0)
    BY <2>2, <2>3
  <2>5. Existing(b, p)' = Existing(b, p) \cup {h}
    BY <2>3, <2>4 DEF Existing
  <2>6. \A q \in Paths \ {p} : Existing(b, q)' = Existing(b, q)
    BY <2>1 DEF Existing
  <2>. QED BY <2>5, <2>6
<1>8. ASSUME s \in alone PROVE (Reads(s) /\ Writes(s) /\ Inserts(s))'
  <2>1. /\ p \notin work[s] /\ Existing(b, p) \cup left = asked[s][p]
        /\ Existing(b, p) \cap left = {}
    BY <1>1, <1>2, <1>8 DEF JInv, Writes, Inserts
  <2>2. \A q \in Paths \ work[s] : q # p => Existing(b, q) = asked[s][q]
    BY <1>1, <1>2, <1>8 DEF JInv, Writes
  <2>3. \A q \in Paths : tree[s][q] = asked[s][q]
    BY <1>1, <1>8 DEF JInv, Reads
  <2>4. todo'[s] # <<>> => todo'[s][1] = p /\ todo'[s][2] = left \ {h}
    BY <1>5
  <2>5. todo'[s] = <<>> => left = {h}
    <3>1. <<p, left \ {h}>> # <<>>
      OBVIOUS
    <3>. QED BY <1>5, <3>1
  <2>6. ASSUME NEW q \in Paths \ work[s]
        PROVE IF todo'[s] # <<>> /\ todo'[s][1] = q
              THEN /\ Existing(b, q)' \cup todo'[s][2] = asked[s][q]
                   /\ Existing(b, q)' \cap todo'[s][2] = {}
              ELSE Existing(b, q)' = asked[s][q]
    <3>1. CASE q = p
      <4>1. Existing(b, q)' = Existing(b, p) \cup {h}
        BY <1>7, <3>1
      <4>2. CASE todo'[s] = <<>>
        BY <2>1, <2>5, <3>1, <4>1, <4>2
      <4>3. CASE todo'[s] # <<>>
        BY <2>1, <2>4, <3>1, <4>1, <4>3
      <4>. QED BY <4>2, <4>3
    <3>2. CASE q # p
      BY <1>7, <2>2, <2>4, <3>2
    <3>. QED BY <3>1, <3>2
  <2>7. Writes(s)'
    BY <1>4, <2>6 DEF Writes
  <2>8. Reads(s)'
    BY <1>1, <1>4, <2>3 DEF Reads
  <2>9. Inserts(s)'
    BY <1>4, <2>1, <2>4 DEF Inserts
  <2>. QED BY <2>7, <2>8, <2>9
<1>9. s \in Indexing /\ doing' = [doing EXCEPT ![s] = "write"]
  BY <1>1, <1>4 DEF Indexing, JInv, IndexType
<1>. QED BY <1>1, <1>4, <1>5, <1>6, <1>8, <1>9, RunMoves

LEMMA RunEnds ==
    ASSUME JInv, NEW s \in Runs, NEW o \in {"done", "failed"}, s \in Indexing, End(s, o)
    PROVE  JInv'
<1>1. /\ doing' = [doing EXCEPT ![s] = o]
      /\ tree' = [tree EXCEPT ![s] = Empty] /\ asked' = [asked EXCEPT ![s] = Empty]
      /\ unread' = [unread EXCEPT ![s] = {}] /\ work' = [work EXCEPT ![s] = {}]
      /\ todo' = [todo EXCEPT ![s] = <<>>] /\ alone' = alone \ {s}
      /\ UNCHANGED <<origin, local, created, head, chunks>>
  BY DEF End, GoOn
<1>2. alone' = {}
  BY <1>1, OnlyOneMoves
<1>3. /\ \A r \in Runs : todo'[r] = IF r = s THEN <<>> ELSE todo[r]
      /\ \A r \in Runs : doing'[r] = IF r = s THEN o ELSE doing[r]
  BY <1>1 DEF JInv, IndexType
<1>4. IndexType'
  <2>1. /\ doing' \in [Runs -> {"idle", "checkout", "pull", "read", "diff", "write", "done", "failed"}]
        /\ tree' \in [Runs -> [Paths -> SUBSET Hashes]]
        /\ asked' \in [Runs -> [Paths -> SUBSET Hashes]]
        /\ unread' \in [Runs -> SUBSET Paths] /\ work' \in [Runs -> SUBSET Paths]
        /\ DOMAIN todo' = Runs
    BY <1>1, FilesType DEF JInv, IndexType
  <2>. QED BY <1>1, <1>3, <2>1 DEF JInv, IndexType
<1>. QED BY <1>1, <1>2, <1>3, <1>4 DEF JInv, OnlyOne, Cloned, Waits

LEMMA IndexStep == ASSUME JInv, [IndexNext]_cvars PROVE JInv'
<1>1. ASSUME NEW s \in Runs, MarkIndexed(s) \/ Abort(s) PROVE JInv'
  <2>1. s \in Indexing
    BY <1>1 DEF MarkIndexed, Abort, Indexing
  <2>. QED BY <1>1, <2>1, RunEnds DEF MarkIndexed, Abort
<1>2. CASE UNCHANGED cvars
  BY <1>2 DEF cvars, JInv, IndexType, OnlyOne, Cloned, Indexing, Waits, Reads, Writes, Inserts,
              Existing
<1>. QED BY <1>1, <1>2, IndexPush, IndexBegins, CloneMoves, CheckoutMoves, PullMoves, ReadMoves,
            DiffMoves, DeleteMoves, InsertMoves DEF IndexNext

(* Outside the files that runs which overlapped wrote, a chunk is stored    *)
(* once.                                                                    *)
Single == \A x \in (Branches \X Paths) \ crossed : \A h \in Hashes : chunks[x][h] <= 1

LEMMA DeleteSingle ==
    ASSUME JInv, Single, NEW s \in Runs, NEW p \in Paths, DeletePathChunks(s, p)
    PROVE  Single'
<1>. DEFINE y == <<BranchOf[s], p>>
<1>1. /\ chunks' = [chunks EXCEPT ![y] = [h \in Hashes |-> 0]]
      /\ crossed \ {y} \subseteq crossed'
  BY DEF DeletePathChunks
<1>2. \A x \in Branches \X Paths : chunks'[x] = IF x = y THEN [h \in Hashes |-> 0] ELSE chunks[x]
  BY <1>1 DEF JInv, IndexType
<1>. QED BY <1>1, <1>2 DEF Single

(* A run alone deleted the file before it inserts its chunks, and nobody    *)
(* else inserts.                                                            *)
LEMMA InsertSingle ==
    ASSUME JInv, Single, NEW s \in Runs, InsertChunk(s)
    PROVE  Single'
<1>. DEFINE b == BranchOf[s]
<1>1. /\ doing[s] = "write" /\ todo[s] # <<>> /\ b \in Branches
  BY FilesType DEF InsertChunk
<1>2. PICK p \in Paths, left \in SUBSET Hashes : left # {} /\ todo[s] = <<p, left>>
  BY <1>1 DEF JInv, IndexType
<1>3. PICK h \in left :
        /\ chunks' = [chunks EXCEPT ![<<b, p>>][h] = chunks[<<b, p>>][h] + 1]
        /\ crossed' = IF s \in alone THEN crossed ELSE crossed \cup {<<b, p>>}
  <2>. DEFINE q == todo[s][1]  l == todo[s][2]  g == CHOOSE x \in l : TRUE
  <2>1. /\ chunks' = [chunks EXCEPT ![<<b, q>>][g] = chunks[<<b, q>>][g] + 1]
        /\ crossed' = IF s \in alone THEN crossed ELSE crossed \cup {<<b, q>>}
    BY DEF InsertChunk
  <2>2. q = p /\ l = left
    BY <1>2
  <2>3. g \in l
    BY <1>2, <2>2
  <2>. HIDE DEF q, l, g
  <2>. QED BY <2>1, <2>2, <2>3
<1>. DEFINE y == <<b, p>>
<1>4. /\ y \in Branches \X Paths /\ chunks[y] \in [Hashes -> Nat] /\ h \in Hashes
      /\ \A x \in (Branches \X Paths) \ {y} : chunks'[x] = chunks[x]
      /\ chunks'[y] = [chunks[y] EXCEPT ![h] = chunks[y][h] + 1]
  BY <1>1, <1>3 DEF JInv, IndexType
<1>5. ASSUME s \in alone PROVE chunks[y][h] = 0
  <2>1. p \notin work[s] /\ Existing(b, p) \cap left = {}
    BY <1>1, <1>2, <1>5 DEF JInv, Writes, Inserts
  <2>2. h \notin Existing(b, p)
    BY <2>1
  <2>. QED BY <1>4, <2>2 DEF Existing
<1>6. \A x \in (Branches \X Paths) \ crossed' : x # y => \A g \in Hashes : chunks'[x][g] <= 1
  BY <1>3, <1>4 DEF Single
<1>7. y \notin crossed' => \A g \in Hashes : chunks'[y][g] <= 1
  <2>. SUFFICES ASSUME y \notin crossed', NEW g \in Hashes PROVE chunks'[y][g] <= 1
    OBVIOUS
  <2>1. s \in alone /\ chunks[y][g] <= 1
    BY <1>3, <1>4 DEF Single
  <2>. QED BY <1>4, <1>5, <2>1
<1>. QED BY <1>6, <1>7 DEF Single

LEMMA SingleStep == ASSUME JInv, Single, [IndexNext]_cvars PROVE Single'
<1>1. UNCHANGED <<chunks, crossed>> => Single'
  BY DEF Single
<1>2. ASSUME NEW s \in Runs, MarkIndexed(s) \/ Abort(s) PROVE UNCHANGED <<chunks, crossed>>
  BY <1>2 DEF MarkIndexed, Abort, End
<1>3. ASSUME NEW s \in Runs,
             \/ Index(s) \/ Clone(s) \/ Checkout(s) \/ Pull(s) \/ Diff(s)
             \/ \E p \in Paths : ReadFile(s, p)
      PROVE  UNCHANGED <<chunks, crossed>>
  BY <1>3 DEF Index, Clone, Checkout, Pull, Diff, ReadFile
<1>4. ASSUME NEW b \in Branches, NEW p \in Paths, Push(b, p) PROVE UNCHANGED <<chunks, crossed>>
  BY <1>4 DEF Push
<1>5. CASE UNCHANGED cvars
  BY <1>1, <1>5 DEF cvars
<1>. QED BY <1>1, <1>2, <1>3, <1>4, <1>5, DeleteSingle, InsertSingle DEF IndexNext

(* For any branches, files, pushes and number of runs: however many runs    *)
(* have overlapped, failed half-way or read another branch's files before,  *)
(* the next run that overlaps no other leaves exactly the hashes of its     *)
(* branch as it pulled it, with pushes arriving at every step, and one row  *)
(* of each except in the files that runs which overlapped wrote.            *)
THEOREM AloneRepairs == IndexSpec => []IndexRepairs
<1>1. JInv /\ Single => IndexRepairs
  <2>. SUFFICES ASSUME JInv, Single, NEW r \in alone, doing[r] = "write", work[r] = {},
                       todo[r] = <<>>, NEW p \in Paths
                PROVE  /\ Existing(BranchOf[r], p) = asked[r][p]
                       /\ \/ <<BranchOf[r], p>> \in crossed
                          \/ \A h \in Hashes : chunks[<<BranchOf[r], p>>][h] <= 1
    BY DEF IndexRepairs
  <2>1. Existing(BranchOf[r], p) = asked[r][p]
    BY DEF JInv, Writes
  <2>2. BranchOf[r] \in Branches
    BY FilesType DEF JInv, OnlyOne
  <2>. QED BY <2>1, <2>2 DEF Single
<1>2. IndexInit => Single
  BY DEF IndexInit, Single
<1>. QED BY <1>1, <1>2, IndexInitInv, IndexStep, SingleStep, PTL DEF IndexSpec
============================================================================
