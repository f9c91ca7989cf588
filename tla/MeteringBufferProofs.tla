------------------------ MODULE MeteringBufferProofs ------------------------
(***************************************************************************)
(* Proofs about MeteringBuffer, for every set of workers and events, every *)
(* bucketing, every bound of the retry queue; the last three (the ledger,  *)
(* SettledIsCounted, StopCountsTheRest) for a worker that is alone.        *)
(***************************************************************************)
EXTENDS MeteringBuffer, SequenceTheorems, WellFoundedInduction, TLAPS

----------------------------------------------------------------------------
(* Lemmas about Held, Aggregates, Enumerations and the queue operators. *)

(* What an empty sequence of aggregates holds. *)
LEMMA HeldEmpty == Held(<<>>) = {}
  BY DEF Held

(* A concatenation holds what its parts hold. *)
LEMMA HeldConcat ==
  ASSUME NEW S, NEW s \in Seq(S), NEW t \in Seq(S)
  PROVE  Held(s \o t) = Held(s) \cup Held(t)
<1> DEFINE c == s \o t
<1>1. /\ DOMAIN c = 1..(Len(s) + Len(t))
      /\ \A i \in 1..Len(s) : c[i] = s[i]
      /\ \A i \in (Len(s)+1)..(Len(s)+Len(t)) : c[i] = t[i - Len(s)]
  BY ConcatProperties
<1>2. ASSUME NEW e \in Held(c) PROVE e \in Held(s) \cup Held(t)
  <2>1. PICK i \in 1..(Len(s)+Len(t)) : e \in c[i]
    BY <1>1, <1>2 DEF Held
  <2>2. CASE i =< Len(s)
    BY <1>1, <2>1, <2>2 DEF Held
  <2>3. CASE i > Len(s)
    <3>1. i - Len(s) \in 1..Len(t) /\ c[i] = t[i - Len(s)]
      BY <1>1, <2>3
    <3> QED BY <3>1, <2>1 DEF Held
  <2> QED BY <2>2, <2>3
<1>3. ASSUME NEW e \in Held(s) PROVE e \in Held(c)
  <2>1. PICK i \in DOMAIN s : e \in s[i]
    BY <1>3 DEF Held
  <2>2. i \in DOMAIN c /\ c[i] = s[i]
    BY <1>1, <2>1
  <2> QED BY <2>1, <2>2 DEF Held
<1>4. ASSUME NEW e \in Held(t) PROVE e \in Held(c)
  <2>1. PICK i \in DOMAIN t : e \in t[i]
    BY <1>4 DEF Held
  <2>2. Len(s) + i \in (Len(s)+1)..(Len(s)+Len(t))
    BY <2>1
  <2>3. Len(s) + i \in DOMAIN c /\ c[Len(s) + i] = t[i]
    BY <1>1, <2>1, <2>2
  <2> QED BY <2>1, <2>3 DEF Held
<1> QED BY <1>2, <1>3, <1>4

(* A sequence holds what its head is and what its tail holds. *)
LEMMA HeldHeadTail ==
  ASSUME NEW S, NEW s \in Seq(S), s # <<>>
  PROVE  Held(s) = Head(s) \cup Held(Tail(s))
<1>1. /\ Len(s) \in Nat \ {0}
      /\ Head(s) = s[1]
      /\ Len(Tail(s)) = Len(s) - 1
      /\ \A i \in 1..(Len(s) - 1) : Tail(s)[i] = s[i+1]
  BY HeadTailProperties, EmptySeq
<1>2. ASSUME NEW e \in Held(s) PROVE e \in Head(s) \cup Held(Tail(s))
  <2>1. PICK i \in 1..Len(s) : e \in s[i]
    BY <1>2 DEF Held
  <2>2. CASE i = 1
    BY <1>1, <2>1, <2>2
  <2>3. CASE i # 1
    <3>1. i - 1 \in DOMAIN Tail(s) /\ Tail(s)[i - 1] = s[i]
      BY <1>1, <2>3
    <3> QED BY <2>1, <3>1 DEF Held
  <2> QED BY <2>2, <2>3
<1>3. Head(s) \subseteq Held(s)
  BY <1>1 DEF Held
<1>4. ASSUME NEW e \in Held(Tail(s)) PROVE e \in Held(s)
  <2>1. PICK i \in DOMAIN Tail(s) : e \in Tail(s)[i]
    BY <1>4 DEF Held
  <2>2. i + 1 \in DOMAIN s /\ Tail(s)[i] = s[i + 1]
    BY <1>1, <2>1
  <2> QED BY <2>1, <2>2 DEF Held
<1> QED BY <1>2, <1>3, <1>4

(* Appending an aggregate adds its events. *)
LEMMA HeldAppend ==
  ASSUME NEW S, NEW s \in Seq(S), NEW x \in S
  PROVE  Held(Append(s, x)) = Held(s) \cup x
<1>1. /\ DOMAIN Append(s, x) = 1..(Len(s) + 1)
      /\ \A i \in 1..Len(s) : Append(s, x)[i] = s[i]
      /\ Append(s, x)[Len(s) + 1] = x
  BY AppendProperties
<1>2. ASSUME NEW e \in Held(Append(s, x)) PROVE e \in Held(s) \cup x
  <2>1. PICK i \in 1..(Len(s) + 1) : e \in Append(s, x)[i]
    BY <1>1, <1>2 DEF Held
  <2>2. i \in 1..Len(s) \/ i = Len(s) + 1
    BY <2>1
  <2> QED BY <1>1, <2>1, <2>2 DEF Held
<1>3. ASSUME NEW e \in Held(s) \cup x PROVE e \in Held(Append(s, x))
  <2>1. CASE e \in x
    BY <1>1, <2>1 DEF Held
  <2>2. CASE e \in Held(s)
    <3>1. PICK i \in 1..Len(s) : e \in s[i]
      BY <2>2 DEF Held
    <3> QED BY <1>1, <3>1 DEF Held
  <2> QED BY <1>3, <2>1, <2>2
<1> QED BY <1>2, <1>3

(* The aggregates of a set of events are non-empty and cover it. *)
LEMMA AggregatesCover ==
  ASSUME NEW B \in SUBSET Events
  PROVE  /\ Aggregates(B) \subseteq Aggregate
         /\ UNION Aggregates(B) = B
  BY DEF Aggregates, Aggregate

(* Listing the aggregates of a dict loses none of them. *)
LEMMA EnumerationHolds ==
  ASSUME NEW S, NEW s \in Enumerations(S)
  PROVE  s \in Seq(S) /\ Held(s) = UNION S
<1>1. PICK n \in 0..Cardinality(S) : s \in [1..n -> S]
  BY DEF Enumerations
<1>2. n \in Nat
  BY <1>1
<1>3. s \in Seq(S)
  BY <1>1, <1>2
<1>4. \A x \in S : \E i \in DOMAIN s : s[i] = x
  BY DEF Enumerations
<1>5. \A i \in DOMAIN s : s[i] \in S
  BY <1>1
<1> QED BY <1>3, <1>4, <1>5 DEF Held

(* Trimming keeps the newest part of the retry queue and drops the rest. *)
LEMMA TrimElements ==
  ASSUME NEW S, NEW q \in Seq(S)
  PROVE  /\ Overflow(q) \in 0..Len(q) /\ Len(q) \in Nat /\ DOMAIN q = 1..Len(q)
         /\ Trimmed(q) \in Seq(S) /\ Dropped(q) \in Seq(S)
         /\ Len(Trimmed(q)) = Len(q) - Overflow(q)
         /\ DOMAIN Trimmed(q) = 1..(Len(q) - Overflow(q))
         /\ \A i \in 1..(Len(q) - Overflow(q)) : Trimmed(q)[i] = q[Overflow(q) + i]
         /\ DOMAIN Dropped(q) = 1..Overflow(q)
         /\ \A i \in 1..Overflow(q) : Dropped(q)[i] = q[i]
<1> DEFINE k == Overflow(q)
<1>1. k \in 0..Len(q) /\ Len(q) \in Nat /\ DOMAIN q = 1..Len(q)
  BY MeteringAssumption DEF Overflow
<1>2. /\ Trimmed(q) \in Seq(S)
      /\ Len(Trimmed(q)) = Len(q) - k
      /\ \A i \in 1..(Len(q) - k) : Trimmed(q)[i] = q[k + i]
  <2>1. \A i \in (k+1)..Len(q) : q[i] \in S
    BY <1>1, ElementOfSeq
  <2> QED BY <1>1, <2>1 DEF Trimmed
<1>3. /\ Len(Dropped(q)) = k
      /\ Dropped(q) \in Seq(S)
      /\ \A i \in 1..k : Dropped(q)[i] = q[i]
  <2>1. \A i \in 1..k : q[i] \in S
    BY <1>1, ElementOfSeq
  <2> QED BY <1>1, <2>1 DEF Dropped
<1> HIDE DEF k
<1>4. DOMAIN Trimmed(q) = 1..(Len(q) - k) /\ DOMAIN Dropped(q) = 1..k
  BY <1>1, <1>2, <1>3
<1> QED BY <1>1, <1>2, <1>3, <1>4 DEF k

(* Trimming the retry queue splits it into what is kept and what is dropped. *)
LEMMA TrimSplits ==
  ASSUME NEW S, NEW q \in Seq(S)
  PROVE  /\ Trimmed(q) \in Seq(S)
         /\ Dropped(q) \in Seq(S)
         /\ Held(q) = Held(Trimmed(q)) \cup Held(Dropped(q))
<1> DEFINE k == Overflow(q)
<1>1. k \in 0..Len(q)
  BY TrimElements
<1>2. /\ Trimmed(q) \in Seq(S)
      /\ Len(Trimmed(q)) = Len(q) - k
      /\ \A i \in 1..(Len(q) - k) : Trimmed(q)[i] = q[k + i]
  BY TrimElements
<1>3. /\ Len(Dropped(q)) = k
      /\ Dropped(q) \in Seq(S)
      /\ \A i \in 1..k : Dropped(q)[i] = q[i]
  BY TrimElements
<1>4. ASSUME NEW e \in Held(q) PROVE e \in Held(Trimmed(q)) \cup Held(Dropped(q))
  <2>1. PICK i \in 1..Len(q) : e \in q[i]
    BY <1>4 DEF Held
  <2>2. CASE i =< k
    <3>1. i \in DOMAIN Dropped(q) /\ Dropped(q)[i] = q[i]
      BY <1>1, <1>3, <2>2
    <3> QED BY <2>1, <3>1 DEF Held
  <2>3. CASE i > k
    <3>1. i - k \in DOMAIN Trimmed(q) /\ Trimmed(q)[i - k] = q[i]
      BY <1>1, <1>2, <2>3
    <3> QED BY <2>1, <3>1 DEF Held
  <2> QED BY <1>1, <2>2, <2>3
<1>5. ASSUME NEW e \in Held(Trimmed(q)) PROVE e \in Held(q)
  <2>1. PICK i \in DOMAIN Trimmed(q) : e \in Trimmed(q)[i]
    BY <1>5 DEF Held
  <2>2. k + i \in DOMAIN q /\ Trimmed(q)[i] = q[k + i]
    BY <1>1, <1>2, <2>1
  <2> QED BY <2>1, <2>2 DEF Held
<1>6. ASSUME NEW e \in Held(Dropped(q)) PROVE e \in Held(q)
  <2>1. PICK i \in DOMAIN Dropped(q) : e \in Dropped(q)[i]
    BY <1>6 DEF Held
  <2>2. i \in DOMAIN q /\ Dropped(q)[i] = q[i]
    BY <1>1, <1>3, <2>1
  <2> QED BY <2>1, <2>2 DEF Held
<1> QED BY <1>2, <1>3, <1>4, <1>5, <1>6

----------------------------------------------------------------------------
(* The inductive invariant: where the two coroutines are, and that a flush *)
(* in progress is the only owner of todo, failed and thread.               *)

Control(w) ==
    /\ stopper[w] = "none" => /\ loop[w] # "done"
                              /\ running[w] <=> loop[w] # "none"
    /\ stopper[w] \in {"flushing", "done"} => loop[w] \in {"none", "done"}

FlushOwnsFrame(w) ==
    /\ ~Flushing(w) => todo[w] = <<>> /\ failed[w] = <<>>
    /\ thread[w].at # "none" => todo[w] # <<>> /\ thread[w].agg = Head(todo[w])

Places(w) == buffer[w] \cup Held(pending[w]) \cup Held(todo[w]) \cup Held(failed[w])
                 \cup settled[w] \cup abandoned[w]

Conserved(w) == recorded[w] \subseteq Places(w)

IInv == TypeOK /\ \A w \in Workers : Control(w) /\ FlushOwnsFrame(w) /\ Conserved(w)

(* Every initial state satisfies the inductive invariant. *)
LEMMA InitIInv == Init => IInv
<1> SUFFICES ASSUME Init PROVE IInv
  OBVIOUS
<1>1. TypeOK
  BY MeteringAssumption DEF Init, TypeOK, Thread, NoThread, NoCounts
<1>2. ASSUME NEW w \in Workers PROVE Control(w) /\ FlushOwnsFrame(w) /\ Conserved(w)
  BY <1>2 DEF Init, Control, FlushOwnsFrame, Flushing, Conserved, Places, NoThread
<1> QED BY <1>1, <1>2 DEF IInv

(* The swap at the start of a flush keeps the types and every event. *)
LEMMA SwapKeeps ==
  ASSUME TypeOK, NEW w \in Workers, todo[w] = <<>>, Swap(w)
  PROVE  /\ todo' \in [Workers -> Seq(Aggregate)]
         /\ buffer' \in [Workers -> SUBSET Events]
         /\ pending' \in [Workers -> Seq(Aggregate)]
         /\ Held(todo'[w]) = buffer[w] \cup Held(pending[w])
         /\ NothingToFlush(w) => todo'[w] = <<>>
         /\ \A v \in Workers \ {w} : /\ todo'[v] = todo[v]
                                      /\ buffer'[v] = buffer[v]
                                      /\ pending'[v] = pending[v]
<1>1. PICK s \in Enumerations(Aggregates(buffer[w])) :
         todo' = [todo EXCEPT ![w] = pending[w] \o s]
  BY DEF Swap
<1>2. buffer[w] \in SUBSET Events /\ pending[w] \in Seq(Aggregate)
  BY DEF TypeOK
<1>3. s \in Seq(Aggregates(buffer[w])) /\ Held(s) = buffer[w]
  BY <1>1, <1>2, EnumerationHolds, AggregatesCover
<1>4. s \in Seq(Aggregate)
  BY <1>2, <1>3, AggregatesCover
<1>5. Held(pending[w] \o s) = buffer[w] \cup Held(pending[w])
  BY <1>2, <1>3, <1>4, HeldConcat
<1>6. pending[w] \o s \in Seq(Aggregate)
  BY <1>2, <1>4
<1>7. ASSUME NothingToFlush(w) PROVE pending[w] \o s = <<>>
  <2>1. Aggregates(buffer[w]) = {} /\ pending[w] = <<>>
    BY <1>7 DEF NothingToFlush, Aggregates
  <2>2. s \in Seq({})
    BY <1>3, <2>1
  <2>3. s = <<>>
    BY <2>2, EmptySeq
  <2> QED BY <2>1, <2>3
<1> QED BY <1>1, <1>5, <1>6, <1>7 DEF Swap, TypeOK

(* select().first() returns a row of the table, the one with the least id, or none. *)
LEMMA FirstIsRow ==
  ASSUME usage \in Seq(Row), NEW agg
  PROVE  /\ First(agg) \in Nat
         /\ First(agg) # 0 => First(agg) \in DOMAIN usage
<1>1. CASE Matches(agg) = {}
  BY <1>1 DEF First
<1>2. CASE Matches(agg) # {}
  <2>1. Matches(agg) \subseteq DOMAIN usage /\ DOMAIN usage \subseteq Nat \ {0}
    BY DEF Matches
  <2>2. PICK m \in Matches(agg) : \A j \in Matches(agg) : <<j, m>> \notin OpToRel(<, Nat)
    <3>1. Matches(agg) \subseteq Nat
      BY <2>1
    <3> HIDE DEF Matches
    <3> QED BY <1>2, <3>1, NatLessThanWellFounded, WFMin
  <2>3. \A j \in Matches(agg) : m =< j
    <3> SUFFICES ASSUME NEW j \in Matches(agg) PROVE m =< j
      OBVIOUS
    <3>1. j \in Nat /\ m \in Nat
      BY <2>1
    <3>2. ~ (j < m)
      BY <2>2, <3>1 DEF OpToRel
    <3> QED BY <3>1, <3>2
  <2>4. First(agg) \in Matches(agg)
    <3> DEFINE M == Matches(agg)
    <3>1. First(agg) = CHOOSE i \in M : \A j \in M : i =< j
      BY <1>2 DEF First
    <3>2. \E i \in M : \A j \in M : i =< j
      BY <2>3
    <3> HIDE DEF M
    <3>3. (CHOOSE i \in M : \A j \in M : i =< j) \in M
      BY <3>2, Zenon
    <3> QED BY <3>1, <3>3 DEF M
  <2> QED BY <2>1, <2>4
<1> QED BY <1>1, <1>2

(* What a select makes of a thread is a thread. *)
LEMMA SelectedType ==
  ASSUME TypeOK, NEW t \in Thread, t.at = "spawned"
  PROVE  /\ Selected(t) \in Thread
         /\ Selected(t).at = "selected"
         /\ Selected(t).agg = t.agg
<1>1. First(t.agg) \in Nat /\ (First(t.agg) # 0 => First(t.agg) \in DOMAIN usage)
  BY FirstIsRow DEF TypeOK
<1>3. First(t.agg) # 0 => usage[First(t.agg)].n \in [Events -> Nat]
  <2>1. \A i \in DOMAIN usage : usage[i] \in Row
    BY DEF TypeOK
  <2> QED BY <1>1, <2>1 DEF Row
<1>4. t \in [at: {"spawned", "selected"}, agg: Aggregate, row: Nat, seen: [Events -> Nat]]
  BY DEF Thread, NoThread
<1> DEFINE new == IF First(t.agg) = 0 THEN NoCounts ELSE usage[First(t.agg)].n
<1>5. new \in [Events -> Nat]
  BY <1>3 DEF NoCounts
<1>6. Selected(t) = [t EXCEPT !.at = "selected", !.row = First(t.agg), !.seen = new]
  BY DEF Selected
<1> HIDE DEF new
<1>7. Selected(t) = [at |-> "selected", agg |-> t.agg, row |-> First(t.agg), seen |-> new]
  BY <1>4, <1>6
<1> QED BY <1>1, <1>4, <1>5, <1>7 DEF Thread

(* The table stays a sequence of rows when a thread writes to it. *)
LEMMA StoredType ==
  ASSUME TypeOK, NEW t \in Thread, t.at # "none"
  PROVE  Stored(t) \in Seq(Row)
<1>1. t.agg \in Aggregate /\ t.seen \in [Events -> Nat] /\ t.row \in Nat
  BY DEF Thread, NoThread
<1>2. KeyOf(t.agg) \in {RowKey[b] : b \in DOMAIN RowKey}
  BY <1>1, MeteringAssumption DEF KeyOf, Aggregate
<1>3. \A c \in [Events -> Nat] : Plus(c, t.agg) \in [Events -> Nat]
  BY DEF Plus
<1>4. NoCounts \in [Events -> Nat]
  BY DEF NoCounts
<1>5. CASE t.row = 0
  <2>1. [key |-> KeyOf(t.agg), n |-> Plus(NoCounts, t.agg)] \in Row
    BY <1>2, <1>3, <1>4 DEF Row
  <2> QED BY <1>5, <2>1 DEF Stored, TypeOK
<1>6. CASE t.row # 0
  <2>1. usage \in Seq(Row)
    BY DEF TypeOK
  <2>2. \A i \in DOMAIN usage : usage[i] \in Row
    BY <2>1
  <2>3. \A i \in DOMAIN usage : [usage[i] EXCEPT !.n = Plus(t.seen, t.agg)] \in Row
    BY <1>1, <1>3, <2>2 DEF Row
  <2>4. Stored(t) = [usage EXCEPT ![t.row].n = Plus(t.seen, t.agg)]
    BY <1>6 DEF Stored
  <2> DEFINE new == [usage EXCEPT ![t.row].n = Plus(t.seen, t.agg)]
  <2>5. DOMAIN usage = 1..Len(usage) /\ Len(usage) \in Nat
    BY <2>1
  <2>6. new \in [DOMAIN usage -> Row]
    BY <2>2, <2>3
  <2>7. new \in Seq(Row)
    <3> HIDE DEF new
    <3> QED BY <2>5, <2>6, SeqDef
  <2> QED BY <2>4, <2>7
<1> QED BY <1>5, <1>6
(* Sequences of aggregates hold events only. *)
LEMMA HeldInEvents ==
  ASSUME NEW s \in Seq(Aggregate)
  PROVE  Held(s) \subseteq Events
<1>1. \A i \in DOMAIN s : s[i] \in Aggregate
  OBVIOUS
<1> QED BY <1>1 DEF Held, Aggregate

(* Every step of every worker keeps the inductive invariant: one case per   *)
(* action, the acting worker apart from the others.                         *)
LEMMA StepIInv ==
  ASSUME IInv, [Next]_vars
  PROVE  IInv'
<1> USE DEF IInv
<1>1. CASE UNCHANGED vars
  <2>1. TypeOK'
    BY <1>1 DEF vars, local, TypeOK
  <2>2. ASSUME NEW v \in Workers PROVE Control(v)' /\ FlushOwnsFrame(v)' /\ Conserved(v)'
    <3>1. Control(v) /\ FlushOwnsFrame(v) /\ Conserved(v)
      OBVIOUS
    <3> QED BY <1>1, <3>1 DEF vars, local, Control, FlushOwnsFrame, Flushing, Conserved, Places
  <2> QED BY <2>1, <2>2
<1>2. ASSUME NEW w \in Workers, WorkerStep(w) PROVE IInv'
  <2>0. /\ TypeOK
        /\ Control(w) /\ FlushOwnsFrame(w) /\ Conserved(w)
        /\ \A v \in Workers : Control(v) /\ FlushOwnsFrame(v) /\ Conserved(v)
    BY <1>2
  <2>1. CASE \E e \in Events : Record(w, e)
    <3>1. TypeOK'
      BY <2>0, <2>1 DEF Record, TypeOK
    <3> QED BY <2>0, <2>1, <3>1 DEF Record, TypeOK, Control, FlushOwnsFrame, Flushing, Conserved, Places
  <2>2. CASE Start(w)
    <3>1. TypeOK'
      BY <2>0, <2>2 DEF Start, TypeOK
    <3> QED BY <2>0, <2>2, <3>1 DEF Start, TypeOK, Control, FlushOwnsFrame, Flushing, Conserved, Places
  <2>3. CASE LoopFlush(w)
    <3>1. todo[w] = <<>> /\ stopper[w] \in {"none", "waiting"} /\ thread[w].at = "none"
      BY <2>0, <2>3 DEF LoopFlush, Control, FlushOwnsFrame, Flushing, TypeOK
    <3>2. Swap(w)
      BY <2>3 DEF LoopFlush
    <3>3. /\ todo' \in [Workers -> Seq(Aggregate)]
          /\ buffer' \in [Workers -> SUBSET Events]
          /\ pending' \in [Workers -> Seq(Aggregate)]
          /\ Held(todo'[w]) = buffer[w] \cup Held(pending[w])
          /\ \A v \in Workers \ {w} : /\ todo'[v] = todo[v]
                                       /\ buffer'[v] = buffer[v]
                                       /\ pending'[v] = pending[v]
      BY <2>0, <3>1, <3>2, SwapKeeps
    <3>4. TypeOK'
      BY <2>0, <2>3, <3>3 DEF LoopFlush, TypeOK
    <3>5. ASSUME NEW v \in Workers \ {w} PROVE Control(v)' /\ FlushOwnsFrame(v)' /\ Conserved(v)'
      BY <2>0, <2>3, <3>3 DEF LoopFlush, TypeOK, Control, FlushOwnsFrame, Flushing, Conserved, Places
    <3>6. Control(w)' /\ FlushOwnsFrame(w)'
      BY <2>0, <2>3, <3>1, <3>4 DEF LoopFlush, TypeOK, Control, FlushOwnsFrame, Flushing
    <3>7. Conserved(w)'
      BY <2>0, <2>3, <3>1, <3>3, HeldEmpty DEF LoopFlush, Conserved, Places
    <3> QED BY <3>4, <3>5, <3>6, <3>7
  <2>4. CASE LoopExit(w)
    <3>1. TypeOK'
      BY <2>0, <2>4 DEF LoopExit, TypeOK
    <3>2. ASSUME NEW v \in Workers PROVE Control(v)' /\ FlushOwnsFrame(v)'
      BY <2>0, <2>4 DEF LoopExit, TypeOK, Control, FlushOwnsFrame, Flushing
    <3>3. ASSUME NEW v \in Workers PROVE Conserved(v)'
      BY <2>0, <2>4 DEF LoopExit, Conserved, Places
    <3> QED BY <3>1, <3>2, <3>3
  <2>5. CASE StopCall(w)
    <3>1. TypeOK'
      BY <2>0, <2>5 DEF StopCall, TypeOK
    <3> QED BY <2>0, <2>5, <3>1 DEF StopCall, TypeOK, Control, FlushOwnsFrame, Flushing, Conserved, Places
  <2>6. CASE StopTimeout(w)
    <3>1. TypeOK'
      <4>1. Held(todo[w]) \subseteq Events /\ Held(failed[w]) \subseteq Events
        BY <2>0, HeldInEvents DEF TypeOK
      <4>2. orphan' \in [Workers -> Thread]
        BY <2>0, <2>6 DEF StopTimeout, TypeOK
      <4>3. thread' \in [Workers -> Thread] /\ abandoned' \in [Workers -> SUBSET Events]
        BY <2>0, <2>6, <4>1 DEF StopTimeout, TypeOK, Thread
      <4>4. /\ todo' \in [Workers -> Seq(Aggregate)]
            /\ failed' \in [Workers -> Seq(Aggregate)]
            /\ loop' \in [Workers -> {"none", "sleeping", "flushing", "done"}]
        BY <2>0, <2>6 DEF StopTimeout, TypeOK
      <4> QED BY <2>0, <2>6, <4>2, <4>3, <4>4 DEF StopTimeout, TypeOK
    <3>2. ASSUME NEW v \in Workers \ {w} PROVE Control(v)' /\ FlushOwnsFrame(v)' /\ Conserved(v)'
      BY <2>0, <2>6 DEF StopTimeout, TypeOK, Control, FlushOwnsFrame, Flushing, Conserved, Places
    <3>3. Control(w)' /\ FlushOwnsFrame(w)'
      BY <2>0, <2>6 DEF StopTimeout, TypeOK, Control, FlushOwnsFrame, Flushing, NoThread
    <3>4. Conserved(w)'
      BY <2>0, <2>6 DEF StopTimeout, TypeOK, Conserved, Places
    <3> QED BY <3>1, <3>2, <3>3, <3>4
  <2>7. CASE StopFlush(w)
    <3>1. todo[w] = <<>> /\ failed[w] = <<>> /\ thread[w].at = "none"
      BY <2>0, <2>7 DEF StopFlush, Control, FlushOwnsFrame, Flushing, TypeOK
    <3>2. Swap(w)
      BY <2>7 DEF StopFlush
    <3>3. /\ todo' \in [Workers -> Seq(Aggregate)]
          /\ buffer' \in [Workers -> SUBSET Events]
          /\ pending' \in [Workers -> Seq(Aggregate)]
          /\ Held(todo'[w]) = buffer[w] \cup Held(pending[w])
          /\ NothingToFlush(w) => todo'[w] = <<>>
          /\ \A v \in Workers \ {w} : /\ todo'[v] = todo[v]
                                       /\ buffer'[v] = buffer[v]
                                       /\ pending'[v] = pending[v]
      BY <2>0, <3>1, <3>2, SwapKeeps
    <3>4. TypeOK'
      BY <2>0, <2>7, <3>3 DEF StopFlush, TypeOK
    <3>5. ASSUME NEW v \in Workers \ {w} PROVE Control(v)' /\ FlushOwnsFrame(v)' /\ Conserved(v)'
      BY <2>0, <2>7, <3>3 DEF StopFlush, TypeOK, Control, FlushOwnsFrame, Flushing, Conserved, Places
    <3>6. Control(w)' /\ FlushOwnsFrame(w)'
      BY <2>0, <2>7, <3>1, <3>3, <3>4 DEF StopFlush, TypeOK, Control, FlushOwnsFrame, Flushing
    <3>7. Conserved(w)'
      BY <2>0, <2>7, <3>1, <3>3, HeldEmpty DEF StopFlush, Conserved, Places
    <3> QED BY <3>4, <3>5, <3>6, <3>7
  <2>8. CASE Spawn(w)
    <3>1. Head(todo[w]) \in Aggregate
      BY <2>0, <2>8 DEF Spawn, TypeOK
    <3>2. thread' \in [Workers -> Thread]
      BY <2>0, <2>8, <3>1 DEF Spawn, TypeOK, Thread, NoCounts
    <3>3. TypeOK'
      BY <2>0, <2>8, <3>2 DEF Spawn, TypeOK, local
    <3>4. ASSUME NEW v \in Workers PROVE Control(v)' /\ Conserved(v)'
      BY <2>0, <2>8 DEF Spawn, local, Control, Conserved, Places
    <3>5. ASSUME NEW v \in Workers PROVE FlushOwnsFrame(v)'
      BY <2>0, <2>8 DEF Spawn, TypeOK, local, FlushOwnsFrame, Flushing
    <3> QED BY <3>3, <3>4, <3>5
  <2>9. CASE Select(w)
    <3>1. thread[w] \in Thread /\ thread[w].at = "spawned"
      BY <2>0, <2>9 DEF Select, TypeOK
    <3>2. /\ Selected(thread[w]) \in Thread
          /\ Selected(thread[w]).at = "selected"
          /\ Selected(thread[w]).agg = thread[w].agg
      BY <2>0, <3>1, SelectedType
    <3>3. /\ thread' = [thread EXCEPT ![w] = Selected(thread[w])]
          /\ UNCHANGED <<local, orphan, usage, faults, recorded, late, settled, abandoned>>
      BY <2>9 DEF Select
    <3>4. TypeOK'
      BY <2>0, <3>2, <3>3 DEF TypeOK, local
    <3>5. ASSUME NEW v \in Workers PROVE Control(v)' /\ Conserved(v)'
      BY <2>0, <3>3 DEF local, Control, Conserved, Places
    <3>6. ASSUME NEW v \in Workers PROVE FlushOwnsFrame(v)'
      BY <2>0, <3>1, <3>2, <3>3 DEF TypeOK, local, FlushOwnsFrame, Flushing
    <3> QED BY <3>4, <3>5, <3>6
  <2>10. CASE OrphanSelect(w)
    <3>1. orphan[w] \in Thread /\ orphan[w].at = "spawned"
      BY <2>0, <2>10 DEF OrphanSelect, TypeOK
    <3>2. Selected(orphan[w]) \in Thread
      BY <2>0, <3>1, SelectedType
    <3>3. TypeOK'
      BY <2>0, <2>10, <3>2 DEF OrphanSelect, TypeOK, local
    <3>4. ASSUME NEW v \in Workers PROVE Control(v)' /\ FlushOwnsFrame(v)' /\ Conserved(v)'
      BY <2>0, <2>10 DEF OrphanSelect, local, Control, FlushOwnsFrame, Flushing, Conserved, Places
    <3> QED BY <3>3, <3>4
  <2>11. CASE WriteOk(w)
    <3>1. /\ thread[w] \in Thread /\ thread[w].at = "selected"
          /\ todo[w] \in Seq(Aggregate) /\ todo[w] # <<>> /\ thread[w].agg = Head(todo[w])
          /\ Flushing(w)
      BY <2>0, <2>11 DEF WriteOk, TypeOK, FlushOwnsFrame
    <3>2. Stored(thread[w]) \in Seq(Row)
      BY <2>0, <3>1, StoredType
    <3>3. Tail(todo[w]) \in Seq(Aggregate) /\ Head(todo[w]) \in SUBSET Events
      BY <3>1 DEF Aggregate
    <3>4. TypeOK'
      BY <2>0, <2>11, <3>1, <3>2, <3>3 DEF WriteOk, TypeOK, Thread
    <3>5. ASSUME NEW v \in Workers PROVE Control(v)'
      BY <2>0, <2>11 DEF WriteOk, Control
    <3>6. ASSUME NEW v \in Workers PROVE FlushOwnsFrame(v)'
      BY <2>0, <2>11, <3>1 DEF WriteOk, TypeOK, FlushOwnsFrame, Flushing, NoThread
    <3>7. Conserved(w)'
      BY <2>0, <2>11, <3>1, HeldHeadTail DEF WriteOk, TypeOK, Conserved, Places
    <3>8. ASSUME NEW v \in Workers \ {w} PROVE Conserved(v)'
      BY <2>0, <2>11 DEF WriteOk, TypeOK, Conserved, Places
    <3> QED BY <3>4, <3>5, <3>6, <3>7, <3>8
  <2>12. CASE WriteFail(w)
    <3>1. /\ thread[w] \in Thread /\ thread[w].at # "none"
          /\ todo[w] \in Seq(Aggregate) /\ todo[w] # <<>> /\ thread[w].agg = Head(todo[w])
          /\ failed[w] \in Seq(Aggregate)
          /\ Flushing(w)
      BY <2>0, <2>12 DEF WriteFail, TypeOK, FlushOwnsFrame
    <3>2. Stored(thread[w]) \in Seq(Row)
      BY <2>0, <3>1, StoredType
    <3>3. Tail(todo[w]) \in Seq(Aggregate) /\ Head(todo[w]) \in Aggregate
      BY <3>1
    <3>4. Append(failed[w], Head(todo[w])) \in Seq(Aggregate)
      BY <3>1, <3>3
    <3>5. usage' \in Seq(Row) /\ faults' \in Nat
      BY <2>0, <2>12, <3>2 DEF WriteFail, TypeOK
    <3>6. TypeOK'
      BY <2>0, <2>12, <3>1, <3>3, <3>4, <3>5 DEF WriteFail, TypeOK, Thread
    <3>7. ASSUME NEW v \in Workers PROVE Control(v)'
      BY <2>0, <2>12 DEF WriteFail, Control
    <3>8. ASSUME NEW v \in Workers PROVE FlushOwnsFrame(v)'
      BY <2>0, <2>12, <3>1 DEF WriteFail, TypeOK, FlushOwnsFrame, Flushing, NoThread
    <3>9. Conserved(w)'
      <4>1. Held(todo[w]) = Head(todo[w]) \cup Held(Tail(todo[w]))
        BY <3>1, HeldHeadTail
      <4>2. Held(Append(failed[w], Head(todo[w]))) = Held(failed[w]) \cup Head(todo[w])
        BY <3>1, <3>3, HeldAppend
      <4>3. todo'[w] = Tail(todo[w]) /\ failed'[w] = Append(failed[w], Head(todo[w]))
        BY <2>0, <2>12, <3>1 DEF WriteFail, TypeOK
      <4> QED BY <2>0, <2>12, <4>1, <4>2, <4>3 DEF WriteFail, Conserved, Places
    <3>10. ASSUME NEW v \in Workers \ {w} PROVE Conserved(v)'
      BY <2>0, <2>12 DEF WriteFail, TypeOK, Conserved, Places
    <3> QED BY <3>6, <3>7, <3>8, <3>9, <3>10
  <2>13. CASE OrphanOk(w)
    <3>1. orphan[w] \in Thread /\ orphan[w].at = "selected"
      BY <2>0, <2>13 DEF OrphanOk, TypeOK
    <3>2. Stored(orphan[w]) \in Seq(Row)
      BY <2>0, <3>1, StoredType
    <3>3. TypeOK'
      BY <2>0, <2>13, <3>2 DEF OrphanOk, TypeOK, local, Thread
    <3>4. ASSUME NEW v \in Workers PROVE Control(v)' /\ FlushOwnsFrame(v)' /\ Conserved(v)'
      BY <2>0, <2>13 DEF OrphanOk, local, Control, FlushOwnsFrame, Flushing, Conserved, Places
    <3> QED BY <3>3, <3>4
  <2>14. CASE OrphanFail(w)
    <3>1. TypeOK'
      BY <2>0, <2>14 DEF OrphanFail, TypeOK, local, Thread
    <3>2. ASSUME NEW v \in Workers PROVE Control(v)' /\ FlushOwnsFrame(v)' /\ Conserved(v)'
      BY <2>0, <2>14 DEF OrphanFail, local, Control, FlushOwnsFrame, Flushing, Conserved, Places
    <3> QED BY <3>1, <3>2
  <2>15. CASE FlushEnd(w)
    <3> DEFINE queue == pending[w] \o failed[w]
    <3>1. pending[w] \in Seq(Aggregate) /\ failed[w] \in Seq(Aggregate) /\ queue \in Seq(Aggregate)
      BY <2>0 DEF TypeOK
    <3>2. /\ Trimmed(queue) \in Seq(Aggregate) /\ Dropped(queue) \in Seq(Aggregate)
          /\ Held(queue) = Held(Trimmed(queue)) \cup Held(Dropped(queue))
          /\ Held(queue) = Held(pending[w]) \cup Held(failed[w])
      <4>1. Held(queue) = Held(pending[w]) \cup Held(failed[w])
        BY <3>1, HeldConcat
      <4> HIDE DEF queue
      <4> QED BY <3>1, <4>1, TrimSplits
    <3>3. Held(Dropped(queue)) \subseteq Events
      BY <3>2, HeldInEvents
    <3>4. /\ pending' = [pending EXCEPT ![w] = Trimmed(queue)]
          /\ abandoned' = [abandoned EXCEPT ![w] = @ \cup Held(Dropped(queue))]
          /\ failed' = [failed EXCEPT ![w] = <<>>]
          /\ UNCHANGED <<buffer, running, todo, thread, orphan, usage, faults, recorded, late, settled>>
          /\ todo[w] = <<>> /\ thread[w].at = "none"
      BY <2>15 DEF FlushEnd
    <3>5. /\ loop' \in [Workers -> {"none", "sleeping", "flushing", "done"}]
          /\ stopper' \in [Workers -> {"none", "waiting", "flushing", "done"}]
      BY <2>0, <2>15 DEF FlushEnd, TypeOK
    <3> HIDE DEF queue
    <3>6. TypeOK'
      <4>1. /\ pending' \in [Workers -> Seq(Aggregate)]
            /\ failed' \in [Workers -> Seq(Aggregate)]
            /\ abandoned' \in [Workers -> SUBSET Events]
        BY <2>0, <3>2, <3>3, <3>4 DEF TypeOK
      <4> QED BY <2>0, <3>4, <3>5, <4>1 DEF TypeOK
    <3>7. ASSUME NEW v \in Workers PROVE Control(v)'
      <4>1. CASE v # w
        <5>1. loop'[v] = loop[v] /\ stopper'[v] = stopper[v] /\ running'[v] = running[v]
          BY <2>0, <2>15, <4>1 DEF FlushEnd, TypeOK
        <5> QED BY <2>0, <5>1 DEF Control
      <4>2. CASE v = w /\ loop[w] = "flushing"
        <5>1. /\ loop'[w] = IF running[w] THEN "sleeping" ELSE "done"
              /\ stopper'[w] = stopper[w] /\ running'[w] = running[w]
          BY <2>0, <2>15, <4>2 DEF FlushEnd, TypeOK
        <5> QED BY <2>0, <4>2, <5>1 DEF Control
      <4>3. CASE v = w /\ loop[w] # "flushing"
        <5>1. loop'[w] = loop[w] /\ stopper'[w] = "done" /\ stopper[w] = "flushing"
          BY <2>0, <2>15, <4>3 DEF FlushEnd, Flushing, TypeOK
        <5> QED BY <2>0, <4>3, <5>1 DEF Control
      <4> QED BY <4>1, <4>2, <4>3
    <3>8. ASSUME NEW v \in Workers PROVE FlushOwnsFrame(v)'
      <4>1. CASE v = w
        BY <2>0, <3>4, <4>1 DEF TypeOK, FlushOwnsFrame
      <4>2. CASE v # w
        <5>1. loop'[v] = loop[v] /\ stopper'[v] = stopper[v]
          BY <2>0, <2>15, <4>2 DEF FlushEnd, TypeOK
        <5>2. failed'[v] = failed[v] /\ todo'[v] = todo[v] /\ thread'[v] = thread[v]
          BY <2>0, <3>4, <4>2 DEF TypeOK
        <5> QED BY <2>0, <5>1, <5>2 DEF FlushOwnsFrame, Flushing
      <4> QED BY <4>1, <4>2
    <3>9. Conserved(w)'
      BY <2>0, <3>2, <3>4 DEF TypeOK, Conserved, Places
    <3>10. ASSUME NEW v \in Workers \ {w} PROVE Conserved(v)'
      BY <2>0, <3>4 DEF TypeOK, Conserved, Places
    <3> QED BY <3>6, <3>7, <3>8, <3>9, <3>10
  <2> QED BY <1>2, <2>1, <2>2, <2>3, <2>4, <2>5, <2>6, <2>7, <2>8, <2>9, <2>10,
             <2>11, <2>12, <2>13, <2>14, <2>15 DEF WorkerStep
<1> QED BY <1>1, <1>2 DEF Next

(* Type correctness of the metering state of every worker. *)
THEOREM TypeCorrect == Spec => []TypeOK
<1>1. IInv => TypeOK
  BY DEF IInv
<1> QED BY InitIInv, StepIInv, <1>1, PTL DEF Spec

(* No recorded usage event disappears between buffer, flush and retry queue: *)
(* Accounted holds for any number of workers, any faults, any cancelled stop. *)
THEOREM UsageConserved == Spec => []Accounted
<1>1. IInv => Accounted
  BY DEF IInv, Conserved, Places, Accounted
<1> QED BY InitIInv, StepIInv, <1>1, PTL DEF Spec

----------------------------------------------------------------------------
(* Billed at most once.  An event a worker still holds is in one place of   *)
(* that worker and in no row; an event that left is in one row, and what    *)
(* the write threads have read of it and will write back is that same row.  *)

Apart(s) == \A i, j \in DOMAIN s : \A e \in s[i] : e \in s[j] => i = j

Live(w) == buffer[w] \cup Held(pending[w]) \cup Held(todo[w]) \cup Held(failed[w])
               \cup orphan[w].agg

OnePlace(w) ==
    /\ Apart(pending[w]) /\ Apart(todo[w]) /\ Apart(failed[w])
    /\ buffer[w] \cap Held(pending[w]) = {}
    /\ buffer[w] \cap Held(todo[w]) = {}
    /\ buffer[w] \cap Held(failed[w]) = {}
    /\ buffer[w] \cap orphan[w].agg = {}
    /\ Held(pending[w]) \cap orphan[w].agg = {}
    /\ Held(todo[w]) \cap Held(failed[w]) = {}
    /\ Held(todo[w]) \cap orphan[w].agg = {}
    /\ Held(failed[w]) \cap orphan[w].agg = {}

Own(w) ==
    /\ Live(w) \subseteq recorded[w]
    /\ OnePlace(w)
    /\ Flushing(w) => pending[w] = <<>>
    /\ \A v \in Workers : v # w => recorded[v] \cap recorded[w] = {}

Carries(t, e, i) == t.at = "selected" /\ t.row = i /\ t.seen[e] > 0

(* Row i counts e, or a thread will write back to row i that it counts e. *)
At(e, i) ==
    \/ i \in DOMAIN usage /\ usage[i].n[e] > 0
    \/ \E w \in Workers : Carries(thread[w], e, i) \/ Carries(orphan[w], e, i)

RowKnown(t) ==
    t.at = "selected" =>
        /\ t.row = 0 => t.seen = NoCounts
        /\ t.row # 0 => t.row \in DOMAIN usage
        /\ \A e \in Events : t.seen[e] =< 1

OneRow == \A e \in Events : \A i, j \in Nat : At(e, i) /\ At(e, j) => i = j
SingleCounts == \A i \in DOMAIN usage : \A e \in Events : usage[i].n[e] =< 1
WrittenIsGone == \A e \in Events : \A i \in Nat : At(e, i) =>
                    /\ \E w \in Workers : e \in recorded[w]
                    /\ \A w \in Workers : e \notin Live(w)
RowsKnown == \A w \in Workers : RowKnown(thread[w]) /\ RowKnown(orphan[w])

TableInv == OneRow /\ SingleCounts /\ WrittenIsGone /\ RowsKnown

BInv == IInv /\ (\A w \in Workers : Own(w)) /\ (AckLoss \/ TableInv)

(* Apart under the operations of the flush. *)
LEMMA ApartEmpty == Apart(<<>>)
  BY DEF Apart

LEMMA ApartConcat ==
  ASSUME NEW S, NEW s \in Seq(S), NEW t \in Seq(S), Apart(s), Apart(t),
         Held(s) \cap Held(t) = {}
  PROVE  Apart(s \o t)
<1> DEFINE c == s \o t
<1>1. /\ DOMAIN c = 1..(Len(s) + Len(t)) /\ Len(s) \in Nat /\ Len(t) \in Nat
      /\ DOMAIN s = 1..Len(s) /\ DOMAIN t = 1..Len(t)
      /\ \A i \in 1..Len(s) : c[i] = s[i]
      /\ \A i \in (Len(s)+1)..(Len(s)+Len(t)) : c[i] = t[i - Len(s)]
  BY ConcatProperties
<1>2. \A i \in 1..(Len(s) + Len(t)) :
         \/ i \in DOMAIN s /\ c[i] = s[i]
         \/ i - Len(s) \in DOMAIN t /\ c[i] = t[i - Len(s)] /\ i \notin DOMAIN s
  BY <1>1
<1> HIDE DEF c
<1>3. ASSUME NEW i \in DOMAIN c, NEW j \in DOMAIN c, NEW e \in c[i], e \in c[j] PROVE i = j
  <2>1. CASE i \in DOMAIN s /\ j \in DOMAIN s
    BY <1>1, <1>3, <2>1 DEF Apart
  <2>2. CASE i \notin DOMAIN s /\ j \notin DOMAIN s
    <3>1. /\ i - Len(s) \in DOMAIN t /\ c[i] = t[i - Len(s)]
          /\ j - Len(s) \in DOMAIN t /\ c[j] = t[j - Len(s)]
      BY <1>1, <1>2, <2>2
    <3>2. i - Len(s) = j - Len(s)
      BY <1>3, <3>1 DEF Apart
    <3> QED BY <1>1, <3>2
  <2>3. CASE i \in DOMAIN s /\ j \notin DOMAIN s
    <3>1. e \in s[i] /\ j - Len(s) \in DOMAIN t /\ e \in t[j - Len(s)]
      BY <1>1, <1>2, <1>3, <2>3
    <3> QED BY <2>3, <3>1 DEF Held
  <2>4. CASE i \notin DOMAIN s /\ j \in DOMAIN s
    <3>1. e \in s[j] /\ i - Len(s) \in DOMAIN t /\ e \in t[i - Len(s)]
      BY <1>1, <1>2, <1>3, <2>4
    <3> QED BY <2>4, <3>1 DEF Held
  <2> QED BY <2>1, <2>2, <2>3, <2>4
<1> QED BY <1>3 DEF Apart, c

LEMMA ApartHeadTail ==
  ASSUME NEW S, NEW s \in Seq(S), s # <<>>, Apart(s)
  PROVE  Apart(Tail(s)) /\ Head(s) \cap Held(Tail(s)) = {}
<1>1. /\ Len(s) \in Nat \ {0} /\ DOMAIN s = 1..Len(s)
      /\ Head(s) = s[1]
      /\ DOMAIN Tail(s) = 1..(Len(s) - 1)
      /\ \A i \in 1..(Len(s) - 1) : Tail(s)[i] = s[i+1]
  BY HeadTailProperties, EmptySeq
<1>2. ASSUME NEW i \in DOMAIN Tail(s), NEW j \in DOMAIN Tail(s), NEW e \in Tail(s)[i], e \in Tail(s)[j]
      PROVE  i = j
  <2>1. i + 1 \in DOMAIN s /\ j + 1 \in DOMAIN s /\ e \in s[i + 1] /\ e \in s[j + 1]
    BY <1>1, <1>2
  <2>2. i + 1 = j + 1
    BY <2>1 DEF Apart
  <2> QED BY <1>1, <2>2
<1>3. ASSUME NEW e \in Head(s), e \in Held(Tail(s)) PROVE FALSE
  <2>1. PICK i \in DOMAIN Tail(s) : e \in Tail(s)[i]
    BY <1>3 DEF Held
  <2>2. i + 1 \in DOMAIN s /\ 1 \in DOMAIN s /\ e \in s[i + 1] /\ e \in s[1] /\ i + 1 # 1
    BY <1>1, <1>3, <2>1
  <2> QED BY <2>2 DEF Apart
<1> QED BY <1>2, <1>3 DEF Apart

LEMMA ApartAppend ==
  ASSUME NEW S, NEW s \in Seq(S), NEW x \in S, Apart(s), x \cap Held(s) = {}
  PROVE  Apart(Append(s, x))
<1>1. /\ DOMAIN Append(s, x) = 1..(Len(s) + 1) /\ DOMAIN s = 1..Len(s) /\ Len(s) \in Nat
      /\ \A i \in 1..Len(s) : Append(s, x)[i] = s[i]
      /\ Append(s, x)[Len(s) + 1] = x
  BY AppendProperties
<1>2. ASSUME NEW i \in 1..(Len(s) + 1), NEW j \in 1..(Len(s) + 1),
             NEW e \in Append(s, x)[i], e \in Append(s, x)[j]
      PROVE  i = j
  <2>1. /\ i \in DOMAIN s \/ i = Len(s) + 1
        /\ j \in DOMAIN s \/ j = Len(s) + 1
    BY <1>1
  <2>2. CASE i \in DOMAIN s /\ j \in DOMAIN s
    BY <1>1, <1>2, <2>2 DEF Apart
  <2>3. CASE i \in DOMAIN s /\ j = Len(s) + 1
    BY <1>1, <1>2, <2>3 DEF Held
  <2>4. CASE i = Len(s) + 1 /\ j \in DOMAIN s
    BY <1>1, <1>2, <2>4 DEF Held
  <2> QED BY <2>1, <2>2, <2>3, <2>4
<1> QED BY <1>1, <1>2 DEF Apart

(* The retry queue keeps and drops different events. *)
LEMMA ApartTrimmed ==
  ASSUME NEW S, NEW q \in Seq(S), Apart(q)
  PROVE  Apart(Trimmed(q)) /\ Held(Trimmed(q)) \cap Held(Dropped(q)) = {}
<1> DEFINE k == Overflow(q)
<1>1. k \in 0..Len(q) /\ Len(q) \in Nat /\ DOMAIN q = 1..Len(q)
  BY TrimElements
<1>2. /\ DOMAIN Trimmed(q) = 1..(Len(q) - k)
      /\ \A i \in 1..(Len(q) - k) : Trimmed(q)[i] = q[k + i]
  BY TrimElements
<1>3. /\ DOMAIN Dropped(q) = 1..k
      /\ \A i \in 1..k : Dropped(q)[i] = q[i]
  BY TrimElements
<1> HIDE DEF k
<1>4. ASSUME NEW i \in 1..(Len(q) - k), NEW j \in 1..(Len(q) - k),
             NEW e \in Trimmed(q)[i], e \in Trimmed(q)[j]
      PROVE  i = j
  <2>1. k + i \in DOMAIN q /\ k + j \in DOMAIN q /\ e \in q[k + i] /\ e \in q[k + j]
    BY <1>1, <1>2, <1>4
  <2>2. k + i = k + j
    BY <2>1 DEF Apart
  <2> QED BY <1>1, <2>2
<1>5. ASSUME NEW e \in Held(Trimmed(q)), e \in Held(Dropped(q)) PROVE FALSE
  <2>1. PICK i \in 1..(Len(q) - k) : e \in Trimmed(q)[i]
    BY <1>2, <1>5 DEF Held
  <2>2. PICK j \in 1..k : e \in Dropped(q)[j]
    BY <1>3, <1>5 DEF Held
  <2>3. k + i \in DOMAIN q /\ j \in DOMAIN q /\ e \in q[k + i] /\ e \in q[j] /\ j # k + i
    BY <1>1, <1>2, <1>3, <2>1, <2>2
  <2> QED BY <2>3 DEF Apart
<1> QED BY <1>2, <1>4, <1>5 DEF Apart

(* Different aggregates of a buffer have different buckets. *)
LEMMA ApartEnumeration ==
  ASSUME NEW B, NEW s \in Enumerations(Aggregates(B))
  PROVE  Apart(s)
<1>1. /\ \A i \in DOMAIN s : s[i] \in Aggregates(B)
      /\ \A i, j \in DOMAIN s : s[i] = s[j] => i = j
  <2>1. PICK n \in 0..Cardinality(Aggregates(B)) : s \in [1..n -> Aggregates(B)]
    BY DEF Enumerations
  <2> QED BY <2>1 DEF Enumerations
<1>2. \A x, y \in Aggregates(B) : \A e \in x : e \in y => x = y
  BY DEF Aggregates
<1> QED BY <1>1, <1>2 DEF Apart

(* What the swap does to the places of the worker. *)
LEMMA SwapApart ==
  ASSUME TypeOK, NEW w \in Workers, OnePlace(w), todo[w] = <<>>, Swap(w)
  PROVE  /\ Apart(todo'[w])
         /\ buffer'[w] = {} /\ pending'[w] = <<>>
<1>1. PICK s \in Enumerations(Aggregates(buffer[w])) :
         todo' = [todo EXCEPT ![w] = pending[w] \o s]
  BY DEF Swap
<1>2. buffer[w] \in SUBSET Events /\ pending[w] \in Seq(Aggregate)
  BY DEF TypeOK
<1>3. s \in Seq(Aggregates(buffer[w])) /\ Held(s) = buffer[w]
  BY <1>1, <1>2, EnumerationHolds, AggregatesCover
<1>4. s \in Seq(Aggregate) /\ Apart(s)
  BY <1>1, <1>2, <1>3, AggregatesCover, ApartEnumeration
<1>5. Apart(pending[w] \o s)
  BY <1>2, <1>3, <1>4, ApartConcat DEF OnePlace
<1> QED BY <1>1, <1>5 DEF Swap, TypeOK

(* A worker that does not move keeps what it owns. *)
Still(v) ==
    /\ buffer'[v] = buffer[v] /\ pending'[v] = pending[v] /\ todo'[v] = todo[v]
    /\ failed'[v] = failed[v] /\ orphan'[v].agg = orphan[v].agg
    /\ loop'[v] = loop[v] /\ stopper'[v] = stopper[v]

LEMMA StillPlaces ==
  ASSUME NEW v, Still(v)
  PROVE  /\ Live(v)' = Live(v)
         /\ OnePlace(v)' <=> OnePlace(v)
         /\ (Flushing(v) => pending[v] = <<>>)' <=> (Flushing(v) => pending[v] = <<>>)
<1>1. Live(v)' = Live(v)
  BY DEF Still, Live
<1>2. OnePlace(v)' <=> OnePlace(v)
  BY DEF Still, OnePlace
<1>3. Flushing(v)' <=> Flushing(v)
  BY DEF Still, Flushing
<1> QED BY <1>1, <1>2, <1>3 DEF Still

(* A step gives a worker only events that nobody recorded before. *)
NoNewEvents(v) ==
    \A e \in Live(v)' : e \in Live(v) \/ \A u \in Workers : e \notin recorded[u]

(* The events of a worker that moves are its own before and after. *)
LEMMA OwnFrom ==
  ASSUME NEW w \in Workers, \A v \in Workers : Own(v),
         \A v \in Workers \ {w} : Still(v),
         UNCHANGED recorded,
         Live(w)' \subseteq Live(w), OnePlace(w)', (Flushing(w) => pending[w] = <<>>)'
  PROVE  \A v \in Workers : Own(v)' /\ NoNewEvents(v)
<1> SUFFICES ASSUME NEW v \in Workers PROVE Own(v)' /\ NoNewEvents(v)
  OBVIOUS
<1>1. \A u \in Workers : u # v => (recorded[u] \cap recorded[v])' = {}
  BY DEF Own
<1>2. CASE v = w
  BY <1>1, <1>2 DEF Own, NoNewEvents
<1>3. CASE v # w
  BY <1>1, <1>3, StillPlaces DEF Own, NoNewEvents
<1> QED BY <1>2, <1>3

(* Every step leaves each event a worker holds in one place of that worker. *)
LEMMA StepOwn ==
  ASSUME IInv, \A w \in Workers : Own(w), NEW w \in Workers, WorkerStep(w)
  PROVE  \A v \in Workers : Own(v)' /\ NoNewEvents(v)
<1>0. /\ TypeOK /\ Control(w) /\ FlushOwnsFrame(w) /\ Own(w) /\ OnePlace(w)
      /\ \A v \in Workers : Own(v)
      /\ pending[w] \in Seq(Aggregate) /\ todo[w] \in Seq(Aggregate) /\ failed[w] \in Seq(Aggregate)
  BY DEF IInv, Own, TypeOK
<1>1. ASSUME NEW e \in Events, Record(w, e) PROVE \A v \in Workers : Own(v)' /\ NoNewEvents(v)
  <2>1. /\ buffer' = [buffer EXCEPT ![w] = @ \cup {e}]
        /\ recorded' = [recorded EXCEPT ![w] = @ \cup {e}]
        /\ \A v \in Workers : e \notin recorded[v]
        /\ UNCHANGED <<pending, loop, stopper, todo, failed, orphan>>
    BY <1>1 DEF Record
  <2>2. \A v \in Workers \ {w} : Still(v)
    BY <1>0, <2>1 DEF Still, TypeOK
  <2>3. buffer'[w] = buffer[w] \cup {e} /\ e \notin Live(w) /\ recorded'[w] = recorded[w] \cup {e}
    BY <1>0, <2>1 DEF Own, TypeOK
  <2>4. OnePlace(w)' /\ Live(w)' \subseteq Live(w) \cup {e}
    BY <1>0, <2>1, <2>3 DEF OnePlace, Live
  <2>5. (Flushing(w) => pending[w] = <<>>)'
    BY <1>0, <2>1 DEF Own, Flushing
  <2>6. \A v \in Workers \ {w} : recorded'[v] = recorded[v]
    BY <1>0, <2>1 DEF TypeOK
  <2>7. \A u, v \in Workers : u # v => recorded'[u] \cap recorded'[v] = {}
    BY <1>0, <2>1, <2>3, <2>6 DEF Own
  <2>8. Own(w)' /\ NoNewEvents(w)
    BY <1>0, <2>1, <2>3, <2>4, <2>5, <2>7 DEF Own, NoNewEvents
  <2>9. ASSUME NEW v \in Workers \ {w} PROVE Own(v)' /\ NoNewEvents(v)
    <3>1. Own(v) /\ Still(v) /\ recorded'[v] = recorded[v]
      BY <1>0, <2>2, <2>6
    <3>2. \A u \in Workers : u # v => recorded'[u] \cap recorded'[v] = {}
      BY <2>7
    <3> QED BY <3>1, <3>2, StillPlaces DEF Own, NoNewEvents
  <2> QED BY <2>8, <2>9
<1>2. CASE Start(w) \/ LoopExit(w) \/ StopCall(w)
  <2>1. /\ UNCHANGED <<buffer, pending, todo, failed, orphan, recorded>>
        /\ \A v \in Workers \ {w} : loop'[v] = loop[v] /\ stopper'[v] = stopper[v]
        /\ Flushing(w)' => Flushing(w)
    BY <1>0, <1>2 DEF Start, LoopExit, StopCall, Flushing, TypeOK
  <2>2. \A v \in Workers \ {w} : Still(v)
    BY <2>1 DEF Still
  <2>3. Live(w)' \subseteq Live(w) /\ OnePlace(w)'
    BY <1>0, <2>1 DEF Live, OnePlace
  <2>4. (Flushing(w) => pending[w] = <<>>)'
    BY <1>0, <2>1 DEF Own
  <2> QED BY <1>0, <2>1, <2>2, <2>3, <2>4, OwnFrom
<1>3. CASE LoopFlush(w) \/ StopFlush(w)
  <2>1. /\ todo[w] = <<>> /\ failed[w] = <<>>
        /\ Swap(w)
        /\ UNCHANGED <<failed, orphan, recorded>>
        /\ \A v \in Workers \ {w} : loop'[v] = loop[v] /\ stopper'[v] = stopper[v]
    BY <1>0, <1>3 DEF LoopFlush, StopFlush, Control, FlushOwnsFrame, Flushing, TypeOK
  <2>2. /\ Held(todo'[w]) = buffer[w] \cup Held(pending[w])
        /\ \A v \in Workers \ {w} : /\ todo'[v] = todo[v]
                                     /\ buffer'[v] = buffer[v]
                                     /\ pending'[v] = pending[v]
    BY <1>0, <2>1, SwapKeeps
  <2>3. Apart(todo'[w]) /\ buffer'[w] = {} /\ pending'[w] = <<>>
    BY <1>0, <2>1, SwapApart
  <2>4. \A v \in Workers \ {w} : Still(v)
    BY <2>1, <2>2 DEF Still
  <2>5. failed'[w] = <<>> /\ orphan'[w] = orphan[w]
    BY <2>1
  <2>6. Live(w)' \subseteq Live(w)
    BY <2>2, <2>3, <2>5, HeldEmpty DEF Live
  <2>7. OnePlace(w)'
    BY <1>0, <2>2, <2>3, <2>5, HeldEmpty, ApartEmpty DEF OnePlace
  <2> QED BY <1>0, <2>1, <2>3, <2>4, <2>6, <2>7, OwnFrom
<1>4. CASE StopTimeout(w)
  <2>1. /\ todo'[w] = <<>> /\ failed'[w] = <<>>
        /\ \A v \in Workers \ {w} : /\ todo'[v] = todo[v] /\ failed'[v] = failed[v]
                                     /\ orphan'[v] = orphan[v] /\ loop'[v] = loop[v]
        /\ UNCHANGED <<buffer, pending, stopper, recorded>>
        /\ orphan'[w] \in {thread[w], orphan[w]}
        /\ loop'[w] = "done" /\ stopper[w] = "waiting"
    BY <1>0, <1>4 DEF StopTimeout, TypeOK
  <2>2. thread[w].agg \subseteq Held(todo[w])
    <3>1. CASE thread[w].at = "none"
      <4>1. thread[w] \in Thread
        BY <1>0 DEF TypeOK
      <4>2. thread[w].agg = {}
        BY <3>1, <4>1 DEF Thread, NoThread
      <4> QED BY <4>2
    <3>2. CASE thread[w].at # "none"
      <4>1. todo[w] # <<>> /\ thread[w].agg = Head(todo[w])
        BY <1>0, <3>2 DEF FlushOwnsFrame
      <4> QED BY <1>0, <4>1, HeldHeadTail
    <3> QED BY <3>1, <3>2
  <2>3. orphan'[w].agg \subseteq Held(todo[w]) \cup orphan[w].agg
    BY <2>1, <2>2
  <2>4. Live(w)' \subseteq Live(w)
    BY <2>1, <2>3, HeldEmpty DEF Live
  <2>5. Held(pending[w]) \cap Held(todo[w]) = {}
    BY <1>0, <1>4, HeldEmpty DEF StopTimeout, Own, Flushing
  <2>6. OnePlace(w)'
    BY <1>0, <2>1, <2>3, <2>5, HeldEmpty, ApartEmpty DEF OnePlace
  <2>7. \A v \in Workers \ {w} : Still(v)
    BY <2>1 DEF Still
  <2>8. ~Flushing(w)'
    BY <2>1 DEF Flushing
  <2> QED BY <1>0, <2>1, <2>4, <2>6, <2>7, <2>8, OwnFrom
<1>5. CASE Spawn(w) \/ Select(w)
  <2>1. UNCHANGED <<buffer, pending, todo, failed, orphan, recorded, loop, stopper>>
    BY <1>5 DEF Spawn, Select, local
  <2>2. \A v \in Workers : Still(v)
    BY <2>1 DEF Still
  <2>3. Live(w)' = Live(w) /\ OnePlace(w)' /\ (Flushing(w) => pending[w] = <<>>)'
    BY <1>0, <2>2, StillPlaces DEF Own
  <2> QED BY <1>0, <2>1, <2>2, <2>3, OwnFrom
<1>6. CASE OrphanSelect(w) \/ OrphanOk(w) \/ OrphanFail(w)
  <2>1. /\ UNCHANGED <<buffer, pending, todo, failed, recorded, loop, stopper>>
        /\ \A v \in Workers \ {w} : orphan'[v] = orphan[v]
    BY <1>0, <1>6 DEF OrphanSelect, OrphanOk, OrphanFail, local, TypeOK
  <2>2. orphan'[w].agg \subseteq orphan[w].agg
    <3>1. CASE OrphanSelect(w)
      <4>1. orphan[w] \in Thread /\ orphan[w].at = "spawned" /\ orphan'[w] = Selected(orphan[w])
        BY <1>0, <3>1 DEF OrphanSelect, TypeOK
      <4> QED BY <1>0, <4>1, SelectedType
    <3>2. CASE OrphanOk(w) \/ OrphanFail(w)
      BY <1>0, <3>2 DEF OrphanOk, OrphanFail, TypeOK, NoThread
    <3> QED BY <1>6, <3>1, <3>2
  <2>3. \A v \in Workers \ {w} : Still(v)
    BY <2>1 DEF Still
  <2>4. Live(w)' \subseteq Live(w)
    BY <2>1, <2>2 DEF Live
  <2>5. OnePlace(w)'
    BY <1>0, <2>1, <2>2 DEF OnePlace
  <2>6. (Flushing(w) => pending[w] = <<>>)'
    BY <1>0, <2>1 DEF Own, Flushing
  <2> QED BY <1>0, <2>1, <2>3, <2>4, <2>5, <2>6, OwnFrom
<1>7. CASE WriteOk(w) \/ WriteFail(w)
  <2>1. todo[w] # <<>> /\ thread[w].agg = Head(todo[w])
    BY <1>0, <1>7 DEF WriteOk, WriteFail, FlushOwnsFrame
  <2>2. /\ Held(todo[w]) = Head(todo[w]) \cup Held(Tail(todo[w]))
        /\ Apart(Tail(todo[w])) /\ Head(todo[w]) \cap Held(Tail(todo[w])) = {}
        /\ Head(todo[w]) \in Aggregate
    BY <1>0, <2>1, HeldHeadTail, ApartHeadTail DEF OnePlace
  <2>3. /\ UNCHANGED <<buffer, pending, orphan, recorded, loop, stopper>>
        /\ todo' = [todo EXCEPT ![w] = Tail(todo[w])]
        /\ \/ UNCHANGED failed
           \/ failed' = [failed EXCEPT ![w] = Append(failed[w], Head(todo[w]))]
    BY <1>7, <2>1 DEF WriteOk, WriteFail
  <2>4. /\ todo'[w] = Tail(todo[w])
        /\ failed'[w] \in {failed[w], Append(failed[w], Head(todo[w]))}
        /\ \A v \in Workers \ {w} : todo'[v] = todo[v] /\ failed'[v] = failed[v]
    BY <1>0, <2>3 DEF TypeOK
  <2>5. Held(failed'[w]) \subseteq Held(failed[w]) \cup Head(todo[w]) /\ Apart(failed'[w])
    <3>1. Head(todo[w]) \cap Held(failed[w]) = {}
      BY <1>0, <2>2 DEF OnePlace
    <3>2. Apart(failed[w])
      BY <1>0 DEF OnePlace
    <3>3. /\ Held(Append(failed[w], Head(todo[w]))) = Held(failed[w]) \cup Head(todo[w])
          /\ Apart(Append(failed[w], Head(todo[w])))
      BY <1>0, <2>2, <3>1, <3>2, HeldAppend, ApartAppend
    <3> QED BY <2>4, <3>2, <3>3
  <2>6. \A v \in Workers \ {w} : Still(v)
    BY <2>3, <2>4 DEF Still
  <2>7. Live(w)' \subseteq Live(w)
    BY <2>2, <2>3, <2>4, <2>5 DEF Live
  <2>8. OnePlace(w)'
    BY <1>0, <2>2, <2>3, <2>4, <2>5 DEF OnePlace
  <2>9. (Flushing(w) => pending[w] = <<>>)'
    BY <1>0, <2>3 DEF Own, Flushing
  <2> QED BY <1>0, <2>3, <2>6, <2>7, <2>8, <2>9, OwnFrom
<1>8. CASE FlushEnd(w)
  <2> DEFINE queue == pending[w] \o failed[w]
  <2>1. /\ todo[w] = <<>> /\ pending[w] = <<>> /\ thread[w].at = "none"
        /\ pending' = [pending EXCEPT ![w] = Trimmed(queue)]
        /\ failed' = [failed EXCEPT ![w] = <<>>]
        /\ UNCHANGED <<buffer, todo, orphan, recorded>>
        /\ \A v \in Workers \ {w} : loop'[v] = loop[v] /\ stopper'[v] = stopper[v]
    BY <1>0, <1>8 DEF FlushEnd, Own, TypeOK
  <2>2. queue \in Seq(Aggregate) /\ Held(queue) = Held(failed[w]) /\ Apart(queue)
    <3>1. queue = failed[w]
      BY <1>0, <2>1
    <3> QED BY <1>0, <3>1 DEF OnePlace
  <2> HIDE DEF queue
  <2>3. Apart(Trimmed(queue)) /\ Held(Trimmed(queue)) \subseteq Held(failed[w])
    BY <2>2, TrimSplits, ApartTrimmed
  <2>4. /\ pending'[w] = Trimmed(queue) /\ failed'[w] = <<>>
        /\ \A v \in Workers \ {w} : pending'[v] = pending[v] /\ failed'[v] = failed[v]
    BY <1>0, <2>1 DEF TypeOK
  <2>5. ~Flushing(w)'
    BY <1>0, <1>8 DEF FlushEnd, Flushing, Control, TypeOK
  <2>6. \A v \in Workers \ {w} : Still(v)
    BY <2>1, <2>4 DEF Still
  <2>7. Live(w)' \subseteq Live(w)
    BY <2>1, <2>3, <2>4, HeldEmpty DEF Live
  <2>8. OnePlace(w)'
    BY <1>0, <2>1, <2>3, <2>4, HeldEmpty, ApartEmpty DEF OnePlace
  <2> QED BY <1>0, <2>1, <2>5, <2>6, <2>7, <2>8, OwnFrom
<1> QED BY <1>1, <1>2, <1>3, <1>4, <1>5, <1>6, <1>7, <1>8 DEF WorkerStep

(* What a write does to the table: it sets one row to what the thread saw   *)
(* there plus the aggregate, and leaves the others alone.                   *)
Target(t) == IF t.row = 0 THEN Len(usage) + 1 ELSE t.row

LEMMA StoredRows ==
  ASSUME TypeOK, NEW t \in Thread, t.at = "selected", RowKnown(t)
  PROVE  /\ Target(t) \in Nat \ {0}
         /\ DOMAIN Stored(t) = DOMAIN usage \cup {Target(t)}
         /\ \A i \in DOMAIN usage : i # Target(t) => Stored(t)[i] = usage[i]
         /\ \A e \in Events : Stored(t)[Target(t)].n[e] = t.seen[e] + (IF e \in t.agg THEN 1 ELSE 0)
<1>1. /\ usage \in Seq(Row) /\ Len(usage) \in Nat /\ DOMAIN usage = 1..Len(usage)
      /\ t.row \in Nat
  BY DEF TypeOK, Thread, NoThread
<1>2. CASE t.row = 0
  <2> DEFINE r == [key |-> KeyOf(t.agg), n |-> Plus(NoCounts, t.agg)]
  <2>1. Stored(t) = Append(usage, r) /\ Target(t) = Len(usage) + 1 /\ t.seen = NoCounts
    BY <1>2 DEF Stored, Target, RowKnown
  <2>2. \A e \in Events : r.n[e] = t.seen[e] + (IF e \in t.agg THEN 1 ELSE 0)
    BY <2>1 DEF Plus, NoCounts
  <2> HIDE DEF r
  <2>3. /\ DOMAIN Append(usage, r) = 1..(Len(usage) + 1)
        /\ \A i \in 1..Len(usage) : Append(usage, r)[i] = usage[i]
        /\ Append(usage, r)[Len(usage) + 1] = r
    BY <1>1, AppendProperties
  <2> QED BY <1>1, <2>1, <2>2, <2>3
<1>3. CASE t.row # 0
  <2>1. /\ Stored(t) = [usage EXCEPT ![t.row].n = Plus(t.seen, t.agg)]
        /\ Target(t) = t.row /\ t.row \in DOMAIN usage
    BY <1>3 DEF Stored, Target, RowKnown
  <2>2. usage[t.row] \in Row
    BY <1>1, <2>1
  <2>3. Stored(t)[t.row].n = Plus(t.seen, t.agg)
    BY <1>1, <2>1, <2>2 DEF Row
  <2>4. DOMAIN Stored(t) = DOMAIN usage /\ \A i \in DOMAIN usage : i # t.row => Stored(t)[i] = usage[i]
    BY <1>1, <2>1
  <2> QED BY <1>1, <2>1, <2>3, <2>4 DEF Plus
<1> QED BY <1>2, <1>3

(* Steps that leave the table alone, forget threads or let them read rows.  *)
LEMMA QuietTable ==
  ASSUME TableInv, UNCHANGED usage, RowsKnown',
         \A e \in Events, i \in Nat : At(e, i)' => At(e, i),
         \A v \in Workers : recorded[v] \subseteq recorded'[v],
         \A v \in Workers : NoNewEvents(v)
  PROVE  TableInv'
<1>1. OneRow'
  BY DEF TableInv, OneRow
<1>2. SingleCounts'
  BY DEF TableInv, SingleCounts
<1>3. ASSUME NEW e \in Events, NEW i \in Nat, At(e, i)'
      PROVE  /\ \E v \in Workers : e \in recorded'[v]
             /\ \A v \in Workers : e \notin Live(v)'
  <2>1. At(e, i)
    BY <1>3
  <2>2. PICK v \in Workers : e \in recorded[v]
    BY <2>1 DEF TableInv, WrittenIsGone
  <2>3. \A u \in Workers : e \notin Live(u)
    BY <2>1 DEF TableInv, WrittenIsGone
  <2> QED BY <2>2, <2>3 DEF NoNewEvents
<1>4. WrittenIsGone'
  BY <1>3 DEF WrittenIsGone
<1> QED BY <1>1, <1>2, <1>4 DEF TableInv

(* The write of a thread: its events were in no row and are now in one.     *)
LEMMA WriteTable ==
  ASSUME TypeOK, TableInv, \A v \in Workers : Own(v), NEW w \in Workers,
         NEW t \in Thread, t \in {thread[w], orphan[w]}, t.at = "selected",
         t.agg \subseteq Live(w), usage' = Stored(t), UNCHANGED recorded,
         \A v \in Workers : thread'[v] \in {thread[v], NoThread} /\ orphan'[v] \in {orphan[v], NoThread},
         \A v \in Workers : Live(v)' \subseteq Live(v),
         Live(w)' \cap t.agg = {}
  PROVE  TableInv'
<1> DEFINE k == Target(t)
<1>0. OneRow /\ SingleCounts /\ WrittenIsGone /\ RowsKnown /\ RowKnown(t)
  BY DEF TableInv, RowsKnown
<1>1. t.seen \in [Events -> Nat] /\ t.row \in Nat
  BY DEF Thread, NoThread
<1>2. /\ k \in Nat \ {0}
      /\ DOMAIN usage' = DOMAIN usage \cup {k}
      /\ \A i \in DOMAIN usage : i # k => usage'[i] = usage[i]
      /\ \A e \in Events : usage'[k].n[e] = t.seen[e] + (IF e \in t.agg THEN 1 ELSE 0)
  BY <1>0, StoredRows
<1>3. \A e \in Events : t.seen[e] > 0 => t.row = k /\ At(e, t.row)
  <2> SUFFICES ASSUME NEW e \in Events, t.seen[e] > 0 PROVE t.row = k /\ At(e, t.row)
    OBVIOUS
  <2>1. t.row # 0
    BY <1>0 DEF RowKnown, NoCounts
  <2>2. Carries(t, e, t.row)
    BY DEF Carries
  <2> QED BY <2>1, <2>2 DEF Target, At
<1> HIDE DEF k
<1>4. \A e \in Events : e \in t.agg => (\A i \in Nat : ~At(e, i)) /\ t.seen[e] = 0
  <2> SUFFICES ASSUME NEW e \in Events, e \in t.agg PROVE (\A i \in Nat : ~At(e, i)) /\ t.seen[e] = 0
    OBVIOUS
  <2>1. \A i \in Nat : ~At(e, i)
    BY <1>0 DEF WrittenIsGone
  <2>2. ~(t.seen[e] > 0)
    BY <1>1, <1>3, <2>1
  <2> QED BY <1>1, <2>1, <2>2
<1>5. ASSUME NEW e \in Events, NEW i \in Nat, At(e, i)', ~(e \in t.agg /\ i = k) PROVE At(e, i)
  <2>1. CASE i \in DOMAIN usage' /\ usage'[i].n[e] > 0
    <3>1. CASE i = k
      <4>1. t.seen[e] > 0
        BY <1>1, <1>2, <1>5, <2>1, <3>1
      <4> QED BY <1>3, <3>1, <4>1
    <3>2. CASE i # k
      BY <1>2, <2>1, <3>2 DEF At
    <3> QED BY <3>1, <3>2
  <2>2. ASSUME NEW v \in Workers, Carries(thread'[v], e, i) \/ Carries(orphan'[v], e, i) PROVE At(e, i)
    BY <2>2 DEF At, Carries, NoThread
  <2> QED BY <1>5, <2>1, <2>2 DEF At
<1>6. OneRow'
  <2> SUFFICES ASSUME NEW e \in Events, NEW i \in Nat, NEW j \in Nat, At(e, i)', At(e, j)' PROVE i = j
    BY DEF OneRow
  <2>1. CASE e \in t.agg
    BY <1>4, <1>5, <2>1
  <2>2. CASE e \notin t.agg
    BY <1>0, <1>5, <2>2 DEF OneRow
  <2> QED BY <2>1, <2>2
<1>7. SingleCounts'
  <2> SUFFICES ASSUME NEW i \in DOMAIN usage', NEW e \in Events PROVE usage'[i].n[e] =< 1
    BY DEF SingleCounts
  <2>1. t.seen[e] =< 1
    BY <1>0 DEF RowKnown
  <2>2. CASE i = k
    <3>1. CASE e \in t.agg
      BY <1>2, <1>4, <2>2, <3>1
    <3>2. CASE e \notin t.agg
      BY <1>1, <1>2, <2>1, <2>2, <3>2
    <3> QED BY <3>1, <3>2
  <2>3. CASE i # k
    BY <1>0, <1>2, <2>3 DEF SingleCounts
  <2> QED BY <2>2, <2>3
<1>8. WrittenIsGone'
  <2> SUFFICES ASSUME NEW e \in Events, NEW i \in Nat, At(e, i)'
               PROVE  (\E v \in Workers : e \in recorded'[v]) /\ (\A v \in Workers : e \notin Live(v)')
    BY DEF WrittenIsGone
  <2>1. CASE e \in t.agg
    <3>1. e \in recorded[w]
      BY <2>1 DEF Own
    <3>2. \A v \in Workers : v # w => e \notin recorded[v]
      BY <3>1 DEF Own
    <3>3. \A v \in Workers : v # w => e \notin Live(v)
      BY <3>2 DEF Own
    <3> QED BY <2>1, <3>1, <3>3
  <2>2. CASE e \notin t.agg
    <3>1. At(e, i)
      BY <1>5, <2>2
    <3> QED BY <1>0, <3>1 DEF WrittenIsGone
  <2> QED BY <2>1, <2>2
<1>9. RowsKnown'
  <2>1. ASSUME NEW v \in Workers PROVE RowKnown(thread[v])' /\ RowKnown(orphan[v])'
    <3>1. RowKnown(thread[v]) /\ RowKnown(orphan[v])
      BY <1>0 DEF RowsKnown
    <3> QED BY <3>1, <1>2 DEF RowKnown, NoThread
  <2> QED BY <2>1 DEF RowsKnown
<1> QED BY <1>6, <1>7, <1>8, <1>9 DEF TableInv

(* What a select reads of an event, the row it read still says. *)
LEMMA SelectedKnown ==
  ASSUME TypeOK, SingleCounts, NEW t \in Thread, t.at = "spawned"
  PROVE  /\ RowKnown(Selected(t))
         /\ \A e \in Events, i \in Nat : Carries(Selected(t), e, i) =>
                i \in DOMAIN usage /\ usage[i].n[e] > 0
<1>1. First(t.agg) \in Nat /\ (First(t.agg) # 0 => First(t.agg) \in DOMAIN usage)
  BY FirstIsRow DEF TypeOK
<1> DEFINE f == First(t.agg)
           new == IF f = 0 THEN NoCounts ELSE usage[f].n
<1>2. t \in [at: {"spawned", "selected"}, agg: Aggregate, row: Nat, seen: [Events -> Nat]]
  BY DEF Thread, NoThread
<1>3. Selected(t) = [t EXCEPT !.at = "selected", !.row = f, !.seen = new]
  BY DEF Selected
<1>4. /\ f = 0 => new = NoCounts
      /\ f # 0 => new = usage[f].n
  OBVIOUS
<1> HIDE DEF f, new
<1>5. Selected(t).at = "selected" /\ Selected(t).row = f /\ Selected(t).seen = new
  BY <1>2, <1>3
<1>6. \A e \in Events : f = 0 => new[e] = 0
  BY <1>4 DEF NoCounts
<1>7. \A e \in Events : new[e] =< 1
  BY <1>1, <1>4, <1>6 DEF SingleCounts, f
<1> QED BY <1>1, <1>4, <1>5, <1>6, <1>7 DEF RowKnown, Carries, f

(* A worker's threads come, go or read, and do not write. *)
ThreadQuiet(v) ==
    /\ \/ thread'[v] \in {thread[v], NoThread}
       \/ thread'[v].at = "spawned"
       \/ thread[v].at = "spawned" /\ thread'[v] = Selected(thread[v])
    /\ \/ orphan'[v] \in {orphan[v], NoThread, thread[v]}
       \/ orphan[v].at = "spawned" /\ orphan'[v] = Selected(orphan[v])

(* Every step keeps what the table says of the events written to it. *)
LEMMA StepTable ==
  ASSUME IInv, \A v \in Workers : Own(v), TableInv, ~AckLoss, NEW w \in Workers, WorkerStep(w),
         \A v \in Workers : NoNewEvents(v)
  PROVE  TableInv'
<1>0. /\ TypeOK /\ FlushOwnsFrame(w) /\ OnePlace(w) /\ SingleCounts /\ RowsKnown
      /\ \A v \in Workers : thread[v] \in Thread /\ orphan[v] \in Thread
      /\ todo[w] \in Seq(Aggregate)
  BY DEF IInv, Own, TypeOK, TableInv
<1>1. CASE UNCHANGED <<usage, thread, orphan>> /\ \A v \in Workers : recorded[v] \subseteq recorded'[v]
  <2>1. \A e \in Events, i \in Nat : At(e, i)' => At(e, i)
    BY <1>1 DEF At
  <2>2. RowsKnown'
    BY <1>0, <1>1 DEF RowsKnown, RowKnown
  <2> QED BY <1>1, <2>1, <2>2, QuietTable
<1>2. ASSUME UNCHANGED <<usage, recorded>>,
             \A v \in Workers : ThreadQuiet(v)
      PROVE  TableInv'
  <2>1. ASSUME NEW v \in Workers PROVE RowKnown(thread[v])' /\ RowKnown(orphan[v])'
    <3>1. RowKnown(thread[v]) /\ RowKnown(orphan[v]) /\ RowKnown(NoThread)
      BY <1>0 DEF RowsKnown, RowKnown, NoThread
    <3>2. /\ thread[v].at = "spawned" => RowKnown(Selected(thread[v]))
          /\ orphan[v].at = "spawned" => RowKnown(Selected(orphan[v]))
      BY <1>0, SelectedKnown
    <3>3. RowKnown(thread'[v]) /\ RowKnown(orphan'[v])
      <4>1. thread'[v].at = "spawned" => RowKnown(thread'[v])
        BY DEF RowKnown
      <4> QED BY <1>2, <3>1, <3>2, <4>1 DEF ThreadQuiet
    <3> QED BY <1>2, <3>3 DEF RowKnown
  <2>2. ASSUME NEW e \in Events, NEW i \in Nat, At(e, i)' PROVE At(e, i)
    <3>1. CASE i \in DOMAIN usage' /\ usage'[i].n[e] > 0
      BY <1>2, <3>1 DEF At
    <3>2. ASSUME NEW v \in Workers, Carries(thread'[v], e, i) \/ Carries(orphan'[v], e, i) PROVE At(e, i)
      <4>1. ~Carries(NoThread, e, i) /\ (thread'[v].at = "spawned" => ~Carries(thread'[v], e, i))
        BY DEF Carries, NoThread
      <4>2. /\ thread[v].at = "spawned" /\ Carries(Selected(thread[v]), e, i) => At(e, i)
            /\ orphan[v].at = "spawned" /\ Carries(Selected(orphan[v]), e, i) => At(e, i)
        BY <1>0, SelectedKnown DEF At
      <4>3. Carries(thread[v], e, i) \/ Carries(orphan[v], e, i) => At(e, i)
        BY DEF At
      <4> QED BY <1>2, <3>2, <4>1, <4>2, <4>3 DEF ThreadQuiet
    <3> QED BY <2>2, <3>1, <3>2 DEF At
  <2>3. RowsKnown'
    BY <2>1 DEF RowsKnown
  <2> QED BY <1>2, <2>2, <2>3, QuietTable
<1>3. CASE \/ \E e \in Events : Record(w, e)
           \/ Start(w) \/ LoopFlush(w) \/ LoopExit(w) \/ StopCall(w) \/ StopFlush(w) \/ FlushEnd(w)
  <2>1. UNCHANGED <<usage, thread, orphan>> /\ \A v \in Workers : recorded[v] \subseteq recorded'[v]
    BY <1>0, <1>3 DEF Record, Start, LoopFlush, LoopExit, StopCall, StopFlush, FlushEnd, TypeOK
  <2> QED BY <1>1, <2>1
<1>4. CASE StopTimeout(w)
  <2>1. \A v \in Workers \ {w} : thread'[v] = thread[v] /\ orphan'[v] = orphan[v]
    BY <1>0, <1>4 DEF StopTimeout, TypeOK
  <2>2. ThreadQuiet(w)
    BY <1>0, <1>4 DEF StopTimeout, TypeOK, ThreadQuiet
  <2>3. UNCHANGED <<usage, recorded>>
    BY <1>0, <1>4 DEF StopTimeout, TypeOK
  <2>4. \A v \in Workers : ThreadQuiet(v)
    BY <2>1, <2>2 DEF ThreadQuiet
  <2> QED BY <1>2, <2>3, <2>4
<1>5. CASE Spawn(w) \/ Select(w)
  <2>1. \A v \in Workers \ {w} : thread'[v] = thread[v] /\ orphan'[v] = orphan[v]
    BY <1>0, <1>5 DEF Spawn, Select, TypeOK, local
  <2>2. ThreadQuiet(w)
    BY <1>0, <1>5 DEF Spawn, Select, TypeOK, local, ThreadQuiet
  <2>3. UNCHANGED <<usage, recorded>>
    BY <1>0, <1>5 DEF Spawn, Select, TypeOK, local
  <2>4. \A v \in Workers : ThreadQuiet(v)
    BY <2>1, <2>2 DEF ThreadQuiet
  <2> QED BY <1>2, <2>3, <2>4
<1>6. CASE OrphanSelect(w) \/ OrphanFail(w)
  <2>1. \A v \in Workers \ {w} : thread'[v] = thread[v] /\ orphan'[v] = orphan[v]
    BY <1>0, <1>6 DEF OrphanSelect, OrphanFail, TypeOK, local
  <2>2. ThreadQuiet(w)
    BY <1>0, <1>6 DEF OrphanSelect, OrphanFail, TypeOK, local, ThreadQuiet
  <2>3. UNCHANGED <<usage, recorded>>
    BY <1>0, <1>6 DEF OrphanSelect, OrphanFail, TypeOK, local
  <2>4. \A v \in Workers : ThreadQuiet(v)
    BY <2>1, <2>2 DEF ThreadQuiet
  <2> QED BY <1>2, <2>3, <2>4
<1>7. CASE WriteFail(w)
  <2>1. \A v \in Workers \ {w} : thread'[v] = thread[v] /\ orphan'[v] = orphan[v]
    BY <1>0, <1>7 DEF WriteFail, TypeOK
  <2>2. ThreadQuiet(w)
    BY <1>0, <1>7 DEF WriteFail, TypeOK, ThreadQuiet
  <2>3. UNCHANGED <<usage, recorded>>
    BY <1>0, <1>7 DEF WriteFail, TypeOK
  <2>4. \A v \in Workers : ThreadQuiet(v)
    BY <2>1, <2>2 DEF ThreadQuiet
  <2> QED BY <1>2, <2>3, <2>4
<1>8. CASE WriteOk(w)
  <2>1. /\ thread[w].at = "selected" /\ todo[w] # <<>> /\ thread[w].agg = Head(todo[w])
        /\ usage' = Stored(thread[w])
        /\ todo'[w] = Tail(todo[w])
        /\ UNCHANGED <<buffer, pending, failed, orphan, recorded>>
        /\ \A v \in Workers : thread'[v] \in {thread[v], NoThread} /\ orphan'[v] \in {orphan[v], NoThread}
        /\ \A v \in Workers \ {w} : todo'[v] = todo[v]
    BY <1>0, <1>8 DEF WriteOk, FlushOwnsFrame, TypeOK
  <2>2. /\ Held(todo[w]) = Head(todo[w]) \cup Held(Tail(todo[w]))
        /\ Head(todo[w]) \cap Held(Tail(todo[w])) = {}
    BY <1>0, <2>1, HeldHeadTail, ApartHeadTail DEF OnePlace
  <2>3. pending[w] = <<>>
    BY <1>0, <2>1 DEF FlushOwnsFrame, Own
  <2>4. thread[w].agg \subseteq Live(w) /\ Live(w)' \cap thread[w].agg = {}
    BY <1>0, <2>1, <2>2, <2>3, HeldEmpty DEF Live, OnePlace
  <2>5. \A v \in Workers : Live(v)' \subseteq Live(v)
    BY <2>1, <2>2 DEF Live
  <2> QED BY <1>0, <2>1, <2>4, <2>5, WriteTable
<1>9. CASE OrphanOk(w)
  <2>1. /\ orphan[w].at = "selected" /\ usage' = Stored(orphan[w])
        /\ orphan'[w] = NoThread
        /\ UNCHANGED <<buffer, pending, todo, failed, recorded>>
        /\ \A v \in Workers : thread'[v] \in {thread[v], NoThread} /\ orphan'[v] \in {orphan[v], NoThread}
    BY <1>0, <1>9 DEF OrphanOk, TypeOK, local
  <2>2. orphan[w].agg \subseteq Live(w) /\ Live(w)' \cap orphan[w].agg = {}
    BY <1>0, <2>1 DEF Live, OnePlace, NoThread
  <2>3. \A v \in Workers : Live(v)' \subseteq Live(v)
    BY <2>1 DEF Live, NoThread
  <2> QED BY <1>0, <2>1, <2>2, <2>3, WriteTable
<1> QED BY <1>3, <1>4, <1>5, <1>6, <1>7, <1>8, <1>9 DEF WorkerStep

(* The invariant holds initially and every step keeps it. *)
LEMMA InitBInv == Init => BInv
<1> SUFFICES ASSUME Init PROVE BInv
  OBVIOUS
<1>1. IInv
  BY InitIInv
<1>2. ASSUME NEW w \in Workers PROVE Own(w)
  <2>1. /\ buffer[w] = {} /\ pending[w] = <<>> /\ todo[w] = <<>> /\ failed[w] = <<>>
        /\ orphan[w].agg = {} /\ \A v \in Workers : recorded[v] = {}
    BY DEF Init, NoThread
  <2> QED BY <2>1, HeldEmpty, ApartEmpty DEF Own, OnePlace, Live
<1>3. TableInv
  <2>1. usage = <<>> /\ \A w \in Workers : thread[w].at = "none" /\ orphan[w].at = "none"
    BY DEF Init, NoThread
  <2>2. \A e \in Events, i \in Nat : ~At(e, i)
    BY <2>1 DEF At, Carries
  <2> QED BY <2>1, <2>2 DEF TableInv, OneRow, SingleCounts, WrittenIsGone, RowsKnown, RowKnown
<1> QED BY <1>1, <1>2, <1>3 DEF BInv

LEMMA StepBInv ==
  ASSUME BInv, [Next]_vars
  PROVE  BInv'
<1>0. IInv /\ (\A w \in Workers : Own(w)) /\ (AckLoss \/ TableInv)
  BY DEF BInv
<1>1. IInv'
  BY <1>0, StepIInv
<1>2. CASE UNCHANGED vars
  <2>1. \A v \in Workers : Still(v)
    BY <1>2 DEF Still, vars, local
  <2>2. recorded' = recorded /\ usage' = usage /\ thread' = thread /\ orphan' = orphan
    BY <1>2 DEF vars
  <2>3. \A v \in Workers : Own(v)' /\ NoNewEvents(v)
    BY <1>0, <2>1, <2>2, StillPlaces DEF Own, NoNewEvents
  <2>4. ASSUME TableInv PROVE TableInv'
    <3>1. \A e \in Events, i \in Nat : At(e, i)' => At(e, i)
      BY <2>2 DEF At
    <3>2. RowsKnown'
      BY <2>2, <2>4 DEF TableInv, RowsKnown, RowKnown
    <3> QED BY <2>2, <2>3, <2>4, <3>1, <3>2, QuietTable
  <2> QED BY <1>0, <1>1, <2>3, <2>4 DEF BInv
<1>3. ASSUME NEW w \in Workers, WorkerStep(w) PROVE BInv'
  <2>1. \A v \in Workers : Own(v)' /\ NoNewEvents(v)
    BY <1>0, <1>3, StepOwn
  <2>2. AckLoss \/ TableInv'
    BY <1>0, <1>3, <2>1, StepTable
  <2> QED BY <1>1, <2>1, <2>2 DEF BInv
<1> QED BY <1>2, <1>3 DEF Next

(* No event is billed twice: BilledAtMostOnce holds for any number of       *)
(* workers, any faults, retries, cancelled flushes and orphaned writes.     *)
THEOREM NeverBilledTwice == Spec => []BilledAtMostOnce
<1>1. BInv => BilledAtMostOnce
  <2> SUFFICES ASSUME IInv, TableInv, NEW e \in Events, NEW i \in DOMAIN usage, NEW j \in DOMAIN usage
               PROVE  /\ usage[i].n[e] =< 1
                      /\ usage[i].n[e] > 0 /\ usage[j].n[e] > 0 => i = j
    BY DEF BInv, BilledAtMostOnce
  <2>1. i \in Nat /\ j \in Nat
    BY DEF IInv, TypeOK
  <2>2. usage[i].n[e] =< 1
    BY DEF TableInv, SingleCounts
  <2>3. ASSUME usage[i].n[e] > 0, usage[j].n[e] > 0 PROVE i = j
    BY <2>1, <2>3 DEF TableInv, OneRow, At
  <2> QED BY <2>2, <2>3
<1> QED BY InitBInv, StepBInv, <1>1, PTL DEF Spec

----------------------------------------------------------------------------
(* Only an overflow drops usage. *)

(* A step of a worker that is not stopping, other than the end of a flush, abandons nothing. *)
LEMMA StepDrops ==
  ASSUME BInv, [Next]_vars, NEW w \in Workers, abandoned'[w] # abandoned[w], stopper[w] # "waiting"
  PROVE  /\ Len(pending'[w]) = MaxPending
         /\ pending'[w][MaxPending] = failed[w][Len(failed[w])]
<1>0. TypeOK /\ Own(w) /\ failed[w] \in Seq(Aggregate)
  BY DEF BInv, IInv, TypeOK
<1>1. FlushEnd(w)
  <2>1. PICK u \in Workers : WorkerStep(u)
    BY DEF Next, vars
  <2>2. CASE FlushEnd(u)
    <3>1. abandoned' = [abandoned EXCEPT ![u] = @ \cup Held(Dropped(pending[u] \o failed[u]))]
      BY <2>2 DEF FlushEnd
    <3> QED BY <1>0, <2>2, <3>1 DEF TypeOK
  <2>3. CASE StopTimeout(u)
    <3>1. stopper[u] = "waiting" /\ abandoned' = [abandoned EXCEPT ![u] = @ \cup Held(todo[u]) \cup Held(failed[u])]
      BY <2>3 DEF StopTimeout
    <3> QED BY <1>0, <3>1 DEF TypeOK
  <2>4. CASE ~FlushEnd(u) /\ ~StopTimeout(u)
    <3>1. abandoned' = abandoned
      BY <2>1, <2>4 DEF WorkerStep, Record, Start, LoopFlush, LoopExit, StopCall, StopFlush,
                        Spawn, Select, OrphanSelect, WriteOk, WriteFail, OrphanOk, OrphanFail
    <3> QED BY <3>1
  <2> QED BY <2>2, <2>3, <2>4
<1>2. pending[w] = <<>>
  BY <1>0, <1>1 DEF FlushEnd, Own
<1> DEFINE q == failed[w]
<1>3. /\ pending'[w] = Trimmed(q)
      /\ abandoned'[w] = abandoned[w] \cup Held(Dropped(q))
  <2>1. pending[w] \o failed[w] = q
    BY <1>0, <1>2
  <2>2. /\ pending' = [pending EXCEPT ![w] = Trimmed(q)]
        /\ abandoned' = [abandoned EXCEPT ![w] = @ \cup Held(Dropped(q))]
    BY <1>1, <2>1 DEF FlushEnd
  <2> HIDE DEF q
  <2> QED BY <1>0, <2>2 DEF TypeOK
<1>4. q \in Seq(Aggregate) /\ Len(q) \in Nat /\ DOMAIN q = 1..Len(q)
  BY <1>0
<1> HIDE DEF q
<1>5. Len(q) > MaxPending
  <2> SUFFICES ASSUME ~(Len(q) > MaxPending) PROVE FALSE
    OBVIOUS
  <2>1. Dropped(q) = <<>>
    BY <1>4 DEF Dropped, Overflow
  <2> QED BY <1>3, <2>1, HeldEmpty
<1> DEFINE k == Len(q) - MaxPending
<1>6. k \in 1..Len(q) /\ Len(q) - k = MaxPending /\ MaxPending \in Nat \ {0}
  BY <1>4, <1>5, MeteringAssumption
<1>7. Overflow(q) = k
  BY <1>5 DEF Overflow
<1>8. /\ Len(Trimmed(q)) = Len(q) - k
      /\ \A i \in 1..(Len(q) - k) : Trimmed(q)[i] = q[k + i]
  <2>1. /\ Len(Trimmed(q)) = Len(q) - Overflow(q)
        /\ \A i \in 1..(Len(q) - Overflow(q)) : Trimmed(q)[i] = q[Overflow(q) + i]
    BY <1>4, TrimElements
  <2> HIDE DEF k
  <2> QED BY <1>7, <2>1
<1>9. k + MaxPending = Len(q)
  BY <1>4, <1>6
<1> HIDE DEF k
<1> QED BY <1>3, <1>6, <1>8, <1>9 DEF q

(* A worker gives up usage only when its retry queue overflows, and keeps   *)
(* the newest aggregates then: DropsOnlyOnOverflow for every MaxPending.    *)
THEOREM OnlyOverflowDrops == Spec => DropsOnlyOnOverflow
<1>1. ASSUME BInv, [Next]_vars
      PROVE  [\A w \in Workers :
                abandoned'[w] # abandoned[w] /\ stopper[w] # "waiting" =>
                    /\ Len(pending'[w]) = MaxPending
                    /\ pending'[w][MaxPending] = failed[w][Len(failed[w])]]_vars
  BY <1>1, StepDrops
<1> QED BY InitBInv, StepBInv, <1>1, PTL DEF Spec, DropsOnlyOnOverflow

----------------------------------------------------------------------------
(* The refinement of the ledger. *)

(* One worker whose flushes are never cancelled: nothing comes between the  *)
(* select and the update, so a write puts back what the row still holds.    *)
Alone == (\E w : Workers = {w}) /\ ~AckLoss /\ ~StopMayTimeOut
Undisturbed(w) ==
    /\ orphan[w] = NoThread
    /\ thread[w].at = "selected" /\ thread[w].row # 0 => thread[w].seen = usage[thread[w].row].n
    /\ abandoned[w] \subseteq recorded[w]
    /\ abandoned[w] \cap Live(w) = {}
    /\ \A e \in abandoned[w] : \A i \in DOMAIN usage : usage[i].n[e] = 0
LInv == BInv /\ \A w \in Workers : Undisturbed(w)

(* What the ledger's view of an event is, once twice is excluded. *)
IsCounted(e) == \E i \in DOMAIN usage : usage[i].n[e] > 0
View(w, e) ==
    Entry[e] = IF IsCounted(e) THEN "billed"
               ELSE IF e \in abandoned[w] THEN "lost"
               ELSE IF e \in recorded[w] THEN "held" ELSE "none"

LEMMA EntryIs ==
  ASSUME BInv, ~AckLoss, NEW w, Workers = {w}, NEW e \in Events
  PROVE  View(w, e)
<1> USE DEF View, IsCounted
<1>0. /\ OneRow /\ SingleCounts /\ usage \in Seq(Row) /\ DOMAIN usage \subseteq Nat
      /\ \A i \in DOMAIN usage : usage[i].n[e] \in Nat
  <2>1. usage \in Seq(Row) /\ OneRow /\ SingleCounts
    BY DEF BInv, IInv, TypeOK, TableInv
  <2>2. \A i \in DOMAIN usage : usage[i] \in Row
    BY <2>1
  <2> QED BY <2>1, <2>2 DEF Row
<1>1. ASSUME NEW i \in DOMAIN usage, usage[i].n[e] > 0
      PROVE  Billed(e) = {i} /\ usage[i].n[e] = 1
  <2>1. usage[i].n[e] = 1
    BY <1>0, <1>1 DEF SingleCounts
  <2>2. \A j \in Billed(e) : j = i
    BY <1>0, <1>1 DEF Billed, OneRow, At
  <2> QED BY <1>1, <2>1, <2>2 DEF Billed
<1>2. CASE \E i \in DOMAIN usage : usage[i].n[e] > 0
  <2>1. PICK i \in DOMAIN usage : usage[i].n[e] > 0
    BY <1>2
  <2>2. Billed(e) = {i} /\ usage[i].n[e] = 1
    BY <1>1, <2>1
  <2>3. \E j \in Billed(e) : Billed(e) = {j} /\ usage[j].n[e] = 1
    BY <2>2
  <2> QED BY <1>2, <2>2, <2>3 DEF Entry
<1>3. CASE ~\E i \in DOMAIN usage : usage[i].n[e] > 0
  <2>1. Billed(e) = {}
    BY <1>3 DEF Billed
  <2> QED BY <1>3, <2>1 DEF Entry
<1> QED BY <1>2, <1>3

(* An uncancelled worker that is alone stays undisturbed. *)
LEMMA StepUndisturbed ==
  ASSUME LInv, Alone, NEW w \in Workers, WorkerStep(w)
  PROVE  Undisturbed(w)'
<1>0. /\ TypeOK /\ Own(w) /\ OnePlace(w) /\ TableInv /\ Undisturbed(w) /\ FlushOwnsFrame(w)
      /\ thread[w] \in Thread /\ usage \in Seq(Row) /\ todo[w] \in Seq(Aggregate)
      /\ failed[w] \in Seq(Aggregate)
      /\ ~AckLoss /\ ~StopMayTimeOut
  BY DEF LInv, BInv, IInv, Own, TypeOK, Alone
<1>1. \A e \in Live(w) : e \in Events => \A i \in DOMAIN usage : usage[i].n[e] = 0
  <2> SUFFICES ASSUME NEW e \in Live(w), e \in Events, NEW i \in DOMAIN usage PROVE usage[i].n[e] = 0
    OBVIOUS
  <2>1. i \in Nat /\ usage[i] \in Row
    BY <1>0
  <2>2. ~(usage[i].n[e] > 0)
    BY <1>0, <2>1 DEF TableInv, WrittenIsGone, At
  <2> QED BY <2>1, <2>2 DEF Row
<1>2. CASE /\ UNCHANGED <<usage, orphan, abandoned>> /\ recorded[w] \subseteq recorded'[w]
           /\ thread'[w] = thread[w] \/ thread'[w].at \in {"none", "spawned"}
           /\ \A e \in Live(w)' : e \in Live(w) \/ e \notin recorded[w]
  <2>1. orphan'[w] = NoThread
    BY <1>0, <1>2 DEF Undisturbed
  <2>2. (thread[w].at = "selected" /\ thread[w].row # 0 => thread[w].seen = usage[thread[w].row].n)'
    BY <1>0, <1>2 DEF Undisturbed
  <2>3. abandoned'[w] \subseteq recorded'[w] /\ abandoned'[w] \cap Live(w)' = {}
    BY <1>0, <1>2 DEF Undisturbed
  <2>4. \A e \in abandoned'[w] : \A i \in DOMAIN usage' : usage'[i].n[e] = 0
    BY <1>0, <1>2 DEF Undisturbed
  <2> QED BY <2>1, <2>2, <2>3, <2>4 DEF Undisturbed
<1>3. NoNewEvents(w)
  BY StepOwn DEF LInv, BInv
<1>4. \A e \in Live(w)' : e \in Live(w) \/ e \notin recorded[w]
  BY <1>3 DEF NoNewEvents
<1>5. CASE \/ \E e \in Events : Record(w, e)
           \/ Start(w) \/ LoopFlush(w) \/ LoopExit(w) \/ StopCall(w) \/ StopFlush(w)
           \/ Spawn(w) \/ WriteFail(w)
  <2>1. UNCHANGED <<usage, orphan, abandoned>>
    BY <1>0, <1>5 DEF Record, Start, LoopFlush, LoopExit, StopCall, StopFlush, Spawn, WriteFail
  <2>2. recorded[w] \subseteq recorded'[w]
    BY <1>0, <1>5 DEF Record, Start, LoopFlush, LoopExit, StopCall, StopFlush, Spawn, WriteFail, TypeOK
  <2>3. thread'[w] = thread[w] \/ thread'[w].at \in {"none", "spawned"}
    BY <1>0, <1>5 DEF Record, Start, LoopFlush, LoopExit, StopCall, StopFlush, Spawn, WriteFail, TypeOK, NoThread
  <2> QED BY <1>2, <1>4, <2>1, <2>2, <2>3
<1>6. CASE Select(w)
  <2>1. /\ thread[w].at = "spawned" /\ thread'[w] = Selected(thread[w])
        /\ UNCHANGED <<buffer, pending, todo, failed, orphan, usage, recorded, abandoned>>
    BY <1>0, <1>6 DEF Select, local, TypeOK
  <2> DEFINE t == thread[w]
             f == First(t.agg)
             new == IF f = 0 THEN NoCounts ELSE usage[f].n
  <2>2. t \in [at: {"spawned", "selected"}, agg: Aggregate, row: Nat, seen: [Events -> Nat]]
    BY <1>0, <2>1 DEF Thread, NoThread
  <2>3. Selected(t) = [t EXCEPT !.at = "selected", !.row = f, !.seen = new] /\ (f # 0 => new = usage[f].n)
    BY DEF Selected
  <2>4. Selected(t).row = f /\ Selected(t).seen = new
    <3> HIDE DEF f, new, t
    <3> QED BY <2>2, <2>3
  <2>5. thread'[w].row # 0 => thread'[w].seen = usage'[thread'[w].row].n
    BY <2>1, <2>3, <2>4
  <2>6. Live(w)' = Live(w)
    BY <2>1 DEF Live
  <2> HIDE DEF t, f, new
  <2> QED BY <1>0, <2>1, <2>5, <2>6 DEF Undisturbed
<1>7. CASE WriteOk(w)
  <2>1. /\ thread[w].at = "selected" /\ usage' = Stored(thread[w])
        /\ thread'[w].at = "none" /\ UNCHANGED <<orphan, recorded, abandoned>>
    BY <1>0, <1>7 DEF WriteOk, TypeOK, NoThread
  <2> DEFINE t == thread[w]
             k == Target(t)
  <2>2. RowKnown(t)
    BY <1>0 DEF TableInv, RowsKnown
  <2>3. /\ k \in Nat \ {0}
        /\ DOMAIN usage' = DOMAIN usage \cup {k}
        /\ \A i \in DOMAIN usage : i # k => usage'[i] = usage[i]
        /\ \A e \in Events : usage'[k].n[e] = t.seen[e] + (IF e \in t.agg THEN 1 ELSE 0)
    BY <1>0, <2>1, <2>2, StoredRows
  <2>4. t.agg \subseteq Live(w)
    BY <1>0, <2>1, HeldHeadTail DEF FlushOwnsFrame, Live
  <2>5. ASSUME NEW e \in abandoned[w], NEW i \in DOMAIN usage' PROVE usage'[i].n[e] = 0
    <3>1. e \in Events /\ e \notin t.agg /\ \A j \in DOMAIN usage : usage[j].n[e] = 0
      BY <1>0, <2>4 DEF Undisturbed, TypeOK
    <3>2. t.seen[e] = 0
      <4>1. CASE t.row = 0
        BY <2>1, <2>2, <3>1, <4>1 DEF RowKnown, NoCounts
      <4>2. CASE t.row # 0
        BY <1>0, <2>1, <2>2, <3>1, <4>2 DEF RowKnown, Undisturbed
      <4> QED BY <4>1, <4>2
    <3>3. usage'[k].n[e] = 0
      <4> HIDE DEF t, k
      <4> QED BY <2>3, <3>1, <3>2
    <3> HIDE DEF t, k
    <3> QED BY <2>3, <3>1, <3>3
  <2>6. abandoned'[w] \cap Live(w)' = {}
    BY <1>0, <1>4, <2>1 DEF Undisturbed
  <2> QED BY <1>0, <2>1, <2>5, <2>6 DEF Undisturbed
<1>8. CASE FlushEnd(w)
  <2> DEFINE q == failed[w]
  <2>1. pending[w] = <<>>
    BY <1>0, <1>8 DEF FlushEnd, Own
  <2>2. pending[w] \o failed[w] = q
    BY <1>0, <2>1
  <2>3. /\ pending' = [pending EXCEPT ![w] = Trimmed(q)]
        /\ abandoned' = [abandoned EXCEPT ![w] = @ \cup Held(Dropped(q))]
        /\ failed' = [failed EXCEPT ![w] = <<>>] /\ todo[w] = <<>>
        /\ UNCHANGED <<buffer, todo, thread, orphan, usage, recorded>>
    BY <1>8, <2>2 DEF FlushEnd
  <2>4. q \in Seq(Aggregate) /\ Held(q) \subseteq Live(w) /\ Held(q) \subseteq Events
    BY <1>0, HeldInEvents DEF Live
  <2>5. /\ Held(q) = Held(Trimmed(q)) \cup Held(Dropped(q))
        /\ Held(Trimmed(q)) \cap Held(Dropped(q)) = {}
    BY <1>0, TrimSplits, ApartTrimmed DEF OnePlace
  <2>6. buffer[w] \cap Held(q) = {}
    BY <1>0 DEF OnePlace
  <2> HIDE DEF q
  <2>7. /\ pending'[w] = Trimmed(q) /\ failed'[w] = <<>> /\ todo'[w] = <<>> /\ buffer'[w] = buffer[w]
        /\ abandoned'[w] = abandoned[w] \cup Held(Dropped(q))
    BY <1>0, <2>3 DEF TypeOK
  <2>8. Live(w)' = buffer[w] \cup Held(Trimmed(q)) /\ Live(w)' \subseteq Live(w)
    <3>1. orphan'[w].agg = {}
      BY <1>0, <2>3 DEF Undisturbed, NoThread
    <3> QED BY <2>4, <2>5, <2>7, <3>1, HeldEmpty DEF Live
  <2>9. abandoned'[w] \cap Live(w)' = {}
    BY <1>0, <2>5, <2>6, <2>7, <2>8 DEF Undisturbed
  <2>10. abandoned'[w] \subseteq recorded'[w]
    BY <1>0, <2>3, <2>4, <2>5, <2>7 DEF Undisturbed, Own
  <2>11. \A e \in abandoned'[w] : \A i \in DOMAIN usage' : usage'[i].n[e] = 0
    BY <1>0, <1>1, <2>3, <2>4, <2>5, <2>7 DEF Undisturbed
  <2> QED BY <1>0, <2>3, <2>9, <2>10, <2>11 DEF Undisturbed
<1>9. ~StopTimeout(w) /\ ~OrphanSelect(w) /\ ~OrphanOk(w) /\ ~OrphanFail(w)
  BY <1>0 DEF StopTimeout, OrphanSelect, OrphanOk, OrphanFail, Undisturbed, NoThread
<1> QED BY <1>5, <1>6, <1>7, <1>8, <1>9 DEF WorkerStep

LEMMA InitLInv == Init => LInv
<1> SUFFICES ASSUME Init PROVE LInv
  OBVIOUS
<1>1. ASSUME NEW w \in Workers PROVE Undisturbed(w)
  BY DEF Init, Undisturbed, NoThread
<1> QED BY <1>1, InitBInv DEF LInv

LEMMA StepLInv ==
  ASSUME LInv, Alone, [Next]_vars
  PROVE  LInv'
<1>1. BInv'
  BY StepBInv DEF LInv
<1>2. PICK w \in Workers : Workers = {w}
  BY DEF Alone
<1>3. CASE UNCHANGED vars
  <2>1. Still(w) /\ orphan' = orphan /\ thread' = thread /\ usage' = usage
             /\ abandoned' = abandoned /\ recorded' = recorded
    BY <1>3 DEF vars, local, Still
  <2>2. Live(w)' = Live(w) /\ Undisturbed(w)
    BY <2>1, StillPlaces DEF LInv
  <2>3. Undisturbed(w)'
    BY <2>1, <2>2 DEF Undisturbed
  <2> QED BY <1>1, <1>2, <2>3 DEF LInv
<1>4. CASE \E v \in Workers : WorkerStep(v)
  BY <1>1, <1>2, <1>4, StepUndisturbed DEF LInv
<1> QED BY <1>3, <1>4 DEF Next

(* The ledger starts empty. *)
LEMMA InitLedger == Init => Ledger!LedgerInit
<1> SUFFICES ASSUME Init PROVE Entry = [e \in Events |-> "none"]
  BY DEF Ledger!LedgerInit
<1>1. ASSUME NEW e \in Events PROVE Entry[e] = "none"
  <2>1. Billed(e) = {} /\ \A w \in Workers : abandoned[w] = {} /\ recorded[w] = {}
    BY DEF Init, Billed
  <2> QED BY <2>1 DEF Entry
<1> QED BY <1>1 DEF Entry

(* Moving the events of S from a to b in the ledger's view. *)
LEMMA EntryMoves ==
  ASSUME NEW S \in SUBSET Events, NEW a, NEW b,
         \A e \in S : Entry[e] = a /\ Entry'[e] = b,
         \A e \in Events \ S : Entry'[e] = Entry[e]
  PROVE  Ledger!Move(S, a, b)
<1>1. Entry' = [e \in Events |-> IF e \in S THEN b ELSE Entry[e]]
  BY DEF Entry
<1> QED BY <1>1 DEF Ledger!Move

Viewed == AckLoss \/ \A w \in Workers : Workers = {w} => \A e \in Events : View(w, e)

LEMMA EntryView == BInv => Viewed
  BY EntryIs DEF Viewed

(* Every step of a worker that is alone is a step of the ledger, or none. *)
LEMMA StepLedger ==
  ASSUME LInv, LInv', Alone, [Next]_vars
  PROVE  [Ledger!LedgerNext]_Entry
<1>0. PICK w \in Workers : Workers = {w}
  BY DEF Alone
<1>1. /\ \A e \in Events : View(w, e)
      /\ \A e \in Events : View(w, e)'
  <2>1. BInv /\ BInv' /\ ~AckLoss
    BY DEF LInv, Alone
  <2>2. Viewed /\ Viewed'
    BY <2>1, EntryView, PTL
  <2> QED BY <1>0, <2>1, <2>2 DEF Viewed
<1>2. /\ TypeOK /\ Own(w) /\ OnePlace(w) /\ TableInv /\ Undisturbed(w) /\ FlushOwnsFrame(w)
      /\ thread[w] \in Thread /\ usage \in Seq(Row) /\ todo[w] \in Seq(Aggregate)
      /\ failed[w] \in Seq(Aggregate) /\ Live(w) \subseteq Events
      /\ ~AckLoss /\ ~StopMayTimeOut
  BY DEF LInv, BInv, IInv, Own, TypeOK, Alone
<1>3. \A e \in Live(w) : Entry[e] = "held" /\ ~IsCounted(e)
  <2> SUFFICES ASSUME NEW e \in Live(w) PROVE Entry[e] = "held" /\ ~IsCounted(e)
    OBVIOUS
  <2>1. \A i \in DOMAIN usage : ~(usage[i].n[e] > 0)
    <3>1. DOMAIN usage \subseteq Nat /\ e \in Events
      BY <1>2
    <3> QED BY <1>2, <3>1 DEF TableInv, WrittenIsGone, At
  <2>2. e \in recorded[w] /\ e \notin abandoned[w] /\ e \in Events
    BY <1>2 DEF Own, Undisturbed
  <2> QED BY <1>1, <2>1, <2>2 DEF View, IsCounted
<1>4. CASE UNCHANGED <<usage, abandoned, recorded>>
  <2>1. \A e \in Events : Entry'[e] = Entry[e]
    BY <1>1, <1>4 DEF View, IsCounted
  <2>2. Entry' = Entry
    BY <2>1 DEF Entry
  <2> QED BY <2>2
<1>5. CASE \E e \in Events : Record(w, e)
  <2>1. PICK x \in Events : Record(w, x)
    BY <1>5
  <2>2. /\ UNCHANGED <<usage, abandoned>> /\ recorded'[w] = recorded[w] \cup {x} /\ x \notin recorded[w]
    BY <1>2, <2>1 DEF Record, TypeOK
  <2>3. x \notin abandoned[w]
    BY <1>2, <2>2 DEF Undisturbed
  <2>4. ~IsCounted(x)
    <3>1. DOMAIN usage \subseteq Nat
      BY <1>2
    <3>2. \A i \in DOMAIN usage : ~(usage[i].n[x] > 0)
      BY <1>0, <1>2, <2>2, <3>1 DEF TableInv, WrittenIsGone, At
    <3> QED BY <3>2 DEF IsCounted
  <2>5. \A e \in Events : IsCounted(e)' <=> IsCounted(e)
    BY <2>2 DEF IsCounted
  <2>6. Entry[x] = "none" /\ Entry'[x] = "held"
    BY <1>1, <2>2, <2>3, <2>4, <2>5 DEF View
  <2>7. \A e \in Events \ {x} : Entry'[e] = Entry[e]
    BY <1>1, <2>2, <2>5 DEF View
  <2>8. Ledger!Move({x}, "none", "held")
    BY <2>6, <2>7, EntryMoves
  <2> QED BY <2>8 DEF Ledger!LedgerNext, Ledger!Accept
<1>6. CASE WriteOk(w)
  <2> DEFINE t == thread[w]
             k == Target(t)
  <2>1. /\ t.at = "selected" /\ usage' = Stored(t) /\ UNCHANGED <<abandoned, recorded>>
    BY <1>2, <1>6 DEF WriteOk
  <2>2. RowKnown(t) /\ t.seen \in [Events -> Nat]
    BY <1>2, <2>1 DEF TableInv, RowsKnown, Thread, NoThread
  <2>3. /\ k \in Nat \ {0}
        /\ DOMAIN usage' = DOMAIN usage \cup {k}
        /\ \A i \in DOMAIN usage : i # k => usage'[i] = usage[i]
        /\ \A e \in Events : usage'[k].n[e] = t.seen[e] + (IF e \in t.agg THEN 1 ELSE 0)
    BY <1>2, <2>1, <2>2, StoredRows
  <2>4. t.agg \subseteq Live(w) /\ t.agg \in SUBSET Events
    <3>1. t.agg \subseteq Live(w)
      BY <1>2, <2>1, HeldHeadTail DEF FlushOwnsFrame, Live
    <3> QED BY <1>2, <3>1
  <2>5. \A e \in Events : t.seen[e] > 0 => k \in DOMAIN usage /\ usage[k].n[e] = t.seen[e]
    BY <1>2, <2>1, <2>2 DEF RowKnown, NoCounts, Undisturbed, Target
  <2>6. \A e \in Events : k \in DOMAIN usage => usage[k].n[e] = t.seen[e]
    <3>1. t.row # 0 => k = t.row
      BY DEF Target
    <3>2. t.row = 0 => k \notin DOMAIN usage
      BY <1>2 DEF Target
    <3> QED BY <1>2, <2>1, <2>2, <3>1, <3>2 DEF Undisturbed
  <2> HIDE DEF k, t
  <2>7. ASSUME NEW e \in t.agg PROVE Entry[e] = "held" /\ Entry'[e] = "billed"
    <3>1. Entry[e] = "held" /\ e \in Events
      BY <1>3, <2>4
    <3>2. usage'[k].n[e] > 0
      BY <2>2, <2>3, <3>1
    <3>3. IsCounted(e)'
      BY <2>3, <3>2 DEF IsCounted
    <3> QED BY <1>1, <3>1, <3>3 DEF View
  <2>8. ASSUME NEW e \in Events \ t.agg PROVE Entry'[e] = Entry[e]
    <3>1. usage'[k].n[e] = t.seen[e] /\ t.seen[e] \in Nat
      BY <2>2, <2>3
    <3>2. ASSUME IsCounted(e)' PROVE IsCounted(e)
      <4>1. PICK i \in DOMAIN usage' : usage'[i].n[e] > 0
        BY <3>2 DEF IsCounted
      <4>2. CASE i = k
        BY <2>5, <3>1, <4>1, <4>2 DEF IsCounted
      <4>3. CASE i # k
        BY <2>3, <4>1, <4>3 DEF IsCounted
      <4> QED BY <4>2, <4>3
    <3>3. ASSUME IsCounted(e) PROVE IsCounted(e)'
      <4>1. PICK i \in DOMAIN usage : usage[i].n[e] > 0
        BY <3>3 DEF IsCounted
      <4>2. usage'[i].n[e] > 0 /\ i \in DOMAIN usage'
        BY <2>3, <2>6, <3>1, <4>1
      <4> QED BY <4>2 DEF IsCounted
    <3> QED BY <1>1, <2>1, <3>2, <3>3 DEF View
  <2>9. Ledger!Move(t.agg, "held", "billed")
    BY <2>4, <2>7, <2>8, EntryMoves
  <2> QED BY <2>4, <2>9 DEF Ledger!LedgerNext, Ledger!Bill
<1>7. CASE FlushEnd(w)
  <2> DEFINE q == failed[w]
             D == Held(Dropped(q))
  <2>1. pending[w] = <<>>
    BY <1>2, <1>7 DEF FlushEnd, Own
  <2>2. pending[w] \o failed[w] = q
    BY <1>2, <2>1
  <2>3. abandoned' = [abandoned EXCEPT ![w] = @ \cup D] /\ UNCHANGED <<usage, recorded>>
    BY <1>7, <2>2 DEF FlushEnd
  <2>4. D \subseteq Live(w)
    BY <1>2, TrimSplits DEF Live
  <2> HIDE DEF q, D
  <2>5. abandoned'[w] = abandoned[w] \cup D
    BY <1>2, <2>3 DEF TypeOK
  <2>6. \A e \in Events : IsCounted(e)' <=> IsCounted(e)
    BY <2>3 DEF IsCounted
  <2>7. ASSUME NEW e \in D PROVE Entry[e] = "held" /\ Entry'[e] = "lost"
    <3>1. e \in Events /\ Entry[e] = "held" /\ ~IsCounted(e)
      BY <1>2, <1>3, <2>4
    <3> QED BY <1>1, <2>5, <2>6, <3>1 DEF View
  <2>8. \A e \in Events \ D : Entry'[e] = Entry[e]
    BY <1>1, <2>3, <2>5, <2>6 DEF View
  <2>9. D \in SUBSET Events
    BY <1>2, <2>4
  <2>10. Ledger!Move(D, "held", "lost")
    BY <2>7, <2>8, <2>9, EntryMoves
  <2> QED BY <2>9, <2>10 DEF Ledger!LedgerNext, Ledger!Lose
<1>8. ~StopTimeout(w) /\ ~OrphanSelect(w) /\ ~OrphanOk(w) /\ ~OrphanFail(w)
  BY <1>2 DEF StopTimeout, OrphanSelect, OrphanOk, OrphanFail, Undisturbed, NoThread
<1>9. CASE \/ UNCHANGED vars
           \/ Start(w) \/ LoopFlush(w) \/ LoopExit(w) \/ StopCall(w) \/ StopFlush(w)
           \/ Spawn(w) \/ Select(w) \/ WriteFail(w)
  <2>1. UNCHANGED <<usage, abandoned, recorded>>
    BY <1>2, <1>9 DEF vars, Start, LoopFlush, LoopExit, StopCall, StopFlush, Spawn, Select, WriteFail
  <2> QED BY <1>4, <2>1
<1>10. UNCHANGED vars \/ WorkerStep(w)
  BY <1>0 DEF Next
<1> QED BY <1>5, <1>6, <1>7, <1>8, <1>9, <1>10 DEF WorkerStep

(* The metering of one worker implements the ledger: what it bills it bills *)
(* once and for good, what it loses it never bills.  With a second worker,  *)
(* or with a cancelled flush, the stale read-modify-write breaks this.      *)
THEOREM OneWorkerKeepsLedger ==
  ASSUME Alone
  PROVE  Spec => ImplementsLedger
<1>1. Init => Ledger!LedgerInit /\ LInv
  BY InitLedger, InitLInv
<1>2. LInv /\ [Next]_vars => LInv'
  BY StepLInv
<1>3. LInv /\ LInv' /\ [Next]_vars => [Ledger!LedgerNext]_Entry
  BY StepLedger
<1> QED BY <1>1, <1>2, <1>3, PTL DEF Spec, ImplementsLedger, Ledger!LedgerSpec

----------------------------------------------------------------------------
(* What a worker that is alone has settled, and what its stop() leaves. *)

(* A write adds its aggregate to what is counted: its thread read the row   *)
(* it writes as it still is.                                                *)
LEMMA WriteCounts ==
  ASSUME LInv, Alone, NEW w, Workers = {w}, WriteOk(w)
  PROVE  \A e \in Events : Counted(e) \/ e \in thread[w].agg => Counted(e)'
<1> DEFINE t == thread[w]
           k == Target(t)
<1>1. /\ TypeOK /\ TableInv /\ Undisturbed(w) /\ FlushOwnsFrame(w) /\ t \in Thread
      /\ usage \in Seq(Row) /\ todo[w] \in Seq(Aggregate)
  BY DEF LInv, BInv, IInv, TypeOK, Alone
<1>2. t.at = "selected" /\ usage' = Stored(t) BY DEF WriteOk
<1>3. RowKnown(t) /\ t.seen \in [Events -> Nat]
  BY <1>1, <1>2 DEF TableInv, RowsKnown, Thread, NoThread
<1>4. /\ k \in Nat \ {0}
      /\ DOMAIN usage' = DOMAIN usage \cup {k}
      /\ \A i \in DOMAIN usage : i # k => usage'[i] = usage[i]
      /\ \A e \in Events : usage'[k].n[e] = t.seen[e] + (IF e \in t.agg THEN 1 ELSE 0)
  BY <1>1, <1>2, <1>3, StoredRows
<1>5. \A e \in Events : k \in DOMAIN usage => usage[k].n[e] = t.seen[e]
  <2>1. t.row # 0 => k = t.row BY DEF Target
  <2>2. t.row = 0 => k \notin DOMAIN usage BY <1>1 DEF Target
  <2> QED BY <1>1, <1>2, <1>3, <2>1, <2>2 DEF Undisturbed
<1> HIDE DEF k
<1>6. ASSUME NEW e \in Events, Counted(e) PROVE Counted(e)'
  <2>1. PICK i \in DOMAIN usage : usage[i].n[e] > 0 BY <1>6 DEF Counted
  <2>2. t.seen[e] \in Nat BY <1>3
  <2>3. usage'[i].n[e] > 0 /\ i \in DOMAIN usage' BY <1>4, <1>5, <2>1, <2>2
  <2> QED BY <2>3 DEF Counted
<1>7. ASSUME NEW e \in Events, e \in t.agg PROVE Counted(e)'
  <2>1. t.seen[e] \in Nat BY <1>3
  <2>2. usage'[k].n[e] > 0 /\ k \in DOMAIN usage' BY <1>4, <1>7, <2>1
  <2> QED BY <2>2 DEF Counted
<1> QED BY <1>6, <1>7

(* What is recorded after the last flush of stop() had swapped the buffer    *)
(* is all that the buffer holds from then on; and while no write has raised, *)
(* no aggregate is requeued.                                                 *)
Wound(w) ==
    /\ \A e \in settled[w] : Counted(e)
    /\ IF stopper[w] \in {"flushing", "done"} THEN buffer[w] = late[w] ELSE late[w] = {}
    /\ faults = 0 => failed[w] = <<>> /\ pending[w] = <<>> /\ abandoned[w] = {}

LEMMA StepWound ==
  ASSUME LInv, Alone, NEW w \in Workers, Wound(w), [Next]_vars
  PROVE  Wound(w)'
<1>0. /\ TypeOK /\ Undisturbed(w) /\ FlushOwnsFrame(w) /\ Control(w) /\ OnePlace(w)
      /\ Workers = {w} /\ thread[w] \in Thread /\ ~AckLoss /\ ~StopMayTimeOut
  BY DEF LInv, BInv, IInv, Own, TypeOK, Alone
<1>1. CASE /\ UNCHANGED <<usage, settled, failed, abandoned, faults>>
           /\ faults = 0 => pending'[w] = <<>>
           /\ IF stopper'[w] \in {"flushing", "done"}
              THEN buffer'[w] = late'[w] ELSE late'[w] = {}
  BY <1>1 DEF Wound, Counted
<1>2. CASE UNCHANGED vars BY <1>1, <1>2 DEF vars, local, Wound
<1>3. ASSUME NEW e \in Events, Record(w, e) PROVE Wound(w)'
  <2>1. /\ UNCHANGED <<usage, settled, failed, abandoned, faults, pending, stopper>>
        /\ buffer'[w] = buffer[w] \cup {e}
        /\ late'[w] = IF stopper[w] \in {"flushing", "done"} THEN late[w] \cup {e} ELSE late[w]
    BY <1>0, <1>3 DEF Record, TypeOK
  <2> QED BY <1>1, <2>1 DEF Wound
<1>4. CASE Start(w) \/ LoopExit(w) \/ StopCall(w) \/ Spawn(w) \/ Select(w)
  <2>1. UNCHANGED <<usage, settled, failed, abandoned, faults, pending, buffer, late>>
    BY <1>4 DEF Start, LoopExit, StopCall, Spawn, Select, local
  <2>2. stopper'[w] = stopper[w] \/ (stopper[w] = "none" /\ stopper'[w] = "waiting")
    BY <1>0, <1>4 DEF Start, LoopExit, StopCall, Spawn, Select, local, TypeOK
  <2> QED BY <1>1, <2>1, <2>2 DEF Wound
<1>5. CASE LoopFlush(w) \/ StopFlush(w)
  <2>1. pending'[w] = <<>> /\ buffer'[w] = {} BY <1>0, <1>5 DEF LoopFlush, StopFlush, Swap, TypeOK
  <2>2. /\ UNCHANGED <<usage, settled, failed, abandoned, faults, late>>
        /\ stopper[w] \notin {"flushing", "done"}
    BY <1>0, <1>5 DEF LoopFlush, StopFlush, Control
  <2>3. late'[w] = {} BY <2>2 DEF Wound
  <2> QED BY <1>1, <2>1, <2>2, <2>3
<1>6. CASE WriteOk(w)
  <2>1. settled'[w] = settled[w] \cup thread[w].agg /\ settled[w] \subseteq Events
    BY <1>0, <1>6 DEF WriteOk, TypeOK
  <2>2. thread[w].agg \subseteq Events
    BY <1>0, <1>6 DEF Thread, NoThread, WriteOk, Aggregate
  <2>3. \A e \in settled'[w] : Counted(e)'
    BY <1>0, <1>6, <2>1, <2>2, WriteCounts DEF Wound
  <2> QED BY <1>6, <2>3 DEF Wound, WriteOk
<1>7. CASE WriteFail(w)
  <2>1. /\ faults \in Nat /\ faults' = faults + 1 /\ UNCHANGED <<usage, settled, stopper, buffer, late>>
    BY <1>0, <1>7 DEF WriteFail, TypeOK
  <2> QED BY <2>1 DEF Wound, Counted
<1>8. CASE FlushEnd(w)
  <2> DEFINE q == pending[w] \o failed[w]
  <2>1. /\ pending' = [pending EXCEPT ![w] = Trimmed(q)]
        /\ abandoned' = [abandoned EXCEPT ![w] = @ \cup Held(Dropped(q))]
        /\ failed' = [failed EXCEPT ![w] = <<>>]
        /\ UNCHANGED <<buffer, usage, faults, settled, late>> /\ Flushing(w)
    BY <1>8 DEF FlushEnd
  <2>2. ASSUME faults = 0
        PROVE pending'[w] = <<>> /\ abandoned'[w] = {} /\ failed'[w] = <<>>
    <3>1. q = <<>> /\ abandoned[w] = {} BY <2>2 DEF Wound
    <3>2. Trimmed(<<>>) = <<>> /\ Dropped(<<>>) = <<>>
      BY MeteringAssumption DEF Trimmed, Dropped, Overflow
    <3> HIDE DEF q
    <3> QED BY <1>0, <2>1, <3>1, <3>2, HeldEmpty DEF TypeOK
  <2>3. stopper'[w] \in {"flushing", "done"} <=> stopper[w] \in {"flushing", "done"}
    BY <1>0, <1>8 DEF FlushEnd, Flushing, Control, TypeOK
  <2> HIDE DEF q
  <2> QED BY <2>1, <2>2, <2>3 DEF Wound, Counted
<1>9. ~StopTimeout(w) /\ ~OrphanSelect(w) /\ ~OrphanOk(w) /\ ~OrphanFail(w)
  BY <1>0 DEF StopTimeout, OrphanSelect, OrphanOk, OrphanFail, Undisturbed, NoThread
<1> QED BY <1>0, <1>2, <1>3, <1>4, <1>5, <1>6, <1>7, <1>8, <1>9 DEF Next, WorkerStep

WInv == LInv /\ \A w \in Workers : Wound(w)

LEMMA InitWInv == Init => WInv
  BY InitLInv DEF Init, Wound, WInv

LEMMA StepWInv ==
  ASSUME WInv, Alone, [Next]_vars
  PROVE  WInv'
<1>1. LInv' BY StepLInv DEF WInv
<1>2. \A w \in Workers : Wound(w)' BY StepWound DEF WInv
<1> QED BY <1>1, <1>2 DEF WInv

(* What the write of a single worker has returned for is counted, and stays *)
(* counted, whatever rows are read, added to and written back later.        *)
THEOREM SettledStays ==
  ASSUME Alone
  PROVE  Spec => []SettledIsCounted
<1>1. WInv => SettledIsCounted
  BY DEF SettledIsCounted, Wound, WInv
<1>2. WInv /\ [Next]_vars => WInv' BY StepWInv
<1> QED BY InitWInv, <1>2, <1>1, PTL DEF Spec

(* What stop() achieves for a single worker whose stop() does not time out: *)
(* when it has returned and no write has raised, all that was recorded      *)
(* before its last flush began is counted, and what came later, while that  *)
(* flush wrote or after it, is just what the buffer still holds.            *)
THEOREM StopKeepsPromise ==
  ASSUME Alone
  PROVE  Spec => []StopCountsTheRest
<1>1. WInv => StopCountsTheRest
  <2> SUFFICES ASSUME WInv, NEW w \in Workers, stopper[w] = "done", faults = 0
               PROVE  (\A e \in recorded[w] \ late[w] : Counted(e)) /\ buffer[w] = late[w]
    BY DEF StopCountsTheRest
  <2>0. LInv /\ Wound(w) BY DEF WInv
  <2>1. FlushOwnsFrame(w) /\ Control(w) /\ Conserved(w) BY <2>0 DEF LInv, BInv, IInv
  <2>2. ~Flushing(w) BY <2>1 DEF Control, Flushing
  <2>3. /\ buffer[w] = late[w] /\ pending[w] = <<>> /\ todo[w] = <<>> /\ failed[w] = <<>>
        /\ abandoned[w] = {}
    BY <2>0, <2>1, <2>2 DEF Wound, FlushOwnsFrame
  <2>4. recorded[w] \ late[w] \subseteq settled[w]
    BY <2>1, <2>3, HeldEmpty DEF Conserved, Places
  <2> QED BY <2>0, <2>3, <2>4 DEF Wound
<1>2. WInv /\ [Next]_vars => WInv' BY StepWInv
<1> QED BY InitWInv, <1>2, <1>1, PTL DEF Spec
============================================================================
