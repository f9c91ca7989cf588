--------------------------- MODULE PenguinProofs ---------------------------
(***************************************************************************)
(* Proofs about the coding assistant's session: its conversation history,  *)
(* its client of an MCP server and the commands of its REPL.               *)
(*                                                                         *)
(* A call that awaits its summary will put what it read in place of the    *)
(* history, whatever has become of that meanwhile.  HInv therefore says of *)
(* every such call that its two parts account for the conversation as well *)
(* as the history does; OnceInv, that nothing of a call is in the history  *)
(* or kept before it is done.  PInv says where the one answer is that an   *)
(* undisturbed call of the MCP client waits for, and RInv which of the     *)
(* REPL's two models is the configured one.                                *)
(***************************************************************************)
EXTENDS ChatHistory, McpStdio, Repl, TLAPS

-----------------------------------------------------------------------------
(* The conversation history *)

Messages == Calls \X {"user", "assistant"}

HType ==
    /\ history \in Seq(Messages)
    /\ phase \in [Calls -> {"idle", "compact", "think", "done"}]
    /\ keep \in [Calls -> Seq(Messages)]
    /\ cut \in [Calls -> SUBSET Messages]

(* What the call c has read accounts for the conversation. *)
Covered(c) == added \subseteq ToSet(keep[c]) \cup cut[c] \cup summary \cup overlapped

HInv ==
    /\ HType
    /\ LostOnlyToCompaction
    /\ \A c \in Calls : phase[c] = "compact" => Covered(c)

(* The elements of a sequence. *)
LEMMA Elements ==
    ASSUME NEW S, NEW s \in Seq(S)
    PROVE  /\ \A i \in 1..Len(s) : s[i] \in ToSet(s)
           /\ \A x \in ToSet(s) : \E i \in 1..Len(s) : x = s[i]
<1>1. DOMAIN s = 1..Len(s)
  OBVIOUS
<1>. QED BY <1>1 DEF ToSet

(* A sequence cut in two keeps its elements. *)
LEMMA Halves ==
    ASSUME NEW S, NEW s \in Seq(S), NEW n \in 0..Len(s)
    PROVE  /\ SubSeq(s, 1, Len(s) - n) \in Seq(S)
           /\ SubSeq(s, Len(s) - n + 1, Len(s)) \in Seq(S)
           /\ ToSet(s) = ToSet(SubSeq(s, 1, Len(s) - n))
                           \cup ToSet(SubSeq(s, Len(s) - n + 1, Len(s)))
<1> DEFINE a == SubSeq(s, 1, Len(s) - n)
           b == SubSeq(s, Len(s) - n + 1, Len(s))
<1>1. a \in Seq(S) /\ Len(a) = Len(s) - n /\ \A i \in 1..Len(s) - n : a[i] = s[i]
  OBVIOUS
<1>2. b \in Seq(S) /\ Len(b) = n /\ \A i \in 1..n : b[i] = s[Len(s) - n + i]
  OBVIOUS
<1> HIDE DEF a, b
<1>3. ToSet(a) \subseteq ToSet(s)
  <2> SUFFICES ASSUME NEW x \in ToSet(a) PROVE x \in ToSet(s)
    OBVIOUS
  <2>1. PICK i \in 1..Len(a) : x = a[i]
    BY <1>1, Elements
  <2>2. i \in 1..Len(s) /\ x = s[i]
    BY <1>1, <2>1
  <2>. QED BY <2>2, Elements
<1>4. ToSet(b) \subseteq ToSet(s)
  <2> SUFFICES ASSUME NEW x \in ToSet(b) PROVE x \in ToSet(s)
    OBVIOUS
  <2>1. PICK i \in 1..Len(b) : x = b[i]
    BY <1>2, Elements
  <2>2. Len(s) - n + i \in 1..Len(s) /\ x = s[Len(s) - n + i]
    BY <1>2, <2>1
  <2>. QED BY <2>2, Elements
<1>5. ToSet(s) \subseteq ToSet(a) \cup ToSet(b)
  <2> SUFFICES ASSUME NEW x \in ToSet(s) PROVE x \in ToSet(a) \cup ToSet(b)
    OBVIOUS
  <2>1. PICK i \in 1..Len(s) : x = s[i]
    BY Elements
  <2>2. CASE i <= Len(s) - n
    <3>1. i \in 1..Len(a) /\ x = a[i]
      BY <1>1, <2>1, <2>2
    <3>. QED BY <1>1, <3>1, Elements
  <2>3. CASE i > Len(s) - n
    <3>1. i - (Len(s) - n) \in 1..n /\ Len(s) - n + (i - (Len(s) - n)) = i
      BY <2>3
    <3>2. i - (Len(s) - n) \in 1..Len(b) /\ x = b[i - (Len(s) - n)]
      BY <1>2, <2>1, <3>1
    <3>. QED BY <1>2, <3>2, Elements
  <2>. QED BY <2>2, <2>3
<1>. QED BY <1>1, <1>2, <1>3, <1>4, <1>5 DEF a, b

(* What is added to the end of a sequence is added to its elements. *)
LEMMA Extended ==
    ASSUME NEW S, NEW s \in Seq(S), NEW t \in Seq(S)
    PROVE  s \o t \in Seq(S) /\ ToSet(s \o t) = ToSet(s) \cup ToSet(t)
<1> DEFINE u == s \o t
<1>1. /\ u \in Seq(S) /\ Len(u) = Len(s) + Len(t)
      /\ \A i \in 1..Len(s) : u[i] = s[i]
      /\ \A i \in 1..Len(t) : u[Len(s) + i] = t[i]
  OBVIOUS
<1> HIDE DEF u
<1>2. ToSet(s) \subseteq ToSet(u)
  <2> SUFFICES ASSUME NEW x \in ToSet(s) PROVE x \in ToSet(u)
    OBVIOUS
  <2>1. PICK i \in 1..Len(s) : x = s[i]
    BY Elements
  <2>2. i \in 1..Len(u) /\ x = u[i]
    BY <1>1, <2>1
  <2>. QED BY <1>1, <2>2, Elements
<1>3. ToSet(t) \subseteq ToSet(u)
  <2> SUFFICES ASSUME NEW x \in ToSet(t) PROVE x \in ToSet(u)
    OBVIOUS
  <2>1. PICK i \in 1..Len(t) : x = t[i]
    BY Elements
  <2>2. Len(s) + i \in 1..Len(u) /\ x = u[Len(s) + i]
    BY <1>1, <2>1
  <2>. QED BY <1>1, <2>2, Elements
<1>4. ToSet(u) \subseteq ToSet(s) \cup ToSet(t)
  <2> SUFFICES ASSUME NEW x \in ToSet(u) PROVE x \in ToSet(s) \cup ToSet(t)
    OBVIOUS
  <2>1. PICK i \in 1..Len(u) : x = u[i]
    BY <1>1, Elements
  <2>2. CASE i <= Len(s)
    <3>1. i \in 1..Len(s) /\ x = s[i]
      BY <1>1, <2>1, <2>2
    <3>. QED BY <3>1, Elements
  <2>3. CASE i > Len(s)
    <3>1. i - Len(s) \in 1..Len(t) /\ Len(s) + (i - Len(s)) = i
      BY <1>1, <2>1, <2>3
    <3>2. x = t[i - Len(s)]
      BY <1>1, <2>1, <3>1
    <3>. QED BY <3>1, <3>2, Elements
  <2>. QED BY <2>2, <2>3
<1>. QED BY <1>1, <1>2, <1>3, <1>4 DEF u

(* An awaited compaction reads a split of the whole history. *)
LEMMA BeginStep == ASSUME HInv, NEW c \in Calls, Begin(c) PROVE HInv'
<1>1. CASE NeedsCompaction /\ Len(history) >= 4
  <2>1. /\ phase' = [phase EXCEPT ![c] = "compact"]
        /\ keep' = [keep EXCEPT ![c] = ToKeep] /\ cut' = [cut EXCEPT ![c] = ToSummarize]
        /\ UNCHANGED <<history, summary, added, overlapped>>
    BY <1>1 DEF Begin
  <2>2. KeepCount \in 0..Len(history)
    BY DEF HInv, HType, KeepCount
  <2>3. /\ ToKeep \in Seq(Messages) /\ ToSummarize \subseteq ToSet(history)
        /\ ToSet(history) = ToSummarize \cup ToSet(ToKeep)
    BY <2>2, Halves DEF HInv, HType, ToKeep, ToSummarize
  <2>4. ToSet(history) \subseteq Messages
    BY DEF HInv, HType, ToSet
  <2>5. HType'
    BY <2>1, <2>3, <2>4 DEF HInv, HType
  <2>6. LostOnlyToCompaction'
    BY <2>1 DEF HInv, LostOnlyToCompaction
  <2>7. ASSUME NEW d \in Calls, phase'[d] = "compact" PROVE Covered(d)'
    <3>1. CASE d = c
      BY <2>1, <2>3, <3>1 DEF HInv, HType, LostOnlyToCompaction, Covered
    <3>2. CASE d # c
      BY <2>1, <2>7, <3>2 DEF HInv, HType, Covered
    <3>. QED BY <3>1, <3>2
  <2>. QED BY <2>5, <2>6, <2>7 DEF HInv
<1>2. CASE ~(NeedsCompaction /\ Len(history) >= 4)
  <2>1. /\ phase' = [phase EXCEPT ![c] = "think"]
        /\ UNCHANGED <<history, summary, keep, cut, added, overlapped>>
    BY <1>2 DEF Begin
  <2>. QED BY <2>1 DEF HInv, HType, LostOnlyToCompaction, Covered
<1>. QED BY <1>1, <1>2

(* What c read takes the place of the history. *)
LEMMA CompactedStep == ASSUME HInv, NEW c \in Calls, Compacted(c) PROVE HInv'
<1>1. /\ phase[c] = "compact" /\ phase' = [phase EXCEPT ![c] = "think"]
      /\ UNCHANGED <<keep, cut, added, overlapped>>
  BY DEF Compacted
<1>2. CASE summary' = summary \cup cut[c] /\ history' = keep[c]
  <2>1. HType'
    BY <1>1, <1>2 DEF HInv, HType
  <2>2. LostOnlyToCompaction'
    BY <1>1, <1>2 DEF HInv, Covered, LostOnlyToCompaction
  <2>3. ASSUME NEW d \in Calls, phase'[d] = "compact" PROVE Covered(d)'
    BY <1>1, <1>2, <2>3 DEF HInv, HType, Covered
  <2>. QED BY <2>1, <2>2, <2>3 DEF HInv
<1>3. CASE UNCHANGED <<summary, history>>
  BY <1>1, <1>3 DEF HInv, HType, LostOnlyToCompaction, Covered
<1>. QED BY <1>2, <1>3 DEF Compacted

(* An exchange is in the history, and excused if a call awaits its summary. *)
LEMMA AnswerStep == ASSUME HInv, NEW c \in Calls, Answer(c) PROVE HInv'
<1>1. phase' = [phase EXCEPT ![c] = "done"] /\ UNCHANGED <<summary, keep, cut>>
  BY DEF Answer
<1>2. CASE /\ history' = history \o Exchange(c)
           /\ added' = added \cup ToSet(Exchange(c))
           /\ overlapped' = IF \E d \in Calls : phase[d] = "compact"
                            THEN overlapped \cup ToSet(Exchange(c)) ELSE overlapped
  <2>1. Exchange(c) \in Seq(Messages)
    BY DEF Exchange, Messages
  <2>2. history' \in Seq(Messages) /\ ToSet(history') = ToSet(history) \cup ToSet(Exchange(c))
    BY <1>2, <2>1, Extended DEF HInv, HType
  <2>3. HType'
    BY <1>1, <2>2 DEF HInv, HType
  <2>4. overlapped \subseteq overlapped'
    BY <1>2
  <2>5. LostOnlyToCompaction'
    BY <1>1, <1>2, <2>2, <2>4 DEF HInv, LostOnlyToCompaction
  <2>6. ASSUME NEW d \in Calls, phase'[d] = "compact" PROVE Covered(d)'
    <3>1. phase[d] = "compact"
      BY <1>1, <2>6 DEF HInv, HType
    <3>2. overlapped' = overlapped \cup ToSet(Exchange(c)) /\ Covered(d)
      BY <1>2, <3>1 DEF HInv
    <3>. QED BY <1>1, <1>2, <3>2 DEF Covered
  <2>. QED BY <2>3, <2>5, <2>6 DEF HInv
<1>3. CASE UNCHANGED <<history, added, overlapped>>
  BY <1>1, <1>3 DEF HInv, HType, LostOnlyToCompaction, Covered
<1>. QED BY <1>2, <1>3 DEF Answer

(* However many messages overlap, and whichever of their compactions fail,  *)
(* process() and _compact_history() lose no exchange but one that was added *)
(* while a summary was awaited.                                             *)
THEOREM NothingElseLost == HistorySpec => []LostOnlyToCompaction
<1>1. HistoryInit => HInv
  BY DEF HistoryInit, HInv, HType, LostOnlyToCompaction, Covered
<1>2. HInv /\ [HistoryNext]_hvars => HInv'
  <2> SUFFICES ASSUME HInv, [HistoryNext]_hvars PROVE HInv'
    OBVIOUS
  <2>1. CASE Reset
    BY <2>1 DEF Reset, HInv, HType, LostOnlyToCompaction, Covered
  <2>2. ASSUME NEW c \in Calls, Begin(c) PROVE HInv'
    BY <2>2, BeginStep
  <2>3. ASSUME NEW c \in Calls, Compacted(c) PROVE HInv'
    BY <2>3, CompactedStep
  <2>4. ASSUME NEW c \in Calls, Answer(c) PROVE HInv'
    BY <2>4, AnswerStep
  <2>5. CASE UNCHANGED hvars
    BY <2>5 DEF hvars, HInv, HType, LostOnlyToCompaction, Covered
  <2>. QED BY <2>1, <2>2, <2>3, <2>4, <2>5 DEF HistoryNext
<1>3. HInv => LostOnlyToCompaction
  BY DEF HInv
<1>. QED BY <1>1, <1>2, <1>3, PTL DEF HistorySpec
-----------------------------------------------------------------------------
(* No message is in the history twice. *)

(* A message is in the history, or in what a call keeps, only once its call *)
(* is done, and then once.                                                 *)
Said(c) == {<<c, "user">>, <<c, "assistant">>}

NotYet(c) ==
    phase[c] # "done" =>
      Said(c) \cap ToSet(history) = {} /\ \A d \in Calls : Said(c) \cap ToSet(keep[d]) = {}

Known(c) == phase[c] = "compact" => ToSet(keep[c]) \cup cut[c] \subseteq added

OnceInv ==
    /\ HType /\ HistoryTypeOK
    /\ \A c \in Calls : IsInjective(keep[c]) /\ NotYet(c) /\ Known(c)

(* Part of a sequence without repetitions has none. *)
LEMMA PartInjective ==
    ASSUME NEW S, NEW s \in Seq(S), IsInjective(s), NEW n \in 0..Len(s)
    PROVE  IsInjective(SubSeq(s, Len(s) - n + 1, Len(s)))
<1> DEFINE b == SubSeq(s, Len(s) - n + 1, Len(s))
<1>1. DOMAIN b = 1..n /\ DOMAIN s = 1..Len(s) /\ \A i \in 1..n : b[i] = s[Len(s) - n + i]
  OBVIOUS
<1> HIDE DEF b
<1>2. ASSUME NEW i \in 1..n, NEW j \in 1..n, b[i] = b[j] PROVE i = j
  <2>1. Len(s) - n + i \in DOMAIN s /\ Len(s) - n + j \in DOMAIN s
    BY <1>1
  <2>. QED BY <1>1, <1>2, <2>1 DEF IsInjective
<1>. QED BY <1>1, <1>2 DEF IsInjective, b

LEMMA OnceBegin == ASSUME OnceInv, NEW c \in Calls, Begin(c) PROVE OnceInv'
<1>0. HType' /\ UNCHANGED <<history, summary, added>>
  <2>1. CASE NeedsCompaction /\ Len(history) >= 4
    <3>1. /\ phase' = [phase EXCEPT ![c] = "compact"]
          /\ keep' = [keep EXCEPT ![c] = ToKeep] /\ cut' = [cut EXCEPT ![c] = ToSummarize]
          /\ UNCHANGED <<history, summary, added, overlapped>>
      BY <2>1 DEF Begin
    <3>2. KeepCount \in 0..Len(history)
      BY DEF OnceInv, HType, KeepCount
    <3>3. ToKeep \in Seq(Messages) /\ ToSummarize \subseteq ToSet(history)
      BY <3>2, Halves DEF OnceInv, HType, ToKeep, ToSummarize
    <3>4. ToSet(history) \subseteq Messages
      BY DEF OnceInv, HType, ToSet
    <3>. QED BY <3>1, <3>3, <3>4 DEF OnceInv, HType
  <2>2. CASE ~(NeedsCompaction /\ Len(history) >= 4)
    BY <2>2 DEF Begin, OnceInv, HType
  <2>. QED BY <2>1, <2>2
<1>1. HistoryTypeOK'
  BY <1>0 DEF OnceInv, HType, HistoryTypeOK
<1>2. ASSUME NEW d \in Calls PROVE (IsInjective(keep[d]) /\ NotYet(d) /\ Known(d))'
  <2>0. /\ \A e \in Calls : /\ IsInjective(keep[e]) /\ NotYet(e) /\ Known(e)
                            /\ e # c => keep'[e] = keep[e] /\ cut'[e] = cut[e]
                                        /\ phase'[e] = phase[e]
        /\ phase[c] = "idle"
    BY DEF OnceInv, HType, Begin
  <2>1. CASE NeedsCompaction /\ Len(history) >= 4
    <3>1. keep'[c] = ToKeep /\ cut'[c] = ToSummarize /\ phase'[c] = "compact"
      BY <2>1 DEF Begin, OnceInv, HType
    <3>2. KeepCount \in 0..Len(history)
      BY DEF OnceInv, HType, KeepCount
    <3>3. ToSet(history) = ToSummarize \cup ToSet(ToKeep)
      BY <3>2, Halves DEF OnceInv, HType, ToKeep, ToSummarize
    <3>4. IsInjective(ToKeep)
      BY <3>2, PartInjective DEF OnceInv, HType, HistoryTypeOK, ToKeep
    <3>5. ToSet(history) \subseteq added
      BY DEF OnceInv, HistoryTypeOK
    <3>6. IsInjective(keep'[d])
      BY <2>0, <3>1, <3>4
    <3>7. NotYet(d)'
      <4> SUFFICES ASSUME phase'[d] # "done", NEW e \in Calls
                   PROVE  Said(d) \cap ToSet(history') = {} /\ Said(d) \cap ToSet(keep'[e]) = {}
        BY DEF NotYet, Said
      <4>1. phase[d] # "done"
        BY <2>0
      <4>2. Said(d) \cap ToSet(history) = {} /\ Said(d) \cap ToSet(keep[e]) = {}
        BY <2>0, <4>1 DEF NotYet
      <4>3. keep'[e] = keep[e] \/ keep'[e] = ToKeep
        BY <2>0, <3>1
      <4>. QED BY <1>0, <3>3, <4>2, <4>3
    <3>8. Known(d)'
      BY <1>0, <2>0, <3>1, <3>3, <3>5 DEF Known
    <3>. QED BY <3>6, <3>7, <3>8
  <2>2. CASE ~(NeedsCompaction /\ Len(history) >= 4)
    <3>1. keep' = keep /\ cut' = cut /\ phase'[c] = "think"
      BY <2>2 DEF Begin, OnceInv, HType
    <3>. QED BY <1>0, <2>0, <3>1 DEF NotYet, Known, Said
  <2>. QED BY <2>1, <2>2
<1>. QED BY <1>0, <1>1, <1>2 DEF OnceInv

LEMMA OnceCompacted == ASSUME OnceInv, NEW c \in Calls, Compacted(c) PROVE OnceInv'
<1>1. /\ phase[c] = "compact" /\ phase' = [phase EXCEPT ![c] = "think"]
      /\ UNCHANGED <<keep, cut, added, overlapped>>
      /\ \/ summary' = summary \cup cut[c] /\ history' = keep[c]
         \/ UNCHANGED <<summary, history>>
  BY DEF Compacted
<1>2. HType'
  BY <1>1 DEF OnceInv, HType
<1>3. IsInjective(keep[c]) /\ ToSet(keep[c]) \cup cut[c] \subseteq added
  BY <1>1 DEF OnceInv, Known
<1>4. HistoryTypeOK'
  BY <1>1, <1>2, <1>3 DEF OnceInv, HType, HistoryTypeOK, Messages
<1>5. ASSUME NEW d \in Calls PROVE (IsInjective(keep[d]) /\ NotYet(d) /\ Known(d))'
  <2>1. IsInjective(keep[d]) /\ NotYet(d) /\ Known(d)
    BY DEF OnceInv
  <2>2. phase'[d] = phase[d] \/ (d = c /\ phase[c] = "compact" /\ phase'[c] = "think")
    BY <1>1 DEF OnceInv, HType
  <2>3. NotYet(d)'
    BY <1>1, <2>1, <2>2 DEF NotYet, Said
  <2>4. Known(d)'
    BY <1>1, <2>1, <2>2 DEF Known
  <2>. QED BY <1>1, <2>1, <2>3, <2>4
<1>. QED BY <1>2, <1>4, <1>5 DEF OnceInv

LEMMA OnceAnswer == ASSUME OnceInv, NEW c \in Calls, Answer(c) PROVE OnceInv'
<1>1. /\ phase[c] = "think" /\ phase' = [phase EXCEPT ![c] = "done"]
      /\ UNCHANGED <<summary, keep, cut>>
  BY DEF Answer
<1>2. ASSUME NEW d \in Calls
      PROVE  /\ IsInjective(keep[d]) /\ NotYet(d) /\ Known(d)
             /\ phase'[d] = IF d = c THEN "done" ELSE phase[d]
  BY <1>1 DEF OnceInv, HType
<1>3. CASE history' = history \o Exchange(c) /\ added' = added \cup ToSet(Exchange(c))
  <2>1. Exchange(c) \in Seq(Messages) /\ ToSet(Exchange(c)) = Said(c)
    <3>1. Exchange(c) \in Seq(Messages) /\ Len(Exchange(c)) = 2
          /\ Exchange(c)[1] = <<c, "user">> /\ Exchange(c)[2] = <<c, "assistant">>
      BY DEF Exchange, Messages
    <3>2. DOMAIN Exchange(c) = {1, 2}
      BY <3>1
    <3>. QED BY <3>1, <3>2 DEF Said, ToSet
  <2>2. history' \in Seq(Messages) /\ ToSet(history') = ToSet(history) \cup Said(c)
    BY <1>3, <2>1, Extended DEF OnceInv, HType
  <2>3. Said(c) \cap ToSet(history) = {}
    BY <1>1, <1>2 DEF NotYet
  <2>4. IsInjective(history')
    <3>1. /\ Len(history') = Len(history) + 2 /\ DOMAIN history' = 1..Len(history')
          /\ \A i \in 1..Len(history) : history'[i] = history[i]
          /\ history'[Len(history) + 1] = <<c, "user">>
          /\ history'[Len(history) + 2] = <<c, "assistant">>
          /\ Len(history) \in Nat /\ DOMAIN history = 1..Len(history)
      BY <1>3 DEF Exchange, OnceInv, HType
    <3>2. \A i, j \in 1..Len(history) : history[i] = history[j] => i = j
      BY <3>1 DEF OnceInv, HistoryTypeOK, IsInjective
    <3>3. \A i \in 1..Len(history) : history[i] # <<c, "user">> /\ history[i] # <<c, "assistant">>
      BY <2>3, Elements DEF Said, OnceInv, HType
    <3>4. <<c, "user">> # <<c, "assistant">>
      OBVIOUS
    <3>5. ASSUME NEW i \in 1..Len(history'), NEW j \in 1..Len(history'), history'[i] = history'[j]
          PROVE  i = j
      <4>1. \A k \in 1..Len(history') : k \in 1..Len(history) \/ k = Len(history) + 1
                                        \/ k = Len(history) + 2
        BY <3>1
      <4>. QED BY <3>1, <3>2, <3>3, <3>4, <3>5, <4>1
    <3>. QED BY <3>1, <3>5 DEF IsInjective
  <2>5. HType'
    BY <1>1, <2>2 DEF OnceInv, HType
  <2>6. HistoryTypeOK'
    BY <1>1, <1>3, <2>1, <2>2, <2>4, <2>5 DEF OnceInv, HType, HistoryTypeOK, Messages
  <2>7. ASSUME NEW d \in Calls PROVE (IsInjective(keep[d]) /\ NotYet(d) /\ Known(d))'
    <3>1. NotYet(d)'
      <4>1. CASE d = c
        BY <1>2, <4>1 DEF NotYet
      <4>2. CASE d # c
        <5>1. Said(d) \cap Said(c) = {}
          BY <4>2 DEF Said
        <5>. QED BY <1>1, <1>2, <2>2, <4>2, <5>1 DEF NotYet, Said
      <4>. QED BY <4>1, <4>2
    <3>2. Known(d)'
      BY <1>1, <1>2, <1>3 DEF Known
    <3>. QED BY <1>1, <1>2, <3>1, <3>2
  <2>. QED BY <2>5, <2>6, <2>7 DEF OnceInv
<1>4. CASE UNCHANGED <<history, added>>
  <2>1. HType' /\ HistoryTypeOK'
    BY <1>1, <1>4 DEF OnceInv, HType, HistoryTypeOK
  <2>2. ASSUME NEW d \in Calls PROVE (IsInjective(keep[d]) /\ NotYet(d) /\ Known(d))'
    BY <1>1, <1>2, <1>4 DEF NotYet, Known, Said
  <2>. QED BY <2>1, <2>2 DEF OnceInv
<1>. QED BY <1>3, <1>4 DEF Answer

(* However messages overlap, compactions fail and the session is reset, a   *)
(* message is in the conversation history at most once, and history and     *)
(* summary stand only for messages added since the last reset.              *)
THEOREM MessagesOnce == HistorySpec => []HistoryTypeOK
<1>1. HistoryInit => OnceInv
  BY DEF HistoryInit, OnceInv, HType, HistoryTypeOK, IsInjective, ToSet, NotYet, Known, Said
<1>2. OnceInv /\ [HistoryNext]_hvars => OnceInv'
  <2> SUFFICES ASSUME OnceInv, [HistoryNext]_hvars PROVE OnceInv'
    OBVIOUS
  <2>1. CASE Reset
    <3>1. /\ history' = <<>> /\ summary' = {} /\ added' = {}
          /\ UNCHANGED <<phase, keep, cut>>
          /\ \A c \in Calls : phase[c] \in {"idle", "done"}
      BY <2>1 DEF Reset
    <3>2. HType' /\ HistoryTypeOK'
      BY <3>1 DEF OnceInv, HType, HistoryTypeOK, IsInjective, ToSet
    <3>3. \A c \in Calls : (IsInjective(keep[c]) /\ NotYet(c) /\ Known(c))'
      BY <3>1 DEF OnceInv, NotYet, Known, Said, ToSet
    <3>. QED BY <3>2, <3>3 DEF OnceInv
  <2>2. CASE UNCHANGED hvars
    BY <2>2 DEF hvars, OnceInv, HType, HistoryTypeOK, NotYet, Known, Said
  <2>. QED BY <2>1, <2>2, OnceBegin, OnceCompacted, OnceAnswer DEF HistoryNext
<1>3. OnceInv => HistoryTypeOK
  BY DEF OnceInv
<1>. QED BY <1>1, <1>2, <1>3, PTL DEF HistorySpec
-----------------------------------------------------------------------------
(* The REPL's models *)

(* While a skill's model is in use the configured one is saved; otherwise  *)
(* it is the agent's; either only if nothing came on top of a skill.       *)
RInv ==
    /\ {setting, model} \subseteq Models /\ saved \in Models \cup {NoModel}
    /\ skill \in Skills \cup {NoSkill} /\ stacked \in BOOLEAN
    /\ skill = NoSkill => saved = NoModel
    /\ ~stacked => IF InUse THEN saved = setting ELSE model = setting

(* Whatever commands of the REPL followed one another, with skills that    *)
(* bring a model and skills that do not: without a skill the agent uses    *)
(* the configured model, unless another model came on top of a skill's.    *)
THEOREM RestoredModel == ASSUME ReplAssumption PROVE ReplSpec => []RestoredUnlessStacked
<1> USE DEF InUse, RInv
<1>1. ReplInit => RInv
  BY DEF ReplAssumption, ReplInit
<1>2. ASSUME RInv, [ReplNext]_rvars PROVE RInv'
  <2>1. ASSUME NEW s \in Skills, SkillOn(s) PROVE RInv'
    <3>1. SkillModel[s] \in Models \cup {NoModel} /\ s # NoSkill
      BY DEF ReplAssumption
    <3>. QED BY <1>2, <2>1, <3>1 DEF ReplAssumption, SkillOn
  <2>2. CASE SkillOff
    BY <1>2, <2>2 DEF SkillOff, ReplAssumption
  <2>3. ASSUME NEW m \in Models, Configure(m) PROVE RInv'
    BY <1>2, <2>3 DEF Configure
  <2>4. CASE HandleChat \/ UNCHANGED rvars
    BY <1>2, <2>4 DEF HandleChat, rvars
  <2>. QED
    BY <1>2, <2>1, <2>2, <2>3, <2>4 DEF ReplNext, ConfigSet, ConfigReset, ReplAssumption
<1>3. RInv => RestoredUnlessStacked
  BY DEF RestoredUnlessStacked
<1>. QED BY <1>1, <1>2, <1>3, PTL DEF ReplSpec

(* Type correctness of the REPL's state, for any models and skills. *)
THEOREM ModelsTyped == ASSUME ReplAssumption PROVE ReplSpec => []ReplTypeOK
<1> USE DEF ReplTypeOK
<1>1. ReplInit => ReplTypeOK
  BY DEF ReplAssumption, ReplInit
<1>2. ASSUME ReplTypeOK, [ReplNext]_rvars PROVE ReplTypeOK'
  <2>1. ASSUME NEW s \in Skills, SkillOn(s) PROVE ReplTypeOK'
    <3>1. SkillModel[s] \in Models \cup {NoModel} /\ s # NoSkill
      BY DEF ReplAssumption
    <3>. QED BY <1>2, <2>1, <3>1 DEF ReplAssumption, SkillOn
  <2>2. CASE SkillOff
    BY <1>2, <2>2 DEF SkillOff, InUse, ReplAssumption
  <2>3. ASSUME NEW m \in Models, Configure(m) PROVE ReplTypeOK'
    BY <1>2, <2>3 DEF Configure
  <2>4. CASE HandleChat
    BY <1>2, <2>4 DEF HandleChat, ReplAssumption
  <2>5. CASE UNCHANGED rvars
    BY <1>2, <2>5 DEF rvars
  <2>. QED
    BY <1>2, <2>1, <2>2, <2>3, <2>4, <2>5 DEF ReplNext, ConfigSet, ConfigReset, ReplAssumption
<1>. QED BY <1>1, <1>2, PTL DEF ReplSpec
-----------------------------------------------------------------------------
(* The MCP client *)

MType ==
    /\ nextId \in Nat \ {0}
    /\ want \in [Callers -> Nat] /\ last \in [Callers -> [id: Nat, line: Int]]
    /\ asked \in Seq(Int) /\ lines \in Seq(Int) /\ disturbed \in BOOLEAN

Calling(a) == want[a] # 0

(* The answer to the request n is in the pipe, as it is or too long, or the *)
(* request has not been answered; a server that has ended will not do so.  *)
InPipe(n) ==
    \/ lines \in {<<n>>, <<Long>>} /\ (proc = "up" => asked = <<>>)
    \/ lines = <<>> /\ (proc = "up" => asked = <<n>>)

NothingInPipe == lines = <<>> /\ (proc = "up" => asked = <<>>)

(* As long as nothing disturbs the calls there is one at a time, and the   *)
(* pipe holds what answers it and nothing else.                            *)
Orderly ==
    /\ \A a, b \in Callers : Calling(a) /\ Calling(b) => a = b
    /\ (\A a \in Callers : ~Calling(a)) => NothingInPipe
    /\ \A a \in Callers : Calling(a) => InPipe(want[a])
    /\ \A a \in Callers : last[a].line = last[a].id

Fresh == proc = "off" /\ asked = <<>> /\ lines = <<>> /\ \A a \in Callers : ~Calling(a)

PInv ==
    /\ MType
    /\ stage = "new" => Fresh
    /\ blocked # NoAgent => blocked \in Callers /\ Calling(blocked)
    /\ ~disturbed => Orderly

(* Nobody but a is calling, and every line was the one that was wanted. *)
Sole(a) == \A b \in Callers \ {a} : ~Calling(b)
Owned == \A b \in Callers : last[b].line = last[b].id

LEMMA SoleOrderly ==
    ASSUME NEW a \in Callers, Sole(a)', Owned',
           Calling(a)' => InPipe(want[a])', ~Calling(a)' => NothingInPipe'
    PROVE  Orderly'
BY DEF Sole, Owned, Orderly

(* A caller has the pipe to itself. *)
LEMMA OrderlySole ==
    ASSUME Orderly, NEW a \in Callers, Calling(a)
    PROVE  Sole(a) /\ Owned /\ InPipe(want[a])
BY DEF Orderly, Sole, Owned

LEMMA NobodyCalls ==
    ASSUME Orderly, NEW a \in Callers, Sole(a), ~Calling(a)
    PROVE  Owned /\ NothingInPipe
BY DEF Orderly, Sole, Owned

(* A request is written into an empty pipe. *)
LEMMA WriteOrderly ==
    ASSUME MType, NEW a \in Callers, Write(a),
           ~disturbed => lines' = <<>> /\ (proc' = "up" => asked = <<>>) /\ Owned'
    PROVE  /\ nextId' \in Nat \ {0} /\ want' \in [Callers -> Nat] /\ asked' \in Seq(Int)
           /\ disturbed' \in BOOLEAN
           /\ Calling(a)' /\ \A b \in Callers : Calling(b) => Calling(b)'
           /\ ~disturbed' => Orderly'
<1>1. /\ want' = [want EXCEPT ![a] = nextId] /\ asked' = Append(asked, nextId)
      /\ nextId' = nextId + 1 /\ nextId \in Int
      /\ disturbed' = (disturbed \/ \E b \in Callers \ {a} : want[b] # 0)
  BY DEF Write, MType
<1>2. nextId' \in Nat \ {0} /\ want' \in [Callers -> Nat] /\ asked' \in Seq(Int)
  BY <1>1 DEF MType
<1>3. disturbed' \in BOOLEAN
  BY <1>1 DEF MType
<1>4. want'[a] = nextId /\ nextId # 0 /\ \A b \in Callers \ {a} : want'[b] = want[b]
  BY <1>1 DEF MType
<1>5. Calling(a)' /\ \A b \in Callers : Calling(b) => Calling(b)'
  BY <1>4 DEF Calling
<1>6. ASSUME ~disturbed' PROVE Orderly'
  <2>1. Sole(a)'
    BY <1>1, <1>4, <1>6 DEF Sole, Calling
  <2>2. ~disturbed
    BY <1>1, <1>6 DEF MType
  <2>3. proc' = "up" => asked' = <<nextId>>
    BY <1>1, <2>2
  <2>4. InPipe(want[a])'
    BY <1>4, <2>2, <2>3 DEF InPipe
  <2>. QED BY <1>5, <2>1, <2>2, <2>4, SoleOrderly
<1>. QED BY <1>2, <1>3, <1>5, <1>6

LEMMA MoveParts ==
    ASSUME MType', stage' = "new" => Fresh',
           blocked' # NoAgent => blocked' \in Callers /\ Calling(blocked)',
           ~disturbed' => Orderly'
    PROVE  PInv'
BY DEF PInv

LEMMA StartHolds == ASSUME McpAssumption, PInv, Start PROVE PInv'
<1>1. /\ stage = "new" /\ stage' # "new"
      /\ UNCHANGED <<lines, blocked, last>> /\ lines = <<>> /\ asked = <<>>
      /\ Write(Discovery) \/ UNCHANGED <<proc, nextId, asked, want, disturbed>>
  BY DEF Start, PInv, Fresh
<1>2. MType /\ Discovery \in Callers
  BY DEF PInv, MType, Callers
<1>3. ~disturbed => Owned'
  BY <1>1 DEF PInv, Orderly, Owned
<1>4. /\ nextId' \in Nat \ {0} /\ want' \in [Callers -> Nat] /\ asked' \in Seq(Int)
      /\ disturbed' \in BOOLEAN
      /\ \A b \in Callers : Calling(b) => Calling(b)'
      /\ ~disturbed' => Orderly'
  <2>1. CASE Write(Discovery)
    BY <1>1, <1>2, <1>3, <2>1, WriteOrderly
  <2>2. CASE UNCHANGED <<proc, nextId, asked, want, disturbed>>
    BY <1>1, <2>2 DEF PInv, MType, Calling, Orderly, InPipe, NothingInPipe
  <2>. QED BY <1>1, <2>1, <2>2
<1>5. MType'
  BY <1>1, <1>2, <1>4 DEF MType
<1>6. blocked' # NoAgent => blocked' \in Callers /\ Calling(blocked)'
  BY <1>1, <1>4 DEF PInv, Calling
<1>. QED BY <1>1, <1>4, <1>5, <1>6, MoveParts

LEMMA CallHolds ==
    ASSUME McpAssumption, PInv, NEW a \in Agents, CallTool(a) PROVE PInv'
<1>0. CASE proc # "up" /\ nextId' = nextId + 1 /\ UNCHANGED <<asked, want, disturbed>>
  <2>1. UNCHANGED <<proc, stage, asked, lines, want, blocked, last, disturbed>> /\ stage # "new"
    BY <1>0 DEF CallTool
  <2>2. MType'
    BY <1>0, <2>1 DEF PInv, MType
  <2>3. ~disturbed' => Orderly'
    BY <2>1 DEF PInv, Orderly, InPipe, NothingInPipe, Calling
  <2>. QED BY <2>1, <2>2, <2>3, MoveParts DEF PInv, Calling
<1> SUFFICES ASSUME Write(a) PROVE PInv'
  BY <1>0 DEF CallTool
<1>1. /\ stage = "ready" /\ want[a] = 0 /\ Write(a)
      /\ UNCHANGED <<proc, stage, lines, blocked, last>>
  BY DEF CallTool
<1>2. MType /\ a \in Callers
  BY DEF PInv, Callers
<1>3. /\ nextId' \in Nat \ {0} /\ want' \in [Callers -> Nat] /\ asked' \in Seq(Int)
      /\ disturbed' \in BOOLEAN
      /\ \A b \in Callers : Calling(b) => Calling(b)'
      /\ ~disturbed' => Orderly'
  <2>1. CASE disturbed \/ ~Sole(a)
    <3>1. disturbed'
      BY <1>1, <2>1 DEF Write, Sole, Calling
    <3>. QED BY <1>1, <1>2, <3>1 DEF Write, MType, Calling
  <2>2. CASE ~disturbed /\ Sole(a)
    <3>1. Owned /\ NothingInPipe
      BY <1>1, <1>2, <2>2, NobodyCalls DEF PInv, Calling
    <3>2. Owned' /\ lines' = <<>> /\ (proc' = "up" => asked = <<>>)
      BY <1>1, <3>1 DEF Owned, NothingInPipe
    <3>. QED BY <1>1, <1>2, <3>2, WriteOrderly
  <2>. QED BY <2>1, <2>2
<1>4. MType'
  BY <1>1, <1>2, <1>3 DEF MType
<1>5. blocked' # NoAgent => blocked' \in Callers /\ Calling(blocked)'
  BY <1>1, <1>3 DEF PInv, Calling
<1>. QED BY <1>1, <1>3, <1>4, <1>5, MoveParts

(* A caller has its line, or an exception, and is done. *)
LEMMA DoneHolds ==
    ASSUME McpAssumption, PInv, NEW a \in Callers, Calling(a), Unblock(a),
           want' = [want EXCEPT ![a] = 0], UNCHANGED <<proc, nextId, asked>>, stage' # "new",
           lines' \in Seq(Int), last' \in [Callers -> [id: Nat, line: Int]],
           disturbed' \in BOOLEAN, disturbed => disturbed',
           ~disturbed' => Owned' /\ lines' = <<>> /\ (proc = "up" => asked = <<>>)
    PROVE  PInv'
<1>1. MType
  BY DEF PInv
<1>2. blocked' # NoAgent => blocked' \in Callers /\ blocked' # a /\ Calling(blocked')
  BY DEF PInv, Unblock
<1>3. want'[a] = 0 /\ \A b \in Callers \ {a} : want'[b] = want[b]
  BY <1>1 DEF MType
<1>4. MType'
  BY <1>1 DEF MType
<1>5. blocked' # NoAgent => blocked' \in Callers /\ Calling(blocked)'
  BY <1>2, <1>3 DEF Calling
<1>6. ASSUME ~disturbed' PROVE Orderly'
  <2>1. ~disturbed /\ Orderly
    BY <1>6 DEF PInv
  <2>2. Sole(a)
    BY <2>1, OrderlySole
  <2>3. ~Calling(a)' /\ \A b \in Callers \ {a} : ~Calling(b)'
    BY <1>3, <2>2 DEF Sole, Calling
  <2>4. Sole(a)'
    BY <2>3 DEF Sole
  <2>5. NothingInPipe' /\ Owned'
    BY <1>6 DEF NothingInPipe
  <2>. QED BY <2>3, <2>4, <2>5, SoleOrderly
<1>. QED BY <1>4, <1>5, <1>6, MoveParts

(* A caller goes on once its line is read; discovery may ask at once for   *)
(* the tools.                                                              *)
LEMMA ProceedHolds ==
    ASSUME McpAssumption, PInv, NEW a \in Callers, Calling(a),
           Proceed(a) \/ (GiveUp(a) /\ UNCHANGED disturbed),
           Unblock(a), UNCHANGED proc, lines' \in Seq(Int),
           last' \in [Callers -> [id: Nat, line: Int]], stage # "new",
           ~disturbed => Owned' /\ lines' = <<>> /\ (proc = "up" => asked = <<>>)
    PROVE  PInv'
<1>1. MType
  BY DEF PInv
<1>2. blocked' # NoAgent => blocked' \in Callers /\ blocked' # a /\ Calling(blocked')
  BY DEF PInv, Unblock
<1>3. CASE /\ want' = [want EXCEPT ![a] = 0] /\ UNCHANGED <<nextId, asked, disturbed>>
           /\ stage' # "new"
  <2>1. disturbed' \in BOOLEAN
    BY <1>1, <1>3 DEF MType
  <2>. QED BY <1>3, <2>1, DoneHolds
<1>4. CASE stage' = "list" /\ Write(a)
  <2>1. /\ nextId' \in Nat \ {0} /\ want' \in [Callers -> Nat] /\ asked' \in Seq(Int)
        /\ disturbed' \in BOOLEAN
        /\ \A b \in Callers : Calling(b) => Calling(b)'
        /\ ~disturbed' => Orderly'
    BY <1>1, <1>4, WriteOrderly
  <2>2. MType'
    BY <1>1, <2>1 DEF MType
  <2>3. blocked' # NoAgent => blocked' \in Callers /\ Calling(blocked)'
    BY <1>2, <2>1 DEF Calling
  <2>. QED BY <1>4, <2>1, <2>2, <2>3, MoveParts
<1>. QED BY <1>3, <1>4 DEF Proceed, GiveUp

LEMMA ReadHolds ==
    ASSUME McpAssumption, PInv, NEW a \in Callers, ReadLine(a) PROVE PInv'
<1>1. /\ Calling(a) /\ lines # <<>> /\ lines' = Tail(lines) /\ Unblock(a) /\ UNCHANGED proc
      /\ Head(lines) # Long
      /\ last' = [last EXCEPT ![a] = [id |-> want[a], line |-> Head(lines)]]
      /\ Proceed(a) \/ (GiveUp(a) /\ UNCHANGED disturbed)
  BY DEF ReadLine, Take, Calling
<1>3. MType /\ lines \in Seq(Int) /\ want[a] \in Nat
  BY DEF PInv, MType
<1>4. Tail(lines) \in Seq(Int) /\ Head(lines) \in Int
  BY <1>1, <1>3
<1>5. last' \in [Callers -> [id: Nat, line: Int]]
  BY <1>1, <1>3, <1>4 DEF MType
<1>6. stage # "new"
  BY <1>1 DEF PInv, Fresh
<1>7. ASSUME ~disturbed
      PROVE  Owned' /\ lines' = <<>> /\ (proc = "up" => asked = <<>>)
  <2>1. Owned /\ InPipe(want[a])
    BY <1>1, <1>7, OrderlySole DEF PInv
  <2>2. lines = <<want[a]>> /\ (proc = "up" => asked = <<>>)
    <3>1. lines \in {<<want[a]>>, <<Long>>} /\ (proc = "up" => asked = <<>>)
      BY <1>1, <2>1 DEF InPipe
    <3>2. lines # <<Long>>
      BY <1>1
    <3>. QED BY <3>1, <3>2
  <2>3. Head(lines) = want[a] /\ Tail(lines) = <<>>
    BY <1>3, <2>2
  <2>4. Owned'
    BY <1>1, <1>3, <2>1, <2>3 DEF Owned, MType
  <2>. QED BY <1>1, <2>2, <2>3, <2>4
<1>. QED BY <1>1, <1>4, <1>5, <1>6, <1>7, ProceedHolds

(* A line that is too long and dropped whole leaves nothing in the pipe. *)
LEMMA OverrunHolds ==
    ASSUME McpAssumption, PInv, NEW a \in Callers, ReadOverrun(a) PROVE PInv'
<1>1. /\ Calling(a) /\ lines # <<>> /\ Head(lines) = Long
      /\ lines' \in {Tail(lines), <<Text>> \o Tail(lines), lines}
      /\ disturbed' = (disturbed \/ lines' # Tail(lines))
      /\ Unblock(a) /\ GiveUp(a) /\ UNCHANGED <<proc, last>>
  BY DEF ReadOverrun, Calling
<1>2. MType
  BY DEF PInv
<1>3. lines' \in Seq(Int)
  <2>1. Tail(lines) \in Seq(Int) /\ <<Text>> \in Seq(Int)
    BY <1>1, <1>2 DEF MType, Text
  <2>2. <<Text>> \o Tail(lines) \in Seq(Int)
    BY <2>1
  <2>. QED BY <1>1, <1>2, <2>1, <2>2 DEF MType
<1>4. last' \in [Callers -> [id: Nat, line: Int]]
  BY <1>1, <1>2 DEF MType
<1>5. stage' # "new" /\ want' = [want EXCEPT ![a] = 0] /\ UNCHANGED <<nextId, asked>>
  BY <1>1 DEF PInv, Fresh, GiveUp
<1>6. disturbed' \in BOOLEAN /\ (disturbed => disturbed')
  BY <1>1, <1>2 DEF MType
<1>7. ASSUME ~disturbed'
      PROVE  Owned' /\ lines' = <<>> /\ (proc = "up" => asked = <<>>)
  <2>1. ~disturbed /\ lines' = Tail(lines)
    BY <1>1, <1>7
  <2>2. Owned /\ InPipe(want[a])
    BY <1>1, <2>1, OrderlySole DEF PInv
  <2>3. lines \in {<<want[a]>>, <<Long>>} /\ (proc = "up" => asked = <<>>)
    BY <1>1, <2>2 DEF InPipe
  <2>4. Tail(lines) = <<>>
    <3>1. CASE lines = <<want[a]>>
      BY <3>1
    <3>2. CASE lines = <<Long>>
      BY <3>2
    <3>. QED BY <2>3, <3>1, <3>2
  <2>5. Owned'
    BY <1>1, <2>2 DEF Owned
  <2>. QED BY <2>1, <2>3, <2>4, <2>5
<1>. QED BY <1>1, <1>3, <1>4, <1>5, <1>6, <1>7, DoneHolds

(* Nobody else waits for the line of an undisturbed caller, so that it     *)
(* fails only once the server has ended.                                   *)
LEMMA ReadFailsHolds ==
    ASSUME McpAssumption, PInv, NEW a \in Callers, ReadFails(a) PROVE PInv'
<1>1. /\ Calling(a) /\ lines = <<>> /\ (blocked \notin {NoAgent, a} \/ proc # "up")
      /\ Unblock(a) /\ GiveUp(a) /\ UNCHANGED <<proc, lines, last, disturbed>>
  BY DEF ReadFails, Calling
<1>2. last' \in [Callers -> [id: Nat, line: Int]] /\ lines' \in Seq(Int)
  BY <1>1 DEF PInv, MType
<1>3. stage # "new"
  BY <1>1 DEF PInv, Fresh
<1>4. ASSUME ~disturbed
      PROVE  Owned' /\ lines' = <<>> /\ (proc = "up" => asked = <<>>)
  <2>1. Sole(a) /\ Owned
    BY <1>1, <1>4, OrderlySole DEF PInv
  <2>2. proc # "up"
    BY <1>1, <2>1 DEF PInv, Sole
  <2>3. Owned'
    BY <1>1, <2>1 DEF Owned
  <2>. QED BY <1>1, <2>2, <2>3
<1>. QED BY <1>1, <1>2, <1>3, <1>4, ProceedHolds

(* A step that moves no call. *)
LEMMA SameCalls ==
    ASSUME PInv, UNCHANGED <<nextId, want, last, disturbed>>,
           asked' \in Seq(Int), lines' \in Seq(Int),
           blocked' \in {blocked, NoAgent} \/ (blocked' \in Callers /\ Calling(blocked')),
           stage' = "new" => stage = "new" /\ UNCHANGED <<proc, asked, lines>>,
           NothingInPipe => NothingInPipe', \A n \in Nat : InPipe(n) => InPipe(n)'
    PROVE  PInv'
<1>1. MType'
  BY DEF PInv, MType
<1>2. \A a \in Callers : Calling(a) <=> Calling(a)'
  BY DEF Calling
<1>3. blocked' # NoAgent => blocked' \in Callers /\ Calling(blocked)'
  BY <1>2 DEF PInv, Calling
<1>4. stage' = "new" => Fresh'
  BY <1>2 DEF PInv, Fresh
<1>5. ASSUME ~disturbed' PROVE Orderly'
  <2>1. Orderly
    BY <1>5 DEF PInv
  <2>2. \A a \in Callers : want[a] \in Nat
    BY DEF PInv, MType
  <2>3. \A a \in Callers : Calling(a)' => InPipe(want[a])'
    BY <1>2, <2>1, <2>2 DEF Orderly, InPipe
  <2>4. (\A a \in Callers : ~Calling(a)') => NothingInPipe'
    BY <1>2, <2>1 DEF Orderly
  <2>5. /\ \A a, b \in Callers : Calling(a)' /\ Calling(b)' => a = b
        /\ \A a \in Callers : last'[a].line = last'[a].id
    BY <1>2, <2>1 DEF Orderly
  <2>. QED BY <2>3, <2>4, <2>5 DEF Orderly
<1>. QED BY <1>1, <1>3, <1>4, <1>5, MoveParts

LEMMA OthersHold ==
    ASSUME McpAssumption, PInv,
           \/ ServerAnswers \/ ServerEnds \/ Shutdown \/ UNCHANGED pvars
           \/ \E a \in Callers : WaitLine(a)
    PROVE  PInv'
<1> USE DEF NothingInPipe, InPipe
<1>0. asked \in Seq(Int) /\ lines \in Seq(Int)
  BY DEF PInv, MType
<1>1. CASE ServerAnswers
  <2>0. PICK l \in {Head(asked), Long} : lines' = Append(lines, l)
    BY <1>1 DEF ServerAnswers
  <2>1. /\ proc = "up" /\ asked # <<>> /\ lines' = Append(lines, l)
        /\ asked' = Tail(asked) /\ blocked' = NoAgent
        /\ UNCHANGED <<proc, stage, nextId, want, last, disturbed>>
    BY <1>1, <2>0 DEF ServerAnswers
  <2>2. l \in Int /\ Tail(asked) \in Seq(Int)
    BY <1>0, <2>1 DEF Long
  <2>3. ASSUME NEW n \in Nat, InPipe(n) PROVE InPipe(n)'
    <3>1. lines = <<>> /\ asked = <<n>>
      BY <2>1, <2>3
    <3>2. Head(asked) = n /\ Tail(asked) = <<>> /\ Append(lines, l) = <<l>>
      BY <3>1
    <3>. QED BY <2>1, <3>2
  <2>4. lines' \in Seq(Int) /\ asked' \in Seq(Int)
    BY <1>0, <2>1, <2>2
  <2>5. stage # "new"
    BY <2>1 DEF PInv, Fresh
  <2>. QED BY <2>1, <2>3, <2>4, <2>5, SameCalls
<1>2. CASE ServerEnds
  <2>1. /\ proc' = "dead" /\ asked' = <<>> /\ blocked' = NoAgent
        /\ UNCHANGED <<stage, nextId, lines, want, last, disturbed>>
    BY <1>2 DEF ServerEnds
  <2>2. stage # "new"
    BY <1>2 DEF PInv, Fresh, ServerEnds
  <2>3. asked' \in Seq(Int) /\ lines' \in Seq(Int)
    BY <1>0, <2>1
  <2>. QED BY <2>1, <2>2, <2>3, SameCalls
<1>3. CASE Shutdown
  <2>1. /\ stage' = "shut" /\ UNCHANGED <<nextId, lines, want, blocked, last, disturbed>>
        /\ (proc' = "off" /\ asked' = <<>>) \/ UNCHANGED <<proc, asked>>
    BY <1>3 DEF Shutdown
  <2>2. asked' \in Seq(Int)
    <3>1. CASE asked' = <<>>
      BY <3>1
    <3>2. CASE UNCHANGED asked
      BY <1>0, <3>2
    <3>. QED BY <2>1, <3>1, <3>2
  <2>3. lines' \in Seq(Int)
    BY <1>0, <2>1
  <2>. QED BY <2>1, <2>2, <2>3, SameCalls
<1>4. CASE UNCHANGED pvars
  BY <1>0, <1>4, SameCalls DEF pvars
<1>5. ASSUME NEW a \in Callers, WaitLine(a) PROVE PInv'
  <2>1. blocked' = a /\ Calling(a)
        /\ UNCHANGED <<proc, stage, nextId, asked, lines, want, last, disturbed>>
    BY <1>5 DEF WaitLine, Calling
  <2>. QED BY <1>0, <2>1, SameCalls
<1>. QED BY <1>1, <1>2, <1>3, <1>4, <1>5

(* A call that is left, or a line that answers nothing, disturbs the rest. *)
LEMMA DisturbedHolds ==
    ASSUME McpAssumption, PInv, ServerSays \/ \E a \in Agents : Abandon(a)
    PROVE  PInv'
<1>1. CASE ServerSays
  <2>1. PICK l \in {Notice, Text, Long} : lines' = Append(lines, l)
    BY <1>1 DEF ServerSays
  <2>2. lines' \in Seq(Int)
    BY <2>1 DEF PInv, MType, Notice, Text, Long
  <2>3. MType' /\ disturbed' /\ blocked' = NoAgent
    BY <1>1, <2>2 DEF PInv, MType, ServerSays
  <2>4. stage' # "new"
    <3>1. proc = "up" /\ stage' = stage
      BY <1>1 DEF ServerSays
    <3>. QED BY <3>1 DEF PInv, Fresh
  <2>. QED BY <2>3, <2>4, MoveParts
<1>2. ASSUME NEW a \in Agents, Abandon(a) PROVE PInv'
  <2>1. /\ Calling(a) /\ want' = [want EXCEPT ![a] = 0] /\ Unblock(a) /\ disturbed'
        /\ UNCHANGED <<stage, nextId, asked, lines, last>>
    BY <1>2 DEF Abandon, Calling
  <2>2. a \in Callers
    BY DEF Callers
  <2>3. MType'
    BY <2>1 DEF PInv, MType
  <2>4. stage # "new"
    BY <2>1, <2>2 DEF PInv, Fresh
  <2>5. blocked' # NoAgent => blocked' \in Callers /\ blocked' # a /\ Calling(blocked')
    BY <2>1 DEF PInv, Unblock
  <2>6. blocked' # NoAgent => blocked' \in Callers /\ Calling(blocked)'
    BY <2>1, <2>5 DEF Calling, PInv, MType
  <2>. QED BY <2>1, <2>3, <2>4, <2>6, MoveParts
<1>. QED BY <1>1, <1>2

(* Any number of agents may call tools one after the other, the server may *)
(* answer with errors or with lines that are too long, and may end at any  *)
(* moment: as long as no call is left or overlaps another, the server only *)
(* answers and a line that is too long is dropped whole, every caller of   *)
(* the MCP client takes the line that answers its own request, although    *)
(* the client compares no ids.                                             *)
THEOREM RepliesMatch == ASSUME McpAssumption PROVE McpSpec => []OwnReply
<1>1. McpInit => PInv
  <2> SUFFICES ASSUME McpInit PROVE PInv
    OBVIOUS
  <2>1. MType
    <3>1. /\ want = [a \in Callers |-> 0] /\ asked = <<>> /\ lines = <<>>
          /\ last = [a \in Callers |-> [id |-> 0, line |-> 0]]
          /\ nextId = 1 /\ disturbed = FALSE
      BY DEF McpInit
    <3>2. want \in [Callers -> Nat] /\ last \in [Callers -> [id: Nat, line: Int]]
      BY <3>1
    <3>3. asked \in Seq(Int) /\ lines \in Seq(Int)
      BY <3>1
    <3>4. nextId \in Nat \ {0}
      BY <3>1
    <3>5. disturbed \in BOOLEAN
      BY <3>1
    <3>. QED BY <3>2, <3>3, <3>4, <3>5 DEF MType
  <2>2. Fresh
    BY DEF McpInit, Fresh, Calling
  <2>3. Orderly
    <3>1. \A a \in Callers : ~Calling(a) /\ last[a].line = last[a].id
      BY DEF McpInit, Calling
    <3>. QED BY <3>1 DEF McpInit, Orderly, NothingInPipe
  <2>. QED BY <2>1, <2>2, <2>3 DEF McpInit, PInv
<1>2. ASSUME PInv, [McpNext]_pvars PROVE PInv'
  BY <1>2, StartHolds, CallHolds, ReadHolds, OverrunHolds, ReadFailsHolds, OthersHold, DisturbedHolds
     DEF McpNext
<1>3. PInv => OwnReply
  BY DEF PInv, Orderly, OwnReply
<1>. QED BY <1>1, <1>2, <1>3, PTL DEF McpSpec

(* The ids that have been given out only become more. *)
LEMMA MoreIds ==
    ASSUME NEW n \in Nat \ {0}, NEW k \in {n, n + 1}, NEW s \in Seq(1..n - 1),
           NEW u \in Seq(Long..n - 1), NEW w \in [Callers -> 0..n - 1]
    PROVE  s \in Seq(1..k - 1) /\ u \in Seq(Long..k - 1) /\ w \in [Callers -> 0..k - 1]
<1>1. 1..n - 1 \subseteq 1..k - 1 /\ Long..n - 1 \subseteq Long..k - 1 /\ 0..n - 1 \subseteq 0..k - 1
  BY DEF Long
<1>2. s \in Seq(1..k - 1)
  BY <1>1
<1>3. u \in Seq(Long..k - 1)
  BY <1>1 DEF Long
<1>4. w \in [Callers -> 0..k - 1]
  BY <1>1
<1>. QED BY <1>2, <1>3, <1>4

McpTyped == McpTypeOK /\ nextId \in Nat \ {0}

(* What becomes of the ids when a writes a request. *)
LEMMA WriteTyped ==
    ASSUME McpTyped, NEW a \in Callers, Write(a)
    PROVE  /\ nextId' \in Nat \ {0}
           /\ asked' \in Seq(1..nextId' - 1) /\ want' \in [Callers -> 0..nextId' - 1]
           /\ lines \in Seq(Long..nextId' - 1)
<1>1. nextId' = nextId + 1 /\ asked' = Append(asked, nextId) /\ want' = [want EXCEPT ![a] = nextId]
  BY DEF Write
<1>2. /\ asked \in Seq(1..nextId' - 1) /\ lines \in Seq(Long..nextId' - 1)
      /\ want \in [Callers -> 0..nextId' - 1]
  BY <1>1, MoreIds DEF McpTyped, McpTypeOK
<1>3. nextId' \in Nat \ {0} /\ nextId \in 1..nextId' - 1 /\ nextId \in 0..nextId' - 1
  BY <1>1 DEF McpTyped
<1>. QED BY <1>1, <1>2, <1>3

(* What follows an answer, or an exception. *)
LEMMA ProceedTyped ==
    ASSUME McpTyped, NEW a \in Callers, Proceed(a) \/ GiveUp(a)
    PROVE  /\ nextId' \in Nat \ {0}
           /\ stage' \in {"new", "initialize", "list", "ready", "failed", "shut"}
           /\ asked' \in Seq(1..nextId' - 1) /\ want' \in [Callers -> 0..nextId' - 1]
           /\ lines \in Seq(Long..nextId' - 1)
<1>1. CASE stage' = "list" /\ Write(a)
  BY <1>1, WriteTyped
<1>2. CASE /\ want' = [want EXCEPT ![a] = 0] /\ UNCHANGED <<nextId, asked>>
           /\ stage' \in {stage, "ready", "failed"}
  <2>1. 0 \in 0..nextId - 1
    BY DEF McpTyped
  <2>. QED BY <1>2, <2>1 DEF McpTyped, McpTypeOK
<1>. QED BY <1>1, <1>2 DEF Proceed, GiveUp

(* Type correctness of the MCP client, for any callers and lines: no answer *)
(* that is read or awaited has an id that was not given out.                *)
THEOREM IdsGivenOut == ASSUME McpAssumption PROVE McpSpec => []McpTypeOK
<1>1. McpInit => McpTyped
  BY DEF McpInit, McpTyped, McpTypeOK, Long
<1>2. ASSUME McpTyped, [McpNext]_pvars PROVE McpTyped'
  <2> USE <1>2
  <2>1. CASE Start
    <3>1. /\ UNCHANGED <<lines, blocked>> /\ proc' \in {proc, "up"}
          /\ stage' \in {"initialize", "failed"}
          /\ Write(Discovery) \/ UNCHANGED <<nextId, asked, want>>
      BY <2>1 DEF Start
    <3>2. Discovery \in Callers
      BY DEF Callers
    <3>. QED BY <3>1, <3>2, WriteTyped DEF McpTyped, McpTypeOK
  <2>2. ASSUME NEW a \in Agents, CallTool(a) PROVE McpTyped'
    <3>1. /\ UNCHANGED <<proc, stage, lines, blocked>>
          /\ Write(a) \/ (nextId' = nextId + 1 /\ UNCHANGED <<asked, want>>)
      BY <2>2 DEF CallTool
    <3>2. a \in Callers
      BY DEF Callers
    <3>3. CASE Write(a)
      BY <3>1, <3>2, <3>3, WriteTyped DEF McpTyped, McpTypeOK
    <3>4. CASE nextId' = nextId + 1 /\ UNCHANGED <<asked, want>>
      <4>1. /\ nextId \in Nat \ {0} /\ asked \in Seq(1..nextId - 1)
            /\ lines \in Seq(Long..nextId - 1) /\ want \in [Callers -> 0..nextId - 1]
        BY DEF McpTyped, McpTypeOK
      <4>2. nextId' \in {nextId, nextId + 1} /\ nextId' \in Nat \ {0}
        BY <3>4, <4>1
      <4>3. /\ asked \in Seq(1..nextId' - 1) /\ lines \in Seq(Long..nextId' - 1)
            /\ want \in [Callers -> 0..nextId' - 1]
        BY <4>1, <4>2, MoreIds
      <4>. QED BY <3>1, <3>4, <4>2, <4>3 DEF McpTyped, McpTypeOK
    <3>. QED BY <3>1, <3>3, <3>4
  <2>3. ASSUME NEW a \in Callers, ReadLine(a) PROVE McpTyped'
    <3>1. Proceed(a) \/ GiveUp(a)
      BY <2>3 DEF ReadLine, Take
    <3>2. lines' = Tail(lines) /\ lines # <<>> /\ proc' = proc
          /\ blocked' \in {blocked, NoAgent}
      BY <2>3 DEF ReadLine, Take, Unblock
    <3>3. lines' \in Seq(Long..nextId' - 1)
      BY <3>1, <3>2, ProceedTyped
    <3>. QED BY <3>1, <3>2, <3>3, ProceedTyped DEF McpTyped, McpTypeOK
  <2>12. ASSUME NEW a \in Callers, ReadOverrun(a) PROVE McpTyped'
    <3>1. GiveUp(a) /\ nextId' = nextId
      BY <2>12 DEF ReadOverrun, GiveUp
    <3>2. lines # <<>> /\ lines' \in {Tail(lines), <<Text>> \o Tail(lines), lines}
          /\ proc' = proc /\ blocked' \in {blocked, NoAgent}
      BY <2>12 DEF ReadOverrun, Unblock
    <3>3. lines \in Seq(Long..nextId - 1) /\ Tail(lines) \in Seq(Long..nextId - 1)
      BY <3>2 DEF McpTyped, McpTypeOK
    <3>4. Text \in Long..nextId - 1
      BY DEF McpTyped, Text, Long
    <3>5. <<Text>> \in Seq(Long..nextId - 1)
      BY <3>4
    <3>6. <<Text>> \o Tail(lines) \in Seq(Long..nextId - 1)
      BY <3>3, <3>5
    <3>7. lines' \in Seq(Long..nextId' - 1)
      BY <3>1, <3>2, <3>3, <3>6
    <3>. QED BY <3>1, <3>2, <3>7, ProceedTyped DEF McpTyped, McpTypeOK
  <2>4. ASSUME NEW a \in Callers, ReadFails(a) PROVE McpTyped'
    <3>1. GiveUp(a)
      BY <2>4 DEF ReadFails
    <3>2. lines' = lines /\ proc' = proc /\ blocked' \in {blocked, NoAgent}
      BY <2>4 DEF ReadFails, Unblock
    <3>. QED BY <3>1, <3>2, ProceedTyped DEF McpTyped, McpTypeOK
  <2>5. ASSUME NEW a \in Callers, WaitLine(a) PROVE McpTyped'
    BY <2>5 DEF WaitLine, McpTyped, McpTypeOK
  <2>6. ASSUME NEW a \in Agents, Abandon(a) PROVE McpTyped'
    <3>1. 0 \in 0..nextId - 1
      BY DEF McpTyped
    <3>. QED BY <2>6, <3>1 DEF Abandon, Unblock, McpTyped, McpTypeOK
  <2>7. CASE ServerAnswers
    <3>1. /\ asked # <<>> /\ asked' = Tail(asked) /\ blocked' = NoAgent
          /\ UNCHANGED <<proc, stage, nextId, want>>
      BY <2>7 DEF ServerAnswers
    <3>2. PICK l \in {Head(asked), Long} : lines' = Append(lines, l)
      BY <2>7 DEF ServerAnswers
    <3>3. Head(asked) \in 1..nextId - 1 /\ asked' \in Seq(1..nextId - 1)
      BY <3>1 DEF McpTyped, McpTypeOK
    <3>4. l \in Long..nextId - 1
      BY <3>2, <3>3 DEF McpTyped, Long
    <3>5. lines' \in Seq(Long..nextId - 1)
      BY <3>2, <3>4 DEF McpTyped, McpTypeOK
    <3>. QED BY <3>1, <3>3, <3>5 DEF McpTyped, McpTypeOK
  <2>8. CASE ServerSays
    <3>1. PICK l \in {Notice, Text, Long} : lines' = Append(lines, l)
      BY <2>8 DEF ServerSays
    <3>2. l \in Long..nextId - 1
      BY DEF Notice, Text, Long, McpTyped
    <3>3. lines' \in Seq(Long..nextId - 1)
      BY <3>1, <3>2 DEF McpTyped, McpTypeOK
    <3>4. blocked' = NoAgent /\ UNCHANGED <<proc, stage, nextId, asked, want>>
      BY <2>8 DEF ServerSays
    <3>. QED BY <3>3, <3>4 DEF McpTyped, McpTypeOK
  <2>9. CASE ServerEnds
    BY <2>9 DEF ServerEnds, McpTyped, McpTypeOK
  <2>10. CASE Shutdown
    <3>1. /\ stage' = "shut" /\ UNCHANGED <<nextId, lines, want, blocked>>
          /\ (proc' = "off" /\ asked' = <<>>) \/ UNCHANGED <<proc, asked>>
      BY <2>10 DEF Shutdown
    <3>2. proc' \in {"off", "up", "dead"} /\ asked' \in Seq(1..nextId - 1)
      <4>1. CASE proc' = "off" /\ asked' = <<>>
        <5>1. <<>> \in Seq(1..nextId - 1)
          OBVIOUS
        <5>. QED BY <4>1, <5>1
      <4>2. CASE UNCHANGED <<proc, asked>>
        BY <4>2 DEF McpTyped, McpTypeOK
      <4>. QED BY <3>1, <4>1, <4>2
    <3>3. /\ nextId' \in Nat \ {0} /\ asked' \in Seq(1..nextId' - 1)
          /\ lines' \in Seq(Long..nextId' - 1)
      BY <3>1, <3>2 DEF McpTyped, McpTypeOK
    <3>4. want' \in [Callers -> 0..nextId' - 1] /\ blocked' \in Callers \cup {NoAgent}
      BY <3>1 DEF McpTyped, McpTypeOK
    <3>. QED BY <3>1, <3>2, <3>3, <3>4 DEF McpTyped, McpTypeOK
  <2>11. CASE UNCHANGED pvars
    BY <2>11 DEF pvars, McpTyped, McpTypeOK
  <2>. QED
    BY <2>1, <2>2, <2>3, <2>4, <2>5, <2>6, <2>7, <2>8, <2>9, <2>10, <2>11,
       <2>12 DEF McpNext
<1>3. McpTyped => McpTypeOK
  BY DEF McpTyped
<1>. QED BY <1>1, <1>2, <1>3, PTL DEF McpSpec
=============================================================================
