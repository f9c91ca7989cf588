--------------------------- MODULE PlatformProofs ---------------------------
(***************************************************************************)
(* Proofs about TokenQuota, UsageReports, Accounts and AgentHooks.         *)
(*                                                                         *)
(* TokenQuota, for any number of calls and days: no request is charged     *)
(* twice in a table (ChargedOnce), and the quota cache follows token_usage *)
(* (CacheFollows).  The invariant says where a request is: At(e, n, i)     *)
(* holds when row i of table n counts e, or when a call that has selected  *)
(* row i is about to write e back into it.  A request is at no more than   *)
(* one row of a table, and only of tables it has got past.                 *)
(*                                                                         *)
(* UsageReports (FreeTierHeld, PremiumIsEarned, QuotaOvershoot): a report  *)
(* that has been checked and waits for its insert has room, or quota left, *)
(* and is the only one.                                                    *)
(*                                                                         *)
(* Accounts (RevokedIsRefused, ReachHeld): what is known of a request's    *)
(* caller at each of its database accesses.  NoLostUpdate: a write puts    *)
(* the columns it was asked for into the row and no others; a login about  *)
(* to write holds a row whose count and current login were right when it   *)
(* read them, and is the only one about to unless the user's logins have   *)
(* overlapped.                                                             *)
(*                                                                         *)
(* AgentHooks (FloorHeld): what stood is in the tables still, so that the  *)
(* query of its scope returns it, and an evaluation that has read a scope  *)
(* has it among its matches.  OneRowPerOrganisation: a tenant or           *)
(* organisation has at most one row of hook settings.                      *)
(***************************************************************************)
EXTENDS TokenQuota, UsageReports, Accounts, AgentHooks, SequenceTheorems,
        FiniteSetTheorems, TLAPS

Names == {"usage", "daily", "monthly"}
RowType == [in : Names, period : Nat, counts : SUBSET Calls]
GotType == [i : Int, counts : SUBSET Calls]

QType ==
    /\ tbl \in Seq(RowType)
    /\ stage \in [Calls -> 1..5]
    /\ got \in [Calls -> GotType]
    /\ date \in [Calls -> 1..LastDay]
    /\ day \in 1..LastDay
    /\ race \subseteq Names

(* What a call has selected is a row of the table it is at. *)
GotRow ==
    \A c \in Calls : Writing(c) =>
      /\ got[c].i \in 0..Len(tbl)
      /\ got[c].i > 0 => tbl[got[c].i].in = Tables[stage[c]]
      /\ got[c].i = 0 => got[c].counts = {}

Carries(e, n, i) ==
    \E o \in Calls : Writing(o) /\ stage[o] = n /\ got[o].i = i /\ e \in got[o].counts

At(e, n, i) ==
    /\ i \in 1..Len(tbl) /\ tbl[i].in = Tables[n]
    /\ e \in tbl[i].counts \/ Carries(e, n, i)

OneRow == \A e \in Calls : \A n \in 1..3 : \A i, j \in 1..Len(tbl) :
            At(e, n, i) /\ At(e, n, j) => i = j

OnlyPast == \A e \in Calls : \A n \in 1..3 : \A i \in 1..Len(tbl) :
              At(e, n, i) => stage[e] > n

OInv == QType /\ GotRow /\ OneRow /\ OnlyPast

(* What a write of call c into row r does: c gets to that row and to the    *)
(* next table, and nobody else to a row he was not at.                      *)
Effect(c, r) ==
    /\ r \in 1..Len(tbl') /\ Len(tbl) <= Len(tbl')
    /\ stage' = [stage EXCEPT ![c] = @ + 1]
    /\ race' = race
    /\ \A i \in 1..Len(tbl) : tbl'[i].in = tbl[i].in /\ (i # r => tbl'[i] = tbl[i])
    /\ tbl'[r].in = Tables[stage[c]] /\ c \in tbl'[r].counts
    /\ r \in 1..Len(tbl) => r = got[c].i /\ got[c].counts \subseteq tbl'[r].counts
    /\ \A e \in Calls : \A n \in 1..3 : \A i \in 1..Len(tbl') :
         At(e, n, i)' => \/ i \in 1..Len(tbl) /\ At(e, n, i)
                         \/ e = c /\ n = stage[c] /\ i = r

(* What a step that writes nothing does: rows stay, requests are at no new  *)
(* row, and no call is at an earlier table.                                 *)
Shrinks ==
    /\ tbl' = tbl
    /\ \A e \in Calls : stage'[e] >= stage[e]
    /\ \A e \in Calls : \A n \in 1..3 : \A i \in 1..Len(tbl) : At(e, n, i)' => At(e, n, i)

(* The days and months of the calendar. *)
Calendar == LastDay \in Nat \ {0} /\ MonthOf \in [1..LastDay -> Nat]
-----------------------------------------------------------------------------
LEMMA TablesDiffer ==
  /\ \A n \in 1..3 : Tables[n] \in Names
  /\ \A n, m \in 1..3 : Tables[n] = Tables[m] => n = m
<1>1. Tables[1] = "usage" /\ Tables[2] = "daily" /\ Tables[3] = "monthly"
  BY DEF Tables
<1>2. \A n \in 1..3 : n = 1 \/ n = 2 \/ n = 3
  OBVIOUS
<1> QED BY <1>1, <1>2 DEF Names

LEMMA PeriodIsNat ==
  ASSUME Calendar, NEW n, NEW d \in 1..LastDay
  PROVE  Period(n, d) \in Nat
  BY DEF Calendar, Period

(* Initially no request is anywhere. *)
LEMMA InitOInv == ASSUME Calendar, QuotaInit PROVE OInv
<1>1. Len(tbl) = 0 /\ tbl \in Seq(RowType)
  BY DEF QuotaInit
<1>2. NotRead \in GotType
  BY DEF NotRead, GotType
<1>3. QType
  BY <1>1, <1>2 DEF QuotaInit, QType, Calendar
<1>4. GotRow
  BY DEF GotRow, QuotaInit, Writing
<1>5. 1..Len(tbl) = {}
  BY <1>1
<1> QED BY <1>3, <1>4, <1>5 DEF OInv, OneRow, OnlyPast

(* If every place of a request was its place before, nothing changes. *)
LEMMA PlacesShrink ==
  ASSUME OInv, QType', GotRow', Shrinks
  PROVE  OInv'
<1>1. OneRow'
  BY DEF OInv, OneRow, Shrinks
<1>2. OnlyPast'
  <2>0. stage \in [Calls -> 1..5] /\ stage' \in [Calls -> 1..5]
    BY DEF OInv, QType
  <2> SUFFICES ASSUME NEW e \in Calls, NEW n \in 1..3, NEW i \in 1..Len(tbl), At(e, n, i)'
               PROVE  stage'[e] > n
    BY DEF OnlyPast, Shrinks
  <2>1. stage[e] \in Int /\ stage'[e] \in Int
    BY <2>0
  <2>2. stage[e] > n /\ stage'[e] >= stage[e]
    BY DEF OInv, OnlyPast, Shrinks
  <2> QED BY <2>1, <2>2
<1> QED BY <1>1, <1>2 DEF OInv

(* If the only new place is the row that a call has just written, too. *)
LEMMA PlacesGrow ==
  ASSUME OInv, QType', GotRow', NEW c \in Calls, NEW r, stage[c] \in 1..3, Effect(c, r)
  PROVE  OInv'
<1> USE DEF OInv
<1>1. \A n \in 1..3 : \A i \in 1..Len(tbl) : At(c, n, i) => n # stage[c]
  BY DEF OnlyPast, QType
<1>2. OneRow'
  <2> SUFFICES ASSUME NEW e \in Calls, NEW n \in 1..3, NEW i \in 1..Len(tbl'),
                      NEW j \in 1..Len(tbl'), At(e, n, i)', At(e, n, j)'
               PROVE  i = j
    BY DEF OneRow
  <2>1. (i \in 1..Len(tbl) /\ At(e, n, i)) \/ (e = c /\ n = stage[c] /\ i = r)
    BY DEF Effect
  <2>2. (j \in 1..Len(tbl) /\ At(e, n, j)) \/ (e = c /\ n = stage[c] /\ j = r)
    BY DEF Effect
  <2> QED BY <1>1, <2>1, <2>2 DEF OneRow
<1>3. OnlyPast'
  BY DEF OnlyPast, QType, Effect
<1> QED BY <1>2, <1>3

(* Rows stay, and those of the tables are as many or one more. *)
LEMMA SelectKeeps ==
  ASSUME Calendar, OInv, NEW c \in Calls, SelectRow(c)
  PROVE  /\ OInv' /\ Shrinks
         /\ stage[c] \in 1..3 /\ stage' = stage
         /\ \A o \in Calls \ {c} : got'[o] = got[o]
         /\ got'[c].i > 0 => got'[c].counts = tbl[got'[c].i].counts
<1> USE DEF OInv
<1> DEFINE d == DayFor(c)
<1>1. stage[c] \in 1..3 /\ got[c] = NotRead
  <2>1. stage[c] \in 1..5
    BY DEF QType
  <2>2. stage[c] < 4 /\ got[c] = NotRead
    BY DEF SelectRow, Reading
  <2> QED BY <2>1, <2>2
<1>2. d \in 1..LastDay
  BY DEF DayFor, QType
<1>3. PICK g \in GotType :
        /\ got' = [got EXCEPT ![c] = g]
        /\ g.i \in 0..Len(tbl)
        /\ g.i > 0 => tbl[g.i].in = Tables[stage[c]] /\ g.counts = tbl[g.i].counts
        /\ g.i = 0 => g.counts = {}
  <2>1. CASE Matches(stage[c], d) = {} /\ got' = [got EXCEPT ![c] = [i |-> 0, counts |-> {}]]
    <3>1. [i |-> 0, counts |-> {}] \in GotType
      BY DEF GotType
    <3>2. Len(tbl) \in Nat
      BY DEF QType
    <3>3. [i |-> 0, counts |-> {}].i = 0 /\ [i |-> 0, counts |-> {}].counts = {}
      OBVIOUS
    <3> WITNESS [i |-> 0, counts |-> {}] \in GotType
    <3> QED BY <2>1, <3>2, <3>3
  <2>2. CASE \E i \in Matches(stage[c], d) :
               got' = [got EXCEPT ![c] = [i |-> i, counts |-> tbl[i].counts]]
    <3>1. PICK i \in Matches(stage[c], d) :
            got' = [got EXCEPT ![c] = [i |-> i, counts |-> tbl[i].counts]]
      BY <2>2
    <3>2. i \in 1..Len(tbl) /\ tbl[i].in = Tables[stage[c]]
      BY <3>1 DEF Matches, QType
    <3>3. tbl[i] \in RowType
      BY <3>2 DEF QType
    <3>4. [i |-> i, counts |-> tbl[i].counts] \in GotType
      BY <3>2, <3>3 DEF GotType, RowType
    <3> DEFINE h == [i |-> i, counts |-> tbl[i].counts]
    <3>5. h.i = i /\ h.counts = tbl[i].counts /\ got' = [got EXCEPT ![c] = h] /\ h \in GotType
      BY <3>1, <3>4
    <3> HIDE DEF h
    <3>6. h.i \in 0..Len(tbl) /\ h.i # 0
      BY <3>2, <3>5
    <3> QED BY <3>2, <3>5, <3>6
  <2> QED BY <2>1, <2>2 DEF SelectRow
<1>4. UNCHANGED <<tbl, stage, day>>
  BY DEF SelectRow
<1>5. QType'
  <2>1. got' \in [Calls -> GotType]
    BY <1>3 DEF QType
  <2>2. date' \in [Calls -> 1..LastDay]
    BY <1>2 DEF SelectRow, QType
  <2>3. race' \subseteq Names
    BY <1>1, TablesDiffer DEF SelectRow, QType
  <2> QED BY <1>4, <2>1, <2>2, <2>3 DEF QType
<1>6. \A o \in Calls \ {c} : got'[o] = got[o] /\ (Writing(o)' <=> Writing(o))
  BY <1>3, <1>4 DEF QType, Writing
<1>7. got'[c] = g
  BY <1>3 DEF QType
<1>8. GotRow'
  BY <1>3, <1>4, <1>6, <1>7 DEF GotRow
<1>9. ASSUME NEW e \in Calls, NEW n \in 1..3, NEW i \in 1..Len(tbl), At(e, n, i)'
      PROVE  At(e, n, i)
  <2>1. CASE e \in tbl[i].counts
    BY <1>4, <1>9, <2>1 DEF At
  <2>2. CASE Carries(e, n, i)'
    <3>1. PICK o \in Calls : Writing(o)' /\ stage'[o] = n /\ got'[o].i = i /\ e \in got'[o].counts
      BY <2>2 DEF Carries
    <3>2. CASE o = c
      BY <1>3, <1>4, <1>7, <1>9, <3>1, <3>2 DEF At
    <3>3. CASE o # c
      BY <1>4, <1>6, <1>9, <3>1, <3>3 DEF At, Carries
    <3> QED BY <3>2, <3>3
  <2> QED BY <1>4, <1>9, <2>1, <2>2 DEF At
<1>10. \A e \in Calls : stage'[e] >= stage[e]
  BY <1>4 DEF QType
<1>11. Shrinks
  BY <1>4, <1>9, <1>10 DEF Shrinks
<1>12. OInv'
  BY <1>5, <1>8, <1>11, PlacesShrink
<1> QED BY <1>1, <1>3, <1>4, <1>6, <1>7, <1>11, <1>12

(* After a write, the others have what they had. *)
LEMMA AdvanceKeeps ==
  ASSUME OInv, NEW c \in Calls, stage[c] \in 1..3, Advance(c)
  PROVE  /\ stage' \in [Calls -> 1..5] /\ got' \in [Calls -> GotType]
         /\ stage' = [stage EXCEPT ![c] = @ + 1]
         /\ ~Writing(c)'
         /\ \A o \in Calls \ {c} : /\ got'[o] = got[o] /\ stage'[o] = stage[o]
                                   /\ Writing(o)' <=> Writing(o)
<1>1. NotRead \in GotType
  BY DEF NotRead, GotType
<1>2. stage' \in [Calls -> 1..5] /\ got' \in [Calls -> GotType] /\ got'[c] = NotRead
  BY <1>1 DEF OInv, QType, Advance
<1> QED BY <1>2 DEF OInv, QType, Advance, Writing

LEMMA UpdateEffect ==
  ASSUME OInv, NEW c \in Calls, UpdateRow(c)
  PROVE  QType' /\ GotRow' /\ Effect(c, got[c].i)
<1> USE DEF OInv
<1> DEFINE r == got[c].i
           S == got[c].counts \cup {c}
<1>1. stage[c] \in 1..3 /\ Writing(c) /\ Advance(c) /\ UNCHANGED <<date, day, race>>
  BY DEF UpdateRow, Writing, QType
<1>2. r \in 1..Len(tbl) /\ tbl[r].in = Tables[stage[c]] /\ got[c] \in GotType
  BY <1>1 DEF UpdateRow, GotRow, QType
<1>3. S \in SUBSET Calls
  BY <1>2 DEF GotType
<1>4. tbl[r] \in RowType
  BY <1>2 DEF QType
<1>5. [tbl[r] EXCEPT !.counts = S] \in RowType
  BY <1>3, <1>4 DEF RowType
<1>6. /\ tbl' \in Seq(RowType) /\ Len(tbl') = Len(tbl)
      /\ tbl'[r] = [tbl[r] EXCEPT !.counts = S]
      /\ \A i \in 1..Len(tbl) : i # r => tbl'[i] = tbl[i]
  <2> DEFINE row == [tbl[r] EXCEPT !.counts = S]
  <2>1. tbl' = [tbl EXCEPT ![r] = row]
    BY DEF UpdateRow
  <2>2. row \in RowType
    BY <1>5
  <2> HIDE DEF r, row
  <2>3. tbl \in Seq(RowType) /\ r \in 1..Len(tbl)
    BY <1>2 DEF QType
  <2>4. tbl' \in Seq(RowType) /\ Len(tbl') = Len(tbl)
    BY <2>1, <2>2, <2>3, ExceptSeq
  <2>5. tbl'[r] = row /\ \A i \in 1..Len(tbl) : i # r => tbl'[i] = tbl[i]
    BY <2>1, <2>3
  <2> QED BY <2>4, <2>5 DEF row
<1>7. tbl'[r].in = tbl[r].in /\ tbl'[r].counts = S
  BY <1>4, <1>6 DEF RowType
<1>8. \A i \in 1..Len(tbl) : tbl'[i].in = tbl[i].in
  BY <1>6, <1>7
<1>9. QType'
  BY <1>1, <1>6, AdvanceKeeps DEF QType
<1>10. GotRow'
  BY <1>1, <1>6, <1>8, AdvanceKeeps DEF GotRow
<1>11. ASSUME NEW e \in Calls, NEW n \in 1..3, NEW i \in 1..Len(tbl'), At(e, n, i)'
       PROVE  At(e, n, i) \/ (e = c /\ n = stage[c] /\ i = r)
  <2>1. i \in 1..Len(tbl) /\ tbl[i].in = Tables[n]
    BY <1>6, <1>8, <1>11 DEF At
  <2>2. CASE Carries(e, n, i)'
    <3>1. PICK o \in Calls : Writing(o)' /\ stage'[o] = n /\ got'[o].i = i /\ e \in got'[o].counts
      BY <2>2 DEF Carries
    <3>2. o # c
      BY <1>1, <3>1, AdvanceKeeps
    <3> QED BY <1>1, <2>1, <3>1, <3>2, AdvanceKeeps DEF At, Carries
  <2>3. CASE e \in tbl'[i].counts /\ i # r
    BY <1>6, <2>1, <2>3 DEF At
  <2>4. CASE e \in tbl'[i].counts /\ i = r
    <3>1. n = stage[c]
      BY <1>1, <1>2, <2>1, <2>4, TablesDiffer
    <3>2. e = c \/ e \in got[c].counts
      BY <1>7, <2>4
    <3> QED BY <1>1, <1>2, <2>1, <2>4, <3>1, <3>2 DEF At, Carries
  <2> QED BY <1>11, <2>2, <2>3, <2>4 DEF At
<1>12. r \in 1..Len(tbl') /\ Len(tbl) <= Len(tbl') /\ stage' = [stage EXCEPT ![c] = @ + 1]
  BY <1>1, <1>2, <1>6, AdvanceKeeps DEF QType
<1>13. \A e \in Calls : \A n \in 1..3 : \A i \in 1..Len(tbl') :
           At(e, n, i)' => \/ i \in 1..Len(tbl) /\ At(e, n, i)
                           \/ e = c /\ n = stage[c] /\ i = r
  <2> HIDE DEF r
  <2> QED BY <1>6, <1>11
<1>14. tbl'[r].in = Tables[stage[c]] /\ c \in tbl'[r].counts /\ got[c].counts \subseteq tbl'[r].counts
  BY <1>2, <1>7
<1>15. \A i \in 1..Len(tbl) : tbl'[i].in = tbl[i].in /\ (i # r => tbl'[i] = tbl[i])
  BY <1>6, <1>8
<1>16. race' = race
  BY <1>1
<1> HIDE DEF r
<1>17. r = got[c].i
  BY DEF r
<1>18. Effect(c, r)
  BY <1>12, <1>13, <1>14, <1>15, <1>16, <1>17 DEF Effect
<1> QED BY <1>9, <1>10, <1>17, <1>18

LEMMA InsertEffect ==
  ASSUME Calendar, OInv, NEW c \in Calls, InsertRow(c)
  PROVE  QType' /\ GotRow' /\ Effect(c, Len(tbl) + 1)
<1> USE DEF OInv
<1> DEFINE p == Period(stage[c], date[c])
           new == [in |-> Tables[stage[c]], period |-> p, counts |-> {c}]
           r == Len(tbl) + 1
<1>1. stage[c] \in 1..3 /\ Writing(c) /\ Advance(c) /\ UNCHANGED <<date, day, race>>
  BY DEF InsertRow, Writing, QType
<1>2. p \in Nat
  BY PeriodIsNat DEF QType
<1>3. new \in RowType
  BY <1>1, <1>2, TablesDiffer DEF RowType
<1>4. /\ tbl' \in Seq(RowType) /\ Len(tbl') = Len(tbl) + 1 /\ Len(tbl) \in Nat
      /\ tbl'[r] = new
      /\ \A i \in 1..Len(tbl) : tbl'[i] = tbl[i]
  BY <1>3 DEF InsertRow, QType
<1>5. QType'
  BY <1>1, <1>4, AdvanceKeeps DEF QType
<1>6. GotRow'
  <2> SUFFICES ASSUME NEW o \in Calls, Writing(o)'
               PROVE  /\ got'[o].i \in 0..Len(tbl')
                      /\ got'[o].i > 0 => tbl'[got'[o].i].in = Tables[stage'[o]]
                      /\ got'[o].i = 0 => got'[o].counts = {}
    BY DEF GotRow
  <2>1. o # c /\ Writing(o) /\ got'[o] = got[o] /\ stage'[o] = stage[o]
    BY <1>1, AdvanceKeeps
  <2> QED BY <1>4, <2>1 DEF GotRow
<1>7. ASSUME NEW e \in Calls, NEW n \in 1..3, NEW i \in 1..Len(tbl'), At(e, n, i)'
      PROVE  (i \in 1..Len(tbl) /\ At(e, n, i)) \/ (e = c /\ n = stage[c] /\ i = r)
  <2>1. CASE Carries(e, n, i)'
    <3>1. PICK o \in Calls : Writing(o)' /\ stage'[o] = n /\ got'[o].i = i /\ e \in got'[o].counts
      BY <2>1 DEF Carries
    <3>2. o # c /\ Writing(o) /\ got'[o] = got[o] /\ stage'[o] = stage[o]
      BY <1>1, <3>1, AdvanceKeeps
    <3>3. i \in 1..Len(tbl)
      BY <1>4, <3>1, <3>2 DEF GotRow
    <3> QED BY <1>4, <1>7, <3>1, <3>2, <3>3 DEF At, Carries
  <2>2. CASE e \in tbl'[i].counts /\ i \in 1..Len(tbl)
    BY <1>4, <1>7, <2>2 DEF At
  <2>3. CASE e \in tbl'[i].counts /\ i = r
    <3>1. e = c /\ tbl'[i].in = Tables[stage[c]]
      BY <1>4, <2>3
    <3> QED BY <1>1, <1>7, <2>3, <3>1, TablesDiffer DEF At
  <2> QED BY <1>4, <1>7, <2>1, <2>2, <2>3 DEF At
<1>8. r \in 1..Len(tbl') /\ Len(tbl) <= Len(tbl') /\ stage' = [stage EXCEPT ![c] = @ + 1]
  BY <1>1, <1>4, AdvanceKeeps
<1>9. \A e \in Calls : \A n \in 1..3 : \A i \in 1..Len(tbl') :
           At(e, n, i)' => \/ i \in 1..Len(tbl) /\ At(e, n, i)
                           \/ e = c /\ n = stage[c] /\ i = r
  <2> HIDE DEF r
  <2> QED BY <1>7
<1>10. tbl'[r].in = Tables[stage[c]] /\ c \in tbl'[r].counts
  BY <1>4
<1>11. r \notin 1..Len(tbl) /\ race' = race /\ r = Len(tbl) + 1
  BY <1>1, <1>4
<1> HIDE DEF r
<1>12. Effect(c, r)
  BY <1>4, <1>8, <1>9, <1>10, <1>11 DEF Effect
<1> QED BY <1>5, <1>6, <1>11, <1>12

(* The two writes, together. *)
LEMMA WriteEffect ==
  ASSUME Calendar, OInv, NEW c \in Calls, UpdateRow(c) \/ InsertRow(c)
  PROVE  /\ stage[c] \in 1..3 /\ Writing(c) /\ Advance(c)
         /\ QType' /\ GotRow' /\ \E r \in Int : Effect(c, r)
<1>1. stage[c] \in 1..3 /\ Writing(c) /\ Advance(c)
  BY DEF UpdateRow, InsertRow, Writing, OInv, QType
<1>2. Len(tbl) + 1 \in Int /\ got[c].i \in Int
  <2>1. got[c] \in GotType /\ tbl \in Seq(RowType)
    BY DEF OInv, QType
  <2> QED BY <2>1 DEF GotType
<1>3. CASE UpdateRow(c)
  BY <1>1, <1>2, <1>3, UpdateEffect
<1>4. CASE InsertRow(c)
  BY <1>1, <1>2, <1>4, InsertEffect
<1> QED BY <1>3, <1>4

LEMMA WriteKeeps ==
  ASSUME Calendar, OInv, NEW c \in Calls, UpdateRow(c) \/ InsertRow(c) PROVE OInv'
  BY WriteEffect, PlacesGrow

LEMMA GiveUpKeeps ==
  ASSUME OInv, NEW c \in Calls, GiveUp(c)
  PROVE  /\ OInv' /\ Shrinks
         /\ race' = race /\ stage'[c] = 5 /\ ~Writing(c)'
         /\ \A o \in Calls \ {c} : got'[o] = got[o] /\ stage'[o] = stage[o]
<1> USE DEF OInv
<1>1. NotRead \in GotType
  BY DEF NotRead, GotType
<1>2. /\ tbl' = tbl /\ day' = day /\ date' = date /\ race' = race
      /\ stage' \in [Calls -> 1..5] /\ got' \in [Calls -> GotType] /\ ~Writing(c)'
      /\ stage'[c] = 5
      /\ \A o \in Calls \ {c} : /\ got'[o] = got[o] /\ stage'[o] = stage[o]
                                /\ Writing(o)' <=> Writing(o)
      /\ \A o \in Calls : stage'[o] >= stage[o]
  <2>1. UNCHANGED <<tbl, date, day, race>> /\ stage[c] < 4 /\ stage[c] \in 1..5
    BY DEF GiveUp, QType
  <2>2. /\ stage' \in [Calls -> 1..5] /\ stage'[c] = 5
        /\ \A o \in Calls \ {c} : stage'[o] = stage[o]
    BY DEF GiveUp, QType
  <2>3. /\ got' \in [Calls -> GotType] /\ got'[c] = NotRead
        /\ \A o \in Calls \ {c} : got'[o] = got[o]
    BY <1>1 DEF GiveUp, QType
  <2>4. \A o \in Calls : stage[o] \in 1..5
    BY DEF QType
  <2>5. \A o \in Calls : stage'[o] >= stage[o]
    BY <2>1, <2>2, <2>4
  <2> QED BY <2>1, <2>2, <2>3, <2>5 DEF Writing
<1>3. QType' /\ GotRow'
  BY <1>2 DEF QType, GotRow
<1>4. \A e \in Calls : \A n \in 1..3 : \A i \in 1..Len(tbl) : At(e, n, i)' => At(e, n, i)
  BY <1>2 DEF At, Carries
<1>5. Shrinks
  BY <1>2, <1>4 DEF Shrinks
<1>6. OInv'
  BY <1>3, <1>5, PlacesShrink
<1> QED BY <1>2, <1>5, <1>6

LEMMA StepOInv == ASSUME Calendar, OInv, [QuotaNext]_qvars PROVE OInv'
<1>1. ASSUME day' \in 1..LastDay, UNCHANGED <<tbl, stage, got, date, race>> PROVE OInv'
  <2>1. QType'
    BY <1>1 DEF OInv, QType
  <2>2. GotRow'
    BY <1>1 DEF OInv, GotRow, Writing
  <2>3. \A e, n, i : At(e, n, i)' <=> At(e, n, i)
    BY <1>1 DEF At, Carries, Writing
  <2>4. OneRow'
    BY <1>1, <2>3 DEF OInv, OneRow
  <2>5. OnlyPast'
    BY <1>1, <2>3 DEF OInv, OnlyPast
  <2> QED BY <2>1, <2>2, <2>4, <2>5 DEF OInv
<1>2. CASE Midnight \/ UNCHANGED qvars
  <2>1. day' \in 1..LastDay /\ UNCHANGED <<tbl, stage, got, date, race>>
    BY <1>2 DEF Midnight, Calendar, OInv, QType, qvars
  <2> QED BY <1>1, <2>1
<1>3. ASSUME NEW c \in Calls, ProcessUsage(c) PROVE OInv'
  BY <1>3, SelectKeeps, WriteKeeps, GiveUpKeeps DEF ProcessUsage
<1> QED BY <1>2, <1>3 DEF QuotaNext

(* No request is in two rows of a table: process_usage never bills twice,   *)
(* for any number of workers, requests and days.                            *)
THEOREM NeverChargedTwice ==
  ASSUME Calendar PROVE QuotaSpec => []ChargedOnce
<1>1. QuotaInit => OInv
  BY InitOInv
<1>2. OInv /\ [QuotaNext]_qvars => OInv'
  BY StepOInv
<1>3. OInv => ChargedOnce
  <2> SUFFICES ASSUME OInv, NEW i \in DOMAIN tbl, NEW j \in DOMAIN tbl, i # j,
                      tbl[i].in = tbl[j].in, NEW e \in tbl[i].counts \cap tbl[j].counts
               PROVE  FALSE
    BY DEF ChargedOnce
  <2>1. i \in 1..Len(tbl) /\ j \in 1..Len(tbl) /\ tbl[i] \in RowType
    BY DEF OInv, QType
  <2>2. tbl[i].in \in Names /\ e \in Calls
    BY <2>1 DEF RowType
  <2>3. PICK n \in 1..3 : tbl[i].in = Tables[n]
    BY <2>2 DEF Names, Tables
  <2> QED BY <2>1, <2>2, <2>3 DEF OInv, OneRow, At
<1> QED BY <1>1, <1>2, <1>3, PTL DEF QuotaSpec
-----------------------------------------------------------------------------
(* The second invariant, for a table nobody has raced for: one call at a    *)
(* time is between its select and its write, what it has selected is what   *)
(* the row still holds, and who is past the table, or in a later one, is in *)
(* one of its rows.                                                         *)
Has(n, e) == \E i \in 1..Len(tbl) : tbl[i].in = Tables[n] /\ e \in tbl[i].counts

Sole(n) == \A c, o \in Calls :
    Writing(c) /\ Writing(o) /\ stage[c] = n /\ stage[o] = n => c = o

Fresh(n) == \A c \in Calls :
    Writing(c) /\ stage[c] = n /\ got[c].i > 0 => got[c].counts = tbl[got[c].i].counts

Passed(n) == \A c \in Calls : stage[c] \in (n + 1)..4 => Has(n, c)

Behind(n) == \A e \in Calls : \A m \in (n + 1)..3 : \A i \in 1..Len(tbl) :
    At(e, m, i) => Has(n, e)

Followed(n) == Sole(n) /\ Fresh(n) /\ Passed(n) /\ Behind(n)

FInv == \A n \in 1..3 : Tables[n] \notin race => Followed(n)

LEMMA InitFInv == ASSUME QuotaInit PROVE FInv
<1>1. Len(tbl) = 0 /\ \A c \in Calls : stage[c] = 1 /\ ~Writing(c)
  BY DEF QuotaInit, Writing
<1>2. 1..Len(tbl) = {}
  BY <1>1
<1>3. \A n \in 1..3 : 1 \notin (n + 1)..4
  OBVIOUS
<1> QED BY <1>1, <1>2, <1>3 DEF FInv, Followed, Sole, Fresh, Passed, Behind

LEMMA SelectFollows ==
  ASSUME Calendar, OInv, FInv, NEW c \in Calls, SelectRow(c), NEW n \in 1..3, Tables[n] \notin race'
  PROVE  Followed(n)'
<1>1. /\ Shrinks /\ stage[c] \in 1..3 /\ stage' = stage /\ tbl' = tbl
      /\ \A o \in Calls \ {c} : got'[o] = got[o]
      /\ got'[c].i > 0 => got'[c].counts = tbl[got'[c].i].counts
  BY SelectKeeps DEF Shrinks
<1>2. Tables[n] \notin race
  BY DEF SelectRow
<1>3. Followed(n)
  BY <1>2 DEF FInv
<1>4. \A o \in Calls \ {c} : Writing(o)' <=> Writing(o)
  BY <1>1 DEF Writing
<1>5. stage[c] = n => \A o \in Calls \ {c} : ~(Writing(o) /\ stage[o] = n)
  BY DEF SelectRow
<1>6. Sole(n)'
  BY <1>1, <1>3, <1>4, <1>5 DEF Followed, Sole
<1>7. Fresh(n)'
  BY <1>1, <1>3, <1>4 DEF Followed, Fresh
<1>8. \A e \in Calls : Has(n, e)' <=> Has(n, e)
  BY <1>1 DEF Has
<1>9. Passed(n)'
  BY <1>1, <1>3, <1>8 DEF Followed, Passed
<1>10. \A m \in (n + 1)..3 : m \in 1..3
  OBVIOUS
<1>11. Behind(n)'
  BY <1>1, <1>3, <1>8, <1>10 DEF Followed, Behind, Shrinks
<1> QED BY <1>6, <1>7, <1>9, <1>11 DEF Followed

LEMMA GiveUpFollows ==
  ASSUME OInv, FInv, NEW c \in Calls, GiveUp(c), NEW n \in 1..3, Tables[n] \notin race'
  PROVE  Followed(n)'
<1>1. /\ Shrinks /\ tbl' = tbl /\ race' = race /\ stage'[c] = 5 /\ ~Writing(c)'
      /\ \A o \in Calls \ {c} : got'[o] = got[o] /\ stage'[o] = stage[o]
  BY GiveUpKeeps DEF Shrinks
<1>2. Followed(n)
  BY <1>1 DEF FInv
<1>3. \A o \in Calls \ {c} : Writing(o)' <=> Writing(o)
  BY <1>1 DEF Writing
<1>4. \A e \in Calls : Has(n, e)' <=> Has(n, e)
  BY <1>1 DEF Has
<1>5. Sole(n)' /\ Fresh(n)'
  BY <1>1, <1>2, <1>3 DEF Followed, Sole, Fresh
<1>6. Passed(n)'
  <2>1. stage'[c] \notin (n + 1)..4
    BY <1>1
  <2> QED BY <1>1, <1>2, <1>4, <2>1 DEF Followed, Passed
<1>7. \A m \in (n + 1)..3 : m \in 1..3
  OBVIOUS
<1>8. Behind(n)'
  BY <1>1, <1>2, <1>4, <1>7 DEF Followed, Behind, Shrinks
<1> QED BY <1>5, <1>6, <1>8 DEF Followed

LEMMA WriteFollows ==
  ASSUME Calendar, OInv, FInv, NEW c \in Calls, UpdateRow(c) \/ InsertRow(c),
         NEW n \in 1..3, Tables[n] \notin race'
  PROVE  Followed(n)'
<1>1. stage[c] \in 1..3 /\ Writing(c) /\ Advance(c) /\ QType /\ GotRow
  BY WriteEffect DEF OInv
<1>2. PICK r \in Int : Effect(c, r)
  BY WriteEffect
<1>3. Followed(n)
  BY <1>2 DEF FInv, Effect
<1>4. /\ ~Writing(c)'
      /\ \A o \in Calls \ {c} : /\ got'[o] = got[o] /\ stage'[o] = stage[o]
                                /\ Writing(o)' <=> Writing(o)
  BY <1>1, AdvanceKeeps
<1>5. stage'[c] = stage[c] + 1
  BY <1>1, <1>2 DEF Effect, QType
<1>6. Len(tbl) \in Nat /\ Len(tbl') \in Nat /\ 1..Len(tbl) \subseteq 1..Len(tbl')
  <2>1. tbl \in Seq(RowType) /\ tbl' \in Seq(RowType)
    BY <1>1, WriteEffect DEF QType
  <2>2. Len(tbl) \in Nat /\ Len(tbl') \in Nat
    BY <2>1
  <2> QED BY <1>2, <2>2 DEF Effect
<1>7. r \in 1..Len(tbl) => r = got[c].i /\ tbl[r].in = Tables[stage[c]]
  BY <1>2 DEF Effect
<1>8. ASSUME NEW e \in Calls, Has(n, e) PROVE Has(n, e)'
  <2>1. PICK i \in 1..Len(tbl) : tbl[i].in = Tables[n] /\ e \in tbl[i].counts
    BY <1>8 DEF Has
  <2>2. CASE i # r
    BY <1>2, <1>6, <2>1, <2>2 DEF Has, Effect
  <2>3. CASE i = r
    <3>1. n = stage[c] /\ r = got[c].i /\ r > 0
      BY <1>1, <1>7, <2>1, <2>3, TablesDiffer
    <3>2. got[c].counts = tbl[r].counts
      BY <1>1, <1>3, <3>1 DEF Followed, Fresh
    <3>3. e \in tbl'[i].counts /\ tbl'[i].in = Tables[n]
      BY <1>2, <2>1, <2>3, <3>2 DEF Effect
    <3> QED BY <1>6, <2>1, <3>3 DEF Has
  <2> QED BY <2>2, <2>3
<1>9. n = stage[c] => Has(n, c)'
  BY <1>2 DEF Effect, Has
<1>10. Sole(n)'
  BY <1>3, <1>4 DEF Followed, Sole
<1>11. Fresh(n)'
  <2> SUFFICES ASSUME NEW o \in Calls, Writing(o)', stage'[o] = n, got'[o].i > 0
               PROVE  got'[o].counts = tbl'[got'[o].i].counts
    BY DEF Fresh
  <2>1. o # c /\ Writing(o) /\ got'[o] = got[o] /\ stage[o] = n /\ got[o].i > 0
    BY <1>4
  <2>2. got[o].i \in 1..Len(tbl) /\ tbl[got[o].i].in = Tables[n]
    BY <1>1, <1>6, <2>1 DEF GotRow
  <2>3. got[o].i # r
    <3> SUFFICES ASSUME got[o].i = r PROVE FALSE
      OBVIOUS
    <3>1. stage[c] = n
      BY <1>1, <1>7, <2>2, TablesDiffer
    <3> QED BY <1>1, <1>3, <2>1, <3>1 DEF Followed, Sole
  <2>4. tbl'[got[o].i] = tbl[got[o].i]
    BY <1>2, <2>2, <2>3 DEF Effect
  <2> QED BY <1>3, <2>1, <2>4 DEF Followed, Fresh
<1>12. Passed(n)'
  <2> SUFFICES ASSUME NEW e \in Calls, stage'[e] \in (n + 1)..4 PROVE Has(n, e)'
    BY DEF Passed
  <2>1. CASE e = c
    <3>1. n = stage[c] \/ stage[c] \in (n + 1)..4
      BY <1>1, <1>5, <2>1
    <3> QED BY <1>3, <1>8, <1>9, <2>1, <3>1 DEF Followed, Passed
  <2>2. CASE e # c
    BY <1>3, <1>4, <1>8, <2>2 DEF Followed, Passed
  <2> QED BY <2>1, <2>2
<1>13. Behind(n)'
  <2> SUFFICES ASSUME NEW e \in Calls, NEW m \in (n + 1)..3, NEW i \in 1..Len(tbl'), At(e, m, i)'
               PROVE  Has(n, e)'
    BY DEF Behind
  <2>1. m \in 1..3
    OBVIOUS
  <2>2. (i \in 1..Len(tbl) /\ At(e, m, i)) \/ (e = c /\ m = stage[c])
    BY <1>2, <2>1 DEF Effect
  <2>3. m = stage[c] => stage[c] \in (n + 1)..4
    OBVIOUS
  <2>4. Has(n, e)
    BY <1>3, <2>2, <2>3 DEF Followed, Passed, Behind
  <2> QED BY <1>8, <2>4
<1> QED BY <1>10, <1>11, <1>12, <1>13 DEF Followed

LEMMA StepFInv ==
  ASSUME Calendar, OInv, FInv, [QuotaNext]_qvars PROVE FInv'
<1>1. CASE UNCHANGED <<tbl, stage, got, race>>
  <2>1. \A e, n, i : At(e, n, i)' <=> At(e, n, i)
    BY <1>1 DEF At, Carries, Writing
  <2>2. \A n, e : Has(n, e)' <=> Has(n, e)
    BY <1>1 DEF Has
  <2>3. ASSUME NEW n \in 1..3, Followed(n) PROVE Followed(n)'
    <3>1. Sole(n)'
      BY <1>1, <2>3 DEF Followed, Sole, Writing
    <3>2. Fresh(n)'
      BY <1>1, <2>3 DEF Followed, Fresh, Writing
    <3>3. Passed(n)'
      BY <1>1, <2>2, <2>3 DEF Followed, Passed
    <3>4. Behind(n)'
      BY <1>1, <2>1, <2>2, <2>3 DEF Followed, Behind
    <3> QED BY <3>1, <3>2, <3>3, <3>4 DEF Followed
  <2> QED BY <1>1, <2>3 DEF FInv
<1>2. ASSUME NEW c \in Calls, ProcessUsage(c) PROVE FInv'
  BY <1>2, SelectFollows, WriteFollows, GiveUpFollows DEF ProcessUsage, FInv
<1> QED BY <1>1, <1>2 DEF QuotaNext, Midnight, qvars

(* The quota cache is never ahead of token_usage, and a table has every     *)
(* request that is past it, as long as no two workers are between select    *)
(* and write of it at once: for any number of workers, requests and days.   *)
THEOREM CacheNeverAhead ==
  ASSUME Calendar PROVE QuotaSpec => []CacheFollows
<1>1. QuotaInit => OInv /\ FInv
  BY InitOInv, InitFInv
<1>2. OInv /\ FInv /\ [QuotaNext]_qvars => (OInv /\ FInv)'
  BY StepOInv, StepFInv
<1>3. OInv /\ FInv => CacheFollows
  <2> SUFFICES ASSUME OInv, FInv, NEW n \in 1..3, Tables[n] \notin race
               PROVE  /\ \A c \in Calls : stage[c] \in (n + 1)..4 => c \in Counted(n)
                      /\ \A later \in (n + 1)..3 : Counted(later) \subseteq Counted(n)
    BY DEF CacheFollows
  <2>1. Followed(n) /\ DOMAIN tbl = 1..Len(tbl)
    BY DEF FInv, OInv, QType
  <2>2. \A e : Has(n, e) => e \in Counted(n)
    BY <2>1 DEF Has, Counted
  <2>3. ASSUME NEW m \in (n + 1)..3, NEW e \in Counted(m) PROVE Has(n, e)
    <3>1. PICK i \in 1..Len(tbl) : tbl[i].in = Tables[m] /\ e \in tbl[i].counts
      BY <2>1 DEF Counted
    <3>2. tbl[i] \in RowType
      BY <3>1 DEF OInv, QType
    <3>3. e \in Calls
      BY <3>1, <3>2 DEF RowType
    <3> QED BY <2>1, <3>1, <3>3 DEF Followed, Behind, At
  <2> QED BY <2>1, <2>2, <2>3 DEF Followed, Passed
<1> QED BY <1>1, <1>2, <1>3, PTL DEF QuotaSpec
-----------------------------------------------------------------------------
(* UsageReports. *)

Phases == {"gate", "ask", "resolve", "check", "insert"} \cup Acks
Entries == [set : BOOLEAN, enabled : BOOLEAN, fresh : BOOLEAN]

UType ==
    /\ recorded \subseteq Reports /\ IsFiniteSet(recorded)
    /\ phase \in [Reports -> Phases]
    /\ premium \in [Reports -> BOOLEAN]
    /\ known \in [Reports -> Entries]
    /\ cache \in Entries
    /\ licensed \in BOOLEAN /\ granted \in BOOLEAN /\ excuse \in BOOLEAN

(* A report that has been checked has a user who is counted already, or     *)
(* there is room for one more ...                                           *)
Room(p) == UserOf[p] \in UsersSeen \/ Cardinality(UsersSeen) < MaxFree

(* ... and no other has been checked at the same time.                      *)
Alone == \A p, q \in Reports : phase[p] = "insert" /\ phase[q] = "insert" => p = q

Checked == ~granted /\ ~excuse =>
             Alone /\ \A p \in Reports : phase[p] = "insert" => Room(p)

UInv == UType /\ PremiumIsEarned /\ Checked /\ FreeTierHeld

LEMMA UsersSeenFinite == UType => IsFiniteSet(UsersSeen)
<1> DEFINE f == [p \in recorded |-> UserOf[p]]
<1>1. f \in Surjection(recorded, UsersSeen)
  BY DEF UsersSeen, Surjection
<1> QED BY <1>1, FS_Surjection DEF UType

LEMMA UTypeInit == UsageInit => UType
<1>1. NoEntry \in Entries BY DEF NoEntry, Entries
<1> QED BY <1>1, FS_EmptySet DEF UsageInit, UType, Phases

LEMMA UTypeNext == UType /\ [UsageNext]_uvars => UType'
<1> SUFFICES ASSUME UType, [UsageNext]_uvars PROVE UType' OBVIOUS
<1>1. ASSUME NEW p \in Reports, NEW s \in Phases, To(p, s)
      PROVE phase' \in [Reports -> Phases]
  BY <1>1 DEF To, UType
<1>2. {"resolve", "ask", "unresolved", "check", "exceeded", "insert", "accepted", "error"}
        \subseteq Phases
  BY DEF Phases, Acks
<1>3. CASE UNCHANGED uvars
  BY <1>3 DEF uvars, UType
<1>4. CASE EntryExpires
  <2>1. cache' \in Entries BY <1>4 DEF EntryExpires, UType, Entries
  <2> QED BY <1>4, <2>1 DEF EntryExpires, UType
<1>5. CASE LicenceChanges
  BY <1>5 DEF LicenceChanges, UType
<1>6. ASSUME NEW p \in Reports, Gate(p) PROVE UType'
  <2>1. phase' \in [Reports -> Phases] BY <1>1, <1>2, <1>6 DEF Gate
  <2>2. premium' \in [Reports -> BOOLEAN] BY <1>6 DEF Gate, UType, Entries
  <2>3. known' \in [Reports -> Entries] BY <1>6 DEF Gate, UType
  <2> QED BY <1>6, <2>1, <2>2, <2>3 DEF Gate, UType
<1>7. ASSUME NEW p \in Reports, Answer(p) PROVE UType'
  <2>1. phase' \in [Reports -> Phases] BY <1>1, <1>2, <1>7 DEF Answer
  <2>2. cache' \in Entries BY <1>7 DEF Answer, UType, Entries
  <2>3. premium' \in [Reports -> BOOLEAN] BY <1>7 DEF Answer, UType
  <2>4. granted' \in BOOLEAN BY <1>7 DEF Answer, UType
  <2> QED BY <1>7, <2>1, <2>2, <2>3, <2>4 DEF Answer, UType
<1>8. ASSUME NEW p \in Reports, NoAnswer(p) PROVE UType'
  <2>1. phase' \in [Reports -> Phases] BY <1>1, <1>2, <1>8 DEF NoAnswer
  <2>2. LastKnown(p) \in BOOLEAN BY DEF LastKnown
  <2>3. premium' \in [Reports -> BOOLEAN] BY <1>8, <2>2 DEF NoAnswer, UType
  <2> QED BY <1>8, <2>1, <2>3 DEF NoAnswer, UType
<1>9. ASSUME NEW p \in Reports, Resolve(p) PROVE UType'
  <2>1. phase' \in [Reports -> Phases] BY <1>1, <1>2, <1>9 DEF Resolve
  <2> QED BY <1>9, <2>1 DEF Resolve, UType
<1>10. ASSUME NEW p \in Reports, Check(p) \/ CheckFails(p) PROVE UType'
  <2>1. PICK s \in {"exceeded", "insert"} : To(p, s)
    BY <1>10 DEF Check, CheckFails
  <2>2. phase' \in [Reports -> Phases] BY <1>1, <1>2, <2>1
  <2>3. excuse' \in BOOLEAN BY <1>10 DEF Check, CheckFails, Overlaps, UType
  <2> QED BY <1>10, <2>2, <2>3 DEF Check, CheckFails, UType
<1>11. ASSUME NEW p \in Reports, Record(p) PROVE UType'
  <2>1. phase' \in [Reports -> Phases] BY <1>1, <1>2, <1>11 DEF Record
  <2>2. recorded' \subseteq Reports BY <1>11 DEF Record, UType
  <2>3. IsFiniteSet(recorded') BY <1>11, FS_AddElement DEF Record, UType
  <2> QED BY <1>11, <2>1, <2>2, <2>3 DEF Record, UType
<1> QED BY <1>3, <1>4, <1>5, <1>6, <1>7, <1>8, <1>9, <1>10, <1>11 DEF UsageNext, RecordUsage

(* No outage of the licence server makes a report premium. *)
LEMMA EarnedNext ==
  ASSUME UType, PremiumIsEarned, [UsageNext]_uvars
  PROVE  PremiumIsEarned'
<1> SUFFICES ASSUME ~granted'
             PROVE  ~cache'.enabled /\ \A p \in Reports : ~premium'[p] /\ ~known'[p].enabled
  BY DEF PremiumIsEarned
<1>1. ~granted
  BY DEF UsageNext, uvars, EntryExpires, LicenceChanges, RecordUsage, Gate, Answer, NoAnswer,
         Resolve, Check, CheckFails, Record
<1>2. ~cache.enabled /\ \A p \in Reports : ~premium[p] /\ ~known[p].enabled
  BY <1>1 DEF PremiumIsEarned
<1>3. CASE UNCHANGED <<cache, premium, known>>
  BY <1>2, <1>3
<1>4. CASE EntryExpires
  BY <1>2, <1>4 DEF EntryExpires, UType, Entries
<1>5. ASSUME NEW p \in Reports, Gate(p)
      PROVE  ~cache'.enabled /\ \A q \in Reports : ~premium'[q] /\ ~known'[q].enabled
  <2>1. cache' = cache BY <1>5 DEF Gate
  <2>2. \A q \in Reports : ~premium'[q] BY <1>2, <1>5 DEF Gate, UType
  <2>3. \A q \in Reports : ~known'[q].enabled BY <1>2, <1>5 DEF Gate, UType
  <2> QED BY <1>2, <2>1, <2>2, <2>3
<1>6. ASSUME NEW p \in Reports, Answer(p)
      PROVE  ~cache'.enabled /\ \A q \in Reports : ~premium'[q] /\ ~known'[q].enabled
  <2>1. ~licensed /\ known' = known BY <1>6 DEF Answer
  <2>2. ~cache'.enabled BY <1>6, <2>1 DEF Answer
  <2>3. \A q \in Reports : ~premium'[q] BY <1>2, <1>6, <2>1 DEF Answer, UType
  <2> QED BY <1>2, <2>1, <2>2, <2>3
<1>7. ASSUME NEW p \in Reports, NoAnswer(p)
      PROVE  ~cache'.enabled /\ \A q \in Reports : ~premium'[q] /\ ~known'[q].enabled
  <2>1. ~LastKnown(p) BY <1>2 DEF LastKnown
  <2>2. \A q \in Reports : ~premium'[q] BY <1>2, <1>7, <2>1 DEF NoAnswer, UType
  <2> QED BY <1>2, <1>7, <2>2 DEF NoAnswer
<1> QED BY <1>3, <1>4, <1>5, <1>6, <1>7
        DEF UsageNext, uvars, LicenceChanges, RecordUsage, Resolve, Check, CheckFails, Record

(* A report is about to be inserted when its check has found room. *)
LEMMA CheckFindsRoom ==
  ASSUME UInv, NEW p \in Reports, Check(p), ~granted, ~excuse, phase'[p] = "insert"
  PROVE  Room(p)
<1>1. Cardinality(UsersSeen) <= MaxFree BY DEF UInv, FreeTierHeld
<1>2. ~premium[p] BY DEF UInv, PremiumIsEarned
<1>3. PICK users \in SUBSET UsersSeen :
        /\ users = UsersSeen \/ Cardinality(users) = MaxFree + 1
        /\ To(p, IF CapExceeded(p, users) THEN "exceeded" ELSE "insert")
  BY <1>2 DEF Check
<1>4. ~CapExceeded(p, users)
  BY <1>3 DEF To, UInv, UType
<1>5. IsFiniteSet(UsersSeen) BY UsersSeenFinite DEF UInv
<1>6. Cardinality(users) <= Cardinality(UsersSeen) /\ Cardinality(users) \in Nat
      /\ Cardinality(UsersSeen) \in Nat
  BY <1>5, FS_Subset, FS_CardinalityType
<1>7. users = UsersSeen BY <1>1, <1>3, <1>6, UsageAssumption
<1> QED BY <1>4, <1>6, <1>7, UsageAssumption DEF CapExceeded, Room

LEMMA UInvInit == UsageInit => UInv
<1> SUFFICES ASSUME UsageInit PROVE UInv OBVIOUS
<1>1. UType BY UTypeInit
<1>2. PremiumIsEarned BY DEF UsageInit, PremiumIsEarned, NoEntry
<1>3. Checked BY DEF UsageInit, Checked, Alone
<1>4. UsersSeen = {} BY DEF UsageInit, UsersSeen
<1>5. FreeTierHeld BY <1>4, FS_EmptySet, UsageAssumption DEF FreeTierHeld
<1> QED BY <1>1, <1>2, <1>3, <1>5 DEF UInv

LEMMA UInvNext == UInv /\ [UsageNext]_uvars => UInv'
<1> SUFFICES ASSUME UInv, [UsageNext]_uvars PROVE UInv' OBVIOUS
<1>1. UType /\ UType' BY UTypeNext DEF UInv
<1>2. PremiumIsEarned' BY EarnedNext DEF UInv
<1>3. SUFFICES ASSUME ~granted', ~excuse'
      PROVE /\ Alone' /\ Cardinality(UsersSeen') <= MaxFree
            /\ \A p \in Reports : phase'[p] = "insert" => Room(p)'
  BY <1>1, <1>2 DEF UInv, Checked, FreeTierHeld
<1>4. ~granted /\ ~excuse
  <2>1. ASSUME NEW p \in Reports, RecordUsage(p) PROVE ~granted /\ ~excuse
    <3>1. CASE Check(p) BY <1>3, <3>1 DEF Check
    <3>2. CASE CheckFails(p) BY <1>3, <3>2 DEF CheckFails
    <3>3. CASE Answer(p) BY <1>3, <3>3 DEF Answer
    <3> QED BY <1>3, <2>1, <3>1, <3>2, <3>3 DEF RecordUsage, Gate, NoAnswer, Resolve, Record
  <2> QED BY <1>3, <2>1 DEF UsageNext, uvars, EntryExpires, LicenceChanges
<1>5. /\ Alone /\ Cardinality(UsersSeen) <= MaxFree
      /\ \A p \in Reports : phase[p] = "insert" => Room(p)
  BY <1>4 DEF UInv, Checked, FreeTierHeld
<1>6. ASSUME recorded' = recorded PROVE UsersSeen' = UsersSeen /\ \A p \in Reports : Room(p)' = Room(p)
  BY <1>6 DEF UsersSeen, Room
<1>7. CASE recorded' = recorded /\ \A p \in Reports : phase'[p] = "insert" => phase[p] = "insert"
  BY <1>5, <1>6, <1>7 DEF Alone
<1>8. ASSUME NEW p \in Reports, Check(p) \/ CheckFails(p)
      PROVE /\ Alone' /\ Cardinality(UsersSeen') <= MaxFree
            /\ \A q \in Reports : phase'[q] = "insert" => Room(q)'
  <2>1. Check(p) /\ ~Overlaps(p)
    BY <1>3, <1>8 DEF Check, CheckFails
  <2>2. recorded' = recorded /\ \A q \in Reports : q # p => phase'[q] = phase[q]
    BY <1>1, <2>1 DEF Check, To, UType
  <2>3. \A q \in Reports : phase'[q] = "insert" => q = p
    BY <2>1, <2>2 DEF Overlaps
  <2>4. \A q \in Reports : phase'[q] = "insert" => Room(q)
    BY <1>4, <2>1, <2>3, CheckFindsRoom
  <2> QED BY <1>5, <1>6, <2>2, <2>3, <2>4 DEF Alone
<1>9. ASSUME NEW p \in Reports, Record(p), recorded' = recorded \cup {p}
      PROVE /\ Alone' /\ Cardinality(UsersSeen') <= MaxFree
            /\ \A q \in Reports : phase'[q] = "insert" => Room(q)'
  <2>1. phase[p] = "insert" BY <1>9 DEF Record
  <2>2. PICK s \in {"accepted", "error"} : To(p, s)
    BY <1>9 DEF Record
  <2>3. s # "insert" BY <2>2
  <2>4. \A q \in Reports : phase'[q] # "insert"
    BY <1>1, <1>5, <2>1, <2>2, <2>3 DEF Alone, To, UType
  <2>5. UsersSeen' = UsersSeen \cup {UserOf[p]}
    BY <1>9 DEF UsersSeen
  <2>6. IsFiniteSet(UsersSeen) /\ Cardinality(UsersSeen) \in Nat
    BY <1>1, UsersSeenFinite, FS_CardinalityType
  <2>7. Room(p) BY <1>5, <2>1
  <2>8. Cardinality(UsersSeen') <= MaxFree
    <3>1. CASE UserOf[p] \in UsersSeen
      <4>1. UsersSeen' = UsersSeen BY <2>5, <3>1
      <4> QED BY <1>5, <4>1
    <3>2. CASE UserOf[p] \notin UsersSeen
      <4>1. Cardinality(UsersSeen \cup {UserOf[p]}) = Cardinality(UsersSeen) + 1
        BY <2>6, <3>2, FS_AddElement
      <4> QED BY <2>5, <2>6, <2>7, <3>2, <4>1, UsageAssumption DEF Room
    <3> QED BY <3>1, <3>2
  <2> QED BY <2>4, <2>8 DEF Alone
<1>10. ASSUME NEW p \in Reports, Gate(p) \/ Answer(p) \/ NoAnswer(p) \/ Resolve(p) \/ Record(p),
              recorded' = recorded
       PROVE \A q \in Reports : phase'[q] = "insert" => phase[q] = "insert"
  <2>1. PICK s \in {"resolve", "ask", "unresolved", "check", "accepted", "error"} : To(p, s)
    BY <1>10 DEF Gate, Answer, NoAnswer, Resolve, Record
  <2>2. s # "insert" BY <2>1
  <2> QED BY <1>1, <2>1, <2>2 DEF To, UType
<1>11. ASSUME NEW p \in Reports, Gate(p) \/ Answer(p) \/ NoAnswer(p) \/ Resolve(p)
       PROVE recorded' = recorded
  BY <1>11 DEF Gate, Answer, NoAnswer, Resolve
<1>12. ASSUME NEW p \in Reports, Record(p)
       PROVE recorded' = recorded \/ recorded' = recorded \cup {p}
  BY <1>12 DEF Record
<1>13. CASE EntryExpires \/ LicenceChanges \/ UNCHANGED uvars
  BY <1>7, <1>13 DEF EntryExpires, LicenceChanges, uvars
<1> QED BY <1>7, <1>8, <1>9, <1>10, <1>11, <1>12, <1>13 DEF UsageNext, RecordUsage

(* The free tier holds whatever the order of the reports' steps, for any    *)
(* number of reports and any cap: while there has been no licence, no       *)
(* failed check and no check that overlapped another report's insert, at    *)
(* most MaxFree users of the organisation are in token_usage.               *)
THEOREM FreeTierKept == UsageSpec => []FreeTierHeld
<1>1. UInv => FreeTierHeld BY DEF UInv
<1> QED BY UInvInit, UInvNext, <1>1, PTL DEF UsageSpec

(* No premium without a yes of the licence server: an outage, a stale entry *)
(* or an answer that came late never makes a report premium before one.     *)
THEOREM PremiumNeedsLicence == UsageSpec => []PremiumIsEarned
<1>1. UInv => PremiumIsEarned BY DEF UInv
<1> QED BY UInvInit, UInvNext, <1>1, PTL DEF UsageSpec

(* A premium report that is about to be inserted is the only one, and the   *)
(* quota it was checked against is not used up.                             *)
WithinQuota ==
    ~excuse => Alone /\ \A p \in Reports :
                 phase[p] = "insert" /\ premium[p] => ~QuotaExceeded(p)

LEMMA WithinQuotaNext ==
  ASSUME UType, UType', WithinQuota, [UsageNext]_uvars
  PROVE  WithinQuota'
<1> SUFFICES ASSUME ~excuse'
             PROVE  Alone' /\ \A p \in Reports :
                      phase'[p] = "insert" /\ premium'[p] => ~QuotaExceeded(p)'
  BY DEF WithinQuota
<1>1. ~excuse
  BY DEF UsageNext, uvars, EntryExpires, LicenceChanges, RecordUsage, Gate, Answer, NoAnswer,
         Resolve, Check, CheckFails, Record
<1>2. Alone /\ \A p \in Reports : phase[p] = "insert" /\ premium[p] => ~QuotaExceeded(p)
  BY <1>1 DEF WithinQuota
<1>3. ASSUME recorded' = recorded PROVE \A p \in Reports : QuotaExceeded(p)' = QuotaExceeded(p)
  BY <1>3 DEF QuotaExceeded, Used, MapThenSumSet, MapThenFoldSet
<1>4. CASE /\ recorded' = recorded
           /\ \A p \in Reports : phase'[p] = "insert" =>
                                   phase[p] = "insert" /\ premium'[p] = premium[p]
  BY <1>2, <1>3, <1>4 DEF Alone
<1>5. ASSUME NEW p \in Reports, Check(p) \/ CheckFails(p)
      PROVE Alone' /\ \A q \in Reports :
              phase'[q] = "insert" /\ premium'[q] => ~QuotaExceeded(q)'
  <2>1. Check(p) /\ ~Overlaps(p) BY <1>5 DEF Check, CheckFails
  <2>2. recorded' = recorded /\ premium' = premium
        /\ \A q \in Reports : q # p => phase'[q] = phase[q]
    BY <2>1 DEF Check, To, UType
  <2>3. \A q \in Reports : phase'[q] = "insert" => q = p
    BY <2>1, <2>2 DEF Overlaps
  <2>4. phase'[p] = "insert" /\ premium[p] => ~QuotaExceeded(p)
    BY <2>1 DEF Check, To, UType
  <2> QED BY <1>3, <2>2, <2>3, <2>4 DEF Alone
<1>6. ASSUME NEW p \in Reports, Record(p)
      PROVE Alone' /\ \A q \in Reports : phase'[q] # "insert"
  <2>1. phase[p] = "insert" BY <1>6 DEF Record
  <2>2. PICK s \in {"accepted", "error"} : To(p, s) BY <1>6 DEF Record
  <2>3. s # "insert" BY <2>2
  <2> QED BY <1>2, <2>1, <2>2, <2>3 DEF Alone, To, UType
<1>7. ASSUME NEW p \in Reports, Gate(p) \/ Answer(p) \/ NoAnswer(p) \/ Resolve(p)
      PROVE  /\ recorded' = recorded
             /\ \A q \in Reports : phase'[q] = "insert" =>
                                     phase[q] = "insert" /\ premium'[q] = premium[q]
  <2>1. PICK s \in {"resolve", "ask", "unresolved", "check"} : To(p, s)
    BY <1>7 DEF Gate, Answer, NoAnswer, Resolve
  <2>2. s # "insert" BY <2>1
  <2>3. \A q \in Reports : phase'[q] = "insert" => q # p /\ phase[q] = "insert"
    BY <2>1, <2>2 DEF To, UType
  <2>4. \A q \in Reports : q # p => premium'[q] = premium[q]
    BY <1>7 DEF Gate, Answer, NoAnswer, Resolve, UType
  <2> QED BY <1>7, <2>3, <2>4 DEF Gate, Answer, NoAnswer, Resolve
<1>8. CASE EntryExpires \/ LicenceChanges \/ UNCHANGED uvars
  BY <1>4, <1>8 DEF EntryExpires, LicenceChanges, uvars
<1> QED BY <1>4, <1>5, <1>6, <1>7, <1>8 DEF UsageNext, RecordUsage

(* The monthly quota of a premium user, for any reports, tokens and quota:  *)
(* where no check failed open or overlapped another report's insert, a      *)
(* report is inserted only while the quota is not used up, so that it is    *)
(* exceeded by less than one report, licence changes and reports of the     *)
(* free tier notwithstanding.                                               *)
THEOREM QuotaNotOvershot == UsageSpec => QuotaOvershoot
<1>1. UsageInit => WithinQuota BY DEF UsageInit, WithinQuota, Alone
<1>2. UType /\ UType' /\ WithinQuota /\ [UsageNext]_uvars => WithinQuota' BY WithinQuotaNext
<1>3. UType /\ WithinQuota /\ [UsageNext]_uvars
        => [\A p \in recorded' \ recorded : premium[p] /\ ~excuse => ~QuotaExceeded(p)]_uvars
  <2> SUFFICES ASSUME UType, WithinQuota, UsageNext, NEW p \in recorded' \ recorded,
                      premium[p], ~excuse
               PROVE  ~QuotaExceeded(p)
    OBVIOUS
  <2>1. PICK q \in Reports : Record(q) /\ recorded' = recorded \cup {q}
    BY DEF UsageNext, RecordUsage, EntryExpires, LicenceChanges, Gate, Answer, NoAnswer,
           Resolve, Check, CheckFails, Record
  <2> QED BY <2>1 DEF WithinQuota, Record
<1> QED BY UTypeInit, UTypeNext, <1>1, <1>2, <1>3, PTL DEF UsageSpec, QuotaOvershoot
-----------------------------------------------------------------------------
(* Accounts. *)

(* What was recorded was accepted and the licence cache is never fresh      *)
(* before it was set, for any reports and answers in any order.             *)
THEOREM ReportsTyped == UsageSpec => []UsageTypeOK
<1> DEFINE Books == recorded = {p \in Reports : phase[p] = "accepted"} /\ (cache.fresh => cache.set)
<1>1. UsageInit => Books
  BY DEF UsageInit, NoEntry
<1>2. ASSUME UInv, Books, [UsageNext]_uvars PROVE Books'
  <2>0. phase \in [Reports -> Phases] /\ recorded \subseteq Reports /\ cache \in Entries
    BY <1>2 DEF UInv, UType
  <2>1. ASSUME NEW p \in Reports, Record(p) PROVE Books'
    <3>1. \/ phase' = [phase EXCEPT ![p] = "accepted"] /\ recorded' = recorded \cup {p}
          \/ phase' = [phase EXCEPT ![p] = "error"] /\ recorded' = recorded
      BY <2>1 DEF Record, To
    <3>2. phase[p] = "insert" /\ cache' = cache
      BY <2>1 DEF Record
    <3>. QED BY <1>2, <2>0, <3>1, <3>2
  <2>2. ASSUME NEW p \in Reports,
               Gate(p) \/ Answer(p) \/ NoAnswer(p) \/ Resolve(p) \/ Check(p) \/ CheckFails(p)
        PROVE  Books'
    <3>1. PICK s \in {"resolve", "ask", "unresolved", "check", "exceeded", "insert"} :
            phase' = [phase EXCEPT ![p] = s]
      BY <2>2 DEF Gate, Answer, NoAnswer, Resolve, Check, CheckFails, To
    <3>2. phase[p] # "accepted" /\ recorded' = recorded
      BY <2>2 DEF Gate, Answer, NoAnswer, Resolve, Check, CheckFails
    <3>3. s # "accepted"
      BY <3>1
    <3>4. recorded' = {q \in Reports : phase'[q] = "accepted"}
      BY <1>2, <2>0, <3>1, <3>2, <3>3
    <3>5. cache'.fresh => cache'.set
      BY <1>2, <2>2 DEF Gate, Answer, NoAnswer, Resolve, Check, CheckFails
    <3>. QED BY <3>4, <3>5
  <2>3. CASE EntryExpires
    <3>1. cache' = [cache EXCEPT !.fresh = FALSE] /\ UNCHANGED <<recorded, phase>>
      BY <2>3 DEF EntryExpires
    <3>2. ~cache'.fresh
      BY <2>0, <3>1 DEF Entries
    <3>. QED BY <1>2, <3>1, <3>2
  <2>4. CASE LicenceChanges \/ UNCHANGED uvars
    BY <1>2, <2>4 DEF LicenceChanges, uvars
  <2>. QED BY <1>2, <2>1, <2>2, <2>3, <2>4 DEF UsageNext, RecordUsage
<1>3. UInv /\ Books => UsageTypeOK
  BY DEF UInv, UType, Phases, UsageTypeOK
<1> QED BY <1>1, <1>2, <1>3, UInvInit, UInvNext, PTL DEF UsageSpec

Stations == {"idle", "keys", "owner", "target", "count", "write"}

AType ==
    /\ at \in [Requests -> Stations]
    /\ plan = [r \in Requests |-> plan[r]]
    /\ claims = [r \in Requests |-> claims[r]]

(* Where a request is, what it was asked and whom it takes its caller for. *)
Known(r) ==
    /\ at[r] = "idle" => plan[r] = NoPlan /\ claims[r] = Nobody
    /\ at[r] # "idle" => plan[r] \in Plans
    /\ at[r] \in {"keys", "owner"} => claims[r] = Nobody /\ plan[r].by.kind = "key"
    /\ at[r] = "owner" => <<r, plan[r].by.key>> \in valid
    /\ at[r] \in {"target", "count", "write"} =>
         \/ plan[r].by.kind # "key" /\ claims[r] = plan[r].by
         \/ /\ plan[r].by.kind = "key" /\ claims[r].kind = "owner"
            /\ claims[r].user = OwnerOf[plan[r].by.key]
            /\ {<<r, plan[r].by.key>>, <<r, OwnerOf[plan[r].by.key]>>} \subseteq valid

(* Once a handler has read the row, it is in its caller's reach. *)
Reached(r) == at[r] \in {"count", "write"} => InReach(claims[r], plan[r].id)

AInv == AType /\ \A r \in Requests : Known(r) /\ Reached(r)

(* What a step of r does to the requests, in five kinds of steps. *)
Closes(r) ==
    /\ Goto(r, "idle")
    /\ plan' = [plan EXCEPT ![r] = NoPlan]
    /\ claims' = [claims EXCEPT ![r] = Nobody]

Proceeds(r) ==
    /\ at[r] \in {"target", "count"} /\ UNCHANGED <<plan, claims, rows>>
    /\ at[r] = "target" => Scoped(plan[r].op, claims[r].role) /\ Allowed(plan[r], claims[r])
    /\ \E s \in {"count", "write"} : Goto(r, s)

KeyFits(r) ==
    /\ at[r] = "keys" /\ UNCHANGED <<plan, claims, rows>> /\ Goto(r, "owner")
    /\ rows[plan[r].by.key].live /\ rows[plan[r].by.key].enabled
    /\ rows[plan[r].by.key].secret = plan[r].by.secret

OwnerFits(r) ==
    LET u == OwnerOf[plan[r].by.key] IN
    /\ at[r] = "owner" /\ UNCHANGED <<plan, rows>> /\ Goto(r, "target")
    /\ rows[u].live /\ rows[u].enabled
    /\ claims' = [claims EXCEPT ![r] = [kind |-> "owner", user |-> u,
                                        role |-> rows[u].role, org |-> OrgOf[u]]]

LEMMA Kinds ==
  ASSUME NEW r \in Requests, Handle(r)
  PROVE  Begin(r) \/ Closes(r) \/ Proceeds(r) \/ KeyFits(r) \/ OwnerFits(r)
<1>1. CASE Begin(r) BY <1>1
<1>2. CASE SelectKeys(r) BY <1>2 DEF SelectKeys, Close, Closes, KeyFits
<1>3. CASE SelectOwner(r) BY <1>3 DEF SelectOwner, Close, Closes, OwnerFits
<1>4. CASE ReadTarget(r) BY <1>4 DEF ReadTarget, Close, Closes, Proceeds
<1>5. CASE CountUsers(r) BY <1>5 DEF CountUsers, Close, Closes, Proceeds
<1>6. ASSUME NEW ops, NEW columns, Write(r, ops, columns) PROVE Closes(r)
  BY <1>6 DEF Write, Close, Closes
<1>7. CASE UpdateColumns(r) BY <1>6, <1>7 DEF UpdateColumns
<1>8. CASE Disable(r) BY <1>6, <1>8 DEF Disable
<1>9. CASE EnableUser(r) BY <1>6, <1>9 DEF EnableUser
<1>10. CASE RotateKey(r) BY <1>6, <1>10 DEF RotateKey
<1>11. CASE Insert(r) BY <1>11 DEF Insert, Write, Close, Closes
<1>12. CASE Login(r) BY <1>12 DEF Login, Close, Closes
<1>13. CASE Refuse(r) BY <1>13 DEF Refuse, Close, Closes
<1> QED BY <1>1, <1>2, <1>3, <1>4, <1>5, <1>7, <1>8, <1>9, <1>10, <1>11, <1>12, <1>13 DEF Handle

LEMMA PlanFacts ==
  ASSUME NEW p \in Plans
  PROVE  /\ p # NoPlan /\ p.by.kind \in {"jwt", "password", "key"}
         /\ p.by.kind = "key" =>
              /\ p.by.key \in Keys /\ p.by.key \in Ids
              /\ OwnerOf[p.by.key] \in Ids /\ OwnerOf[p.by.key] \notin Keys
<1>1. p.op # "none" BY AccountsAssumption DEF UserOps, KeyOps, OrgOps
<1>2. NoPlan.op = "none" BY DEF NoPlan
<1>3. p.by.kind = "key" => p.by.key \in Keys BY AccountsAssumption
<1>4. p.by.kind = "key" => OwnerOf[p.by.key] \in Users BY <1>3, AccountsAssumption
<1> QED BY <1>1, <1>2, <1>3, <1>4, AccountsAssumption DEF Ids

(* Only the request that takes a step is moved by it. *)
LEMMA OthersStay ==
  ASSUME AType, NEW r \in Requests, Handle(r), NEW q \in Requests, q # r
  PROVE  at'[q] = at[q] /\ plan'[q] = plan[q] /\ claims'[q] = claims[q]
<1>1. CASE Begin(r) BY <1>1 DEF Begin, Goto, AType
<1>2. CASE Closes(r) BY <1>2 DEF Closes, Goto, AType
<1>3. CASE Proceeds(r) BY <1>3 DEF Proceeds, Goto, AType
<1>4. CASE KeyFits(r) BY <1>4 DEF KeyFits, Goto, AType
<1>5. CASE OwnerFits(r) BY <1>5 DEF OwnerFits, Goto, AType
<1> QED BY Kinds, <1>1, <1>2, <1>3, <1>4, <1>5

(* What has been good stays so while the request is handled. *)
LEMMA ValidStays ==
  ASSUME Remember, NEW q \in Requests, NEW id \in Ids, at[q] # "idle",
         <<q, id>> \in valid, Presents(q, id)'
  PROVE  <<q, id>> \in valid'
<1>1. <<q, id>>[1] = q /\ <<q, id>>[2] = id /\ <<q, id>> \in Requests \X Ids OBVIOUS
<1> QED BY <1>1 DEF Remember

LEMMA ValidGains ==
  ASSUME Remember, NEW q \in Requests, NEW id \in Ids, Presents(q, id)', Good(q, id)'
  PROVE  <<q, id>> \in valid'
<1>1. <<q, id>>[1] = q /\ <<q, id>>[2] = id /\ <<q, id>> \in Requests \X Ids OBVIOUS
<1> QED BY <1>1 DEF Remember

LEMMA ATypeNext ==
  ASSUME AType, NEW r \in Requests, Handle(r) PROVE AType'
<1> USE DEF AType, Stations
<1>1. CASE Begin(r) BY <1>1 DEF Begin, Goto
<1>2. CASE Closes(r) BY <1>2 DEF Closes, Goto
<1>3. CASE Proceeds(r) BY <1>3 DEF Proceeds, Goto
<1>4. CASE KeyFits(r) BY <1>4 DEF KeyFits, Goto
<1>5. CASE OwnerFits(r) BY <1>5 DEF OwnerFits, Goto
<1> QED BY Kinds, <1>1, <1>2, <1>3, <1>4, <1>5

(* The checks of a handler let nobody past his reach, for every operation. *)
LEMMA AllowedReaches ==
  ASSUME NEW p \in Plans, NEW g, Scoped(p.op, g.role), Allowed(p, g),
         p.op = "login" => g = p.by
  PROVE  InReach(g, p.id)
<1>1. \/ p.op \in UserOps /\ p.id \in Users
      \/ p.op \in KeyOps /\ p.id \in Keys
      \/ p.op \in OrgOps /\ p.id \in Orgs
  BY AccountsAssumption
<1>2. Users \cap Keys = {} /\ Users \cap Orgs = {} /\ Keys \cap Orgs = {}
  BY AccountsAssumption
<1>3. CASE p.op \in OrgOps
  BY <1>3 DEF OrgOps, Scoped, InReach
<1>4. CASE p.op \in KeyOps /\ p.id \in Keys
  <2>1. CASE p.op = "create_key"
    <3>1. MayCreateKey(g, p.id) BY <2>1 DEF Allowed
    <3> QED BY <1>2, <1>4, <3>1 DEF MayCreateKey, InReach
  <2>2. CASE p.op # "create_key"
    <3>1. p.op \in KeyOps \ {"create_key"} BY <1>4, <2>2
    <3>2. MayChangeKey(g, p.id) BY <3>1 DEF Allowed, KeyOps
    <3> QED BY <1>2, <1>4, <3>2 DEF MayChangeKey, InReach
  <2> QED BY <2>1, <2>2
<1>5. CASE p.op \in UserOps /\ p.id \in Users
  <2>1. CASE p.op = "login"
    BY <2>1, AccountsAssumption DEF InReach
  <2>2. CASE p.op = "change_password"
    BY <2>2 DEF Allowed, KeyOps, InReach
  <2>3. CASE p.op = "delete_user"
    BY <2>3 DEF Scoped, InReach
  <2>4. CASE p.op = "create_user"
    <3>1. g.role \in {"admin", "resource_manager"} BY <2>4 DEF Scoped
    <3>2. g.role = "resource_manager" => OrgOf[p.id] = g.org BY <2>4 DEF Allowed, KeyOps
    <3> QED BY <1>2, <1>5, <3>1, <3>2 DEF InReach
  <2>5. CASE p.op \in {"update_user", "enable_user", "set_user_quota"}
    <3>1. g.role \in {"admin", "resource_manager"} BY <2>5 DEF Scoped
    <3>2. g.role = "resource_manager" => OrgOf[p.id] = g.org
      BY <2>5 DEF Allowed, KeyOps, MayChangeUser
    <3> QED BY <1>2, <1>5, <3>1, <3>2 DEF InReach
  <2> QED BY <1>5, <2>1, <2>2, <2>3, <2>4, <2>5 DEF UserOps
<1> QED BY <1>1, <1>3, <1>4, <1>5

LEMMA AInvInit == AccInit => AInv
<1> SUFFICES ASSUME AccInit PROVE AInv OBVIOUS
<1>1. AType BY DEF AccInit, AType, Stations
<1>2. \A r \in Requests : at[r] = "idle" /\ plan[r] = NoPlan /\ claims[r] = Nobody
  BY DEF AccInit
<1> QED BY <1>1, <1>2 DEF AInv, Known, Reached

(* The requests that take no step. *)
LEMMA KnownStays ==
  ASSUME AInv, Remember, NEW q \in Requests,
         at'[q] = at[q], plan'[q] = plan[q], claims'[q] = claims[q]
  PROVE  Known(q)' /\ Reached(q)'
<1>1. Known(q) /\ Reached(q) BY DEF AInv
<1>2. Reached(q)' BY <1>1 DEF Reached, InReach
<1>3. ASSUME NEW id, <<q, id>> \in valid, at[q] # "idle", plan[q].by.kind = "key",
             id \in {plan[q].by.key, OwnerOf[plan[q].by.key]}
      PROVE  <<q, id>> \in valid'
  <2>1. plan[q] \in Plans BY <1>1, <1>3 DEF Known
  <2>2. id \in Ids BY <1>3, <2>1, PlanFacts
  <2>3. Presents(q, id)' BY <1>3, <2>1, PlanFacts DEF Presents
  <2> QED BY <1>3, <2>2, <2>3, ValidStays
<1>4. at'[q] = "owner" => <<q, plan'[q].by.key>> \in valid'
  BY <1>1, <1>3 DEF Known
<1>5. at'[q] \in {"target", "count", "write"} =>
         \/ plan'[q].by.kind # "key" /\ claims'[q] = plan'[q].by
         \/ /\ plan'[q].by.kind = "key" /\ claims'[q].kind = "owner"
            /\ claims'[q].user = OwnerOf[plan'[q].by.key]
            /\ {<<q, plan'[q].by.key>>, <<q, OwnerOf[plan'[q].by.key]>>} \subseteq valid'
  BY <1>1, <1>3 DEF Known
<1> QED BY <1>1, <1>2, <1>4, <1>5 DEF Known

LEMMA KnownMoves ==
  ASSUME AInv, Remember, NEW r \in Requests, Handle(r)
  PROVE  Known(r)' /\ Reached(r)'
<1> AType /\ Known(r) /\ Reached(r) BY DEF AInv
<1>1. CASE Begin(r)
  <2>1. PICK p \in Plans :
          /\ plan' = [plan EXCEPT ![r] = p]
          /\ IF p.by.kind = "key"
             THEN Goto(r, "keys") /\ UNCHANGED claims
             ELSE Goto(r, "target") /\ claims' = [claims EXCEPT ![r] = p.by]
    BY <1>1 DEF Begin
  <2>2. plan'[r] = p BY <2>1 DEF AType
  <2>3. claims[r] = Nobody BY <1>1 DEF Begin, Known
  <2>4. CASE p.by.kind = "key"
    <3>1. at'[r] = "keys" /\ claims'[r] = Nobody BY <2>1, <2>3, <2>4 DEF Goto, AType
    <3> QED BY <2>2, <2>4, <3>1 DEF Known, Reached
  <2>5. CASE p.by.kind # "key"
    <3>1. at'[r] = "target" /\ claims'[r] = p.by BY <2>1, <2>5 DEF Goto, AType
    <3> QED BY <2>2, <2>5, <3>1 DEF Known, Reached
  <2> QED BY <2>4, <2>5
<1>2. CASE Closes(r)
  <2>1. at'[r] = "idle" /\ plan'[r] = NoPlan /\ claims'[r] = Nobody
    BY <1>2 DEF Closes, Goto, AType
  <2> QED BY <2>1 DEF Known, Reached
<1>3. ASSUME plan' = plan, at[r] # "idle" PROVE plan[r] \in Plans /\ plan'[r] = plan[r]
  BY <1>3 DEF Known
<1>4. CASE Proceeds(r)
  <2>1. at[r] \in {"target", "count"} /\ at'[r] \in {"count", "write"} /\ claims'[r] = claims[r]
        /\ plan' = plan
    BY <1>4 DEF Proceeds, Goto, AType
  <2>2. plan[r] \in Plans /\ plan'[r] = plan[r] BY <1>3, <2>1
  <2>3. ASSUME NEW id, <<r, id>> \in valid, plan[r].by.kind = "key",
               id \in {plan[r].by.key, OwnerOf[plan[r].by.key]}
        PROVE  <<r, id>> \in valid'
    <3>1. id \in Ids BY <2>2, <2>3, PlanFacts
    <3>2. Presents(r, id)' BY <2>2, <2>3, PlanFacts DEF Presents
    <3> QED BY <2>1, <2>3, <3>1, <3>2, ValidStays
  <2>4. \/ plan'[r].by.kind # "key" /\ claims'[r] = plan'[r].by
        \/ /\ plan'[r].by.kind = "key" /\ claims'[r].kind = "owner"
           /\ claims'[r].user = OwnerOf[plan'[r].by.key]
           /\ {<<r, plan'[r].by.key>>, <<r, OwnerOf[plan'[r].by.key]>>} \subseteq valid'
    BY <2>1, <2>2, <2>3 DEF Known
  <2>5. Known(r)' BY <2>1, <2>2, <2>4 DEF Known
  <2>6. InReach(claims[r], plan[r].id)
    <3>1. CASE at[r] = "count" BY <3>1 DEF Reached
    <3>2. CASE at[r] = "target"
      <4>1. Scoped(plan[r].op, claims[r].role) /\ Allowed(plan[r], claims[r])
        BY <1>4, <3>2 DEF Proceeds
      <4>2. plan[r].op = "login" => claims[r] = plan[r].by
        BY <2>2, <3>2, AccountsAssumption DEF Known
      <4> QED BY <2>2, <4>1, <4>2, AllowedReaches
    <3> QED BY <2>1, <3>1, <3>2
  <2> QED BY <2>1, <2>2, <2>5, <2>6 DEF Reached, InReach
<1>5. CASE KeyFits(r)
  <2>1. at[r] = "keys" /\ at'[r] = "owner" /\ claims'[r] = Nobody /\ plan' = plan /\ rows' = rows
    BY <1>5 DEF KeyFits, Goto, AType, Known
  <2>2. plan[r] \in Plans /\ plan'[r] = plan[r] BY <1>3, <2>1
  <2>3. plan[r].by.kind = "key" BY <2>1 DEF Known
  <2> DEFINE k == plan'[r].by.key
  <2>4. k \in Ids BY <2>2, <2>3, PlanFacts
  <2>5. ASSUME NEW id, id = k PROVE <<r, id>> \in valid'
    <3>1. Presents(r, id)' BY <2>2, <2>3, <2>5, PlanFacts DEF Presents
    <3>2. Good(r, id)' BY <1>5, <2>1, <2>2, <2>5 DEF KeyFits, Good
    <3> QED BY <2>4, <2>5, <3>1, <3>2, ValidGains
  <2> QED BY <2>1, <2>2, <2>3, <2>5 DEF Known, Reached
<1>6. CASE OwnerFits(r)
  <2>1. at[r] = "owner" /\ at'[r] = "target" /\ plan' = plan /\ rows' = rows
    BY <1>6 DEF OwnerFits, Goto, AType
  <2>2. plan[r] \in Plans /\ plan'[r] = plan[r] BY <1>3, <2>1
  <2>3. plan[r].by.kind = "key" BY <2>1 DEF Known
  <2> DEFINE k == plan'[r].by.key  u == OwnerOf[plan'[r].by.key]
  <2>4. claims'[r].kind = "owner" /\ claims'[r].user = u
    BY <1>6, <2>2 DEF OwnerFits, AType
  <2>5. k \in Ids /\ u \in Ids /\ u \notin Keys BY <2>2, <2>3, PlanFacts
  <2>6. ASSUME NEW id, id = k PROVE <<r, id>> \in valid'
    <3>1. Presents(r, id)' BY <2>2, <2>3, <2>6, PlanFacts DEF Presents
    <3>2. <<r, id>> \in valid BY <2>1, <2>2, <2>6 DEF Known
    <3> QED BY <2>1, <2>5, <2>6, <3>1, <3>2, ValidStays
  <2>7. ASSUME NEW id, id = u PROVE <<r, id>> \in valid'
    <3>1. Presents(r, id)' BY <2>2, <2>3, <2>7, PlanFacts DEF Presents
    <3>2. Good(r, id)' BY <1>6, <2>1, <2>2, <2>5, <2>7 DEF OwnerFits, Good
    <3> QED BY <2>5, <2>7, <3>1, <3>2, ValidGains
  <2>8. {<<r, k>>, <<r, u>>} \subseteq valid' BY <2>6, <2>7
  <2> QED BY <2>1, <2>2, <2>3, <2>4, <2>8 DEF Known, Reached
<1> QED BY Kinds, <1>1, <1>2, <1>4, <1>5, <1>6

LEMMA AInvNext == AInv /\ [AccNext]_avars => AInv'
<1> SUFFICES ASSUME AInv, [AccNext]_avars PROVE AInv' OBVIOUS
<1>1. CASE AccNext
  <2>1. PICK r \in Requests : Handle(r) BY <1>1 DEF AccNext
  <2>2. Remember BY <1>1 DEF AccNext
  <2>3. AType' BY <2>1, ATypeNext DEF AInv
  <2>4. Known(r)' /\ Reached(r)' BY <2>1, <2>2, KnownMoves
  <2>5. \A q \in Requests : q # r => Known(q)' /\ Reached(q)'
    BY <2>1, <2>2, OthersStay, KnownStays DEF AInv
  <2> QED BY <2>3, <2>4, <2>5 DEF AInv
<1>2. CASE UNCHANGED avars
  <2>1. AType' BY <1>2 DEF AInv, AType, avars
  <2>2. ASSUME NEW r \in Requests PROVE Known(r)' /\ Reached(r)'
    BY <1>2, <2>2 DEF AInv, Known, Reached, InReach, avars
  <2> QED BY <2>1, <2>2 DEF AInv
<1> QED BY <1>1, <1>2

(* A key that was revoked or rotated before a request began, or whose owner *)
(* was disabled, authenticates nobody: whom a request takes for its caller  *)
(* by an API key had that key, and was enabled, while it was handled.       *)
THEOREM RevokedStaysOut == AccSpec => []RevokedIsRefused
<1>1. AInv => RevokedIsRefused
  <2> SUFFICES ASSUME AInv, NEW r \in Requests, claims[r].kind = "owner"
               PROVE {<<r, plan[r].by.key>>, <<r, claims[r].user>>} \subseteq valid
    BY DEF RevokedIsRefused
  <2>1. AType /\ Known(r) BY DEF AInv
  <2>2. at[r] \notin {"idle", "keys", "owner"} BY <2>1 DEF Known, Nobody
  <2>3. at[r] \in {"target", "count", "write"} BY <2>1, <2>2 DEF AType, Stations
  <2>4. plan[r].by.kind # "owner" BY <2>1, <2>2, PlanFacts DEF Known
  <2> QED BY <2>1, <2>3, <2>4 DEF Known
<1> QED BY AInvInit, AInvNext, <1>1, PTL DEF AccSpec

(* No interleaving of handlers, for any set of requests, lets one change a  *)
(* row out of its caller's reach: outside a manager's organisation, or      *)
(* another user's, or any organisation's by somebody who is no admin.       *)
THEOREM NobodyOverreaches == AccSpec => ReachHeld
<1>1. AInv => [\A r \in Requests :
                 at[r] = "write" /\ at'[r] = "idle" /\ rows'[plan[r].id] # rows[plan[r].id]
                   => InReach(claims[r], plan[r].id)]_avars
  BY DEF AInv, Reached
<1> QED BY AInvInit, AInvNext, <1>1, PTL DEF AccSpec, ReachHeld

(* The rows and what they would be if the requests had come one after       *)
(* another.  Both have the same columns; a login that is about to write     *)
(* holds a row whose count and current login were right when it read them,  *)
(* and is the only one about to unless the user's logins have overlapped.   *)
Creates == {"create_user", "create_key", "create_org"}

LoginCols == {"logins", "current", "last"}

LogsIn(r, u) == at[r] = "write" /\ plan[r].op = "login" /\ plan[r].id = u

LType ==
    /\ rows = [id \in Ids |-> rows[id]] /\ \A id \in Ids : "live" \in DOMAIN rows[id]
    /\ seen = [r \in Requests |-> seen[r]]
    /\ meant = [id \in Ids |-> meant[id]]
    /\ \A id \in Ids : DOMAIN meant[id] = DOMAIN rows[id]
    /\ \A u \in Users : rows[u].live =>
         LoginCols \subseteq DOMAIN rows[u] /\ rows[u].logins \in Nat /\ meant[u].logins \in Nat

Exists(r) ==
    /\ at[r] \in {"count", "write"} /\ plan[r].op \notin Creates => rows[plan[r].id].live
    /\ at[r] = "count" => plan[r].op = "delete_org"

(* A row of u that a login may compute its columns from. *)
Right(row, u) ==
    /\ row.logins \in Nat /\ row.logins <= meant[u].logins
    /\ u \notin overlap => row.logins = meant[u].logins
    /\ u \notin overlap => row.current = meant[u].current

Holds(r, u) == LogsIn(r, u) => Right(seen[r], u)

Only(u) == \A q, r \in Requests : LogsIn(q, u) /\ LogsIn(r, u) => q = r \/ u \in overlap

LInv ==
    /\ LType /\ NoLostUpdate
    /\ \A r \in Requests : Exists(r)
    /\ \A u \in Users : Only(u) /\ \A r \in Requests : Holds(r, u)

LEMMA RowsRight ==
  ASSUME LType, NoLostUpdate, NEW u \in Users, rows[u].live PROVE Right(rows[u], u)
<1>1. u \in Ids /\ LoginCols \subseteq DOMAIN rows[u] /\ rows[u].logins \in Nat BY DEF LType, Ids
<1>2. "logins" \in DOMAIN rows[u] /\ "current" \in DOMAIN rows[u] BY <1>1 DEF LoginCols
<1>3. u \notin overlap => rows[u]["logins"] = meant[u]["logins"] BY <1>1, <1>2 DEF NoLostUpdate
<1>4. rows[u]["current"] = meant[u]["current"] BY <1>1, <1>2 DEF NoLostUpdate
<1>5. rows[u].logins <= meant[u].logins BY DEF NoLostUpdate
<1> QED BY <1>1, <1>3, <1>4, <1>5 DEF Right

(* A write changes one row, that of its plan, and the request is over. *)
LEMMA WriteDoes ==
  ASSUME LType, AType, NEW r \in Requests, NEW ops, NEW columns, Write(r, ops, columns),
         plan[r].id \in Ids
  PROVE  /\ rows' = [id \in Ids |-> rows'[id]] /\ meant' = [id \in Ids |-> meant'[id]]
         /\ rows'[plan[r].id] = With(rows[plan[r].id], columns)
         /\ meant'[plan[r].id] = With(meant[plan[r].id], columns)
         /\ \A id \in Ids \ {plan[r].id} : rows'[id] = rows[id] /\ meant'[id] = meant[id]
         /\ at'[r] = "idle" /\ plan[r].op \in ops /\ at[r] = "write"
         /\ seen' = [q \in Requests |-> seen'[q]]
BY DEF Write, Sets, Close, Goto, LType, AType

(* What a step of r leaves alone of the other requests, and how its writes  *)
(* may change rows and counts; then what is known of each request holds on. *)
Lets(r) ==
    /\ \A q \in Requests \ {r} : at'[q] = at[q] /\ plan'[q] = plan[q] /\ seen'[q] = seen[q]
    /\ overlap \subseteq overlap'
    /\ \A id \in Ids : rows[id].live => rows'[id].live
    /\ \A u \in Users : rows[u].live =>
         /\ meant'[u].logins \in Nat /\ meant[u].logins <= meant'[u].logins
         /\ ~LogsIn(r, u) =>
              meant'[u].logins = meant[u].logins /\ meant'[u].current = meant[u].current

LEMMA SeenStays ==
  ASSUME LType, NEW r \in Requests, Handle(r)
  PROVE  /\ \A q \in Requests \ {r} : seen'[q] = seen[q]
         /\ seen' = [q \in Requests |-> seen'[q]]
         /\ overlap \subseteq overlap'
<1> USE DEF LType, Close
<1>0. ASSUME NEW ops, NEW columns, Write(r, ops, columns)
      PROVE  /\ \A q \in Requests \ {r} : seen'[q] = seen[q]
             /\ seen' = [q \in Requests |-> seen'[q]]
  BY <1>0 DEF Write
<1>1. CASE Begin(r) BY <1>1 DEF Begin
<1>2. CASE SelectKeys(r) BY <1>2 DEF SelectKeys
<1>3. CASE SelectOwner(r) BY <1>3 DEF SelectOwner
<1>4. CASE ReadTarget(r) BY <1>4 DEF ReadTarget
<1>5. CASE CountUsers(r) BY <1>5 DEF CountUsers
<1>7. CASE UpdateColumns(r) BY <1>0, <1>7 DEF UpdateColumns
<1>8. CASE Disable(r) BY <1>0, <1>8 DEF Disable
<1>9. CASE EnableUser(r) BY <1>0, <1>9 DEF EnableUser
<1>10. CASE RotateKey(r) BY <1>0, <1>10 DEF RotateKey
<1>11. CASE Insert(r) BY <1>0, <1>11 DEF Insert
<1>12. CASE Login(r) BY <1>12 DEF Login
<1>13. CASE Refuse(r) BY <1>13 DEF Refuse
<1> QED BY <1>1, <1>2, <1>3, <1>4, <1>5, <1>7, <1>8, <1>9, <1>10, <1>11, <1>12, <1>13 DEF Handle

LEMMA OthersKnown ==
  ASSUME LInv, AType, NEW r \in Requests, Lets(r)
  PROVE  /\ \A q \in Requests \ {r} : Exists(q) /\ plan[q].id \in Ids => Exists(q)'
         /\ \A q \in Requests \ {r}, u \in Users : Holds(q, u)'
         /\ \A p, q \in Requests \ {r}, u \in Users :
              LogsIn(p, u)' /\ LogsIn(q, u)' => p = q \/ u \in overlap'
<1>1. \A q \in Requests \ {r} : Exists(q) /\ plan[q].id \in Ids => Exists(q)'
  BY DEF Lets, Exists
<1>2. ASSUME NEW q \in Requests \ {r}, NEW u \in Users PROVE Holds(q, u)'
  <2>1. Holds(q, u) /\ Only(u) /\ Exists(q) BY DEF LInv
  <2>2. SUFFICES ASSUME LogsIn(q, u)' PROVE Right(seen[q], u)' BY DEF Holds
  <2>3. LogsIn(q, u) /\ seen'[q] = seen[q] BY <2>2 DEF LogsIn, Lets
  <2>4. rows[u].live BY <2>1, <2>3 DEF Exists, LogsIn, Creates
  <2>5. Right(seen[q], u) BY <2>1, <2>3 DEF Holds
  <2>6. meant[u].logins \in Nat BY <2>4 DEF LInv, LType
  <2>7. meant'[u].logins \in Nat /\ meant[u].logins <= meant'[u].logins BY <2>4 DEF Lets
  <2>8. overlap \subseteq overlap' BY DEF Lets
  <2>9. u \notin overlap => meant'[u].logins = meant[u].logins /\ meant'[u].current = meant[u].current
    <3> SUFFICES ASSUME u \notin overlap
                 PROVE  meant'[u].logins = meant[u].logins /\ meant'[u].current = meant[u].current
      OBVIOUS
    <3>1. ~LogsIn(r, u) BY <2>1, <2>3 DEF Only
    <3> QED BY <2>4, <3>1 DEF Lets
  <2> QED BY <2>3, <2>5, <2>6, <2>7, <2>8, <2>9 DEF Right
<1>3. ASSUME NEW p \in Requests \ {r}, NEW q \in Requests \ {r}, NEW u \in Users,
             LogsIn(p, u)', LogsIn(q, u)'
      PROVE  p = q \/ u \in overlap'
  <2>1. LogsIn(p, u) /\ LogsIn(q, u) BY <1>3 DEF LogsIn, Lets
  <2> QED BY <2>1 DEF LInv, Only, Lets
<1> QED BY <1>1, <1>2, <1>3

LEMMA PlanRow ==
  ASSUME AInv, NEW r \in Requests, at[r] # "idle"
  PROVE  /\ plan[r] \in Plans /\ plan[r].id \in Ids
         /\ DOMAIN plan[r].cols \subseteq {"enabled", "other", "role"}
         /\ plan[r].op \in UserOps \cup {"login"} => plan[r].id \in Users
         /\ plan[r].id \in Users => plan[r].op \notin KeyOps /\ plan[r].op \notin OrgOps
<1>1. plan[r] \in Plans BY DEF AInv, Known
<1> QED BY <1>1, AccountsAssumption DEF UserOps, KeyOps, OrgOps, Ids

(* When a step has taken r away from its write, or brings it there with a   *)
(* count that is right, the counts of all requests are.                     *)
LEMMA RequestsKnown ==
  ASSUME LInv, AInv, NEW r \in Requests, Lets(r), Exists(r)',
         \A u \in Users : LogsIn(r, u)' =>
           /\ Right(seen[r], u)'
           /\ \A q \in Requests \ {r} : LogsIn(q, u)' => u \in overlap'
  PROVE  /\ \A q \in Requests : Exists(q)'
         /\ \A u \in Users : Only(u)' /\ \A q \in Requests : Holds(q, u)'
<1>1. \A q \in Requests \ {r} : at[q] \in {"count", "write"} => plan[q].id \in Ids
  BY PlanRow
<1>2. \A q \in Requests \ {r} : Exists(q)'
  <2> SUFFICES ASSUME NEW q \in Requests \ {r}, ~Exists(q)' PROVE FALSE OBVIOUS
  <2>1. at[q] \in {"count", "write"} BY DEF Exists, Lets
  <2> QED BY <1>1, <2>1, OthersKnown DEF LInv, AInv
<1>3. \A u \in Users : Holds(r, u)' BY DEF Holds
<1>4. AType BY DEF AInv
<1>5. \A u \in Users : Only(u)'
  <2> SUFFICES ASSUME NEW u \in Users, NEW p \in Requests, NEW q \in Requests,
                      LogsIn(p, u)', LogsIn(q, u)'
               PROVE  p = q \/ u \in overlap'
    BY DEF Only
  <2>1. CASE p # r /\ q # r BY <1>4, <2>1, OthersKnown
  <2>2. CASE p = r \/ q = r BY <2>2
  <2> QED BY <2>1, <2>2
<1> QED BY <1>2, <1>3, <1>4, <1>5, OthersKnown

(* The steps that leave the rows alone. *)
LEMMA RowsUntouched ==
  ASSUME LInv, AInv, NEW r \in Requests, Handle(r), UNCHANGED <<rows, meant>>
  PROVE  Lets(r) /\ LType' /\ NoLostUpdate'
<1>0. LType /\ AType BY DEF LInv, AInv
<1>1. Lets(r)
  <2>1. \A q \in Requests \ {r} : at'[q] = at[q] /\ plan'[q] = plan[q] BY <1>0, OthersStay
  <2>2. \A u \in Users : rows[u].live => meant[u].logins \in Nat BY <1>0 DEF LType
  <2> QED BY <1>0, <2>1, <2>2, SeenStays DEF Lets
<1>2. LType' BY SeenStays DEF LInv, LType
<1>3. NoLostUpdate' BY <1>1 DEF LInv, NoLostUpdate, Lets
<1> QED BY <1>1, <1>2, <1>3

LEMMA QuietStep ==
  ASSUME LInv, AInv, NEW r \in Requests, Handle(r), UNCHANGED <<rows, meant>>,
         at'[r] \notin {"count", "write"}
  PROVE  LInv'
<1>1. Lets(r) /\ LType' /\ NoLostUpdate' BY RowsUntouched
<1>2. Exists(r)' /\ \A u \in Users : ~LogsIn(r, u)' BY DEF Exists, LogsIn
<1> QED BY <1>1, <1>2, RequestsKnown DEF LInv

(* The read on the way to a write: the row that is read is counted right,   *)
(* and a login that finds another about to write is an overlap.             *)
LEMMA ReadStep ==
  ASSUME LInv, AInv, NEW r \in Requests, Handle(r), ReadTarget(r)
  PROVE  LInv'
<1> DEFINE p == plan[r]
<1>0. AType /\ LType /\ at[r] = "target" BY DEF AInv, LInv, ReadTarget
<1>1. p \in Plans /\ p.id \in Ids /\ (p.op = "login" => p.id \in Users)
  BY <1>0, PlanRow DEF UserOps
<1>2. UNCHANGED <<rows, meant>> BY DEF ReadTarget
<1>3. CASE Scoped(p.op, claims[r].role) /\ Allowed(p, claims[r])
  <2>1. /\ at'[r] = IF p.op = "delete_org" THEN "count" ELSE "write"
        /\ seen'[r] = rows[p.id] /\ plan' = plan
    BY <1>0, <1>3 DEF ReadTarget, Goto, AType, LType
  <2>2. p.op \notin Creates => rows[p.id].live BY <1>3 DEF Allowed, Creates
  <2>3. Exists(r)' BY <1>2, <2>1, <2>2 DEF Exists
  <2>4. ASSUME NEW u \in Users, LogsIn(r, u)'
        PROVE  /\ Right(seen[r], u)'
               /\ \A q \in Requests \ {r} : LogsIn(q, u)' => u \in overlap'
    <3>1. p.op = "login" /\ p.id = u BY <2>1, <2>4 DEF LogsIn
    <3>2. rows[u].live BY <2>2, <3>1 DEF Creates
    <3>3. Right(rows[u], u) BY <3>2, RowsRight DEF LInv
    <3>4. overlap \subseteq overlap' BY <1>0, SeenStays
    <3>5. ASSUME NEW q \in Requests \ {r}, LogsIn(q, u)' PROVE u \in overlap'
      <4>1. at[q] = "write" /\ plan[q].op = "login" /\ plan[q].id = u
        BY <1>0, <3>5, OthersStay DEF LogsIn
      <4> QED BY <3>1, <4>1 DEF ReadTarget
    <3> QED BY <1>2, <2>1, <3>1, <3>3, <3>4, <3>5 DEF Right
  <2>5. Lets(r) /\ LType' /\ NoLostUpdate' BY <1>2, RowsUntouched
  <2> QED BY <2>3, <2>4, <2>5, RequestsKnown DEF LInv
<1>4. CASE ~(Scoped(p.op, claims[r].role) /\ Allowed(p, claims[r]))
  <2>1. at'[r] = "idle" BY <1>0, <1>4 DEF ReadTarget, Close, Goto, AType
  <2> QED BY <1>2, <2>1, QuietStep
<1> QED BY <1>3, <1>4

(* A write of other columns than a login's, into a row that exists. *)
LEMMA AlterStep ==
  ASSUME LInv, AInv, NEW r \in Requests, Handle(r), NEW ops, NEW columns,
         Write(r, ops, columns), UNCHANGED overlap,
         ops \cap Creates = {}, DOMAIN columns \cap (LoginCols \cup {"live"}) = {}
  PROVE  LInv'
<1> DEFINE i == plan[r].id
<1>0. AType /\ LType /\ at[r] = "write" /\ plan[r].op \in ops BY DEF AInv, LInv, Write
<1>1. i \in Ids BY <1>0, PlanRow
<1>2. rows[i].live BY <1>0 DEF LInv, Exists
<1>3. /\ rows' = [id \in Ids |-> rows'[id]] /\ meant' = [id \in Ids |-> meant'[id]]
      /\ rows'[i] = With(rows[i], columns) /\ meant'[i] = With(meant[i], columns)
      /\ \A id \in Ids \ {i} : rows'[id] = rows[id] /\ meant'[id] = meant[id]
      /\ at'[r] = "idle" /\ seen' = [q \in Requests |-> seen'[q]]
  BY <1>0, <1>1, WriteDoes
<1>4. /\ "live" \notin DOMAIN columns /\ "logins" \notin DOMAIN columns
      /\ "current" \notin DOMAIN columns
  BY DEF LoginCols
<1>5. DOMAIN meant[i] = DOMAIN rows[i] BY <1>0, <1>1 DEF LType
<1>6. /\ DOMAIN meant'[i] = DOMAIN rows'[i] /\ DOMAIN rows'[i] = DOMAIN rows[i] \cup DOMAIN columns
      /\ \A c \in DOMAIN columns : rows'[i][c] = meant'[i][c]
      /\ \A c \in DOMAIN rows[i] \ DOMAIN columns : rows'[i][c] = rows[i][c]
      /\ \A c \in DOMAIN rows[i] \ DOMAIN columns : meant'[i][c] = meant[i][c]
  BY <1>3, <1>5 DEF With
<1>7. "live" \in DOMAIN rows'[i] /\ rows'[i].live = rows[i].live
  BY <1>0, <1>1, <1>4, <1>6 DEF LType
<1>8. i \in Users =>
        /\ LoginCols \subseteq DOMAIN rows'[i] /\ rows'[i].logins = rows[i].logins
        /\ meant'[i].logins = meant[i].logins /\ meant'[i].current = meant[i].current
        /\ rows[i].logins \in Nat /\ meant[i].logins \in Nat
  <2> SUFFICES ASSUME i \in Users
               PROVE  /\ LoginCols \subseteq DOMAIN rows'[i] /\ rows'[i].logins = rows[i].logins
                      /\ meant'[i].logins = meant[i].logins /\ meant'[i].current = meant[i].current
                      /\ rows[i].logins \in Nat /\ meant[i].logins \in Nat
    OBVIOUS
  <2>1. LoginCols \subseteq DOMAIN rows[i] /\ rows[i].logins \in Nat /\ meant[i].logins \in Nat
    BY <1>0, <1>2 DEF LType
  <2>2. "logins" \in DOMAIN rows[i] \ DOMAIN columns /\ "current" \in DOMAIN rows[i] \ DOMAIN columns
    BY <1>4, <2>1 DEF LoginCols
  <2> QED BY <1>6, <2>1, <2>2
<1>9. \A u \in Users : u \in Ids /\ (u # i => rows'[u] = rows[u] /\ meant'[u] = meant[u])
  BY <1>3 DEF Ids
<1>10. LType'
  <2>1. \A u \in Users : rows'[u].live =>
          LoginCols \subseteq DOMAIN rows'[u] /\ rows'[u].logins \in Nat /\ meant'[u].logins \in Nat
    BY <1>0, <1>8, <1>9 DEF LType
  <2>2. \A id \in Ids : "live" \in DOMAIN rows'[id] BY <1>0, <1>3, <1>7 DEF LType
  <2>3. \A id \in Ids : DOMAIN meant'[id] = DOMAIN rows'[id] BY <1>0, <1>3, <1>6 DEF LType
  <2> QED BY <1>3, <2>1, <2>2, <2>3 DEF LType
<1>11. NoLostUpdate'
  <2>1. ASSUME NEW id \in Ids, NEW c \in DOMAIN rows'[id]
        PROVE  rows'[id][c] = meant'[id][c] \/ (c \in {"last", "logins"} /\ id \in overlap')
    <3>1. CASE id = i /\ c \in DOMAIN columns BY <1>6, <3>1
    <3>2. CASE id = i /\ c \notin DOMAIN columns
      <4>1. c \in DOMAIN rows[i] /\ rows'[i][c] = rows[i][c] /\ meant'[i][c] = meant[i][c]
        BY <1>6, <2>1, <3>2
      <4> QED BY <1>1, <3>2, <4>1 DEF LInv, NoLostUpdate
    <3>3. CASE id # i
      <4>1. rows'[id] = rows[id] /\ meant'[id] = meant[id] BY <1>3, <3>3
      <4> QED BY <2>1, <4>1 DEF LInv, NoLostUpdate
    <3> QED BY <3>1, <3>2, <3>3
  <2>2. ASSUME NEW u \in Users, rows'[u].live PROVE rows'[u].logins <= meant'[u].logins
    <3>1. rows[u].live BY <1>2, <1>9, <2>2
    <3> QED BY <1>8, <1>9, <3>1 DEF LInv, NoLostUpdate
  <2> QED BY <2>1, <2>2 DEF NoLostUpdate
<1>12. Lets(r)
  <2>1. \A q \in Requests \ {r} : at'[q] = at[q] /\ plan'[q] = plan[q] BY <1>0, OthersStay
  <2>2. \A u \in Users : rows[u].live =>
          /\ meant[u].logins \in Nat /\ meant'[u].logins = meant[u].logins
          /\ meant'[u].current = meant[u].current
    BY <1>0, <1>8, <1>9 DEF LType
  <2>3. \A id \in Ids : rows[id].live => rows'[id].live BY <1>2, <1>3, <1>7
  <2>4. overlap \subseteq overlap' /\ \A q \in Requests \ {r} : seen'[q] = seen[q]
    BY <1>0, SeenStays
  <2> QED BY <2>1, <2>2, <2>3, <2>4 DEF Lets
<1>13. Exists(r)' /\ \A u \in Users : ~LogsIn(r, u)' BY <1>3 DEF Exists, LogsIn
<1> QED BY <1>10, <1>11, <1>12, <1>13, RequestsKnown DEF LInv

(* A row that comes to exist has counted no login. *)
LEMMA InsertStep ==
  ASSUME LInv, AInv, NEW r \in Requests, Handle(r), Insert(r)
  PROVE  LInv'
<1> DEFINE i == plan[r].id
           new == CASE plan[r].op = "create_user" ->
                         NewUser(IF claims[r].role = "resource_manager" /\ plan[r].cols.role = "admin"
                                 THEN "user" ELSE plan[r].cols.role)
                    [] plan[r].op = "create_key" -> NewKey
                    [] OTHER -> NewOrg
<1>0. AType /\ LType /\ at[r] = "write" /\ plan[r].op \in Creates /\ ~rows[i].live
  BY DEF AInv, LInv, Insert, Creates
<1>1. i \in Ids BY <1>0, PlanRow
<1>2. Write(r, {plan[r].op}, new) /\ UNCHANGED overlap BY DEF Insert
<1>3. "live" \in DOMAIN new /\ new.live = TRUE
  BY <1>0 DEF NewUser, NewKey, NewOrg, Creates
<1>4. i \in Users => LoginCols \subseteq DOMAIN new /\ new.logins = 0
  <2> SUFFICES ASSUME i \in Users PROVE LoginCols \subseteq DOMAIN new /\ new.logins = 0 OBVIOUS
  <2>1. plan[r].op = "create_user" BY <1>0, PlanRow DEF Creates, KeyOps, OrgOps
  <2> QED BY <2>1 DEF NewUser, LoginCols
<1> HIDE DEF new
<1>5. /\ rows' = [id \in Ids |-> rows'[id]] /\ meant' = [id \in Ids |-> meant'[id]]
      /\ rows'[i] = With(rows[i], new) /\ meant'[i] = With(meant[i], new)
      /\ \A id \in Ids \ {i} : rows'[id] = rows[id] /\ meant'[id] = meant[id]
      /\ at'[r] = "idle" /\ seen' = [q \in Requests |-> seen'[q]]
  BY <1>0, <1>1, <1>2, WriteDoes
<1>6. DOMAIN meant[i] = DOMAIN rows[i] BY <1>0, <1>1 DEF LType
<1>7. /\ DOMAIN meant'[i] = DOMAIN rows'[i] /\ DOMAIN rows'[i] = DOMAIN rows[i] \cup DOMAIN new
      /\ \A c \in DOMAIN new : rows'[i][c] = new[c]
      /\ \A c \in DOMAIN new : meant'[i][c] = new[c]
      /\ \A c \in DOMAIN rows[i] \ DOMAIN new : rows'[i][c] = rows[i][c]
      /\ \A c \in DOMAIN rows[i] \ DOMAIN new : meant'[i][c] = meant[i][c]
  BY <1>5, <1>6 DEF With
<1>8. "live" \in DOMAIN rows'[i] /\ rows'[i].live = TRUE BY <1>3, <1>7
<1>9. i \in Users =>
        LoginCols \subseteq DOMAIN rows'[i] /\ rows'[i].logins = 0 /\ meant'[i].logins = 0
  <2> SUFFICES ASSUME i \in Users
               PROVE LoginCols \subseteq DOMAIN rows'[i] /\ rows'[i].logins = 0 /\ meant'[i].logins = 0
    OBVIOUS
  <2>1. "logins" \in DOMAIN new BY <1>4 DEF LoginCols
  <2> QED BY <1>4, <1>7, <2>1
<1>10. \A u \in Users : u \in Ids /\ (u # i => rows'[u] = rows[u] /\ meant'[u] = meant[u])
  BY <1>5 DEF Ids
<1>11. LType'
  <2>1. ASSUME NEW u \in Users, rows'[u].live
        PROVE  /\ LoginCols \subseteq DOMAIN rows'[u]
               /\ rows'[u].logins \in Nat /\ meant'[u].logins \in Nat
    <3>1. CASE u = i
      <4>1. rows'[u].logins = 0 /\ meant'[u].logins = 0 /\ 0 \in Nat BY <1>9, <3>1
      <4> QED BY <1>9, <3>1, <4>1
    <3>2. CASE u # i
      <4>1. rows'[u] = rows[u] /\ meant'[u] = meant[u] BY <1>10, <3>2
      <4> QED BY <1>0, <2>1, <4>1 DEF LType
    <3> QED BY <3>1, <3>2
  <2>2. \A id \in Ids : "live" \in DOMAIN rows'[id] BY <1>0, <1>5, <1>8 DEF LType
  <2>3. \A id \in Ids : DOMAIN meant'[id] = DOMAIN rows'[id] BY <1>0, <1>5, <1>7 DEF LType
  <2> QED BY <1>5, <2>1, <2>2, <2>3 DEF LType
<1>12. NoLostUpdate'
  <2>1. ASSUME NEW id \in Ids, NEW c \in DOMAIN rows'[id]
        PROVE  rows'[id][c] = meant'[id][c] \/ (c \in {"last", "logins"} /\ id \in overlap')
    <3>1. CASE id = i /\ c \in DOMAIN new BY <1>7, <3>1
    <3>2. CASE id = i /\ c \notin DOMAIN new
      <4>1. c \in DOMAIN rows[i] /\ rows'[i][c] = rows[i][c] /\ meant'[i][c] = meant[i][c]
        BY <1>7, <2>1, <3>2
      <4> QED BY <1>1, <1>2, <3>2, <4>1 DEF LInv, NoLostUpdate
    <3>3. CASE id # i
      <4>1. rows'[id] = rows[id] /\ meant'[id] = meant[id] BY <1>5, <3>3
      <4> QED BY <1>2, <2>1, <4>1 DEF LInv, NoLostUpdate
    <3> QED BY <3>1, <3>2, <3>3
  <2>2. ASSUME NEW u \in Users, rows'[u].live PROVE rows'[u].logins <= meant'[u].logins
    <3>1. CASE u = i BY <1>9, <3>1
    <3>2. CASE u # i BY <1>10, <2>2, <3>2 DEF LInv, NoLostUpdate
    <3> QED BY <3>1, <3>2
  <2> QED BY <2>1, <2>2 DEF NoLostUpdate
<1>13. Lets(r)
  <2>1. \A q \in Requests \ {r} : at'[q] = at[q] /\ plan'[q] = plan[q] BY <1>0, OthersStay
  <2>2. ASSUME NEW u \in Users, rows[u].live
        PROVE  meant[u].logins \in Nat /\ meant'[u] = meant[u]
    <3>1. u # i BY <1>0, <2>2
    <3> QED BY <1>0, <1>10, <2>2, <3>1 DEF LType
  <2>3. \A id \in Ids : rows[id].live => rows'[id].live BY <1>5, <1>8
  <2>4. overlap \subseteq overlap' /\ \A q \in Requests \ {r} : seen'[q] = seen[q]
    BY <1>0, SeenStays
  <2> QED BY <2>1, <2>2, <2>3, <2>4 DEF Lets
<1>14. Exists(r)' /\ \A u \in Users : ~LogsIn(r, u)' BY <1>5 DEF Exists, LogsIn
<1> QED BY <1>11, <1>12, <1>13, <1>14, RequestsKnown DEF LInv

(* A login writes what it computed from a row that was right unless logins  *)
(* have overlapped, and whose count was not too high in any case.           *)
LEMMA LoginStep ==
  ASSUME LInv, AInv, NEW r \in Requests, Handle(r), Login(r)
  PROVE  LInv'
<1> DEFINE i == plan[r].id  n == meant[plan[r].id].logins + 1
           wrote == LoginColumns(seen[r], n)  right == LoginColumns(meant[i], n)
<1>0. /\ AType /\ LType /\ at[r] = "write" /\ plan[r].op = "login"
      /\ rows' = [rows EXCEPT ![i] = With(@, wrote)]
      /\ meant' = [meant EXCEPT ![i] = With(@, right)]
      /\ Close(r) /\ overlap' = overlap
  BY DEF AInv, LInv, Login, Sets
<1>1. i \in Ids /\ i \in Users BY <1>0, PlanRow DEF UserOps
<1>2. rows[i].live BY <1>0 DEF LInv, Exists, Creates
<1>3. Right(seen[r], i) /\ LogsIn(r, i) BY <1>0, <1>1 DEF LInv, Holds, LogsIn
<1>4. /\ DOMAIN wrote = LoginCols /\ DOMAIN right = LoginCols
      /\ wrote.last = seen[r].current /\ wrote.current = n /\ wrote.logins = seen[r].logins + 1
      /\ right.last = meant[i].current /\ right.current = n
      /\ right.logins = meant[i].logins + 1
  BY DEF LoginColumns, LoginCols
<1> HIDE DEF wrote, right
<1>5. /\ rows' = [id \in Ids |-> rows'[id]] /\ meant' = [id \in Ids |-> meant'[id]]
      /\ rows'[i] = With(rows[i], wrote) /\ meant'[i] = With(meant[i], right)
      /\ \A id \in Ids \ {i} : rows'[id] = rows[id] /\ meant'[id] = meant[id]
      /\ at'[r] = "idle" /\ seen' = [q \in Requests |-> seen'[q]]
  BY <1>0, <1>1 DEF Close, Goto, LType, AType
<1>6. DOMAIN meant[i] = DOMAIN rows[i] /\ LoginCols \subseteq DOMAIN rows[i]
      /\ rows[i].logins \in Nat /\ meant[i].logins \in Nat
  BY <1>0, <1>1, <1>2 DEF LType
<1>7. /\ DOMAIN rows'[i] = DOMAIN rows[i] /\ DOMAIN meant'[i] = DOMAIN rows[i]
      /\ \A c \in LoginCols : rows'[i][c] = wrote[c]
      /\ \A c \in DOMAIN rows[i] \ LoginCols : rows'[i][c] = rows[i][c]
      /\ \A c \in LoginCols : meant'[i][c] = right[c]
      /\ \A c \in DOMAIN rows[i] \ LoginCols : meant'[i][c] = meant[i][c]
  BY <1>4, <1>5, <1>6 DEF With
<1>8. "live" \in DOMAIN rows'[i] /\ rows'[i].live = rows[i].live
  BY <1>0, <1>1, <1>7 DEF LType, LoginCols
<1>9. rows'[i].logins = seen[r].logins + 1 /\ meant'[i].logins = meant[i].logins + 1
  BY <1>4, <1>7 DEF LoginCols
<1>10. \A u \in Users : u \in Ids /\ (u # i => rows'[u] = rows[u] /\ meant'[u] = meant[u])
  BY <1>5 DEF Ids
<1>11. LType'
  <2>1. ASSUME NEW u \in Users, rows'[u].live
        PROVE  /\ LoginCols \subseteq DOMAIN rows'[u]
               /\ rows'[u].logins \in Nat /\ meant'[u].logins \in Nat
    <3>1. CASE u = i BY <1>3, <1>6, <1>7, <1>9, <3>1 DEF Right
    <3>2. CASE u # i BY <1>0, <1>10, <2>1, <3>2 DEF LType
    <3> QED BY <3>1, <3>2
  <2>2. \A id \in Ids : "live" \in DOMAIN rows'[id] BY <1>0, <1>5, <1>8 DEF LType
  <2>3. \A id \in Ids : DOMAIN meant'[id] = DOMAIN rows'[id] BY <1>0, <1>5, <1>7 DEF LType
  <2> QED BY <1>5, <2>1, <2>2, <2>3 DEF LType
<1>12. NoLostUpdate'
  <2>1. ASSUME NEW id \in Ids, NEW c \in DOMAIN rows'[id]
        PROVE  rows'[id][c] = meant'[id][c] \/ (c \in {"last", "logins"} /\ id \in overlap')
    <3>1. CASE id = i /\ c \in LoginCols
      <4>1. rows'[i][c] = wrote[c] /\ meant'[i][c] = right[c] BY <1>7, <3>1
      <4>2. CASE c = "current" BY <1>4, <3>1, <4>1, <4>2
      <4>3. CASE c \in {"last", "logins"} BY <1>0, <1>3, <1>4, <3>1, <4>1, <4>3 DEF Right
      <4> QED BY <3>1, <4>2, <4>3 DEF LoginCols
    <3>2. CASE id = i /\ c \notin LoginCols
      <4>1. c \in DOMAIN rows[i] /\ rows'[i][c] = rows[i][c] /\ meant'[i][c] = meant[i][c]
        BY <1>7, <2>1, <3>2
      <4> QED BY <1>0, <1>1, <3>2, <4>1 DEF LInv, NoLostUpdate
    <3>3. CASE id # i
      <4>1. rows'[id] = rows[id] /\ meant'[id] = meant[id] BY <1>5, <3>3
      <4> QED BY <1>0, <2>1, <4>1 DEF LInv, NoLostUpdate
    <3> QED BY <3>1, <3>2, <3>3
  <2>2. ASSUME NEW u \in Users, rows'[u].live PROVE rows'[u].logins <= meant'[u].logins
    <3>1. CASE u = i BY <1>3, <1>6, <1>9, <3>1 DEF Right
    <3>2. CASE u # i BY <1>10, <2>2, <3>2 DEF LInv, NoLostUpdate
    <3> QED BY <3>1, <3>2
  <2> QED BY <2>1, <2>2 DEF NoLostUpdate
<1>13. Lets(r)
  <2>1. \A q \in Requests \ {r} : at'[q] = at[q] /\ plan'[q] = plan[q] BY <1>0, OthersStay
  <2>2. ASSUME NEW u \in Users, rows[u].live
        PROVE  /\ meant'[u].logins \in Nat /\ meant[u].logins <= meant'[u].logins
               /\ ~LogsIn(r, u) =>
                    meant'[u].logins = meant[u].logins /\ meant'[u].current = meant[u].current
    <3>1. CASE u = i BY <1>3, <1>6, <1>9, <3>1
    <3>2. CASE u # i
      <4>1. meant'[u] = meant[u] BY <1>10, <3>2
      <4>2. meant[u].logins \in Nat BY <1>0, <2>2 DEF LType
      <4> QED BY <4>1, <4>2
    <3> QED BY <3>1, <3>2
  <2>3. \A id \in Ids : rows[id].live => rows'[id].live BY <1>2, <1>5, <1>8
  <2>4. overlap \subseteq overlap' /\ \A q \in Requests \ {r} : seen'[q] = seen[q]
    BY <1>0, SeenStays
  <2> QED BY <2>1, <2>2, <2>3, <2>4 DEF Lets
<1>14. Exists(r)' /\ \A u \in Users : ~LogsIn(r, u)' BY <1>5 DEF Exists, LogsIn
<1> QED BY <1>11, <1>12, <1>13, <1>14, RequestsKnown DEF LInv

LEMMA LInvInit == AccInit => LInv
<1> SUFFICES ASSUME AccInit PROVE LInv OBVIOUS
<1>1. \A r \in Requests : at[r] = "idle" BY DEF AccInit
<1>2. meant = rows /\ \A u \in Users : u \in Ids BY DEF AccInit, Ids
<1>3. \A u \in Users : rows[u].live => LoginCols \subseteq DOMAIN rows[u] /\ rows[u].logins = 0
  BY <1>2 DEF AccInit, NoRow, NewUser, LoginCols
<1>4. \A id \in Ids : "live" \in DOMAIN rows[id]
  BY DEF AccInit, NoRow, NewUser, NewKey, NewOrg
<1>5. LType BY <1>2, <1>3, <1>4 DEF LType, AccInit
<1>6. NoLostUpdate BY <1>2, <1>3 DEF NoLostUpdate
<1> QED BY <1>1, <1>5, <1>6 DEF LInv, Exists, Only, Holds, LogsIn

LEMMA LInvStep ==
  ASSUME LInv, AInv, NEW r \in Requests, Handle(r) PROVE LInv'
<1> USE DEF Close, Goto
<1>0. AType BY DEF AInv
<1>1. CASE Begin(r)
  <2>1. at'[r] \in {"keys", "target"} BY <1>0, <1>1 DEF Begin, AType
  <2> QED BY <1>1, <2>1, QuietStep DEF Begin
<1>2. CASE SelectKeys(r)
  <2>1. at'[r] \in {"owner", "idle"} BY <1>0, <1>2 DEF SelectKeys, AType
  <2> QED BY <1>2, <2>1, QuietStep DEF SelectKeys
<1>3. CASE SelectOwner(r)
  <2>1. at'[r] \in {"target", "idle"} BY <1>0, <1>3 DEF SelectOwner, AType
  <2> QED BY <1>3, <2>1, QuietStep DEF SelectOwner
<1>4. CASE ReadTarget(r) BY <1>4, ReadStep
<1>5. CASE CountUsers(r)
  <2>1. UNCHANGED <<rows, meant, overlap>> BY <1>5 DEF CountUsers
  <2>2. CASE at'[r] = "idle" BY <2>1, <2>2, QuietStep
  <2>3. CASE at'[r] # "idle"
    <3>1. at[r] = "count" /\ plan' = plan /\ seen' = seen BY <1>0, <1>5, <2>3 DEF CountUsers, AType
    <3>2. at'[r] = "write" BY <1>0, <1>5, <2>3 DEF CountUsers, AType
    <3>3. Lets(r) /\ LType' /\ NoLostUpdate' BY <2>1, RowsUntouched
    <3>4. Exists(r)' /\ \A u \in Users : ~LogsIn(r, u)'
      BY <2>1, <3>1, <3>2 DEF LInv, Exists, LogsIn
    <3> QED BY <3>3, <3>4, RequestsKnown DEF LInv
  <2> QED BY <2>2, <2>3
<1>6. CASE UpdateColumns(r)
  <2>1. DOMAIN plan[r].cols \subseteq {"enabled", "other", "role"}
    BY <1>6, PlanRow DEF UpdateColumns, Write
  <2> QED BY <1>6, <2>1, AlterStep DEF UpdateColumns, Creates, LoginCols
<1>7. CASE Disable(r)
  <2>1. DOMAIN [enabled |-> FALSE] = {"enabled"} OBVIOUS
  <2> QED BY <1>7, <2>1, AlterStep DEF Disable, Creates, LoginCols
<1>8. CASE EnableUser(r)
  <2>1. DOMAIN [enabled |-> TRUE] = {"enabled"} OBVIOUS
  <2> QED BY <1>8, <2>1, AlterStep DEF EnableUser, Creates, LoginCols
<1>9. CASE RotateKey(r)
  <2>1. DOMAIN [secret |-> rows[plan[r].id].secret + 1] = {"secret"} OBVIOUS
  <2> QED BY <1>9, <2>1, AlterStep DEF RotateKey, Creates, LoginCols
<1>10. CASE Insert(r) BY <1>10, InsertStep
<1>11. CASE Login(r) BY <1>11, LoginStep
<1>12. CASE Refuse(r)
  <2>1. at'[r] = "idle" BY <1>0, <1>12 DEF Refuse, AType
  <2> QED BY <1>12, <2>1, QuietStep DEF Refuse
<1> QED
  BY <1>1, <1>2, <1>3, <1>4, <1>5, <1>6, <1>7, <1>8, <1>9, <1>10, <1>11, <1>12 DEF Handle

LEMMA LInvNext == LInv /\ AInv /\ [AccNext]_avars => LInv'
<1> SUFFICES ASSUME LInv, AInv, [AccNext]_avars PROVE LInv' OBVIOUS
<1>1. CASE AccNext BY <1>1, LInvStep DEF AccNext
<1>2. CASE UNCHANGED avars
  <2>1. LType' BY <1>2 DEF LInv, LType, avars
  <2>2. NoLostUpdate' BY <1>2 DEF LInv, NoLostUpdate, avars
  <2>3. \A r \in Requests : Exists(r)' BY <1>2 DEF LInv, Exists, avars
  <2>4. \A u \in Users : Only(u)' BY <1>2 DEF LInv, Only, LogsIn, avars
  <2>5. \A u \in Users : \A r \in Requests : Holds(r, u)'
    BY <1>2 DEF LInv, Holds, Right, LogsIn, avars
  <2> QED BY <2>1, <2>2, <2>3, <2>4, <2>5 DEF LInv
<1> QED BY <1>1, <1>2

(* For any requests, whatever their order and however they overlap: every   *)
(* row is as if they had come one after another, so that a key stays        *)
(* revoked and a user disabled whatever else was being updated.  Only the   *)
(* last login and the count of logins of a user two of whose logins have    *)
(* overlapped may be others, and the count is then too low.                 *)
THEOREM UpdatesKeepOthers == AccSpec => []NoLostUpdate
<1>1. LInv => NoLostUpdate BY DEF LInv
<1> QED BY AInvInit, AInvNext, LInvInit, LInvNext, <1>1, PTL DEF AccSpec
-----------------------------------------------------------------------------
(* AgentHooks. *)

Fields == {"at", "left", "matched", "conf", "pol", "failed", "decision"}

(* A row of the denylist denies, a rule decides if it matches. *)
RowOK(t, row) == row # Missing =>
    /\ DOMAIN row = {"scope", "val"}
    /\ t = "denylist" => row.val = "deny"
    /\ t = "rules" => row.val \in Decisions \cup {NoMatch}

TablesOK ==
    /\ DOMAIN tables = AllTables
    /\ \A t \in AllTables : DOMAIN tables[t] = Numbers /\ \A i \in Numbers : RowOK(t, tables[t][i])

(* An upsert writes where its caller may, to the row of its scope. *)
UpsertOK(u) == ups[u] # Missing =>
    /\ ups[u].table \in Settings /\ ups[u].found \in Numbers \cup {0}
    /\ WriteScopeAllowed(ups[u].by, ups[u].table, ups[u].scope)
    /\ \A t \in AllTables, i \in Numbers :
         ups[u].table = t /\ ups[u].found = i /\ tables[t][i] # Missing
           => tables[t][i].scope = ups[u].scope

(* An organisation has one row of settings at most. *)
OneConfig == \A s \in Tenants : \A i, j \in RowsAt("configs", s) : i = j

(* What is said to stand does. *)
Stands(e) == \A y \in stood[e] :
    y[1] \in AllTables /\ y[2] \in Numbers /\ tables[y[1]][y[2]] = y[3] /\ y[3] # Missing

(* The rows that stood, of table t and scope s, are among the matches m. *)
Covered(e, t, s, m) == \A y \in stood[e] :
    y[1] = t /\ y[3].scope = s /\ y[3].val # NoMatch => y[3].val \in m

(* Nothing of table t that stood matches the call. *)
Clear(e, t) == \A y \in stood[e] :
    y[1] = t /\ y[3].scope \in {Global, TenantOf[e]} => y[3].val = NoMatch

Closed(e, x) == \A y \in stood[e] :
    y[1] = "configs" /\ y[3].scope = TenantOf[e] /\ y[3].val.fail = "closed"
      => x.conf.fail = "closed"

FloorOf(e, x) == x.decision \in Decisions =>
    \A y \in stood[e] :
      LET t == y[1]  s == y[3].scope  v == y[3].val IN
      /\ t = "denylist" /\ s \in {Global, TenantOf[e]} => x.decision = "deny"
      /\ t = "rules" /\ s \in {Global, TenantOf[e]} /\ v # NoMatch =>
           Severity[x.decision] >= Severity[v]
      /\ t = "configs" /\ s = TenantOf[e] /\ x.failed =>
           (v.fail = "closed" => x.decision = "deny")

EvalOK(e, x) ==
    LET o == TenantOf[e] IN
    /\ DOMAIN x = Fields /\ x.matched \subseteq Decisions /\ "fail" \in DOMAIN x.conf
    /\ x.at \in {"idle", "denylist", "rules", "configs", "policies", "scan", "done"}
    /\ x.at # "done" => x.failed = FALSE /\ x.decision = "none"
    /\ x.at = "idle" => x.matched = {}
    /\ x.at \in {"denylist", "rules"} =>
         \/ x.left = <<Global, o>>
         \/ x.left = <<o>> /\ Covered(e, x.at, Global, x.matched)
    /\ x.at = "configs" => x.left = <<Global, o>> \/ x.left = <<o>>
    /\ x.at \in {"rules", "configs", "policies", "scan"} => Clear(e, "denylist")
    /\ x.at \in {"configs", "policies", "scan"} => Clear(e, "rules")
    /\ x.at \in {"policies", "scan"} => Closed(e, x)
    /\ FloorOf(e, x)

HShape == DOMAIN ev = Evals /\ DOMAIN ups = Upserts /\ DOMAIN stood = Evals

HInv ==
    /\ HShape /\ TablesOK /\ OneConfig
    /\ \A u \in Upserts : UpsertOK(u)
    /\ \A e \in Evals : Stands(e) /\ EvalOK(e, ev[e])

LEMMA SeverityFacts ==
  /\ Severity["allow"] = 0 /\ Severity["ask"] = 1 /\ Severity["deny"] = 2
  /\ \A d \in Decisions : Severity[d] \in 0..2
BY DEF Severity, Decisions

(* combine_hook_rule_matches returns one of the matches, the most severe. *)
LEMMA WinnerIsMostSevere ==
  ASSUME NEW m, m \subseteq Decisions, m # {}
  PROVE  Winner(m) \in m /\ \A c \in m : Severity[c] <= Severity[Winner(m)]
<1>1. \E d \in m : \A c \in m : Severity[c] <= Severity[d]
  <2>1. CASE "deny" \in m
    BY <2>1, SeverityFacts
  <2>2. CASE "deny" \notin m /\ "ask" \in m
    <3>1. \A c \in m : c = "ask" \/ c = "allow" BY <2>2 DEF Decisions
    <3> QED BY <2>2, <3>1, SeverityFacts
  <2>3. CASE "deny" \notin m /\ "ask" \notin m
    <3>1. \A c \in m : c = "allow" BY <2>3 DEF Decisions
    <3> QED BY <3>1, SeverityFacts
  <2> QED BY <2>1, <2>2, <2>3
<1> QED BY <1>1 DEF Winner

LEMMA DecidedFacts ==
  ASSUME NEW x, DOMAIN x = Fields, NEW d
  PROVE  /\ DOMAIN Decided(x, d) = Fields
         /\ Decided(x, d).at = "done" /\ Decided(x, d).decision = d
         /\ Decided(x, d).matched = x.matched /\ Decided(x, d).conf = x.conf
         /\ Decided(x, d).failed = x.failed
BY DEF Decided, Fields

LEMMA EnterFacts ==
  ASSUME NEW x, DOMAIN x = Fields, NEW e \in Evals, NEW t
  PROVE  /\ DOMAIN Enter(x, e, t) = Fields
         /\ Enter(x, e, t).at = t
         /\ t # "policies" => Enter(x, e, t).left = <<Global, TenantOf[e]>>
         /\ Enter(x, e, t).matched = x.matched /\ Enter(x, e, t).conf = x.conf
         /\ Enter(x, e, t).failed = x.failed /\ Enter(x, e, t).decision = x.decision
BY DEF Enter, Fields, ScopeChain

LEMMA MatchFacts ==
  ASSUME NEW x, DOMAIN x = Fields, NEW l, NEW m
  PROVE  LET z == [x EXCEPT !.left = l, !.matched = m] IN
         /\ DOMAIN z = Fields /\ z.at = x.at /\ z.left = l /\ z.matched = m
         /\ z.conf = x.conf /\ z.failed = x.failed /\ z.decision = x.decision
BY DEF Fields

LEMMA MergeFacts ==
  ASSUME NEW x, DOMAIN x = Fields, NEW l, NEW c
  PROVE  /\ LET z == [x EXCEPT !.left = l, !.conf = c] IN
            /\ DOMAIN z = Fields /\ z.at = x.at /\ z.left = l /\ z.matched = x.matched
            /\ z.conf = c /\ z.failed = x.failed /\ z.decision = x.decision
         /\ LET z == [x EXCEPT !.left = l, !.pol = c] IN
            /\ DOMAIN z = Fields /\ z.at = x.at /\ z.matched = x.matched
            /\ z.conf = x.conf /\ z.failed = x.failed /\ z.decision = x.decision
BY DEF Fields

(* A chain of two scopes is read in two steps. *)
LEMMA ChainFacts ==
  ASSUME NEW a, NEW b
  PROVE  /\ Len(<<a, b>>) = 2 /\ Head(<<a, b>>) = a /\ Tail(<<a, b>>) = <<b>>
         /\ Len(<<b>>) = 1 /\ Head(<<b>>) = b
OBVIOUS

(* Fewer rows that stood ask for less. *)
LEMMA EvalMonotone ==
  ASSUME NEW e \in Evals, EvalOK(e, ev[e]), ev'[e] = ev[e], stood'[e] \subseteq stood[e]
  PROVE  EvalOK(e, ev[e])'
<1>1. ASSUME NEW t, NEW s, NEW m, Covered(e, t, s, m)
      PROVE \A y \in stood'[e] : y[1] = t /\ y[3].scope = s /\ y[3].val # NoMatch => y[3].val \in m
  BY <1>1 DEF Covered
<1>2. ASSUME NEW t, Clear(e, t)
      PROVE \A y \in stood'[e] : y[1] = t /\ y[3].scope \in {Global, TenantOf[e]} => y[3].val = NoMatch
  BY <1>2 DEF Clear
<1>3. Closed(e, ev[e]) => Closed(e, ev[e])'
  BY DEF Closed
<1>4. FloorOf(e, ev[e])'
  BY DEF EvalOK, FloorOf
<1>5. ev'[e].at \in {"denylist", "rules"} =>
         \/ ev'[e].left = <<Global, TenantOf[e]>>
         \/ /\ ev'[e].left = <<TenantOf[e]>>
            /\ \A y \in stood'[e] : y[1] = ev'[e].at /\ y[3].scope = Global /\ y[3].val # NoMatch
                 => y[3].val \in ev'[e].matched
  BY <1>1 DEF EvalOK
<1>6. ev'[e].at \in {"rules", "configs", "policies", "scan"} =>
        \A y \in stood'[e] : y[1] = "denylist" /\ y[3].scope \in {Global, TenantOf[e]} => y[3].val = NoMatch
  BY <1>2 DEF EvalOK
<1>7. ev'[e].at \in {"configs", "policies", "scan"} =>
        \A y \in stood'[e] : y[1] = "rules" /\ y[3].scope \in {Global, TenantOf[e]} => y[3].val = NoMatch
  BY <1>2 DEF EvalOK
<1>8. ev'[e].at \in {"policies", "scan"} => Closed(e, ev[e])'
  BY <1>3 DEF EvalOK
<1> QED BY <1>4, <1>5, <1>6, <1>7, <1>8 DEF EvalOK, Covered, Clear

(* A step of an evaluation. *)
LEMMA GoStep ==
  ASSUME HInv, NEW e \in Evals, NEW x, Go(e, x), EvalOK(e, x)
  PROVE  HInv'
<1>1. ev' = [ev EXCEPT ![e] = x] /\ UNCHANGED <<tables, ups, writes, stood>>
  BY DEF Go
<1>2. HShape' BY <1>1 DEF HInv, HShape
<1>3. TablesOK' /\ OneConfig' BY <1>1 DEF HInv, TablesOK, OneConfig, RowsAt, RowOK
<1>4. \A u \in Upserts : UpsertOK(u)' BY <1>1 DEF HInv, UpsertOK
<1>5. ev'[e] = x /\ \A q \in Evals : q # e => ev'[q] = ev[q]
  BY <1>1 DEF HInv, HShape
<1>6. \A q \in Evals : Stands(q)' BY <1>1 DEF HInv, Stands
<1>7. ASSUME NEW q \in Evals, q # e PROVE EvalOK(q, ev[q])'
  BY <1>1, <1>5, <1>7, EvalMonotone DEF HInv
<1>8. EvalOK(e, ev[e])'
  BY <1>1, <1>5 DEF EvalOK, Covered, Clear, Closed, FloorOf
<1> QED BY <1>2, <1>3, <1>4, <1>6, <1>7, <1>8 DEF HInv

(* A row that stood is seen by the query of its scope. *)
LEMMA StoodIsRead ==
  ASSUME HInv, NEW e \in Evals, NEW y \in stood[e], NEW s, y[3].scope = s
  PROVE  y[2] \in RowsAt(y[1], s) /\ tables[y[1]][y[2]] = y[3]
BY DEF HInv, Stands, RowsAt

LEMMA MatchedCovers ==
  ASSUME HInv, NEW e \in Evals, NEW t \in {"denylist", "rules"}
  PROVE  /\ Covered(e, t, Head(ev[e].left), Matched(e, t))
         /\ ev[e].matched \subseteq Matched(e, t)
         /\ Matched(e, t) \subseteq Decisions
<1>1. ASSUME NEW y \in stood[e], y[1] = t, y[3].scope = Head(ev[e].left), y[3].val # NoMatch
      PROVE y[3].val \in Matched(e, t)
  BY <1>1, StoodIsRead DEF Matched
<1>2. ASSUME NEW i \in RowsAt(t, Head(ev[e].left))
      PROVE  tables[t][i].val \in Decisions \cup {NoMatch}
  BY <1>2 DEF RowsAt, HInv, TablesOK, RowOK, AllTables, Decisions
<1>3. ev[e].matched \subseteq Decisions BY DEF HInv, EvalOK
<1> QED BY <1>1, <1>2, <1>3 DEF Covered, Matched

LEMMA HeldByDeny ==
  ASSUME HInv, NEW e \in Evals, NEW x, x.decision = "deny"
  PROVE  FloorOf(e, x)
<1>1. ASSUME NEW y \in stood[e], y[1] = "rules", y[3].val # NoMatch PROVE y[3].val \in Decisions
  BY <1>1 DEF HInv, Stands, TablesOK, RowOK
<1> QED BY <1>1, SeverityFacts DEF FloorOf

LEMMA BeginStep ==
  ASSUME HInv, NEW e \in Evals, BeginHook(e)
  PROVE  HInv'
<1>0. EvalOK(e, ev[e]) /\ HShape BY DEF HInv
<1>1. CASE \E d \in {"off", "error"} : ev' = [ev EXCEPT ![e] = Decided(@, d)] /\ UNCHANGED stood
  <2>1. PICK d \in {"off", "error"} : ev' = [ev EXCEPT ![e] = Decided(ev[e], d)] /\ stood' = stood
    BY <1>1
  <2>2. Go(e, Decided(ev[e], d))
    BY <2>1 DEF BeginHook, Go
  <2>3. d \notin Decisions BY DEF Decisions
  <2>4. EvalOK(e, Decided(ev[e], d))
    BY <1>0, <2>3, DecidedFacts DEF EvalOK, FloorOf
  <2> QED BY <2>2, <2>4, GoStep
<1>2. CASE ~\E d \in {"off", "error"} : ev' = [ev EXCEPT ![e] = Decided(@, d)] /\ UNCHANGED stood
  <2> DEFINE S == {<<k[1], k[2], tables[k[1]][k[2]]>> :
                     k \in {k \in AllTables \X Numbers : tables[k[1]][k[2]] # Missing}}
  <2>1. /\ \E builtin \in SUBSET {"deny"} :
             ev' = [ev EXCEPT ![e] = [Enter(ev[e], e, "denylist") EXCEPT !.matched = builtin]]
        /\ stood' = [stood EXCEPT ![e] = S]
        /\ UNCHANGED <<tables, ups, writes>>
    BY <1>2 DEF BeginHook
  <2>2. PICK builtin \in SUBSET {"deny"} :
             ev' = [ev EXCEPT ![e] = [Enter(ev[e], e, "denylist") EXCEPT !.matched = builtin]]
    BY <2>1
  <2>3. DOMAIN ev[e] = Fields BY <1>0 DEF EvalOK
  <2> DEFINE x0 == Enter(ev[e], e, "denylist")
             x == [x0 EXCEPT !.matched = builtin]
  <2>4. /\ DOMAIN x0 = Fields /\ x0.at = "denylist" /\ x0.left = <<Global, TenantOf[e]>>
        /\ x0.conf = ev[e].conf /\ x0.failed = ev[e].failed /\ x0.decision = ev[e].decision
    BY <2>3, EnterFacts
  <2>5. /\ DOMAIN x = Fields /\ x.at = "denylist" /\ x.left = <<Global, TenantOf[e]>>
        /\ x.matched = builtin /\ x.conf = ev[e].conf /\ x.failed = ev[e].failed
        /\ x.decision = ev[e].decision
    <3> HIDE DEF x0
    <3> QED BY <2>4 DEF Fields
  <2>6. /\ ev'[e] = x /\ stood'[e] = S
        /\ \A q \in Evals : q # e => ev'[q] = ev[q] /\ stood'[q] = stood[q]
    BY <1>0, <2>1, <2>2 DEF HShape
  <2>7. HShape' BY <1>0, <2>1, <2>2 DEF HShape
  <2>8. TablesOK' /\ OneConfig' BY <2>1 DEF HInv, TablesOK, OneConfig, RowsAt, RowOK
  <2>9. \A u \in Upserts : UpsertOK(u)' BY <2>1 DEF HInv, UpsertOK
  <2>10. ASSUME NEW q \in Evals, q # e PROVE Stands(q)' /\ EvalOK(q, ev[q])'
    <3>1. Stands(q)' BY <2>1, <2>6, <2>10 DEF HInv, Stands
    <3>2. EvalOK(q, ev[q])' BY <2>6, <2>10, EvalMonotone DEF HInv
    <3> QED BY <3>1, <3>2
  <2>11. Stands(e)'
    <3> SUFFICES ASSUME NEW y \in stood'[e]
                 PROVE  y[1] \in AllTables /\ y[2] \in Numbers /\ tables'[y[1]][y[2]] = y[3] /\ y[3] # Missing
      BY DEF Stands
    <3>1. PICK k \in AllTables \X Numbers :
            tables[k[1]][k[2]] # Missing /\ y = <<k[1], k[2], tables[k[1]][k[2]]>>
      BY <2>6
    <3> QED BY <2>1, <3>1
  <2>12. EvalOK(e, ev[e])'
    <3>1. ev[e].failed = FALSE /\ ev[e].decision = "none" /\ "fail" \in DOMAIN ev[e].conf
      BY <1>0 DEF EvalOK, BeginHook
    <3>2. builtin \subseteq Decisions BY DEF Decisions
    <3>3. "none" \notin Decisions BY DEF Decisions
    <3> HIDE DEF x
    <3> QED BY <2>5, <2>6, <3>1, <3>2, <3>3 DEF EvalOK, FloorOf
  <2> QED BY <2>7, <2>8, <2>9, <2>10, <2>11, <2>12 DEF HInv
<1> QED BY <1>1, <1>2

LEMMA DenylistStep ==
  ASSUME HInv, NEW e \in Evals, ReadDenylist(e)
  PROVE  HInv'
<1> DEFINE o == TenantOf[e]
           m == Matched(e, "denylist")
           x == [ev[e] EXCEPT !.left = Tail(ev[e].left), !.matched = m]
<1>1. EvalOK(e, ev[e]) /\ ev[e].at = "denylist" BY DEF HInv, ReadDenylist
<1>2. ev[e].left = <<Global, o>> \/ (ev[e].left = <<o>> /\ Covered(e, "denylist", Global, ev[e].matched))
  BY <1>1 DEF EvalOK
<1>3. /\ DOMAIN x = Fields /\ x.at = "denylist" /\ x.left = Tail(ev[e].left) /\ x.matched = m
      /\ x.conf = ev[e].conf /\ x.failed = FALSE /\ x.decision = "none"
  BY <1>1, MatchFacts DEF EvalOK
<1>4. /\ Covered(e, "denylist", Head(ev[e].left), m) /\ m \subseteq Decisions
      /\ ev[e].matched \subseteq m
  BY MatchedCovers
<1>5. "fail" \in DOMAIN ev[e].conf BY <1>1 DEF EvalOK
<1>6. "none" \notin Decisions BY DEF Decisions
<1>7. Go(e, IF ~IsLast(e) THEN x
            ELSE IF x.matched # {} THEN Decided(x, "deny") ELSE Enter(x, e, "rules"))
  BY DEF ReadDenylist
<1> HIDE DEF x, m
<1>8. CASE ev[e].left = <<Global, o>>
  <2>1. ~IsLast(e) /\ Tail(ev[e].left) = <<o>> /\ Head(ev[e].left) = Global
    BY <1>8, ChainFacts DEF IsLast
  <2>2. EvalOK(e, x)
    BY <1>3, <1>4, <1>5, <1>6, <2>1 DEF EvalOK, FloorOf
  <2> QED BY <1>7, <2>1, <2>2, GoStep
<1>9. CASE ev[e].left = <<o>> /\ Covered(e, "denylist", Global, ev[e].matched)
  <2>1. IsLast(e) /\ Head(ev[e].left) = o
    BY <1>9, ChainFacts DEF IsLast
  <2>2. CASE x.matched # {}
    <3>1. FloorOf(e, Decided(x, "deny")) BY <1>3, DecidedFacts, HeldByDeny
    <3>2. EvalOK(e, Decided(x, "deny"))
      BY <1>3, <1>4, <1>5, <3>1, DecidedFacts DEF EvalOK
    <3> QED BY <1>7, <2>1, <2>2, <3>2, GoStep
  <2>3. CASE x.matched = {}
    <3>1. ASSUME NEW y \in stood[e], y[1] = "denylist", y[3].scope \in {Global, o}
          PROVE  y[3].val = NoMatch
      BY <1>3, <1>4, <1>9, <2>1, <2>3, <3>1 DEF Covered
    <3>2. Clear(e, "denylist") BY <3>1 DEF Clear
    <3> DEFINE z == Enter(x, e, "rules")
    <3>3. /\ DOMAIN z = Fields /\ z.at = "rules" /\ z.left = <<Global, o>> /\ z.matched = {}
          /\ z.conf = ev[e].conf /\ z.failed = FALSE /\ z.decision = "none"
      BY <1>3, <2>3, EnterFacts
    <3> HIDE DEF z
    <3>4. EvalOK(e, z) BY <1>5, <1>6, <3>2, <3>3 DEF EvalOK, FloorOf
    <3> QED BY <1>7, <2>1, <2>3, <3>4, GoStep DEF z
  <2> QED BY <2>2, <2>3
<1> QED BY <1>2, <1>8, <1>9

LEMMA RulesStep ==
  ASSUME HInv, NEW e \in Evals, ReadRules(e)
  PROVE  HInv'
<1> DEFINE o == TenantOf[e]
           m == Matched(e, "rules")
           x == [ev[e] EXCEPT !.left = Tail(ev[e].left), !.matched = m]
<1>1. EvalOK(e, ev[e]) /\ ev[e].at = "rules" BY DEF HInv, ReadRules
<1>2. ev[e].left = <<Global, o>> \/ (ev[e].left = <<o>> /\ Covered(e, "rules", Global, ev[e].matched))
  BY <1>1 DEF EvalOK
<1>3. /\ DOMAIN x = Fields /\ x.at = "rules" /\ x.left = Tail(ev[e].left) /\ x.matched = m
      /\ x.conf = ev[e].conf /\ x.failed = FALSE /\ x.decision = "none"
  BY <1>1, MatchFacts DEF EvalOK
<1>4. /\ Covered(e, "rules", Head(ev[e].left), m) /\ m \subseteq Decisions
      /\ ev[e].matched \subseteq m
  BY MatchedCovers
<1>5. "fail" \in DOMAIN ev[e].conf /\ Clear(e, "denylist") BY <1>1 DEF EvalOK
<1>6. "none" \notin Decisions BY DEF Decisions
<1>7. Go(e, IF ~IsLast(e) THEN x
            ELSE IF x.matched # {} THEN Decided(x, Winner(x.matched)) ELSE Enter(x, e, "configs"))
  BY DEF ReadRules
<1> HIDE DEF x, m
<1>8. CASE ev[e].left = <<Global, o>>
  <2>1. ~IsLast(e) /\ Tail(ev[e].left) = <<o>> /\ Head(ev[e].left) = Global
    BY <1>8, ChainFacts DEF IsLast
  <2>2. EvalOK(e, x)
    BY <1>3, <1>4, <1>5, <1>6, <2>1 DEF EvalOK, FloorOf
  <2> QED BY <1>7, <2>1, <2>2, GoStep
<1>9. CASE ev[e].left = <<o>> /\ Covered(e, "rules", Global, ev[e].matched)
  <2>1. IsLast(e) /\ Head(ev[e].left) = o
    BY <1>9, ChainFacts DEF IsLast
  <2>2. ASSUME NEW y \in stood[e], y[1] = "rules", y[3].scope \in {Global, o}, y[3].val # NoMatch
        PROVE  y[3].val \in m
    BY <1>4, <1>9, <2>1, <2>2 DEF Covered
  <2>3. CASE x.matched # {}
    <3> DEFINE w == Winner(m)
               z == Decided(x, w)
    <3>1. w \in Decisions /\ \A c \in m : Severity[c] <= Severity[w]
      BY <1>3, <1>4, <2>3, WinnerIsMostSevere
    <3>2. /\ DOMAIN z = Fields /\ z.at = "done" /\ z.decision = w /\ z.matched = m
          /\ z.conf = ev[e].conf /\ z.failed = FALSE
      BY <1>3, DecidedFacts
    <3> HIDE DEF w, z
    <3>3. \A y \in stood[e] : y[1] = "denylist" => y[3].scope \notin {Global, o}
      <4>1. \A y \in stood[e] : y[1] = "denylist" => y[3].val = "deny"
        BY DEF HInv, Stands, TablesOK, RowOK
      <4> QED BY <1>5, <4>1 DEF Clear, NoMatch
    <3>4. ASSUME NEW y \in stood[e], y[1] = "rules", y[3].scope \in {Global, o}, y[3].val # NoMatch
          PROVE  Severity[w] >= Severity[y[3].val]
      BY <1>4, <2>2, <3>1, <3>4, SeverityFacts
    <3>5. FloorOf(e, z) BY <3>2, <3>3, <3>4 DEF FloorOf
    <3>6. EvalOK(e, z) BY <1>4, <1>5, <3>2, <3>5 DEF EvalOK
    <3> QED BY <1>3, <1>7, <2>1, <2>3, <3>6, GoStep DEF z, w
  <2>4. CASE x.matched = {}
    <3>1. Clear(e, "rules") BY <1>3, <2>2, <2>4 DEF Clear
    <3> DEFINE z == Enter(x, e, "configs")
    <3>2. /\ DOMAIN z = Fields /\ z.at = "configs" /\ z.left = <<Global, o>> /\ z.matched = {}
          /\ z.conf = ev[e].conf /\ z.failed = FALSE /\ z.decision = "none"
      BY <1>3, <2>4, EnterFacts
    <3> HIDE DEF z
    <3>3. EvalOK(e, z) BY <1>5, <1>6, <3>1, <3>2 DEF EvalOK, FloorOf
    <3> QED BY <1>7, <2>1, <2>4, <3>3, GoStep DEF z
  <2> QED BY <2>3, <2>4
<1> QED BY <1>2, <1>8, <1>9

(* Where nothing that stood matches, only the settings bound a decision. *)
LEMMA NothingAbove ==
  ASSUME HInv, NEW e \in Evals, Clear(e, "denylist"), Clear(e, "rules"), NEW x,
         \A y \in stood[e] :
           y[1] = "configs" /\ y[3].scope = TenantOf[e] /\ y[3].val.fail = "closed" /\ x.failed
             => x.decision = "deny"
  PROVE  FloorOf(e, x)
<1>1. \A y \in stood[e] : y[1] = "denylist" => y[3].val = "deny"
  BY DEF HInv, Stands, TablesOK, RowOK
<1>2. \A y \in stood[e] : y[1] = "denylist" => y[3].scope \notin {Global, TenantOf[e]}
  BY <1>1 DEF Clear, NoMatch
<1> QED BY <1>2 DEF FloorOf, Clear

LEMMA ConfigStep ==
  ASSUME HInv, NEW e \in Evals, ReadConfig(e)
  PROVE  HInv'
<1> DEFINE o == TenantOf[e]
<1>1. EvalOK(e, ev[e]) /\ ev[e].at = "configs" BY DEF HInv, ReadConfig
<1>2. ev[e].left = <<Global, o>> \/ ev[e].left = <<o>> BY <1>1 DEF EvalOK
<1>3. PICK c \in Merged("configs", Head(ev[e].left), ev[e].conf) :
        Go(e, IF ~IsLast(e) THEN [ev[e] EXCEPT !.left = Tail(ev[e].left), !.conf = c]
              ELSE IF c.on = "on"
              THEN Enter([ev[e] EXCEPT !.left = Tail(ev[e].left), !.conf = c], e, "policies")
              ELSE Decided([ev[e] EXCEPT !.left = Tail(ev[e].left), !.conf = c], "allow"))
  BY DEF ReadConfig
<1> DEFINE x == [ev[e] EXCEPT !.left = Tail(ev[e].left), !.conf = c]
<1>4. /\ DOMAIN x = Fields /\ x.at = "configs" /\ x.left = Tail(ev[e].left)
      /\ x.matched = ev[e].matched /\ x.conf = c /\ x.failed = FALSE /\ x.decision = "none"
  BY <1>1, MergeFacts DEF EvalOK
<1> HIDE DEF x
<1>5. /\ "fail" \in DOMAIN ev[e].conf /\ ev[e].matched \subseteq Decisions
      /\ Clear(e, "denylist") /\ Clear(e, "rules")
  BY <1>1 DEF EvalOK
<1>6. "fail" \in DOMAIN c BY <1>5 DEF Merged, Merge
<1>7. "none" \notin Decisions BY DEF Decisions
<1>8. CASE ev[e].left = <<Global, o>>
  <2>1. ~IsLast(e) /\ Tail(ev[e].left) = <<o>>
    BY <1>8, ChainFacts DEF IsLast
  <2>2. EvalOK(e, x)
    BY <1>4, <1>5, <1>6, <1>7, <2>1 DEF EvalOK, FloorOf
  <2> QED BY <1>3, <2>1, <2>2, GoStep DEF x
<1>9. CASE ev[e].left = <<o>>
  <2>1. IsLast(e) /\ Head(ev[e].left) = o
    BY <1>9, ChainFacts DEF IsLast
  <2>2. ASSUME NEW y \in stood[e], y[1] = "configs", y[3].scope = o, y[3].val.fail = "closed"
        PROVE  c.fail = "closed"
    <3>1. y[2] \in RowsAt("configs", o) /\ tables["configs"][y[2]] = y[3]
      BY <2>2, StoodIsRead
    <3>2. o \in Tenants BY HooksAssumption
    <3>3. PICK i \in RowsAt("configs", o) : c = Merge(ev[e].conf, tables["configs"][i].val)
      BY <1>3, <2>1, <3>1 DEF Merged
    <3>4. i = y[2] BY <3>1, <3>2, <3>3 DEF HInv, OneConfig
    <3>5. c = Merge(ev[e].conf, y[3].val) BY <3>1, <3>3, <3>4
    <3> QED BY <1>5, <2>2, <3>5, HooksAssumption DEF Merge
  <2>3. CASE c.on = "on"
    <3> DEFINE z == Enter(x, e, "policies")
    <3>1. /\ DOMAIN z = Fields /\ z.at = "policies" /\ z.matched = ev[e].matched
          /\ z.conf = c /\ z.failed = FALSE /\ z.decision = "none"
      BY <1>4, EnterFacts
    <3> HIDE DEF z
    <3>2. Closed(e, z) BY <2>2, <3>1 DEF Closed
    <3>3. EvalOK(e, z) BY <1>5, <1>6, <1>7, <3>1, <3>2 DEF EvalOK, FloorOf
    <3> QED BY <1>3, <2>1, <2>3, <3>3, GoStep DEF x, z
  <2>4. CASE c.on # "on"
    <3> DEFINE z == Decided(x, "allow")
    <3>1. /\ DOMAIN z = Fields /\ z.at = "done" /\ z.matched = ev[e].matched
          /\ z.conf = c /\ z.failed = FALSE /\ z.decision = "allow"
      BY <1>4, DecidedFacts
    <3> HIDE DEF z
    <3>2. FloorOf(e, z) BY <1>5, <3>1, NothingAbove
    <3>3. EvalOK(e, z) BY <1>5, <1>6, <3>1, <3>2 DEF EvalOK
    <3> QED BY <1>3, <2>1, <2>4, <3>3, GoStep DEF x, z
  <2> QED BY <2>3, <2>4
<1> QED BY <1>2, <1>8, <1>9

LEMMA PolicyStep ==
  ASSUME HInv, NEW e \in Evals, ReadPolicy(e)
  PROVE  HInv'
<1>1. EvalOK(e, ev[e]) /\ ev[e].at = "policies" BY DEF HInv, ReadPolicy
<1>2. PICK p \in Merged("policies", Head(ev[e].left), ev[e].pol) :
        Go(e, IF IsLast(e)
              THEN [[ev[e] EXCEPT !.left = Tail(ev[e].left), !.pol = p] EXCEPT !.at = "scan"]
              ELSE [ev[e] EXCEPT !.left = Tail(ev[e].left), !.pol = p])
  BY DEF ReadPolicy
<1> DEFINE x == [ev[e] EXCEPT !.left = Tail(ev[e].left), !.pol = p]
           z == [x EXCEPT !.at = "scan"]
<1>3. /\ DOMAIN x = Fields /\ x.at = "policies" /\ x.matched = ev[e].matched
      /\ x.conf = ev[e].conf /\ x.failed = FALSE /\ x.decision = "none"
  BY <1>1, MergeFacts DEF EvalOK
<1> HIDE DEF x
<1>4. /\ DOMAIN z = Fields /\ z.at = "scan" /\ z.matched = ev[e].matched
      /\ z.conf = ev[e].conf /\ z.failed = FALSE /\ z.decision = "none"
  BY <1>3 DEF Fields
<1> HIDE DEF z
<1>5. "none" \notin Decisions BY DEF Decisions
<1>6. EvalOK(e, x) BY <1>1, <1>3, <1>5 DEF EvalOK, FloorOf, Closed
<1>7. EvalOK(e, z) BY <1>1, <1>4, <1>5 DEF EvalOK, FloorOf, Closed
<1> QED BY <1>2, <1>6, <1>7, GoStep DEF x, z

LEMMA ScanStep ==
  ASSUME HInv, NEW e \in Evals, Scan(e) \/ ScanFails(e) \/ ReadFails(e)
  PROVE  HInv'
<1>1. EvalOK(e, ev[e]) BY DEF HInv
<1>2. DOMAIN ev[e] = Fields /\ ev[e].matched \subseteq Decisions /\ "fail" \in DOMAIN ev[e].conf
  BY <1>1 DEF EvalOK
<1>3. CASE Scan(e)
  <2>1. ev[e].at = "scan" BY <1>3 DEF Scan
  <2>2. PICK tiers \in Actions, auditor \in {"allow", "block", "none"} :
          Go(e, Decided(ev[e], ToDecision(Verdict(ev[e].pol, tiers, auditor))))
    BY <1>3 DEF Scan
  <2> DEFINE d == ToDecision(Verdict(ev[e].pol, tiers, auditor))
             z == Decided(ev[e], d)
  <2>3. d \in Decisions BY DEF ToDecision, Decisions
  <2>4. /\ DOMAIN z = Fields /\ z.at = "done" /\ z.matched = ev[e].matched
        /\ z.conf = ev[e].conf /\ z.failed = FALSE /\ z.decision = d
    BY <1>1, <1>2, <2>1, DecidedFacts DEF EvalOK
  <2>5. Clear(e, "denylist") /\ Clear(e, "rules") BY <1>1, <2>1 DEF EvalOK
  <2> HIDE DEF d, z
  <2>6. FloorOf(e, z) BY <2>4, <2>5, NothingAbove
  <2>7. EvalOK(e, z) BY <1>2, <2>4, <2>6 DEF EvalOK
  <2> QED BY <2>2, <2>7, GoStep DEF d, z
<1>4. CASE ScanFails(e)
  <2> DEFINE d == IF ev[e].conf.fail = "closed" THEN "deny" ELSE "allow"
             z0 == Decided(ev[e], d)
             z == [z0 EXCEPT !.failed = TRUE]
  <2>1. ev[e].at \in {"policies", "scan"} /\ Go(e, z) BY <1>4 DEF ScanFails
  <2>2. /\ DOMAIN z0 = Fields /\ z0.at = "done" /\ z0.matched = ev[e].matched
        /\ z0.conf = ev[e].conf /\ z0.decision = d
    BY <1>2, DecidedFacts
  <2>3. Clear(e, "denylist") /\ Clear(e, "rules") /\ Closed(e, ev[e])
    BY <1>1, <2>1 DEF EvalOK
  <2>4. (ev[e].conf.fail = "closed" => d = "deny") /\ d \in Decisions BY DEF Decisions
  <2> HIDE DEF d, z0
  <2>5. /\ DOMAIN z = Fields /\ z.at = "done" /\ z.matched = ev[e].matched
        /\ z.conf = ev[e].conf /\ z.decision = d /\ z.failed = TRUE
    BY <2>2 DEF Fields
  <2> HIDE DEF z
  <2>6. ASSUME NEW y \in stood[e], y[1] = "configs", y[3].scope = TenantOf[e],
               y[3].val.fail = "closed"
        PROVE  z.decision = "deny"
    BY <2>3, <2>4, <2>5, <2>6 DEF Closed
  <2>7. FloorOf(e, z) BY <2>3, <2>5, <2>6, NothingAbove
  <2>8. EvalOK(e, z) BY <1>2, <2>5, <2>7 DEF EvalOK
  <2> QED BY <2>1, <2>8, GoStep
<1>5. CASE ReadFails(e)
  <2>1. Go(e, Decided(ev[e], "error")) BY <1>5 DEF ReadFails
  <2>2. "error" \notin Decisions BY DEF Decisions
  <2>3. EvalOK(e, Decided(ev[e], "error"))
    BY <1>2, <2>2, DecidedFacts DEF EvalOK, FloorOf
  <2> QED BY <2>1, <2>3, GoStep
<1> QED BY <1>3, <1>4, <1>5

(* What a write does, and what it need not look at to keep. *)
Rewrites(t, i, row) ==
    \A n \in AllTables, j \in Numbers :
      tables'[n][j] = IF n = t /\ j = i THEN row ELSE tables[n][j]

RestOK ==
    /\ DOMAIN ev = Evals /\ DOMAIN stood = Evals /\ TablesOK
    /\ \A e \in Evals : Stands(e) /\ EvalOK(e, ev[e])

(* A write of row i of table t by somebody who may. *)
LEMMA PutStep ==
  ASSUME HInv, NEW x, NEW t \in AllTables, NEW i \in Numbers, NEW row,
         Put(x, t, i, row), RowOK(t, row),
         tables[t][i] = Missing \/ Owns(x, t, tables[t][i].scope)
  PROVE  RestOK' /\ Rewrites(t, i, row)
<1>1. /\ tables' = [tables EXCEPT ![t][i] = row]
      /\ stood' = [e \in Evals |-> {y \in stood[e] :
                     <<y[1], y[2]>> = <<t, i>> => ~Owns(x, t, y[3].scope)}]
      /\ ev' = ev
  BY DEF Put
<1>2. HShape /\ TablesOK BY DEF HInv
<1>3. /\ DOMAIN tables' = AllTables
      /\ \A n \in AllTables : DOMAIN tables'[n] = Numbers
      /\ \A n \in AllTables, j \in Numbers :
           tables'[n][j] = IF n = t /\ j = i THEN row ELSE tables[n][j]
  BY <1>1, <1>2 DEF TablesOK
<1>4. TablesOK'
  <2>1. \A n \in AllTables, j \in Numbers : RowOK(n, tables[n][j])'
    BY <1>2, <1>3 DEF TablesOK, RowOK
  <2> QED BY <1>3, <2>1 DEF TablesOK
<1>5. ASSUME NEW e \in Evals, NEW y \in stood'[e]
      PROVE  y \in stood[e] /\ (y[1] # t \/ y[2] # i)
  <2>1. y \in stood[e] /\ (<<y[1], y[2]>> = <<t, i>> => ~Owns(x, t, y[3].scope))
    BY <1>1
  <2>2. tables[y[1]][y[2]] = y[3] /\ y[3] # Missing
    BY <2>1 DEF HInv, Stands
  <2> QED BY <2>1, <2>2
<1>6. ASSUME NEW e \in Evals PROVE Stands(e)'
  BY <1>3, <1>5 DEF HInv, Stands
<1>7. ASSUME NEW e \in Evals PROVE EvalOK(e, ev[e])'
  BY <1>1, <1>5, EvalMonotone DEF HInv
<1>8. DOMAIN ev' = Evals /\ DOMAIN stood' = Evals BY <1>1, <1>2 DEF HShape
<1> QED BY <1>3, <1>4, <1>6, <1>7, <1>8 DEF RestOK, Rewrites

(* Upserts under way do not mind a write to a row that is not theirs, or    *)
(* one that keeps the scope.                                                *)
LEMMA UpsertsStay ==
  ASSUME HInv, NEW t \in AllTables, NEW i \in Numbers, NEW row,
         Rewrites(t, i, row),
         \/ i \in Free(t)
         \/ row = Missing
         \/ tables[t][i] # Missing /\ row.scope = tables[t][i].scope,
         NEW u \in Upserts, ups'[u] = ups[u]
  PROVE  UpsertOK(u)'
<1>1. UpsertOK(u) BY DEF HInv
<1> USE DEF Rewrites
<1> SUFFICES ASSUME ups[u] # Missing, NEW n \in AllTables, NEW j \in Numbers,
                    ups[u].table = n, ups[u].found = j, tables'[n][j] # Missing
             PROVE  tables'[n][j].scope = ups[u].scope
  BY <1>1 DEF UpsertOK
<1>2. CASE n = t /\ j = i
  <2>1. i \notin Free(t)
    <3>1. <<ups[u].table, ups[u].found>> = <<t, i>> BY <1>2
    <3> QED BY <3>1 DEF Free
  <2> QED BY <1>1, <1>2, <2>1 DEF UpsertOK
<1>3. CASE ~(n = t /\ j = i)
  BY <1>1, <1>3 DEF UpsertOK
<1> QED BY <1>2, <1>3

(* An organisation's row of settings stays its only one. *)
LEMMA OneConfigStays ==
  ASSUME HInv, NEW t \in AllTables, NEW i \in Numbers, NEW row,
         Rewrites(t, i, row),
         \/ t # "configs"
         \/ row = Missing
         \/ tables[t][i] # Missing /\ row.scope = tables[t][i].scope
         \/ row.scope = Global
         \/ RowsAt(t, row.scope) = {}
  PROVE  OneConfig'
<1> USE DEF Rewrites
<1> "configs" \in AllTables BY DEF AllTables
<1> SUFFICES ASSUME NEW s \in Tenants, NEW j \in Numbers, NEW k \in Numbers,
                    tables'["configs"][j] # Missing, tables'["configs"][j].scope = s,
                    tables'["configs"][k] # Missing, tables'["configs"][k].scope = s
             PROVE  j = k
  BY DEF OneConfig, RowsAt
<1>1. ASSUME NEW a \in Numbers, NEW b \in Numbers,
             tables["configs"][a] # Missing, tables["configs"][a].scope = s,
             tables["configs"][b] # Missing, tables["configs"][b].scope = s
      PROVE  a = b
  BY <1>1 DEF HInv, OneConfig, RowsAt
<1>2. CASE t # "configs" BY <1>1, <1>2
<1>3. CASE t = "configs"
  <2>1. CASE row = Missing BY <1>1, <1>3, <2>1
  <2>2. CASE tables[t][i] # Missing /\ row.scope = tables[t][i].scope
    BY <1>1, <1>3, <2>2
  <2>3. CASE row.scope = Global
    <3>1. s # Global BY HooksAssumption
    <3> QED BY <1>1, <1>3, <2>3, <3>1
  <2>4. CASE RowsAt(t, row.scope) = {}
    <3>1. \A a \in Numbers : tables["configs"][a] # Missing => tables["configs"][a].scope # row.scope
      BY <1>3, <2>4 DEF RowsAt
    <3> QED BY <1>1, <1>3, <3>1
  <2> QED BY <1>3, <2>1, <2>2, <2>3, <2>4
<1> QED BY <1>2, <1>3

(* The same of a whole write of which no upsert is part. *)
LEMMA WriteStep ==
  ASSUME HInv, NEW x, NEW t \in AllTables, NEW i \in Numbers, NEW row,
         Put(x, t, i, row), RowOK(t, row), ups' = ups,
         \/ i \in Free(t)
         \/ tables[t][i] # Missing /\ Owns(x, t, tables[t][i].scope)
            /\ (row = Missing \/ row.scope = tables[t][i].scope),
         t # "configs"
  PROVE  HInv'
<1>1. tables[t][i] = Missing \/ Owns(x, t, tables[t][i].scope) BY DEF Free
<1>2. RestOK' /\ Rewrites(t, i, row) BY <1>1, PutStep
<1>3. OneConfig' BY <1>2, OneConfigStays
<1>4. \A u \in Upserts : UpsertOK(u)' BY <1>2, UpsertsStay
<1>5. HShape' BY <1>2 DEF HInv, HShape, RestOK
<1> QED BY <1>2, <1>3, <1>4, <1>5 DEF HInv, RestOK

LEMMA RowFacts ==
  ASSUME HInv, NEW t \in AllTables, NEW i \in Numbers, tables[t][i] # Missing, NEW v
  PROVE  LET row == [tables[t][i] EXCEPT !.val = v] IN
         DOMAIN row = {"scope", "val"} /\ row.val = v /\ row.scope = tables[t][i].scope
<1>1. DOMAIN tables[t][i] = {"scope", "val"} BY DEF HInv, TablesOK, RowOK
<1> QED BY <1>1

LEMMA RulesWritten ==
  ASSUME HInv, NEW x \in Callers,
         \/ CreateRule(x) \/ CreateEntry(x)
         \/ \E i \in Numbers : UpdateRule(x, i) \/ UpdatePolicy(x, i)
         \/ \E t \in AllTables, i \in Numbers : Delete(x, t, i)
  PROVE  HInv'
<1> USE DEF AllTables
<1>1. CASE CreateRule(x)
  <2>1. PICK s \in Scopes("rules"), i \in Free("rules"), d \in Decisions :
          Put(x, "rules", i, [scope |-> s, val |-> d]) /\ UNCHANGED ups
    BY <1>1 DEF CreateRule
  <2>2. i \in Numbers BY DEF Free
  <2>3. RowOK("rules", [scope |-> s, val |-> d]) BY DEF RowOK
  <2> QED BY <2>1, <2>2, <2>3, WriteStep
<1>2. CASE CreateEntry(x)
  <2>1. PICK s \in Scopes("denylist"), i \in Free("denylist") :
          Put(x, "denylist", i, [scope |-> s, val |-> "deny"]) /\ UNCHANGED ups
    BY <1>2 DEF CreateEntry
  <2>2. i \in Numbers BY DEF Free
  <2>3. RowOK("denylist", [scope |-> s, val |-> "deny"]) BY DEF RowOK
  <2> QED BY <2>1, <2>2, <2>3, WriteStep
<1>3. ASSUME NEW i \in Numbers, UpdateRule(x, i) PROVE HInv'
  <2>1. tables["rules"][i] # Missing /\ Owns(x, "rules", tables["rules"][i].scope) /\ ups' = ups
    BY <1>3 DEF UpdateRule, WriteScopeAllowed, Owns
  <2>2. PICK d \in Decisions \cup {NoMatch} : Put(x, "rules", i, [tables["rules"][i] EXCEPT !.val = d])
    BY <1>3 DEF UpdateRule
  <2> DEFINE row == [tables["rules"][i] EXCEPT !.val = d]
  <2>3. DOMAIN row = {"scope", "val"} /\ row.val = d /\ row.scope = tables["rules"][i].scope
    BY <2>1, RowFacts
  <2> HIDE DEF row
  <2>4. RowOK("rules", row) BY <2>3 DEF RowOK
  <2>5. Put(x, "rules", i, row) BY <2>2 DEF row
  <2> QED BY <2>1, <2>3, <2>4, <2>5, WriteStep
<1>4. ASSUME NEW i \in Numbers, UpdatePolicy(x, i) PROVE HInv'
  <2>1. tables["policies"][i] # Missing /\ Owns(x, "policies", tables["policies"][i].scope) /\ ups' = ups
    BY <1>4 DEF UpdatePolicy, WriteScopeAllowed, Owns
  <2>2. PICK b \in Bodies :
          Put(x, "policies", i, [tables["policies"][i] EXCEPT !.val = Set(tables["policies"][i].val, b)])
    BY <1>4 DEF UpdatePolicy
  <2> DEFINE v == Set(tables["policies"][i].val, b)
             row == [tables["policies"][i] EXCEPT !.val = v]
  <2> HIDE DEF v
  <2>3. DOMAIN row = {"scope", "val"} /\ row.scope = tables["policies"][i].scope
    BY <2>1, RowFacts
  <2>5. Put(x, "policies", i, row) BY <2>2 DEF v
  <2> HIDE DEF row
  <2>4. RowOK("policies", row) BY <2>3 DEF RowOK
  <2> QED BY <2>1, <2>3, <2>4, <2>5, WriteStep
<1>5. ASSUME NEW t \in AllTables, NEW i \in Numbers, Delete(x, t, i) PROVE HInv'
  <2>1. /\ t # "configs" /\ tables[t][i] # Missing /\ Owns(x, t, tables[t][i].scope)
        /\ Put(x, t, i, Missing) /\ ups' = ups
    BY <1>5 DEF Delete, WriteScopeAllowed, Owns
  <2>2. RowOK(t, Missing) BY DEF RowOK
  <2> QED BY <2>1, <2>2, WriteStep
<1> QED BY <1>1, <1>2, <1>3, <1>4, <1>5

LEMMA SelectStep ==
  ASSUME HInv, NEW u \in Upserts, NEW x \in Callers, NEW t \in Settings, UpsertSelect(u, x, t)
  PROVE  HInv'
<1>1. PICK s \in Scopes(t), b \in Bodies :
        /\ WriteScopeAllowed(x, t, s)
        /\ \E i \in IF RowsAt(t, s) = {} THEN {0} ELSE RowsAt(t, s) :
             ups' = [ups EXCEPT ![u] = [by |-> x, table |-> t, scope |-> s, body |-> b, found |-> i]]
  BY DEF UpsertSelect
<1>2. PICK i \in IF RowsAt(t, s) = {} THEN {0} ELSE RowsAt(t, s) :
        ups' = [ups EXCEPT ![u] = [by |-> x, table |-> t, scope |-> s, body |-> b, found |-> i]]
  BY <1>1
<1>3. UNCHANGED <<tables, ev, stood>> BY DEF UpsertSelect
<1>4. TablesOK' /\ OneConfig' BY <1>3 DEF HInv, TablesOK, OneConfig, RowsAt, RowOK
<1>5. HShape' BY <1>2, <1>3 DEF HInv, HShape
<1>6. ASSUME NEW e \in Evals PROVE Stands(e)' /\ EvalOK(e, ev[e])'
  <2>1. Stands(e)' BY <1>3 DEF HInv, Stands
  <2>2. EvalOK(e, ev[e])' BY <1>3, EvalMonotone DEF HInv
  <2> QED BY <2>1, <2>2
<1>7. ASSUME NEW w \in Upserts, w # u PROVE UpsertOK(w)'
  <2>1. ups'[w] = ups[w] BY <1>2, <1>7 DEF HInv, HShape
  <2> QED BY <1>3, <2>1 DEF HInv, UpsertOK
<1>8. UpsertOK(u)'
  <2>1. /\ ups'[u].by = x /\ ups'[u].table = t /\ ups'[u].scope = s /\ ups'[u].found = i
    BY <1>2 DEF HInv, HShape
  <2>2. i \in Numbers \cup {0} BY <1>2 DEF RowsAt
  <2>3. i \in Numbers => i \in RowsAt(t, s) BY <1>2, HooksAssumption
  <2>4. ASSUME NEW n \in AllTables, NEW j \in Numbers, n = t, j = i
        PROVE  tables'[n][j].scope = s
    BY <1>3, <2>3, <2>4 DEF RowsAt
  <2> QED BY <1>1, <2>1, <2>2, <2>4 DEF UpsertOK, WriteScopeAllowed
<1> QED BY <1>4, <1>5, <1>6, <1>7, <1>8 DEF HInv

LEMMA UpsertWriteStep ==
  ASSUME HInv, NEW u \in Upserts, UpsertWrite(u)
  PROVE  HInv'
<1> DEFINE q == ups[u]
           new == [scope |-> q.scope, val |-> Set([on |-> Inherit, fail |-> Inherit], q.body)]
<1>1. q # Missing /\ ups' = [ups EXCEPT ![u] = Missing] BY DEF UpsertWrite
<1>2. /\ q.table \in AllTables /\ q.table \in Settings /\ q.found \in Numbers \cup {0}
      /\ Owns(q.by, q.table, q.scope)
      /\ q.found # 0 /\ tables[q.table][q.found] # Missing => tables[q.table][q.found].scope = q.scope
  <2>1. UpsertOK(u) BY DEF HInv
  <2> QED BY <1>1, <2>1 DEF UpsertOK, WriteScopeAllowed, Owns, Settings, AllTables
<1>3. /\ ups'[u] = Missing /\ \A w \in Upserts : w # u => ups'[w] = ups[w]
      /\ DOMAIN ups' = Upserts
  BY <1>1 DEF HInv, HShape
<1>4. UpsertOK(u)' BY <1>3 DEF UpsertOK
<1>5. ASSUME NEW i \in Numbers, NEW row, Put(q.by, q.table, i, row), RowOK(q.table, row),
             \/ i \in Free(q.table) /\ (row.scope = Global \/ RowsAt(q.table, row.scope) = {})
             \/ /\ tables[q.table][i] # Missing /\ row.scope = tables[q.table][i].scope
                /\ Owns(q.by, q.table, row.scope)
      PROVE  HInv'
  <2>1. tables[q.table][i] = Missing \/ Owns(q.by, q.table, tables[q.table][i].scope)
    BY <1>5 DEF Free
  <2>2. RestOK' /\ Rewrites(q.table, i, row)
    BY <1>2, <1>5, <2>1, PutStep
  <2>3. OneConfig' BY <1>2, <1>5, <2>2, OneConfigStays
  <2>4. \A w \in Upserts : w # u => UpsertOK(w)' BY <1>2, <1>3, <1>5, <2>2, UpsertsStay
  <2> QED BY <1>3, <1>4, <2>2, <2>3, <2>4 DEF HInv, HShape, RestOK
<1>6. CASE /\ q.found # 0 /\ tables[q.table][q.found] # Missing
           /\ Put(q.by, q.table, q.found,
                  [tables[q.table][q.found] EXCEPT !.val = Set(tables[q.table][q.found].val, q.body)])
  <2> DEFINE v == Set(tables[q.table][q.found].val, q.body)
             row == [tables[q.table][q.found] EXCEPT !.val = v]
  <2>1. q.found \in Numbers BY <1>2, <1>6
  <2> HIDE DEF v
  <2>2. DOMAIN row = {"scope", "val"} /\ row.scope = q.scope /\ row.scope = tables[q.table][q.found].scope
    BY <1>2, <1>6, <2>1, RowFacts
  <2>3. Put(q.by, q.table, q.found, row) BY <1>6 DEF v
  <2> HIDE DEF row
  <2>4. RowOK(q.table, row) BY <1>2, <2>2 DEF RowOK, Settings
  <2> QED BY <1>2, <1>5, <1>6, <2>1, <2>2, <2>3, <2>4
<1>7. CASE /\ q.found = 0 /\ (q.scope = Global \/ RowsAt(q.table, q.scope) = {})
           /\ \E i \in Free(q.table) : Put(q.by, q.table, i, new)
  <2>1. PICK i \in Free(q.table) : Put(q.by, q.table, i, new) BY <1>7
  <2>2. i \in Numbers BY DEF Free
  <2>3. DOMAIN new = {"scope", "val"} /\ new.scope = q.scope OBVIOUS
  <2> HIDE DEF new
  <2>4. RowOK(q.table, new) BY <1>2, <2>3 DEF RowOK, Settings
  <2> QED BY <1>5, <1>7, <2>1, <2>2, <2>3, <2>4
<1>8. CASE UNCHANGED <<tables, ev, stood>>
  <2>1. TablesOK' /\ OneConfig' BY <1>8 DEF HInv, TablesOK, OneConfig, RowsAt, RowOK
  <2>2. HShape' BY <1>3, <1>8 DEF HInv, HShape
  <2>3. ASSUME NEW e \in Evals PROVE Stands(e)' /\ EvalOK(e, ev[e])'
    <3>1. Stands(e)' BY <1>8 DEF HInv, Stands
    <3>2. EvalOK(e, ev[e])' BY <1>8, EvalMonotone DEF HInv
    <3> QED BY <3>1, <3>2
  <2>4. ASSUME NEW w \in Upserts, w # u PROVE UpsertOK(w)'
    BY <1>3, <1>8, <2>4 DEF HInv, UpsertOK
  <2> QED BY <1>4, <2>1, <2>2, <2>3, <2>4 DEF HInv
<1> QED BY <1>6, <1>7, <1>8 DEF UpsertWrite

LEMMA HInvInit == HooksInit => HInv
<1> SUFFICES ASSUME HooksInit PROVE HInv OBVIOUS
<1>1. HShape BY DEF HooksInit, HShape
<1>2. TablesOK
  <2>1. DOMAIN tables = AllTables /\ \A t \in AllTables : DOMAIN tables[t] = Numbers BY DEF HooksInit
  <2>2. \A t \in AllTables, i \in Numbers : tables[t][i] # Missing =>
          t = "policies" /\ tables[t][i] = [scope |-> Global, val |-> Floor[t]]
    BY DEF HooksInit
  <2>3. ASSUME NEW t \in AllTables, NEW i \in Numbers PROVE RowOK(t, tables[t][i])
    <3> DEFINE row == [scope |-> Global, val |-> Floor[t]]
    <3>1. DOMAIN row = {"scope", "val"} OBVIOUS
    <3>2. tables[t][i] # Missing => t = "policies" /\ tables[t][i] = row BY <2>2
    <3> HIDE DEF row
    <3> QED BY <3>1, <3>2 DEF RowOK
  <2> QED BY <2>1, <2>3 DEF TablesOK
<1>3. OneConfig
  <2>1. \A i \in Numbers : tables["configs"][i] = Missing BY DEF HooksInit, AllTables
  <2> QED BY <2>1 DEF OneConfig, RowsAt
<1>4. \A u \in Upserts : UpsertOK(u) BY DEF HooksInit, UpsertOK
<1>5. ASSUME NEW e \in Evals PROVE Stands(e) /\ EvalOK(e, ev[e])
  <2>1. stood[e] = {} /\ ev[e] = NewEval BY DEF HooksInit
  <2>2. /\ DOMAIN NewEval = Fields /\ NewEval.at = "idle" /\ NewEval.matched = {}
        /\ NewEval.conf = Floor["configs"] /\ NewEval.failed = FALSE /\ NewEval.decision = "none"
    BY DEF NewEval, Fields
  <2>3. "fail" \in DOMAIN Floor["configs"] BY DEF Floor, Settings
  <2>4. Stands(e) BY <2>1 DEF Stands
  <2>5. EvalOK(e, ev[e]) BY <2>1, <2>2, <2>3 DEF EvalOK, FloorOf
  <2> QED BY <2>4, <2>5
<1> QED BY <1>1, <1>2, <1>3, <1>4, <1>5 DEF HInv

LEMMA HInvNext == HInv /\ [HooksNext]_gvars => HInv'
<1> SUFFICES ASSUME HInv, [HooksNext]_gvars PROVE HInv' OBVIOUS
<1>1. ASSUME NEW e \in Evals, Evaluate(e) PROVE HInv'
  BY <1>1, BeginStep, DenylistStep, RulesStep, ConfigStep, PolicyStep, ScanStep DEF Evaluate
<1>2. CASE UNCHANGED gvars
  <2>1. UNCHANGED <<tables, ev, ups, stood>> BY <1>2 DEF gvars
  <2>2. TablesOK' /\ OneConfig' BY <2>1 DEF HInv, TablesOK, OneConfig, RowsAt, RowOK
  <2>3. HShape' BY <2>1 DEF HInv, HShape
  <2>4. ASSUME NEW e \in Evals PROVE Stands(e)' /\ EvalOK(e, ev[e])'
    <3>1. Stands(e)' BY <2>1 DEF HInv, Stands
    <3>2. EvalOK(e, ev[e])' BY <2>1, EvalMonotone DEF HInv
    <3> QED BY <3>1, <3>2
  <2>5. \A u \in Upserts : UpsertOK(u)' BY <2>1 DEF HInv, UpsertOK
  <2> QED BY <2>2, <2>3, <2>4, <2>5 DEF HInv
<1> QED BY <1>1, <1>2, RulesWritten, SelectStep, UpsertWriteStep DEF HooksNext

(* The decision on a tool call is never below what stood: for any number of *)
(* organisations, evaluations, rows and upserts, and whatever is written    *)
(* while the scopes are read one after the other.                           *)
THEOREM FloorNeverLowered == HooksSpec => []FloorHeld
<1>1. HInv => FloorHeld
  BY DEF HInv, EvalOK, FloorOf, FloorHeld
<1> QED BY HInvInit, HInvNext, <1>1, PTL DEF HooksSpec

(* The unique constraint keeps a tenant's or an organisation's hook         *)
(* settings to one row, for any number of overlapping upserts.              *)
THEOREM OrganisationsHaveOneRow == HooksSpec => []OneRowPerOrganisation
<1>1. ASSUME OneConfig PROVE OneRowPerOrganisation
  <2> SUFFICES ASSUME NEW s \in Tenants PROVE Cardinality(RowsAt("configs", s)) <= 1
    BY DEF OneRowPerOrganisation
  <2> DEFINE R == RowsAt("configs", s)
  <2>1. \A i, j \in R : i = j BY <1>1 DEF OneConfig
  <2> HIDE DEF R
  <2>2. R = {} => Cardinality(R) = 0 BY FS_EmptySet, Zenon
  <2>3. ASSUME R # {} PROVE Cardinality(R) = 1
    <3>1. PICK i \in R : TRUE BY <2>3
    <3>2. R = {i} BY <2>1, <3>1
    <3> QED BY <3>2, FS_Singleton, Zenon
  <2>4. Cardinality(R) <= 1 BY <2>2, <2>3
  <2> QED BY <2>4 DEF R
<1>2. HInv => OneRowPerOrganisation BY <1>1 DEF HInv
<1> QED BY HInvInit, HInvNext, <1>2, PTL DEF HooksSpec
=============================================================================
