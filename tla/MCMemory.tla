------------------------------ MODULE MCMemory ------------------------------
(***************************************************************************)
(* Small instances of Scratchpad, Summaries and CodeIndex for TLC.  They    *)
(* share no state: which of them moves is chosen initially.                 *)
(***************************************************************************)
EXTENDS Scratchpad, Summaries, CodeIndex, TLC

CONSTANTS k1, k2, p1, p2, p3, g1, g2, d1,     \* scratchpad keys and calls
          t1, t2, t3, t4, t5, t6, t7, named,     \* requests, a conversation id
          x1, x2, x3, x4, main, dev,                 \* index runs and branches
          Which                               \* the components that are run

VARIABLE which

(* Two puts, the gets and the delete are about k1, one put is about k2. *)
MCKeyOf == [c \in Calls |-> IF c = p3 THEN k2 ELSE k1]

CallSymmetry ==
    Permutations({p1, p2}) \cup Permutations({g1, g2}) \cup Permutations({x1, x2})

(* Requests of conversation 1 of organisation 1 with histories of different *)
(* lengths; a conversation whose id is another number, the one that mirrors *)
(* it, and one whose id is not a number.  The requests of one conversation  *)
(* run beside those of the others, and beside the two that mirror.          *)
MCConversation ==
    [t \in Turns |-> CASE t = t5 -> <<1, named>>
                       [] t \in {t4, t6} -> <<1, 2>>
                       [] t = t7 -> <<2, 1>>
                       [] OTHER -> <<1, 1>>]
MCOlder == [t \in Turns |-> CASE t = t1 -> 1 [] t \in {t2, t7} -> 3 [] OTHER -> 2]

(* Two runs index main beside one of the other branch, or beside a third   *)
(* of main without pushes; the branches share no chunk.                    *)
MCBranchOf == [r \in Runs |-> IF r = x3 THEN dev ELSE main]
MCFiles == [b \in Branches |-> IF b = main THEN {{}, {1, 2}} ELSE {{}, {3}}]

mvars == <<vars, svars, cvars, which>>

(* The remote starts out with the first file, which a run may read        *)
(* from the wrong branch, on both.                                       *)
MemInit == /\ which \in Which /\ Init /\ SumInit /\ IndexInit
           /\ origin = (main :> <<{1, 2}, {}>>) @@ (dev :> <<{3}, {}>>)

MemNext == /\ UNCHANGED which
           /\ \/ which = "scratchpad" /\ Next /\ UNCHANGED <<svars, cvars>>
              \/ /\ \/ which = "summaries" /\ \E t \in Turns \ {t7} : MaybeSummarize(t)
                    \/ which = "mirrored" /\ \E t \in Turns \ {t1, t2} : MaybeSummarize(t)
                 /\ UNCHANGED <<vars, cvars>>
              \/ /\ IndexNext
                 /\ \/ which = "index" /\ doing'[x4] = doing[x4]
                    \/ which = "again" /\ doing'[x3] = doing[x3] /\ UNCHANGED origin
                 /\ UNCHANGED <<vars, svars>>

MemSpec == MemInit /\ [][MemNext]_mvars
============================================================================
