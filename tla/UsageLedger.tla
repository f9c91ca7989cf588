---------------------------- MODULE UsageLedger ----------------------------
(***************************************************************************)
(* What metering promises, without buffers, flushes or threads: an event   *)
(* that is accepted is held until it is either billed, once and for good,  *)
(* or lost for good.  Billing and losing take several events at a time.    *)
(***************************************************************************)
CONSTANT Events

VARIABLE entry    \* entry[e]: what has become of e

LedgerInit == entry = [e \in Events |-> "none"]

(* The events of S, which are in state a, get into state b. *)
Move(S, a, b) ==
    /\ \A e \in S : entry[e] = a
    /\ entry' = [e \in Events |-> IF e \in S THEN b ELSE entry[e]]

Accept(e) == Move({e}, "none", "held")
Bill(S) == Move(S, "held", "billed")
Lose(S) == Move(S, "held", "lost")

LedgerNext ==
    \/ \E e \in Events : Accept(e)
    \/ \E S \in SUBSET Events : Bill(S) \/ Lose(S)

LedgerSpec == LedgerInit /\ [][LedgerNext]_entry
============================================================================
