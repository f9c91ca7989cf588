----------------------------- MODULE MCMetering -----------------------------
(* Small instances of MeteringBuffer for TLC. *)
EXTENDS MeteringBuffer

CONSTANTS e1, e2, e3

(* e1 and e2 fall in one minute, e3 in the next; all on one (vkey, date) row. *)
MCBucket == [e \in Events |-> IF e \in {e1, e2} THEN "m0" ELSE "m1"]
MCRowKey == [b \in {"m0", "m1"} |-> "vkey-day"]
============================================================================
