--------------------------- MODULE MCTokenLimiter ---------------------------
(* Small instances of TokenLimiter for TLC. *)
EXTENDS TokenLimiter, TLC

CONSTANTS r1, r2, r3, k1

MCKeyOf == [r \in Requests |-> k1]
MCEst == [r \in Requests |-> [tokens |-> 2, usd |-> 1]]
MCActuals == {[tokens |-> 1, usd |-> 1], [tokens |-> 3, usd |-> 0]}
MCActualsLow == {[tokens |-> 1, usd |-> 1]}

(* Two requests fit in a minute, two in a month, two in the money. *)
MCLimit == [k \in Keys |-> [d \in Dims |-> CASE d = "tpm" -> 4 [] d = "tok" -> 5 [] d = "usd" -> 2]]
MCLimitMonth == [k \in Keys |-> [d \in Dims |-> IF d = "tok" THEN 2 ELSE Unset]]

OneMonth == [t \in Minutes |-> 0]
NewMonthEachMinute == [t \in Minutes |-> t]

(* Expiry: a minute for tpm; the month keys outlive the instance, or not. *)
LongLife == [d \in Dims |-> IF d = "tpm" THEN 1 ELSE MaxNow + 1]
ShortLife == [d \in Dims |-> IF d = "tpm" THEN 1 ELSE MaxNow]

RequestSymmetry == Permutations(Requests)
============================================================================
