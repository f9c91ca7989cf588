-------------------------- MODULE MCProxyPipeline ---------------------------
(* Small instances of ProxyPipeline for TLC. *)
EXTENDS ProxyPipeline

CONSTANTS r1, r2, k1, email, phone

OneKey == [r \in Requests |-> k1]
NoneSensitive == [r \in Requests |-> <<>>]

(* Three messages of r1, the first and the last with the same placeholder; *)
(* one of any other request.                                               *)
SomeSensitive == [r \in Requests |-> IF r = r1 THEN <<email, phone, email>> ELSE <<email>>]
============================================================================
