-------------------------- MODULE MCCircuitBreaker --------------------------
(* Small instances of CircuitBreaker for TLC. *)
EXTENDS CircuitBreaker

CONSTANTS openai, ollama, gpt, llama, c1, c2, c3, d1

OneProvider == <<openai>>
TwoProviders == <<openai, ollama>>

(* Both serve gpt; only ollama serves llama. *)
MCModelsOf == [p \in Providers |-> ChainModels \cap (IF p = ollama THEN {gpt, llama} ELSE {gpt})]

OneChain == {<<gpt>>}
TwoChains == {<<gpt, llama>>, <<llama>>}

CallerSymmetry == Permutations(Recorders)
============================================================================
