CONSTANTS
    openai = openai
    ollama = ollama
    gpt = gpt
    llama = llama
    c1 = c1
    c2 = c2
    c3 = c3
    d1 = d1
    ModelsOf <- MCModelsOf
    Connectors <- TwoProviders
    Chains <- TwoChains
    Recorders = {c1, c2}
    Dispatchers = {d1}
    Threshold = 3
    Cooldown = 1
    ClientErrors = TRUE
    Cancels = TRUE
    Counting = TRUE
    Checking = TRUE
SPECIFICATION Spec
SYMMETRY CallerSymmetry
INVARIANTS HealthyIsOffered
