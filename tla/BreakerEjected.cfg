CONSTANTS
    openai = openai
    ollama = ollama
    gpt = gpt
    llama = llama
    c1 = c1
    c2 = c2
    c3 = c3
    d1 = d1
    ModelsOf <- MCModelsOf
    Connectors <- OneProvider
    Chains <- OneChain
    Recorders = {c1}
    Dispatchers = {d1}
    Threshold = 3
    Cooldown = 2
    ClientErrors = FALSE
    Cancels = FALSE
    Counting = FALSE
    Checking = FALSE
SPECIFICATION FairSpec
PROPERTY BreakerRecovers
CHECK_DEADLOCK FALSE
