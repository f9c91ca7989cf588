CONSTANTS
    r1 = r1
    r2 = r2
    r3 = r3
    a = a
    b = b
    o1 = o1
    w1 = w1
    Global = Global
    NotCached = NotCached
    Orgs = {o1}
    Resolvers = {r1}
    Writers = {w1}
    MaxWrites = 2
    l1 = l1
    l2 = l2
    c1 = c1
    gpt = gpt
    s1 = s1
    t1 = t1
    t2 = t2
    d1 = d1
    d2 = d2
    big = big
    tiny = tiny
    j1 = j1
    j2 = j2
    j3 = j3
    NoDeployment = NoDeployment
    None = None
    NoKey = NoKey
    Requests = {r1, r2, r3}
    Keys = {a, b}
    KeyOf <- MCKeyOf
    Sizes = {2, 3, 4}
    MaxEntry = 3
    Quota = 4
    Offers = {l1, l2, c1}
    LocalModels = {l1, l2}
    Cost <- MCCost
    Score <- MCScore
    DefaultModel = gpt
    Signals <- MCSignals
    Inputs <- MCInputs
    Sessions = {s1}
    DeEscalations = {"idle_reset"}
    Turns = {t1}
    SessionOf <- MCSessionOf
    Deployments = {d1, d2}
    Models = {big, tiny}
    Utility = {}
    Jobs = {j1, j2, j3}
    Kind <- MCKind
    ModelOf <- MCModelOf
    ModelLimit = 1
    Which = {"exact", "config", "routing", "turns", "fleet", "pulls", "stream", "breaker"}
SPECIFICATION ControlSpec
INVARIANTS QuotaHeld StoredIsIndexed StaleIsExcused ClampHeld 
PROPERTIES PutEnds EventuallyFresh PullSettles EndsUnlessLost BreakerRecovers
CHECK_DEADLOCK FALSE
