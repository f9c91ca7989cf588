CONSTANTS
    k1 = k1
    k2 = k2
    p1 = p1
    p2 = p2
    p3 = p3
    g1 = g1
    g2 = g2
    d1 = d1
    None = None
    Keys = {k1, k2}
    Puts = {p1, p2, p3}
    Gets = {g1, g2}
    Deletes = {d1}
    KeyOf <- MCKeyOf
    MaxKeys = 1
    t1 = t1
    t2 = t2
    t3 = t3
    t4 = t4
    t5 = t5
    t6 = t6
    named = named
    t7 = t7
    Turns = {t1, t2, t3, t4, t5, t7}
    Numeric = {1, 2}
    Conversation <- MCConversation
    Older <- MCOlder
    x1 = x1
    x2 = x2
    x3 = x3
    x4 = x4
    main = main
    dev = dev
    NoBranch = NoBranch
    Runs = {x1, x2, x3, x4}
    Branches = {main, dev}
    Paths = {1, 2}
    BranchOf <- MCBranchOf
    Files <- MCFiles
    MaxPushes = 1
    Which = {"scratchpad", "summaries", "mirrored", "index", "again"}
SPECIFICATION MemSpec
INVARIANTS NeverServesQuarantined TiersAgree CoverageGrows NothingElided 
CHECK_DEADLOCK FALSE
SYMMETRY CallSymmetry
