CONSTANTS
    p1 = p1
    p2 = p2
    p3 = p3
    p4 = p4
    p5 = p5
    a1 = a1
    a2 = a2
    NoAgent = NoAgent
    m1 = m1
    m2 = m2
    m3 = m3
    NoModel = NoModel
    s1 = s1
    s2 = s2
    s3 = s3
    NoSkill = NoSkill
    Agents = {a1, a2}
    MaxCalls = 3
    MaxNotices = 1
    Models = {m1, m2, m3}
    Configured = m1
    Skills = {s1, s2, s3}
    SkillModel <- MCSkillModel
    MaxContexts = 3
    Calls = {p1, p2, p3, p4, p5}
    Threshold = 3
    Which = {"foreman", "history", "mcp", "repl"}
SPECIFICATION Spec
INVARIANTS LostOnlyToCompaction OwnReply RestoredUnlessStacked
PROPERTIES EndsUnlessReplanned
CHECK_DEADLOCK FALSE
