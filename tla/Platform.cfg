CONSTANTS
    r1 = r1
    r2 = r2
    c1 = c1
    c2 = c2
    c3 = c3
    p1 = p1
    p2 = p2
    p3 = p3
    admin = admin
    manager = manager
    user = user
    hired = hired
    k1 = k1
    k2 = k2
    o1 = o1
    o2 = o2
    NoUser = NoUser
    e1 = e1
    u1 = u1
    u2 = u2
    Global = Global
    Tool = Tool
    Missing = Missing
    Inherit = Inherit
    Requests = {r1, r2}
    Users = {admin, manager, user, hired}
    Keys = {k1, k2}
    Orgs = {o1, o2}
    OrgOf <- MCOrgOf
    OwnerOf <- MCOwnerOf
    RoleOf <- MCRoleOf
    Initial <- UserInitial
    Plans <- UserPlans
    MaxLogins = 2
    MaxSecret = 1
    Reports = {p1, p2, p3}
    UserOf <- MCUserOf
    Tokens <- MCTokens
    Quota = 2
    MaxFree = 1
    Tenants = {o1, o2}
    Evals = {e1}
    TenantOf <- MCTenantOf
    Upserts = {u1}
    Numbers = {1, 2}
    Writable = {"denylist", "rules"}
    Bodies = {}
    MaxWrites = 2
    Calls = {c1, c2, c3}
    MonthOf <- MCMonthOf
    LastDay = 2
    Which = {"users", "keys", "orgs", "quota", "reports", "rules", "settings"}
SPECIFICATION Spec
SYMMETRY Symmetry
INVARIANTS NoLostUpdate RevokedIsRefused ChargedOnce CacheFollows FreeTierHeld FloorHeld
CHECK_DEADLOCK FALSE
