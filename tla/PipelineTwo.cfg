CONSTANTS
    r1 = r1
    r2 = r2
    k1 = k1
    email = email
    phone = phone
    Placeholders = {email, phone}
    Requests = {r1, r2}
    Keys = {k1}
    KeyOf <- OneKey
    VKeyed = {r1}
    Sensitive <- SomeSensitive
    Upstream = TRUE
    FilterErrors = TRUE
    Aborts = TRUE
SPECIFICATION Spec
INVARIANTS CacheVetted ServedIsSettled MapsMatchPlaceholders OnlyLastIsRestored
CHECK_DEADLOCK FALSE
