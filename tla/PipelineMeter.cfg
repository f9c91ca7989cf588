CONSTANTS
    r1 = r1
    r2 = r2
    k1 = k1
    email = email
    phone = phone
    Placeholders = {email, phone}
    Requests = {r1}
    Keys = {k1}
    KeyOf <- OneKey
    VKeyed = {r1}
    Sensitive <- NoneSensitive
    Upstream = FALSE
    FilterErrors = FALSE
    Aborts = FALSE
SPECIFICATION Spec
INVARIANT SpentIsMetered
CHECK_DEADLOCK FALSE
