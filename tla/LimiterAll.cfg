CONSTANTS
    r1 = r1
    r2 = r2
    r3 = r3
    k1 = k1
    Keys = {k1}
    Requests = {r1, r2, r3}
    KeyOf <- MCKeyOf
    Est <- MCEst
    Limit <- MCLimit
    Actuals <- MCActuals
    Enabled = TRUE
    MonthOf <- OneMonth
    Life <- LongLife
    ResvLife = 1
    MaxNow = 2
    MaxFaults = 1
    MaxRestarts = 1
SPECIFICATION Spec
SYMMETRY RequestSymmetry
INVARIANTS NeverAboveLimit MonthlyBudgetHeld ReconcileAfterAdmission
CHECK_DEADLOCK FALSE
