SPECIFICATION Spec
CONSTANTS
    u1 = u1
    u2 = u2
    MutationIds = {u1}
    MaxNamespaces = 3
    MaxReceipts = 2
    MaxRevision = 2
    CompatClients = TRUE
    ClientsResend = TRUE
INVARIANTS
    AtMostOnce
    LookupIsConclusive
    AppPlanStaysDead
    AppPauseStops
