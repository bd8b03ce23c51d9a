SPECIFICATION Spec
CONSTANTS
    u1 = u1
    u2 = u2
    MutationIds = {u1, u2}
    MaxNamespaces = 1
    MaxReceipts = 2
    MaxRevision = 3
    CompatClients = TRUE
    ClientsResend = FALSE
SYMMETRY Symmetry
INVARIANTS
    StalePlanStaysDead
