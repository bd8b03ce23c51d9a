-------------------------- MODULE MCProcessCleanup --------------------------
\* A controller with a member under two enforcement epochs and a store that
\* may fail; a lone browser root with an artifact on a store that does not.
EXTENDS ProcessCleanup

CONSTANTS c1, m1, r1

Led == [controllers |-> {c1}, roots |-> {}, members |-> {m1}, artifact |-> FALSE,
        windows |-> 2, epochs |-> 2, attempts |-> 1, faults |-> TRUE]
Lone == [controllers |-> {}, roots |-> {r1}, members |-> {}, artifact |-> TRUE,
         windows |-> 1, epochs |-> 1, attempts |-> 1, faults |-> FALSE]
MCMachines == {Led, Lone}
=============================================================================
