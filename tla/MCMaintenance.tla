---------------------------- MODULE MCMaintenance ----------------------------
EXTENDS Maintenance
CONSTANTS n1, n2

Machine(f, c, t, u, b, x) ==
    [families |-> f, clones |-> c, ticks |-> t, turns |-> u, boots |-> b, faults |-> x]
MCMachines == {Machine({}, 2, 2, 1, 1, 1), Machine({}, 1, 3, 2, 1, 1), Machine({}, 1, 2, 1, 2, 1),
               Machine({"uv"}, 0, 2, 1, 2, 1), Machine({"node"}, 0, 2, 1, 2, 2),
               Machine({"node"}, 1, 2, 1, 1, 0), Machine({"node"}, 1, 2, 0, 1, 1)}
MCNames == {n1, n2}
=============================================================================
