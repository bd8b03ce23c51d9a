----------------------------- MODULE MCOwnership -----------------------------
\* One controller identity and two wrapper runs, in the lanes that meet: two
\* generations of one ordinary session, or a task by itself.
EXTENDS Ownership

CONSTANTS r1, r2, k1

TwoSessions == [r \in Runs |-> "session"]
OneTask == [r \in Runs |-> IF r = r1 THEN "task" ELSE "unused"]
MCLaneMaps == {TwoSessions, OneTask}
=============================================================================
