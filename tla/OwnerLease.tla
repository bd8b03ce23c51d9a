----------------------------- MODULE OwnerLease -----------------------------
(***************************************************************************)
(* What the ownership registry promises, whatever lane a run uses: a       *)
(* command runs only under a lease that names it, a lease that names a     *)
(* command ends only after that command is gone, and a lease that ended    *)
(* never comes back.  Ownership.tla is the code, shown to implement this.  *)
(***************************************************************************)

CONSTANT Runs   \* one lease and one command per wrapper invocation

VARIABLES owner,   \* owner[r]: the command of run r
          lease    \* lease[r]: its lease in the registry

vars == <<owner, lease>>

TypeOK == /\ owner \in [Runs -> {"unborn", "gated", "running", "gone"}]
          /\ lease \in [Runs -> {"free", "reserved", "active", "released", "pruned"}]

Init == /\ owner = [r \in Runs |-> "unborn"]
        /\ lease = [r \in Runs |-> "free"]

Reserve(r) == /\ lease[r] = "free"
              /\ lease' = [lease EXCEPT ![r] = "reserved"]
              /\ UNCHANGED owner

Birth(r) == /\ owner[r] = "unborn" /\ lease[r] # "free"
            /\ owner' = [owner EXCEPT ![r] = "gated"]
            /\ UNCHANGED lease

\* The command may die between the check of its identity and the grant.
Grant(r) == /\ lease[r] = "reserved" /\ owner[r] # "unborn"
            /\ lease' = [lease EXCEPT ![r] = "active"]
            /\ UNCHANGED owner

Run(r) == /\ owner[r] = "gated" /\ lease[r] = "active"
          /\ owner' = [owner EXCEPT ![r] = "running"]
          /\ UNCHANGED lease

Die(r) == /\ owner[r] \in {"gated", "running"}
          /\ owner' = [owner EXCEPT ![r] = "gone"]
          /\ UNCHANGED lease

\* A lease that names no command may end at any time: nothing runs under it.
Release(r) == /\ \/ lease[r] = "reserved"
                 \/ lease[r] = "active" /\ owner[r] = "gone"
              /\ lease' = [lease EXCEPT ![r] = "released"]
              /\ UNCHANGED owner

\* One sweep of the registry drops a set of ended leases.
Prune(R) == /\ \A r \in R : lease[r] = "released"
            /\ lease' = [r \in Runs |-> IF r \in R THEN "pruned" ELSE lease[r]]
            /\ UNCHANGED owner

Next == \/ \E r \in Runs : \/ Reserve(r) \/ Birth(r) \/ Grant(r) \/ Run(r)
                           \/ Die(r) \/ Release(r)
        \/ \E R \in SUBSET Runs : Prune(R)

Spec == Init /\ [][Next]_vars

=============================================================================
