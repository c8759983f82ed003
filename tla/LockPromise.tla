---------------------------- MODULE LockPromise ----------------------------
(***************************************************************************)
(* What a CLI command is promised when LockManager hands it a lock guard:  *)
(* a readers-writer lock on one instance (or project).  `holder` is the    *)
(* guard each process owns.  `compromised` records that a lock was once    *)
(* granted on a lock file that had already been deleted; the promise is    *)
(* void from then on.  FileLock implements this specification.             *)
(***************************************************************************)
CONSTANT Procs

VARIABLES holder, compromised

promiseVars == <<holder, compromised>>

Guards == {"none", "Shared", "Exclusive"}

(* Two guards of different processes may coexist only if both are shared. *)
Compatible(g, h) == "none" \in {g, h} \/ {g, h} = {"Shared"}

PromiseInit ==
    /\ holder = [p \in Procs |-> "none"]
    /\ compromised = FALSE

Grant(p, g) ==
    /\ holder[p] = "none"
    /\ \A q \in Procs \ {p} : Compatible(g, holder[q])
    /\ holder' = [holder EXCEPT ![p] = g]
    /\ compromised' = compromised

(* A writer may become a reader without letting go. *)
Weaken(p) ==
    /\ holder[p] = "Exclusive"
    /\ holder' = [holder EXCEPT ![p] = "Shared"]
    /\ compromised' = compromised

(* The guard is dropped, or the process dies with it. *)
Release(p) ==
    /\ holder[p] # "none"
    /\ holder' = [holder EXCEPT ![p] = "none"]
    /\ compromised' = compromised

(* Once the promise is void any guard may appear anywhere. *)
Void ==
    /\ compromised'
    /\ holder' \in [Procs -> Guards]

PromiseNext ==
    \/ Void
    \/ \E p \in Procs :
          Weaken(p) \/ Release(p) \/ \E g \in {"Shared", "Exclusive"} : Grant(p, g)

Promise == PromiseInit /\ [][PromiseNext]_promiseVars

============================================================================
