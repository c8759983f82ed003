---------------------------- MODULE CommandLocks ----------------------------
(***************************************************************************)
(* How commands combine the two locks of src/src/locking.rs, the instance  *)
(* lock and the project lock: the constructors of project::Context         *)
(* (src/src/project/mod.rs) and of branch::Context, `gel project init` and *)
(* `unlink`, the instance commands, `gel watch`, and the commands that     *)
(* hooks and watch scripts run.  There is one project and one local        *)
(* instance; the stash directory links the one to the other.  Each lock is *)
(* taken at its word, as LockPromise describes it: FileLock keeps that     *)
(* promise as long as no deleted lock file gets locked.  The lock file of  *)
(* the project lies in the stash, and comes and goes with it.              *)
(*                                                                         *)
(* The constructors do not agree on an order: load_ctx looks for the stash *)
(* and locks the instance before the project, load_ctx_at and Context::new *)
(* lock the project, then look for the stash and lock the instance.        *)
(***************************************************************************)
EXTENDS Naturals, Sequences

CONSTANTS
    Commands,   \* CLI processes on the project and its instance
    Hooks,      \* those run by a hook or a watch script of another command
    HookKinds,  \* what hooks and scripts run
    Nobody      \* parent of a command that is no hook

ASSUME HooksAssumption == Hooks \subseteq Commands /\ Nobody \notin Commands

VARIABLES
    kind,       \* what each command does, "none" if it is not running
    at,         \* where it is in its plan, 0 when it has no more steps
    saw,        \* FALSE if it looked for the stash and found none
    parent,     \* the command in whose hook it runs
    stash,      \* whether the project is linked to the instance
    instance,   \* guard on the instance lock that each command owns
    project     \* guard on the project lock, as long as its file exists

vars == <<kind, at, saw, parent, stash, instance, project>>
place == <<kind, saw, parent>>
locks == <<instance, project>>

I == INSTANCE LockPromise
        WITH Procs <- Commands, holder <- instance, compromised <- FALSE
P == INSTANCE LockPromise
        WITH Procs <- Commands, holder <- project, compromised <- FALSE

(* The steps of each kind of command.  The first three begin with load_ctx. *)
Plans ==
    [read    |-> <<"look", "readInstance", "readProject", "work">>,
     write   |-> <<"look", "writeInstance", "writeProject", "work">>,
     watch   |-> <<"look", "writeInstance", "writeProject", "weaken", "free", "work">>,
     branch  |-> <<"look", "writeInstance", "writeProject", "look", "writeInstance", "work">>,
     init    |-> <<"refuse", "writeProject", "look", "writeInstance", "link", "work">>,
     unlink  |-> <<"look", "unlink">>,                  \* these two take no lock
     purge   |-> <<"look", "work", "unlink">>,          \* unlink --destroy-server-instance
     inst    |-> <<"writeInstance", "work">>,           \* upgrade, revert, restore
     destroy |-> <<"writeInstance", "look", "work", "unlink">>,
     backup  |-> <<"readInstance", "work">>]            \* list-backups, dump too

Kinds == DOMAIN Plans
Writers == {"write", "branch", "init", "inst", "destroy"}

(* The commands that load a project's context, and may run hooks. *)
ProjectKinds == {"read", "write", "watch", "branch", "init"}

InstanceSteps == {"readInstance", "writeInstance"}
ProjectSteps == {"readProject", "writeProject"}
LockSteps == InstanceSteps \cup ProjectSteps

Step(c) == IF at[c] = 0 THEN "drop" ELSE Plans[kind[c]][at[c]]
Working(c) == Step(c) = "work"

TypeOK ==
    /\ kind \in [Commands -> Kinds \cup {"none"}]
    /\ at \in [Commands -> Nat]
    /\ saw \in [Commands -> BOOLEAN]
    /\ parent \in [Commands -> Commands \cup {Nobody}]
    /\ stash \in BOOLEAN
    /\ instance \in [Commands -> I!Guards]
    /\ project \in [Commands -> P!Guards]
    /\ \A c \in Commands :
        /\ parent[c] # Nobody => c \in Hooks /\ kind[c] # "none" /\ Working(parent[c])
        /\ kind[c] = "none" => at[c] = 0 /\ {instance[c], project[c]} = {"none"}
        /\ kind[c] # "none" => at[c] <= Len(Plans[kind[c]])

Init ==
    /\ kind = [c \in Commands |-> "none"]
    /\ at = [c \in Commands |-> 0]
    /\ saw = [c \in Commands |-> TRUE]
    /\ parent = [c \in Commands |-> Nobody]
    /\ stash \in BOOLEAN
    /\ I!PromiseInit
    /\ P!PromiseInit

Advance(c) == at' = [at EXCEPT ![c] = IF @ = Len(Plans[kind[c]]) THEN 0 ELSE @ + 1]
Fail(c) == at' = [at EXCEPT ![c] = 0]

(* A command starts: a hook only while its parent waits for it. *)
Launch(c, k) ==
    /\ kind[c] = "none"
    /\ kind' = [kind EXCEPT ![c] = k]
    /\ at' = [at EXCEPT ![c] = 1]
    /\ \/ c \notin Hooks /\ UNCHANGED parent
       \/ /\ c \in Hooks /\ k \in HookKinds
          /\ \E b \in Commands \ Hooks :
                /\ Working(b) /\ kind[b] \in ProjectKinds
                /\ parent' = [parent EXCEPT ![c] = b]
    /\ UNCHANGED <<saw, stash, locks>>

(* stash_path.exists(), and the instance's name read from it. *)
Look(c) ==
    /\ Step(c) = "look"
    /\ saw' = [saw EXCEPT ![c] = stash]
    /\ Advance(c)
    /\ UNCHANGED <<kind, parent, stash, locks>>

(* `gel project init` on a project that is linked already. *)
Refuse(c) ==
    /\ Step(c) = "refuse"
    /\ IF stash THEN Fail(c) ELSE Advance(c)
    /\ UNCHANGED <<place, stash, locks>>

(* No lock is asked for without an instance to lock.  The guard handed out  *)
(* is empty for a project without a stash, for a reader in a hook, and for  *)
(* a process that has the instance lock already.                            *)
Nothing(c) ==
    \/ Step(c) \in ProjectSteps /\ ~stash
    \/ Step(c) \in {"readInstance", "readProject"} /\ c \in Hooks
    \/ Step(c) \in InstanceSteps /\ (~saw[c] \/ instance[c] # "none")

Mode(s) == IF s \in {"readInstance", "readProject"} THEN "Shared" ELSE "Exclusive"

(* LockManager hands over a guard. *)
Locked(c) ==
    /\ Step(c) \in LockSteps
    /\ Advance(c)
    /\ \/ Nothing(c) /\ UNCHANGED locks
       \/ ~Nothing(c) /\ Step(c) \in InstanceSteps
            /\ I!Grant(c, Mode(Step(c))) /\ UNCHANGED project
       \/ ~Nothing(c) /\ Step(c) \in ProjectSteps
            /\ P!Grant(c, Mode(Step(c))) /\ UNCHANGED instance
    /\ UNCHANGED <<place, stash>>

(* Slip: LockManager waits for as long as it takes. *)
NeverTimedOut(c) == Step(c) \in LockSteps /\ FALSE /\ UNCHANGED vars

(* LockManager times out: the command fails, which drops what it has. *)
TimedOut(c) ==
    /\ Step(c) \in LockSteps /\ ~Nothing(c)
    /\ Fail(c)
    /\ UNCHANGED <<place, stash, locks>>

(* StashDir::write: the stash is renamed into place, which fails if there   *)
(* is one.  It may also fail before that.                                   *)
WriteStash(c) ==
    /\ Step(c) = "link"
    /\ \/ ~stash /\ stash' = TRUE /\ Advance(c)
       \/ Fail(c) /\ UNCHANGED stash
    /\ UNCHANGED <<place, locks>>

(* `gel project unlink`, and `gel instance destroy` for the projects it     *)
(* had found linked to the instance, remove the stash, and the lock file in *)
(* it under whoever has it locked.  With --destroy-server-instance unlink   *)
(* has destroyed the instance before (`purge`), by force_by_name, which     *)
(* does the work of `gel instance destroy` but not its locking.             *)
RemoveStash(c) ==
    /\ Step(c) = "unlink"
    /\ IF saw[c]
       THEN stash' = FALSE /\ project' = [d \in Commands |-> "none"]
       ELSE UNCHANGED <<stash, project>>
    /\ Advance(c)
    /\ UNCHANGED <<place, instance>>

(* Slip: `gel watch` lets the instance lock go. *)
WatchLetsGo(c) ==
    /\ Step(c) = "weaken"
    /\ Advance(c)
    /\ instance' = [instance EXCEPT ![c] = "none"]
    /\ UNCHANGED <<place, stash, project>>

(* downgrade_instance_lock, then drop_project_lock. *)
WatchWeakens(c) ==
    /\ Step(c) = "weaken"
    /\ Advance(c)
    /\ \/ instance[c] # "none" /\ I!Weaken(c)
       \/ instance[c] = "none" /\ UNCHANGED instance
    /\ UNCHANGED <<place, stash, project>>

WatchFreesProject(c) ==
    /\ Step(c) = "free"
    /\ Advance(c)
    /\ project' = [project EXCEPT ![c] = "none"]
    /\ UNCHANGED <<place, stash, instance>>

(* The work is done, or has failed.  A command waits for its hook; `gel     *)
(* watch` only ever ends by a signal. *)
Finish(c) ==
    /\ Working(c) /\ kind[c] # "watch"
    /\ \A h \in Hooks : parent[h] # c
    /\ (Advance(c) \/ Fail(c))
    /\ UNCHANGED <<place, stash, locks>>

(* Fields are dropped in order: the project lock, then the instance lock. *)
DropLocks(c) ==
    /\ kind[c] # "none" /\ Step(c) = "drop"
    /\ \/ /\ P!Release(c)
          /\ UNCHANGED <<place, instance>>
       \/ /\ project[c] = "none"
          /\ I!Release(c)
          /\ UNCHANGED <<place, project>>
       \/ /\ project[c] = "none" /\ instance[c] = "none"
          /\ kind' = [kind EXCEPT ![c] = "none"]
          /\ saw' = [saw EXCEPT ![c] = TRUE]
          /\ parent' = [parent EXCEPT ![c] = Nobody]
          /\ UNCHANGED locks
    /\ UNCHANGED <<at, stash>>

(* A signal or a kill ends the process without destructors, and the kernel  *)
(* frees its locks.  Its hooks go on as orphans. *)
Killed(c) ==
    /\ kind[c] # "none"
    /\ kind' = [kind EXCEPT ![c] = "none"]
    /\ Fail(c)
    /\ saw' = [saw EXCEPT ![c] = TRUE]
    /\ parent' = [h \in Commands |-> IF c \in {h, parent[h]} THEN Nobody ELSE parent[h]]
    /\ instance' = [instance EXCEPT ![c] = "none"]
    /\ project' = [project EXCEPT ![c] = "none"]
    /\ UNCHANGED stash

Moves(c) ==
    \/ Look(c) \/ Refuse(c) \/ Locked(c) \/ TimedOut(c) \/ WriteStash(c) \/ RemoveStash(c)
    \/ WatchWeakens(c) \/ WatchFreesProject(c) \/ DropLocks(c)

Next ==
    \E c \in Commands :
        \/ \E k \in Kinds : Launch(c, k)
        \/ Moves(c)
        \/ Finish(c)
        \/ Killed(c)

Spec == Init /\ [][Next]_vars

(* A command under way is scheduled; how long its work takes is its affair. *)
FairSpec == Spec /\ \A c \in Commands : WF_vars(Moves(c))

----------------------------------------------------------------------------
(* Properties *)

(* A command that found no stash works without the instance lock, and so    *)
(* does a hook that relies on the lock of such a command.                   *)
FoundNoStash(c) == kind[c] \in ProjectKinds /\ ~saw[c]
Blind(c) == FoundNoStash(c) \/ (parent[c] # Nobody /\ FoundNoStash(parent[c]))

(* A command that changes the instance works on it alone.  The exceptions   *)
(* are commands that found no stash when they looked; `gel project unlink   *)
(* --destroy-server-instance`, which destroys the instance without a lock   *)
(* on it, so beside anyone (DestroyersWorkAlone); and a hook that only      *)
(* reads: it has no lock, and relies on that of its parent, so it works     *)
(* beside a writer only if that is its parent or its parent was killed.     *)
WritersWorkAlone ==
    /\ TypeOK
    /\ \A c, d \in Commands :
          c # d /\ Working(c) /\ Working(d) /\ kind[c] \in Writers /\ kind[d] # "purge"
             /\ ~Blind(c) /\ ~Blind(d)
              => /\ d \in Hooks /\ kind[d] \in {"read", "backup"}
                 /\ parent[d] \in {c, Nobody}

(* src/src/project/unlink.rs:79-80 says of --destroy-server-instance: "If   *)
(* specified, the associated EdgeDB instance is destroyed using `edgedb     *)
(* instance destroy`."  That command never destroys the instance while      *)
(* another one works with a lock on it; unlink does.                        *)
DestroyersWorkAlone ==
    \A c, d \in Commands :
        c # d /\ Working(c) /\ Working(d) /\ (kind[c] = "destroy" \/ (kind[c] = "purge" /\ saw[c]))
            => instance[d] = "none"

(* Whatever order two commands take the two locks in, and also when a hook  *)
(* asks for what its waiting parent holds, a command that is starting or    *)
(* ending gets to work or ends.                                             *)
CommandsProceed == \A c \in Commands : kind[c] # "none" ~> Working(c) \/ kind[c] = "none"

(* src/src/watch/mod.rs:53 says of what ensure_ctx returns: "Lock the       *)
(* project and instance exclusively".                                       *)
WatchLocksBoth ==
    \A c \in Commands :
        Step(c) = "weaken" /\ stash =>
            instance[c] = "Exclusive" /\ project[c] = "Exclusive"

============================================================================
