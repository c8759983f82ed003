------------------------------ MODULE FileLock ------------------------------
(***************************************************************************)
(* src/src/locking.rs on Unix: one lock path (gel-cli.lock of an instance  *)
(* or of a project stash) and the processes that lock it.                  *)
(*                                                                         *)
(* The path is a directory entry naming an inode.  A process opens the     *)
(* path (creating it when absent), takes an advisory lock on the inode it  *)
(* opened, writes its pid into it, and on drop unlinks the path before it  *)
(* lets the advisory lock go.  Opening and locking are two system calls,   *)
(* so the inode a process locks need no longer be the one the path names.  *)
(***************************************************************************)
EXTENDS Naturals

CONSTANTS
    Procs,      \* CLI processes using this lock path
    InHook,     \* those started with _GEL_IN_HOOK=1 by a hook or a watch script
    Inodes,     \* identities of lock files, recycled once nothing refers to them
    NoFile,     \* absence of a file
    MaxPolls    \* SLOW_LOCK_TIMEOUT / LOCK_POLL_INTERVAL: polls that fit the timeout

ASSUME ProcsAssumption == InHook \subseteq Procs
ASSUME InodesAssumption == NoFile \notin Inodes
ASSUME MaxPollsAssumption == MaxPolls \in Nat

VARIABLES
    entry,      \* inode the lock path names, or NoFile
    pc,         \* where each process is in taking or dropping the lock
    fd,         \* inode each process has open
    mode,       \* kind of lock requested or held
    polls,      \* polls made by LoopState so far
    raced       \* history: some lock was granted on an inode the path did not name

vars == <<entry, pc, fd, mode, polls, raced>>

Modes == {"Shared", "Exclusive"}

(* none     no guard                    trying   about to open the path     *)
(* opened   file open, not locked       backoff  attempt failed             *)
(* locked   lock taken, pid not written held     guard handed to the caller *)
(* unlink   drop: may remove the path   unlock   drop: about to close       *)
(* free     LockInner::NoLock           failed   LockError returned         *)
States == {"none", "trying", "opened", "backoff", "locked", "held",
           "unlink", "unlock", "free", "failed"}

TypeOK ==
    /\ entry \in Inodes \cup {NoFile}
    /\ pc \in [Procs -> States]
    /\ fd \in [Procs -> Inodes \cup {NoFile}]
    /\ mode \in [Procs -> Modes]
    /\ polls \in [Procs -> 0..MaxPolls]
    /\ raced \in BOOLEAN

(* The kernel grants the lock on an inode to its processes in these states. *)
Locking(p) == pc[p] \in {"locked", "held", "unlink", "unlock"}

(* Another process's advisory lock on p's inode forbids p a lock of kind m. *)
Conflict(p, m) ==
    \E q \in Procs \ {p} :
        /\ Locking(q)
        /\ fd[q] = fd[p]
        /\ "Exclusive" \in {m, mode[q]}

Unreferenced(i) == i # entry /\ \A p \in Procs : fd[p] # i

Init ==
    /\ entry = NoFile
    /\ pc = [p \in Procs |-> "none"]
    /\ fd = [p \in Procs |-> NoFile]
    /\ mode = [p \in Procs |-> "Exclusive"]
    /\ polls = [p \in Procs |-> 0]
    /\ raced = FALSE

Goto(p, s) == pc' = [pc EXCEPT ![p] = s]
Close(p)   == fd' = [fd EXCEPT ![p] = NoFile]
Reset(p)   == mode' = [mode EXCEPT ![p] = "Exclusive"]   \* means nothing without a request

(* A command asks for the lock.  A shared lock inside a hook is free: the   *)
(* parent process is presumed to hold the lock.                             *)
Request(p, m) ==
    /\ pc[p] = "none"
    /\ Goto(p, IF p \in InHook /\ m = "Shared" THEN "free" ELSE "trying")
    /\ mode' = [mode EXCEPT ![p] = m]
    /\ polls' = [polls EXCEPT ![p] = 0]
    /\ UNCHANGED <<entry, fd, raced>>

(* OpenOptions::create(true).open(path); an I/O error is one more reason to *)
(* back off.                                                                *)
OpenFile(p) ==
    /\ pc[p] = "trying"
    /\ \/ /\ entry # NoFile
          /\ Goto(p, "opened")
          /\ fd' = [fd EXCEPT ![p] = entry]
          /\ UNCHANGED entry
       \/ /\ entry = NoFile
          /\ Goto(p, "opened")
          /\ \E i \in Inodes :
                /\ Unreferenced(i)
                /\ entry' = i
                /\ fd' = [fd EXCEPT ![p] = i]
       \/ /\ Goto(p, "backoff")
          /\ UNCHANGED <<entry, fd>>
    /\ UNCHANGED <<mode, polls, raced>>

(* Slip: the guard is asked for as shared whatever the command wanted. *)
LockFileShared(p) ==
    /\ pc[p] = "opened"
    /\ ~Conflict(p, "Shared")
    /\ Goto(p, "locked")
    /\ raced' = (raced \/ fd[p] # entry)
    /\ UNCHANGED <<entry, fd, mode, polls>>

(* file_guard::try_lock on the inode that was opened.  Nothing re-reads the *)
(* path afterwards.                                                         *)
LockFile(p) ==
    /\ pc[p] = "opened"
    /\ ~Conflict(p, mode[p])
    /\ Goto(p, "locked")
    /\ raced' = (raced \/ fd[p] # entry)
    /\ UNCHANGED <<entry, fd, mode, polls>>

LockRefused(p) ==
    /\ pc[p] = "opened"
    /\ Conflict(p, mode[p])
    /\ Goto(p, "backoff")
    /\ Close(p)
    /\ UNCHANGED <<entry, mode, polls, raced>>

(* set_len, write_all and flush of the holder's pid and command line: the   *)
(* guard is returned, or the error drops it and the loop backs off.         *)
WriteInfo(p) ==
    /\ pc[p] = "locked"
    /\ \/ /\ Goto(p, "held")
          /\ UNCHANGED fd
       \/ /\ Goto(p, "backoff")
          /\ Close(p)
    /\ UNCHANGED <<entry, mode, polls, raced>>

(* Slip: the poll loop restarts the clock every time. *)
PollRestarted(p) ==
    /\ pc[p] = "backoff"
    /\ Goto(p, "trying")
    /\ UNCHANGED <<entry, fd, mode, polls, raced>>

(* LoopState::error let the loop sleep and poll again: at most MaxPolls     *)
(* sleeps fit SLOW_LOCK_TIMEOUT.                                            *)
PollAgain(p) ==
    /\ pc[p] = "backoff"
    /\ polls[p] < MaxPolls
    /\ Goto(p, "trying")
    /\ polls' = [polls EXCEPT ![p] = @ + 1]
    /\ UNCHANGED <<entry, fd, mode, raced>>

(* LoopState::error found SLOW_LOCK_TIMEOUT elapsed: the clock may run out  *)
(* at any poll, for a process is not scheduled at once when its sleep ends. *)
GiveUp(p) ==
    /\ pc[p] = "backoff"
    /\ Goto(p, "failed")
    /\ UNCHANGED <<entry, fd, mode, polls, raced>>

(* InstanceLock::downgrade, used by `gel watch` *)
Downgrade(p) ==
    /\ pc[p] = "held"
    /\ mode[p] = "Exclusive"
    /\ mode' = [mode EXCEPT ![p] = "Shared"]
    /\ UNCHANGED <<entry, pc, fd, polls, raced>>

(* Slips: a shared guard unlinks without upgrading, or the lock is let go   *)
(* before the path is unlinked.                                             *)
DropWithoutUpgrade(p) ==
    /\ pc[p] = "held"
    /\ Goto(p, "unlink")
    /\ UNCHANGED <<entry, fd, mode, polls, raced>>

DropUnlocksFirst(p) ==
    /\ pc[p] = "held"
    /\ mode[p] = "Exclusive" \/ ~Conflict(p, "Exclusive")
    /\ Goto(p, "unlink")
    /\ Close(p)
    /\ UNCHANGED <<entry, mode, polls, raced>>

(* Drop of LockInner.  An exclusive guard goes on to unlink the path; a     *)
(* shared one does so only if try_upgrade makes it exclusive first.         *)
DropGuard(p) ==
    /\ pc[p] = "held"
    /\ \/ /\ mode[p] = "Exclusive" \/ ~Conflict(p, "Exclusive")
          /\ mode' = [mode EXCEPT ![p] = "Exclusive"]
          /\ Goto(p, "unlink")
       \/ /\ mode[p] = "Shared"
          /\ Conflict(p, "Exclusive")
          /\ Goto(p, "unlock")
          /\ UNCHANGED mode
    /\ UNCHANGED <<entry, fd, polls, raced>>

(* remove_file(path): whatever inode the path names now *)
Unlink(p) ==
    /\ pc[p] = "unlink"
    /\ entry' = NoFile
    /\ Goto(p, "unlock")
    /\ UNCHANGED <<fd, mode, polls, raced>>

Unlock(p) ==
    /\ pc[p] = "unlock"
    /\ Goto(p, "none")
    /\ Close(p)
    /\ Reset(p)
    /\ UNCHANGED <<entry, polls, raced>>

(* A hook drops its NoLock guard, or a command that got LockError is over.  *)
Forget(p) ==
    /\ pc[p] \in {"free", "failed"}
    /\ Goto(p, "none")
    /\ Reset(p)
    /\ UNCHANGED <<entry, fd, polls, raced>>

(* The process is killed, or leaves through process::exit in a signal       *)
(* handler: no destructor runs, the kernel closes its files.                *)
Exit(p) ==
    /\ pc[p] # "none"
    /\ Goto(p, "none")
    /\ Close(p)
    /\ Reset(p)
    /\ UNCHANGED <<entry, polls, raced>>

(* The steps a process takes by itself once it has asked. *)
Acquire(p) == OpenFile(p) \/ LockFile(p) \/ LockRefused(p) \/ WriteInfo(p)
              \/ PollAgain(p) \/ GiveUp(p)
Drop(p)    == Unlink(p) \/ Unlock(p)

Next ==
    \E p \in Procs :
        \/ \E m \in Modes : Request(p, m)
        \/ Acquire(p)
        \/ Downgrade(p)
        \/ DropGuard(p)
        \/ Drop(p)
        \/ Forget(p)
        \/ Exit(p)

Spec == Init /\ [][Next]_vars

(* A process that asked for the lock keeps running; holders may keep it for *)
(* as long as they like.                                                    *)
FairSpec == Spec /\ \A p \in Procs : WF_vars(Acquire(p) \/ Drop(p))

----------------------------------------------------------------------------
(* Properties *)

(* The guards as callers see them: from the moment try_create_lock_inner    *)
(* returns to the start of drop. *)
Guard(p) == IF pc[p] = "held" THEN mode[p] ELSE "none"

Lock == INSTANCE LockPromise
            WITH holder <- [p \in Procs |-> Guard(p)], compromised <- raced

(* "Lock the project and instance exclusively" (watch/mod.rs): an exclusive *)
(* guard excludes every other guard on the same path. *)
MutualExclusion ==
    \A p, q \in Procs :
        p # q => Lock!Compatible(Guard(p), Guard(q))

(* As long as no lock was granted on a deleted lock file, guards exclude    *)
(* each other: unlinking before unlocking, and only under an exclusive      *)
(* lock, is what this rests on. *)
ExclusionUnlessRaced == raced \/ MutualExclusion

(* A process has a file open exactly from open() to the end of drop. *)
FilesOpen ==
    \A p \in Procs :
        (fd[p] # NoFile) <=> (pc[p] \in {"opened", "locked", "held", "unlink", "unlock"})

(* What the kernel guarantees: locks on one inode are compatible. *)
KernelExclusion ==
    \A p, q \in Procs :
        p # q /\ Locking(p) /\ Locking(q) /\ fd[p] = fd[q]
            => mode[p] = "Shared" /\ mode[q] = "Shared"

(* Only under an exclusive lock does drop come to remove_file. *)
UnlinksExclusively ==
    \A p \in Procs : pc[p] = "unlink" => mode[p] = "Exclusive"

(* The locks in force are all on the inode the path names. *)
LocksNamed ==
    ~raced => \A p \in Procs :
        pc[p] \in {"locked", "held", "unlink"} => fd[p] = entry

(* What the exclusion of guards rests on: an inductive invariant. *)
LockInv ==
    /\ TypeOK
    /\ FilesOpen
    /\ KernelExclusion
    /\ UnlinksExclusively
    /\ LocksNamed

(* The code's locking implements the promise made to the commands. *)
KeepsPromise == Lock!Promise

(* Until a deleted file is locked, drop never removes the lock file under   *)
(* another process's guard. *)
NeverUnlinksAnothersFile ==
    [][\A q \in Procs :
          ~raced /\ pc[q] = "held" /\ pc'[q] = "held" /\ entry = fd[q]
              => entry' = entry]_vars

(* A request is answered with a guard or an error however long other        *)
(* processes hold the lock: LoopState's timeout. *)
RequestsAnswered ==
    \A p \in Procs :
        pc[p] = "trying" ~> pc[p] \in {"held", "failed", "none"}

============================================================================
