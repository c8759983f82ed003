-------------------------- MODULE ExclusionProofs --------------------------
(***************************************************************************)
(* Proofs about two components that share no state, and in which processes *)
(* exclude each other by a lock that is kept outside of them.              *)
(*                                                                         *)
(* FileLock, whose locks are the kernel's, for any set of processes, hooks *)
(* and inodes and any timeout.  The inductive invariant, LockInv of        *)
(* FileLock, says who has a file open, that the kernel keeps conflicting   *)
(* locks on one inode apart, and that, unless a deleted file was locked,   *)
(* every process that has a lock and has not unlinked the path has it on   *)
(* the inode the path names.                                               *)
(*                                                                         *)
(* Release, whose lock is the concurrency group release-mutation, for any  *)
(* finite set of lines, any phases and any number of edits, retries and    *)
(* deaths.  The inductive invariant, ReleasesInductive, says what every    *)
(* run carries with it: identities and records of heads that exist, whose  *)
(* preview is numbered above published previews of other snapshots.        *)
(***************************************************************************)
EXTENDS FileLock, Release, SequenceTheorems, FiniteSetTheorems, WellFoundedInduction, TLAPS

-----------------------------------------------------------------------------
(* The lock manager *)

(* Every state LockManager reaches is of the declared shape. *)
LEMMA TypeCorrect == Spec => []TypeOK
<1>1. Init => TypeOK
  <2> SUFFICES ASSUME Init PROVE TypeOK
    OBVIOUS
  <2>1. polls \in [Procs -> 0..MaxPolls]
    BY MaxPollsAssumption, SMT DEF Init
  <2>2. /\ pc \in [Procs -> States]
        /\ fd \in [Procs -> Inodes \cup {NoFile}]
        /\ mode \in [Procs -> Modes]
    BY DEF Init, States, Modes
  <2> QED BY <2>1, <2>2 DEF Init, TypeOK
<1>2. TypeOK /\ [Next]_vars => TypeOK'
  <2> SUFFICES ASSUME TypeOK, [Next]_vars PROVE TypeOK'
    OBVIOUS
  <2> USE DEF TypeOK, Modes, States, Goto, Close, Reset
  <2>1. ASSUME NEW p \in Procs, NEW m \in Modes, Request(p, m) PROVE TypeOK'
    BY <2>1, MaxPollsAssumption DEF Request
  <2>2. ASSUME NEW p \in Procs, OpenFile(p) PROVE TypeOK'
    <3>1. /\ UNCHANGED <<mode, polls, raced>>
          /\ pc' \in [Procs -> States]
      BY <2>2 DEF OpenFile
    <3>2. /\ entry' \in Inodes \cup {NoFile}
          /\ fd' \in [Procs -> Inodes \cup {NoFile}]
      BY <2>2 DEF OpenFile
    <3> QED BY <3>1, <3>2
  <2>3. ASSUME NEW p \in Procs, LockFile(p) PROVE TypeOK'
    BY <2>3 DEF LockFile
  <2>4. ASSUME NEW p \in Procs, LockRefused(p) PROVE TypeOK'
    BY <2>4 DEF LockRefused
  <2>5. ASSUME NEW p \in Procs, WriteInfo(p) PROVE TypeOK'
    BY <2>5 DEF WriteInfo
  <2>6. ASSUME NEW p \in Procs, PollAgain(p) PROVE TypeOK'
    BY <2>6, MaxPollsAssumption DEF PollAgain
  <2>7. ASSUME NEW p \in Procs, GiveUp(p) PROVE TypeOK'
    BY <2>7 DEF GiveUp
  <2>8. ASSUME NEW p \in Procs, Downgrade(p) PROVE TypeOK'
    BY <2>8 DEF Downgrade
  <2>9. ASSUME NEW p \in Procs, DropGuard(p) PROVE TypeOK'
    BY <2>9 DEF DropGuard
  <2>10. ASSUME NEW p \in Procs, Unlink(p) PROVE TypeOK'
    BY <2>10 DEF Unlink
  <2>11. ASSUME NEW p \in Procs, Unlock(p) PROVE TypeOK'
    BY <2>11 DEF Unlock
  <2>12. ASSUME NEW p \in Procs, Forget(p) PROVE TypeOK'
    BY <2>12 DEF Forget
  <2>13. ASSUME NEW p \in Procs, Exit(p) PROVE TypeOK'
    BY <2>13 DEF Exit
  <2>14. CASE UNCHANGED vars
    BY <2>14 DEF vars
  <2> HIDE DEF TypeOK, Modes, States
  <2> QED
    BY <2>1, <2>2, <2>3, <2>4, <2>5, <2>6, <2>7, <2>8, <2>9, <2>10, <2>11,
       <2>12, <2>13, <2>14 DEF Next, Acquire, Drop
<1> QED BY <1>1, <1>2, PTL DEF Spec

(* Every step of a process keeps the invariant.  The step that matters is   *)
(* Unlink: another process with a lock would have it on the same inode.     *)
LEMMA LockInvInductive == LockInv /\ TypeOK' /\ [Next]_vars => LockInv'
<1> SUFFICES ASSUME LockInv, TypeOK', [Next]_vars PROVE LockInv'
  OBVIOUS
<1> USE InodesAssumption DEF LockInv, TypeOK, FilesOpen, KernelExclusion,
        UnlinksExclusively, LocksNamed, Locking, Goto, Close, Reset
<1>1. ASSUME NEW p \in Procs, NEW m \in Modes, Request(p, m) PROVE LockInv'
  BY <1>1 DEF Request
<1>2. ASSUME NEW p \in Procs, OpenFile(p) PROVE LockInv'
  <2>1. FilesOpen'
    BY <1>2 DEF OpenFile
  <2>2. KernelExclusion'
    BY <1>2 DEF OpenFile
  <2>3. UnlinksExclusively'
    BY <1>2 DEF OpenFile
  <2>4. LocksNamed'
    BY <1>2 DEF OpenFile
  <2> QED BY <2>1, <2>2, <2>3, <2>4
<1>3. ASSUME NEW p \in Procs, LockFile(p) PROVE LockInv'
  <2>1. FilesOpen'
    BY <1>3 DEF LockFile
  <2>2. KernelExclusion'
    BY <1>3 DEF LockFile, Conflict, Modes
  <2>3. UnlinksExclusively'
    BY <1>3 DEF LockFile
  <2>4. LocksNamed'
    BY <1>3 DEF LockFile
  <2> QED BY <2>1, <2>2, <2>3, <2>4
<1>4. ASSUME NEW p \in Procs, LockRefused(p) PROVE LockInv'
  BY <1>4 DEF LockRefused
<1>5. ASSUME NEW p \in Procs, WriteInfo(p) PROVE LockInv'
  BY <1>5 DEF WriteInfo
<1>6. ASSUME NEW p \in Procs, PollAgain(p) PROVE LockInv'
  BY <1>6 DEF PollAgain
<1>7. ASSUME NEW p \in Procs, GiveUp(p) PROVE LockInv'
  BY <1>7 DEF GiveUp
<1>8. ASSUME NEW p \in Procs, Downgrade(p) PROVE LockInv'
  BY <1>8 DEF Downgrade
<1>9. ASSUME NEW p \in Procs, DropGuard(p) PROVE LockInv'
  <2>1. FilesOpen'
    BY <1>9 DEF DropGuard
  <2>2. KernelExclusion'
    BY <1>9 DEF DropGuard, Conflict, Modes
  <2>3. UnlinksExclusively'
    BY <1>9 DEF DropGuard
  <2>4. LocksNamed'
    BY <1>9 DEF DropGuard
  <2> QED BY <2>1, <2>2, <2>3, <2>4
<1>10. ASSUME NEW p \in Procs, Unlink(p) PROVE LockInv'
  <2>1. FilesOpen' /\ KernelExclusion' /\ UnlinksExclusively'
    BY <1>10 DEF Unlink
  <2>2. ASSUME ~raced', NEW q \in Procs, pc'[q] \in {"locked", "held", "unlink"}
        PROVE  fd'[q] = entry'
    \* q would have a lock on the inode of p, whose lock is exclusive
    BY <1>10, <2>2 DEF Unlink
  <2> QED BY <2>1, <2>2
<1>11. ASSUME NEW p \in Procs, Unlock(p) PROVE LockInv'
  BY <1>11 DEF Unlock
<1>12. ASSUME NEW p \in Procs, Forget(p) PROVE LockInv'
  BY <1>12 DEF Forget
<1>13. ASSUME NEW p \in Procs, Exit(p) PROVE LockInv'
  BY <1>13 DEF Exit
<1>14. CASE UNCHANGED vars
  BY <1>14 DEF vars
<1> HIDE DEF LockInv
<1> QED
  BY <1>1, <1>2, <1>3, <1>4, <1>5, <1>6, <1>7, <1>8, <1>9, <1>10, <1>11,
     <1>12, <1>13, <1>14 DEF Next, Acquire, Drop

(* No deleted file has been locked, or the guards exclude one another.      *)
LEMMA LocksExclude == LockInv => ExclusionUnlessRaced
<1> SUFFICES ASSUME LockInv, ~raced, NEW p \in Procs, NEW q \in Procs, p # q
             PROVE  Lock!Compatible(Guard(p), Guard(q))
  BY DEF ExclusionUnlessRaced, MutualExclusion
<1>1. CASE pc[p] = "held" /\ pc[q] = "held"
  <2>1. fd[p] = fd[q]
    BY <1>1 DEF LockInv, LocksNamed
  <2> QED BY <1>1, <2>1 DEF LockInv, KernelExclusion, Locking, Guard, Lock!Compatible
<1>2. CASE pc[p] # "held" \/ pc[q] # "held"
  BY <1>2 DEF Guard, Lock!Compatible
<1> QED BY <1>1, <1>2

(* LockInv holds throughout: from Init, step by step. *)
THEOREM LockInvHolds == Spec => []LockInv
<1>1. Init /\ TypeOK => LockInv
  BY DEF Init, LockInv, FilesOpen, KernelExclusion, UnlinksExclusively,
         LocksNamed, Locking
<1> QED BY <1>1, TypeCorrect, LockInvInductive, PTL DEF Spec

(* As long as no deleted lock file was locked, an exclusive guard is alone. *)
THEOREM GuardsExclude == Spec => []ExclusionUnlessRaced
BY LockInvHolds, LocksExclude, PTL

(* Drop never removes the lock file under the guard of another process: the *)
(* process that unlinks has the path's inode locked exclusively.            *)
THEOREM DropsOnlyItsOwnFile == Spec => NeverUnlinksAnothersFile
<1>1. /\ LockInv /\ [Next]_vars
      => \A q \in Procs :
            ~raced /\ pc[q] = "held" /\ pc'[q] = "held" /\ entry = fd[q]
                => entry' = entry
  <2> SUFFICES ASSUME LockInv, [Next]_vars, NEW q \in Procs,
                      ~raced, pc[q] = "held", pc'[q] = "held", entry = fd[q]
               PROVE  entry' = entry
    OBVIOUS
  <2>1. ASSUME NEW p \in Procs, OpenFile(p) PROVE entry' = entry
    BY <2>1 DEF OpenFile, LockInv, FilesOpen
  <2>2. ASSUME NEW p \in Procs, Unlink(p) PROVE FALSE
    <3>1. pc[p] = "unlink" /\ pc[q] = "held" /\ p # q
      BY <2>2 DEF Unlink
    <3>2. mode[p] = "Exclusive" /\ fd[p] = fd[q]
      BY <3>1 DEF LockInv, UnlinksExclusively, LocksNamed
    <3> QED BY <3>1, <3>2 DEF LockInv, KernelExclusion, Locking
  <2>3. CASE UNCHANGED vars
    BY <2>3 DEF vars
  <2> QED
    BY <2>1, <2>2, <2>3 DEF Next, Acquire, Drop, Request, LockFile, LockRefused,
       WriteInfo, PollAgain, GiveUp, Downgrade, DropGuard, Unlock, Forget, Exit
<1> QED BY <1>1, LockInvHolds, PTL DEF Spec, NeverUnlinksAnothersFile

----------------------------------------------------------------------------

Holder == [p \in Procs |-> Guard(p)]

(* What a step that touches only p does to the guards of the others.        *)
LEMMA OthersKeepTheirGuards ==
    ASSUME TypeOK, NEW p \in Procs,
           \E s \in States : pc' = [pc EXCEPT ![p] = s],
           \A q \in Procs \ {p} : mode'[q] = mode[q]
    PROVE  Holder' = [Holder EXCEPT ![p] = Guard(p)']
<1>1. \A q \in Procs \ {p} : Guard(q)' = Guard(q)
  BY DEF Guard, TypeOK
<1> QED BY <1>1 DEF Holder

(* Every step of the code grants, weakens or releases a guard as promised,  *)
(* leaves the guards alone, or has voided the promise.                      *)
LEMMA StepKeepsPromise ==
    LockInv /\ LockInv' /\ [Next]_vars => [Lock!PromiseNext]_(Lock!promiseVars)
<1> SUFFICES ASSUME LockInv, LockInv', [Next]_vars
             PROVE  [Lock!PromiseNext]_(Lock!promiseVars)
  OBVIOUS
<1>1. CASE raced'
  <2>1. Holder' \in [Procs -> Lock!Guards]
    BY DEF Holder, Guard, Lock!Guards, LockInv, TypeOK, Modes
  <2> QED BY <1>1, <2>1 DEF Lock!PromiseNext, Lock!Void, Holder
<1>2. CASE ~raced' /\ [Next]_vars
  <2> DEFINE Step(p) == Holder' = [Holder EXCEPT ![p] = Guard(p)']
  <2>0. TypeOK /\ raced \in BOOLEAN /\ ~raced'
    BY <1>2 DEF LockInv, TypeOK
  <2> USE DEF Goto, Reset
  <2>1. ASSUME NEW p \in Procs,
               \/ \E m \in Modes : Request(p, m)
               \/ OpenFile(p) \/ LockFile(p) \/ LockRefused(p) \/ PollAgain(p)
               \/ GiveUp(p) \/ Unlink(p) \/ Unlock(p) \/ Forget(p)
        PROVE  Holder' = Holder
    <3>1. Step(p)
      BY <2>0, <2>1, OthersKeepTheirGuards DEF States, TypeOK, Request, OpenFile,
         LockFile, LockRefused, PollAgain, GiveUp, Unlink, Unlock, Forget
    <3>2. Guard(p) = "none" /\ Guard(p)' = "none"
      BY <2>0, <2>1 DEF Guard, TypeOK, Request, OpenFile, LockFile, LockRefused,
         PollAgain, GiveUp, Unlink, Unlock, Forget
    <3> QED BY <3>1, <3>2 DEF Holder
  <2>2. ASSUME NEW p \in Procs, WriteInfo(p), pc'[p] = "held"
        PROVE  Lock!Grant(p, mode[p])
    <3>1. Step(p) /\ mode' = mode /\ raced' = raced /\ pc[p] = "locked"
      BY <2>0, <2>2, OthersKeepTheirGuards DEF States, WriteInfo
    <3>2. Guard(p) = "none" /\ Guard(p)' = mode[p]
      BY <2>2, <3>1 DEF Guard
    <3>3. \A q \in Procs \ {p} : Lock!Compatible(mode[p], Guard(q))
      <4> SUFFICES ASSUME NEW q \in Procs \ {p}, pc[q] = "held"
                   PROVE  Lock!Compatible(mode[p], Guard(q))
        BY DEF Guard, Lock!Compatible
      <4>1. fd[p] = fd[q]
        BY <2>0, <3>1 DEF LockInv, LocksNamed
      <4> QED
        BY <3>1, <4>1 DEF LockInv, KernelExclusion, Locking, Guard, Lock!Compatible
    <3> QED BY <3>1, <3>2, <3>3 DEF Lock!Grant, Holder
  <2>3. ASSUME NEW p \in Procs, WriteInfo(p), pc'[p] # "held"
        PROVE  Holder' = Holder /\ raced' = raced
    <3>1. Step(p) /\ raced' = raced
      BY <2>0, <2>3, OthersKeepTheirGuards DEF States, WriteInfo
    <3>2. Guard(p) = "none" /\ Guard(p)' = "none"
      BY <2>3 DEF Guard, WriteInfo
    <3> QED BY <3>1, <3>2 DEF Holder
  <2>4. ASSUME NEW p \in Procs, Downgrade(p)
        PROVE  Lock!Weaken(p)
    <3>1. Holder' = [Holder EXCEPT ![p] = "Shared"]
      BY <2>0, <2>4 DEF Downgrade, Holder, Guard, TypeOK
    <3> QED BY <2>4, <3>1 DEF Lock!Weaken, Holder, Guard, Downgrade
  <2>5. ASSUME NEW p \in Procs, DropGuard(p) \/ (Exit(p) /\ pc[p] = "held")
        PROVE  Lock!Release(p)
    <3>1. Step(p) /\ raced' = raced
      BY <2>0, <2>5, OthersKeepTheirGuards DEF States, TypeOK, DropGuard, Exit
    <3>2. Guard(p)' = "none" /\ Guard(p) = mode[p] /\ mode[p] # "none"
      BY <2>0, <2>5 DEF Guard, DropGuard, Exit, TypeOK, Modes
    <3> QED BY <3>1, <3>2 DEF Lock!Release, Holder
  <2>6. ASSUME NEW p \in Procs, Exit(p), pc[p] # "held"
        PROVE  Holder' = Holder /\ raced' = raced
    <3>1. Step(p) /\ raced' = raced
      BY <2>0, <2>6, OthersKeepTheirGuards DEF States, TypeOK, Exit
    <3>2. Guard(p) = "none" /\ Guard(p)' = "none"
      BY <2>0, <2>6 DEF Guard, Exit, TypeOK
    <3> QED BY <3>1, <3>2 DEF Holder
  <2>7. CASE UNCHANGED vars
    BY <2>7 DEF vars, Holder, Guard, Lock!promiseVars
  <2>8. ASSUME NEW p \in Procs, LockFile(p) PROVE raced' = raced
    BY <2>0, <2>8 DEF LockFile
  <2>9. ASSUME Holder' = Holder, raced' = raced
        PROVE  UNCHANGED Lock!promiseVars
    BY <2>9 DEF Lock!promiseVars, Holder
  <2>10. ASSUME NEW p \in Procs,
               \/ \E m \in Modes : Request(p, m)
               \/ OpenFile(p) \/ LockRefused(p) \/ PollAgain(p)
               \/ GiveUp(p) \/ Unlink(p) \/ Unlock(p) \/ Forget(p)
        PROVE  raced' = raced
    BY <2>10 DEF Request, OpenFile, LockRefused, PollAgain, GiveUp, Unlink, Unlock, Forget
  <2>11. mode \in [Procs -> {"Shared", "Exclusive"}]
    BY <2>0 DEF TypeOK, Modes
  <2> HIDE DEF Step
  <2>12. ASSUME NEW p \in Procs, WriteInfo(p)
         PROVE  [Lock!PromiseNext]_(Lock!promiseVars)
    BY <2>2, <2>3, <2>9, <2>11, <2>12 DEF Lock!PromiseNext
  <2>13. ASSUME NEW p \in Procs, Exit(p)
         PROVE  [Lock!PromiseNext]_(Lock!promiseVars)
    BY <2>5, <2>6, <2>9, <2>13 DEF Lock!PromiseNext
  <2>14. ASSUME NEW p \in Procs, Downgrade(p) \/ DropGuard(p)
         PROVE  Lock!PromiseNext
    BY <2>4, <2>5, <2>14 DEF Lock!PromiseNext
  <2> QED
    BY <1>2, <2>1, <2>7, <2>8, <2>9, <2>10, <2>12, <2>13, <2>14
       DEF Next, Acquire, Drop
<1> QED BY <1>1, <1>2

(* The lock files give each command the readers-writer lock LockManager     *)
(* promises, until a deleted file is locked.                                *)
THEOREM ImplementsPromise == Spec => KeepsPromise
<1>1. Init => Lock!PromiseInit
  BY DEF Init, Lock!PromiseInit, Guard
<1> QED
  BY <1>1, LockInvHolds, StepKeepsPromise, PTL DEF Spec, KeepsPromise, Lock!Promise

-----------------------------------------------------------------------------
(* The releases: the inductive invariant *)

HeadRecord == [line : Lines, parent : Nat, base : Nat, edit : Nat, rec : Records \cup {Nil}]
ReadingRecord ==
    [asked : BOOLEAN, at : {"none", "tags", "releases", "dispatch"}, id : Identities \cup {Nil},
     tags : SUBSET TagNames]
RunRecord ==
    [at : {"none", "build", "select", "untag", "adopt", "clear", "upload", "verify", "recheck", "push"},
     id : Identities \cup {Nil}, draft : Nat, rec : Records \cup {Nil}, next : Identities \cup {Nil}]
JobRecord == [line : Lines \cup {0}, commit : Nat, rec : Records \cup {Nil}]
PublicationRecord ==
    [at : {"none", "start", "check", "refresh", "tag", "publish"}, job : JobRecord, next : JobRecord]
ReleaseRecord ==
    [tag : TagNames, draft : BOOLEAN, id : Identities, assets : Nat, rec : Records \cup {Nil}]
PRRecord == [number : Nat, open : BOOLEAN, base : Nat, phase : Phases \cup {Nil}, head : Nat, gate : Nat]
PrepRecord == [asked : BOOLEAN, at : {"none", "check", "push", "sync"}, base : Nat, old : Nat]

BranchesTyped ==
    /\ line \in [Lines -> Seq([head : Nat, pr : Nat])] /\ heads \in Seq(HeadRecord)
    /\ pr \in [Lines -> PRRecord] /\ prep \in [Lines -> PrepRecord]
PublishedTyped ==
    /\ releases \in Seq(ReleaseRecord)
    /\ DOMAIN tags \subseteq TagNames
    /\ uploads \in Nat
ReleaseTyped == BranchesTyped /\ PublishedTyped /\ lock \in Seq(Lines \cup {Publisher})

\* The branches only grow, and what is generated or prepared rests on what they have
BranchesFit ==
    /\ \A h \in DOMAIN heads :
          /\ heads[h].base <= Tip(heads[h].line)
          /\ heads[h].rec # Nil => heads[h].rec.id.tag.phase = Nil
    /\ \A l \in Lines : \A i \in 1..Tip(l) : line[l][i].head \in {0} \cup DOMAIN heads
    /\ \A l \in Lines :
          /\ pr[l].open \/ pr[l].head # 0 => pr[l].head \in DOMAIN heads /\ heads[pr[l].head].line = l
          /\ prep[l].base <= Tip(l)
          /\ prep[l].at = "sync" => pr[l].head # 0

\* The identities of heads that exist, with the versions these have; those whose preview
\* is numbered above the previews of other snapshots, which are published; the records
\* of what was staged for one of these
Listed == {releases[r].tag : r \in DOMAIN releases}
Sourced(id) == id.src \in DOMAIN heads /\ heads[id.src].line = id.tag.line /\ id.tag.n = Prepared(id.src)
Precedes(r, id, j) ==
    /\ IsOut(r) /\ releases[r].tag = [id.tag EXCEPT !.k = j]
    /\ Snapshot(releases[r].id.src) # Snapshot(id.src)
Numbered(id) ==
    IF id.tag.phase = Nil THEN id.tag.k = 0
    ELSE /\ id.tag.k > 0
         /\ \A j \in 1..(id.tag.k - 1) : \E r \in DOMAIN releases : Precedes(r, id, j)
SourcedIds == {id \in Identities : Sourced(id)}
GoodIds == {id \in Identities : Sourced(id) /\ Numbered(id)}
GoodRecs ==
    {rec \in Records : rec.id \in GoodIds /\ rec.draft \in DOMAIN releases /\ releases[rec.draft].tag = rec.id.tag}
JobFits(job) ==
    /\ job.rec \in GoodRecs \cup {Nil}
    /\ IF job.rec = Nil THEN job.line # 0 /\ job.commit \in 1..Tip(job.line) ELSE job.line = 0
Jobs == {job \in JobRecord : JobFits(job)}

\* What the runs of the controller, of the candidates and of the publication carry
Readings(sourced, ids, listed) ==
    {c \in ReadingRecord :
        /\ c.at \in {"tags", "releases"} => c.id \in sourced /\ c.id.tag.k = 0
        /\ c.at = "dispatch" => c.id \in ids
        /\ c.at = "releases" => \A t \in c.tags : t.k > 0 /\ [t EXCEPT !.k = 0] = c.id.tag /\ t \in listed
        /\ IsFiniteSet(c.tags)}
Runs(ids, recs) ==
    {c \in RunRecord :
        /\ c.id \in ids \cup {Nil} /\ c.next \in ids \cup {Nil} /\ c.rec \in recs \cup {Nil}
        /\ c.at # "none" => c.id # Nil
        /\ c.at \in {"verify", "recheck", "push"} => c.rec # Nil /\ c.rec.id = c.id
        /\ c.at \in {"recheck", "push"} => c.id.tag.phase = Nil}
Publications(jobs, recs) ==
    {p \in PublicationRecord :
        /\ p.job.rec \in recs \cup {Nil} /\ p.next \in jobs \cup {NoJob}
        /\ p.at \in {"start", "check"} => p.job \in jobs}
RunsCarry ==
    /\ \A h \in DOMAIN heads : heads[h].rec \in GoodRecs \cup {Nil}
    /\ ctl \in [Lines -> Readings(SourcedIds, GoodIds, Listed)]
    /\ cand \in [Lines -> Runs(GoodIds, GoodRecs)]
    /\ pub \in Publications(Jobs, GoodRecs)

\* Who writes to a draft has the lock
Writing == {"untag", "adopt", "clear", "upload"}
WritingFits ==
    \A l \in Lines : cand[l].at \in Writing =>
        /\ Has(l) /\ cand[l].draft \in DOMAIN releases
        /\ ~IsOut(cand[l].draft) /\ releases[cand[l].draft].tag = cand[l].id.tag

\* What is about to be published
Holding == {"refresh", "tag", "publish"}
IsMerge(l, i) == l \in Lines /\ i \in 1..Tip(l) /\ line[l][i].head # 0
Merged(l, i, rec) == IsMerge(l, i) /\ rec = RecordAt(l, i) /\ MergedAsTested(rec, l, i)
PublishingFits ==
    pub.at \in Holding =>
        LET rec == pub.job.rec IN
        /\ Has(Publisher) /\ rec # Nil
        /\ ~IsOut(rec.draft) /\ releases[rec.draft].id = rec.id /\ releases[rec.draft].assets = rec.assets
        /\ IF rec.id.tag.phase = Nil THEN pub.job.line # 0 /\ Merged(pub.job.line, pub.job.commit, rec)
           ELSE pub.job.line = 0 /\ releases[rec.draft].rec = rec
        /\ pub.at = "refresh" => rec.id.tag.phase # Nil
        /\ pub.at = "publish" => rec.id.tag \in DOMAIN tags /\ tags[rec.id.tag] = Target

ReleasesFit ==
    /\ \A r \in DOMAIN releases : releases[r].tag = releases[r].id.tag /\ releases[r].id \in GoodIds
    /\ \A r, s \in DOMAIN releases : r # s => releases[r].tag # releases[s].tag
    /\ DOMAIN tags \subseteq Listed

\* What is published: its tag, its record, and that it was the first of its snapshot
OutFits(r) ==
    LET rec == [id |-> releases[r].id, draft |-> r, assets |-> releases[r].assets] IN
    /\ releases[r].tag \in DOMAIN tags
    /\ IF releases[r].tag.phase # Nil
       THEN tags[releases[r].tag] = BuildCommit(releases[r].id) /\ releases[r].rec = rec
       ELSE \E l \in Lines : \E i \in 1..Tip(l) :
               tags[releases[r].tag] = <<"line", l, i>> /\ Merged(l, i, rec)
OutsFit == \A r \in DOMAIN releases : IsOut(r) => OutFits(r)
Once ==
    \A r, s \in DOMAIN releases :
        r # s /\ IsOut(r) /\ IsOut(s) /\ releases[r].tag.phase # Nil
        /\ releases[r].tag.phase = releases[s].tag.phase
           => Snapshot(releases[r].id.src) # Snapshot(releases[s].id.src)

ReleasesInductive ==
    /\ ReleaseTyped /\ BranchesFit /\ RunsCarry /\ WritingFits /\ PublishingFits
    /\ ReleasesFit /\ OutsFit /\ Once /\ LatestIsHighest

LEMMA SeqGrows ==
    ASSUME NEW S, NEW s \in Seq(S), NEW x \in S
    PROVE  /\ Append(s, x) \in Seq(S) /\ Len(Append(s, x)) = Len(s) + 1
           /\ Append(s, x)[Len(s) + 1] = x /\ \A i \in 1..Len(s) : Append(s, x)[i] = s[i]
           /\ DOMAIN s = 1..Len(s) /\ DOMAIN Append(s, x) = 1..(Len(s) + 1) /\ Len(s) \in Nat
BY AppendProperties

LEMMA SeqChanges ==
    ASSUME NEW S, NEW s \in Seq(S), NEW x \in S, NEW i \in DOMAIN s
    PROVE  /\ [s EXCEPT ![i] = x] \in Seq(S) /\ DOMAIN [s EXCEPT ![i] = x] = DOMAIN s
           /\ [s EXCEPT ![i] = x][i] = x /\ \A j \in DOMAIN s \ {i} : [s EXCEPT ![i] = x][j] = s[j]
BY ExceptSeq

\* What the branches are made of
LEMMA BranchesAre ==
    ASSUME ReleaseTyped
    PROVE  /\ Len(heads) \in Nat /\ DOMAIN heads = 1..Len(heads)
           /\ \A h \in DOMAIN heads : heads[h] \in HeadRecord
           /\ \A l \in Lines : /\ Tip(l) \in Nat /\ DOMAIN line[l] = 1..Tip(l)
                               /\ \A i \in 1..Tip(l) : line[l][i] \in [head : Nat, pr : Nat]
<1>1. heads \in Seq(HeadRecord) /\ line \in [Lines -> Seq([head : Nat, pr : Nat])]
  BY DEF ReleaseTyped, BranchesTyped
<1>2. Len(heads) \in Nat /\ DOMAIN heads = 1..Len(heads) /\ \A h \in DOMAIN heads : heads[h] \in HeadRecord
  BY <1>1, ElementOfSeq, LenProperties
<1>3. ASSUME NEW l \in Lines
      PROVE  /\ Tip(l) \in Nat /\ DOMAIN line[l] = 1..Tip(l)
             /\ \A i \in 1..Tip(l) : line[l][i] \in [head : Nat, pr : Nat]
  <2>1. line[l] \in Seq([head : Nat, pr : Nat])
    BY <1>1
  <2> QED BY <2>1, ElementOfSeq, LenProperties DEF Tip
<1> QED BY <1>2, <1>3

\* The branches after a step
HeadsGrow ==
    /\ heads' \in Seq(HeadRecord)
    /\ \A h \in DOMAIN heads : h \in DOMAIN heads' /\ heads'[h] = heads[h]
LinesGrow ==
    /\ line' \in [Lines -> Seq([head : Nat, pr : Nat])]
    /\ \A l \in Lines : /\ Len(line'[l]) >= Len(line[l])
                        /\ \A i \in 1..Len(line[l]) : line'[l][i] = line[l][i]

LEMMA HeadAppended ==
    ASSUME ReleaseTyped, NEW x \in HeadRecord, heads' = Append(heads, x)
    PROVE  /\ HeadsGrow /\ DOMAIN heads' = 1..(Len(heads) + 1) /\ heads'[Len(heads) + 1] = x
           /\ DOMAIN heads = 1..Len(heads) /\ Len(heads) \in Nat
BY SeqGrows DEF ReleaseTyped, BranchesTyped, HeadsGrow

LEMMA LineAppended ==
    ASSUME ReleaseTyped, NEW l \in Lines, NEW x \in [head : Nat, pr : Nat],
           line' = [line EXCEPT ![l] = Append(@, x)]
    PROVE  /\ LinesGrow /\ Len(line'[l]) = Tip(l) + 1 /\ line'[l][Tip(l) + 1] = x
           /\ \A m \in Lines \ {l} : line'[m] = line[m]
<1>1. line \in [Lines -> Seq([head : Nat, pr : Nat])] /\ line[l] \in Seq([head : Nat, pr : Nat])
  BY DEF ReleaseTyped, BranchesTyped
<1>2. line'[l] = Append(line[l], x) /\ \A m \in Lines \ {l} : line'[m] = line[m]
  BY <1>1
<1>3. /\ line'[l] \in Seq([head : Nat, pr : Nat]) /\ Len(line'[l]) = Len(line[l]) + 1
      /\ line'[l][Len(line[l]) + 1] = x /\ \A i \in 1..Len(line[l]) : line'[l][i] = line[l][i]
      /\ Len(line[l]) \in Nat
  BY <1>1, <1>2, SeqGrows
<1>4. line' \in [Lines -> Seq([head : Nat, pr : Nat])]
  BY <1>1, <1>2, <1>3
<1>5. \A m \in Lines : Len(line[m]) \in Nat
  BY BranchesAre DEF Tip
<1> QED BY <1>2, <1>3, <1>4, <1>5 DEF LinesGrow, Tip

\* If heads and lines grow, what a step leaves to do about the branches
LEMMA BranchesGo ==
    ASSUME ReleaseTyped, BranchesFit, HeadsGrow, LinesGrow,
           \A h \in DOMAIN heads' \ DOMAIN heads :
              /\ heads'[h].base <= Len(line'[heads'[h].line])
              /\ heads'[h].rec # Nil => heads'[h].rec.id.tag.phase = Nil,
           \A l \in Lines : \A i \in 1..Len(line'[l]) :
              i \notin 1..Len(line[l]) => line'[l][i].head \in {0} \cup DOMAIN heads',
           pr' \in [Lines -> PRRecord], prep' \in [Lines -> PrepRecord],
           \A l \in Lines :
              /\ pr'[l].head = pr[l].head
                 \/ (pr'[l].head \in DOMAIN heads' /\ heads'[pr'[l].head].line = l /\ pr'[l].head # 0)
              /\ pr'[l].open => pr[l].open \/ pr'[l].head # 0
              /\ prep'[l].base <= Tip(l)
              /\ prep'[l].at = "sync" => pr'[l].head # 0
    PROVE  BranchesTyped' /\ BranchesFit'
<1>1. BranchesTyped'
  BY DEF HeadsGrow, LinesGrow, BranchesTyped
<1>2. ASSUME NEW h \in DOMAIN heads'
      PROVE  /\ heads'[h].base <= Len(line'[heads'[h].line])
             /\ heads'[h].rec # Nil => heads'[h].rec.id.tag.phase = Nil
  <2>1. CASE h \in DOMAIN heads
    <3>1. heads'[h] = heads[h] /\ heads[h] \in HeadRecord
      BY <2>1, BranchesAre DEF HeadsGrow
    <3>2. heads[h].line \in Lines /\ heads[h].base \in Nat
      BY <3>1 DEF HeadRecord
    <3>3. Len(line[heads[h].line]) <= Len(line'[heads[h].line]) /\ heads[h].base <= Len(line[heads[h].line])
      BY <2>1, <3>2 DEF LinesGrow, BranchesFit, Tip
    <3>4. Len(line[heads[h].line]) \in Nat /\ Len(line'[heads[h].line]) \in Nat
      <4>1. line'[heads[h].line] \in Seq([head : Nat, pr : Nat])
        BY <3>2 DEF LinesGrow
      <4> QED BY <4>1, <3>2, BranchesAre, LenProperties DEF Tip
    <3> QED BY <2>1, <3>1, <3>2, <3>3, <3>4 DEF BranchesFit
  <2> QED BY <2>1
<1>3. ASSUME NEW l \in Lines, NEW i \in 1..Len(line'[l])
      PROVE  line'[l][i].head \in {0} \cup DOMAIN heads'
  <2>1. CASE i \in 1..Len(line[l])
    <3>1. line'[l][i] = line[l][i]
      BY <2>1 DEF LinesGrow
    <3>2. line[l][i].head \in {0} \cup DOMAIN heads
      BY <2>1 DEF BranchesFit, Tip
    <3>3. DOMAIN heads \subseteq DOMAIN heads'
      BY DEF HeadsGrow
    <3> QED BY <3>1, <3>2, <3>3
  <2> QED BY <2>1
<1>4. ASSUME NEW l \in Lines
      PROVE  /\ pr'[l].open \/ pr'[l].head # 0 => pr'[l].head \in DOMAIN heads' /\ heads'[pr'[l].head].line = l
             /\ prep'[l].base <= Len(line'[l])
             /\ prep'[l].at = "sync" => pr'[l].head # 0
  <2>1. Len(line[l]) <= Len(line'[l]) /\ Len(line[l]) \in Nat /\ Len(line'[l]) \in Nat /\ prep'[l].base \in Nat
    <3>1. line'[l] \in Seq([head : Nat, pr : Nat])
      BY DEF LinesGrow
    <3>2. prep'[l] \in PrepRecord
      OBVIOUS
    <3> QED BY <3>1, <3>2, BranchesAre, LenProperties DEF LinesGrow, Tip, PrepRecord
  <2>2. pr[l].open \/ pr[l].head # 0 => pr[l].head \in DOMAIN heads /\ heads[pr[l].head].line = l
    BY DEF BranchesFit
  <2> QED BY <2>1, <2>2 DEF HeadsGrow, Tip
<1>5. BranchesFit'
  BY <1>2, <1>3, <1>4 DEF BranchesFit, Tip
<1> QED BY <1>1, <1>5

\* The greatest of a set of numbers
LEMMA MaxIs ==
    ASSUME NEW S, S \subseteq Nat, NEW i \in S, \A j \in S : j <= i
    PROVE  Max(S) = i
<1>1. i \in S /\ \A j \in S : i >= j
  OBVIOUS
<1>2. Max(S) \in S /\ \A j \in S : Max(S) >= j
  BY <1>1 DEF Max
<1> DEFINE m == Max(S)
<1>3. m \in Nat /\ i \in Nat /\ m >= i /\ i >= m
  BY <1>1, <1>2
<1> HIDE DEF m
<1>4. m = i
  BY <1>3
<1> QED BY <1>4 DEF m

LEMMA MaxExists ==
    ASSUME NEW S, S \subseteq Nat, IsFiniteSet(S), S # {}
    PROVE  Max(S) \in S /\ \A j \in S : Max(S) >= j
<1> DEFINE Greater(x) == {y \in S : y > x}
           Counts == {Cardinality(Greater(x)) : x \in S}
<1>1. \A x \in S : IsFiniteSet(Greater(x)) /\ Cardinality(Greater(x)) \in Nat
  BY FS_Subset, FS_CardinalityType
<1>2. Counts \subseteq Nat /\ Counts # {}
  BY <1>1
<1>3. PICK n \in Counts : \A m \in Counts : ~(<<m, n>> \in OpToRel(<, Nat))
  BY <1>2, WFMin, NatLessThanWellFounded
<1>4. \A m \in Counts : ~(m < n)
  BY <1>2, <1>3 DEF OpToRel
<1>5. PICK x \in S : n = Cardinality(Greater(x))
  BY <1>3
<1>6. ASSUME NEW y \in S, y > x
      PROVE  FALSE
  <2>1. Greater(y) \subseteq Greater(x) /\ y \in Greater(x) /\ y \notin Greater(y)
    <3>1. y \in Nat /\ x \in Nat /\ \A z \in S : z \in Nat
      OBVIOUS
    <3>2. ASSUME NEW z \in Greater(y)
          PROVE  z \in Greater(x)
      BY <1>6, <3>1, <3>2
    <3>3. y \in Greater(x)
      BY <1>6
    <3>4. y \notin Greater(y)
      BY <3>1
    <3> HIDE DEF Greater
    <3> QED BY <3>2, <3>3, <3>4
  <2>2. Cardinality(Greater(y)) <= Cardinality(Greater(x)) /\ Cardinality(Greater(y)) # Cardinality(Greater(x))
    BY <1>1, <2>1, FS_Subset
  <2>3. Cardinality(Greater(y)) \in Counts
    OBVIOUS
  <2> HIDE DEF Greater, Counts
  <2> QED BY <1>1, <1>4, <1>5, <2>2, <2>3
<1>7. \A j \in S : j <= x
  BY <1>6
<1> QED BY <1>7, MaxIs

\* Of a line whose commit i is a merge, the record there is that of the merged head
LEMMA RecordAtMerge ==
    ASSUME ReleaseTyped, NEW l, NEW i, IsMerge(l, i)
    PROVE  RecordAt(l, i) = heads[line[l][i].head].rec
<1>1. i \in Nat /\ Merges(l, i) \subseteq Nat /\ i \in Merges(l, i) /\ \A j \in Merges(l, i) : j <= i
  BY BranchesAre DEF IsMerge, Merges
<1>2. Max(Merges(l, i)) = i
  BY <1>1, MaxIs
<1> QED BY <1>1, <1>2 DEF RecordAt

\* After a step
ReleasesGrow ==
    \A r \in DOMAIN releases :
        /\ r \in DOMAIN releases' /\ releases'[r].tag = releases[r].tag
        /\ IsOut(r) => /\ releases'[r] = releases[r]
                       /\ releases[r].tag \in DOMAIN tags' /\ tags'[releases[r].tag] = tags[releases[r].tag]
BranchesGrow == HeadsGrow /\ LinesGrow

LEMMA LinesStand ==
    ASSUME ReleaseTyped, BranchesFit, BranchesGrow
    PROVE  /\ \A l \in Lines : \A i \in 1..Tip(l) : line'[l][i] = line[l][i]
           /\ \A l \in Lines : Tip(l) \in Nat /\ Tip(l)' \in Nat /\ Tip(l) <= Tip(l)'
<1>1. ASSUME NEW l \in Lines
      PROVE  Tip(l) \in Nat /\ Tip(l)' \in Nat /\ Tip(l) <= Tip(l)'
  <2>1. line'[l] \in Seq([head : Nat, pr : Nat])
    BY DEF BranchesGrow, LinesGrow
  <2> QED BY <2>1, BranchesAre, LenProperties DEF BranchesGrow, LinesGrow, Tip
<1> QED BY <1>1 DEF BranchesGrow, LinesGrow, Tip

LEMMA HeadsStand ==
    ASSUME ReleaseTyped, BranchesFit, BranchesGrow, NEW h \in DOMAIN heads
    PROVE  /\ h \in DOMAIN heads' /\ heads'[h] = heads[h] /\ heads[h] \in HeadRecord
           /\ Snapshot(h)' = Snapshot(h) /\ Prepared(h)' = Prepared(h)
<1>1. h \in DOMAIN heads' /\ heads'[h] = heads[h] /\ heads[h] \in HeadRecord
  BY BranchesAre DEF BranchesGrow, HeadsGrow
<1> DEFINE l == heads[h].line
           b == heads[h].base
<1>2. l \in Lines /\ b \in Nat /\ b <= Tip(l)
  BY <1>1 DEF BranchesFit, HeadRecord
<1>3. \A i \in 1..b : line'[l][i] = line[l][i]
  <2>1. 1..b \subseteq 1..Tip(l)
    BY <1>2, LinesStand
  <2> QED BY <1>2, <2>1, LinesStand
<1>4. {i \in 1..b : line'[l][i].head # 0} = {i \in 1..b : line[l][i].head # 0}
  BY <1>3
<1> QED BY <1>1, <1>4 DEF Snapshot, Prepared, Merges

LEMMA MergesStand ==
    ASSUME ReleaseTyped, BranchesFit, BranchesGrow, NEW l, NEW i, NEW rec, Merged(l, i, rec)
    PROVE  Merged(l, i, rec)'
<1>1. l \in Lines /\ i \in 1..Tip(l) /\ line[l][i].head # 0 /\ rec = RecordAt(l, i)
      /\ heads[line[l][i].head].base = i - 1
  BY DEF Merged, IsMerge, MergedAsTested
<1>2. Tip(l) \in Nat /\ Tip(l)' \in Nat /\ Tip(l) <= Tip(l)' /\ \A j \in 1..Tip(l) : line'[l][j] = line[l][j]
  BY <1>1, LinesStand
<1> DEFINE h == line[l][i].head
<1>3. h \in DOMAIN heads
  BY <1>1 DEF BranchesFit
<1>4. heads'[h] = heads[h]
  BY <1>3, HeadsStand
<1>5. i \in 1..Tip(l)' /\ line'[l][i] = line[l][i]
  BY <1>1, <1>2
<1>6. {j \in 1..i : line'[l][j].head # 0} = {j \in 1..i : line[l][j].head # 0}
  <2>1. 1..i \subseteq 1..Tip(l)
    BY <1>1, <1>2
  <2> QED BY <1>2, <2>1
<1>7. Merges(l, i) # {} /\ Max(Merges(l, i)) = i
  <2>1. i \in Nat /\ Merges(l, i) \subseteq Nat /\ i \in Merges(l, i) /\ \A j \in Merges(l, i) : j <= i
    BY <1>1, <1>2 DEF Merges
  <2> QED BY <2>1, MaxIs
<1>8. RecordAt(l, i)' = RecordAt(l, i)
  BY <1>4, <1>5, <1>6, <1>7 DEF RecordAt, Merges
<1> QED BY <1>1, <1>4, <1>5, <1>8 DEF Merged, IsMerge, MergedAsTested

\* The state of a release run, step by step: what is common to all steps
Growth == BranchesGrow /\ ReleasesGrow
Base == ReleaseTyped /\ BranchesFit /\ ReleasesFit

LEMMA SourcedStay ==
    ASSUME Base, Growth
    PROVE  SourcedIds \subseteq SourcedIds'
<1> SUFFICES ASSUME NEW id \in Identities, Sourced(id)
             PROVE  Sourced(id)'
  BY DEF SourcedIds
<1>1. id.src \in DOMAIN heads
  BY DEF Sourced
<1>2. id.src \in DOMAIN heads' /\ heads'[id.src] = heads[id.src] /\ Prepared(id.src)' = Prepared(id.src)
  BY <1>1, HeadsStand DEF Base, Growth
<1> QED BY <1>2 DEF Sourced

LEMMA GoodStay ==
    ASSUME Base, Growth
    PROVE  GoodIds \subseteq GoodIds'
<1> SUFFICES ASSUME NEW id \in Identities, Sourced(id), Numbered(id)
             PROVE  Sourced(id)' /\ Numbered(id)'
  BY DEF GoodIds
<1>1. Sourced(id)'
  BY SourcedStay DEF SourcedIds
<1>2. \A h \in DOMAIN heads : heads'[h] = heads[h]
  BY HeadsStand DEF Base, Growth
<1>3. CASE id.tag.phase = Nil
  BY <1>1, <1>3 DEF Numbered
<1>4. CASE id.tag.phase # Nil
  <2>1. ASSUME NEW j \in 1..(id.tag.k - 1)
        PROVE  \E r \in DOMAIN releases' : Precedes(r, id, j)'
    <3>1. PICK r \in DOMAIN releases : Precedes(r, id, j)
      BY <1>4 DEF Numbered
    <3>2. r \in DOMAIN releases' /\ releases'[r] = releases[r]
      BY <3>1 DEF Growth, ReleasesGrow, Precedes
    <3> DEFINE h == releases[r].id.src
    <3>3. h \in DOMAIN heads /\ id.src \in DOMAIN heads
      BY DEF Base, ReleasesFit, GoodIds, Sourced
    <3>4. heads'[h] = heads[h] /\ heads'[id.src] = heads[id.src]
      BY <1>2, <3>3
    <3>5. Precedes(r, id, j)'
      BY <3>1, <3>2, <3>4 DEF IsOut, Precedes, Snapshot
    <3> QED BY <3>2, <3>5
  <2> QED BY <1>1, <1>4, <2>1 DEF Numbered
<1> QED BY <1>3, <1>4

LEMMA ListedStay ==
    ASSUME Growth
    PROVE  Listed \subseteq Listed'
BY DEF Growth, ReleasesGrow, Listed

LEMMA RecsStay ==
    ASSUME Base, Growth
    PROVE  GoodRecs \subseteq GoodRecs'
BY GoodStay DEF GoodRecs, Growth, ReleasesGrow

LEMMA JobsStay ==
    ASSUME Base, Growth
    PROVE  Jobs \subseteq Jobs'
<1> SUFFICES ASSUME NEW job \in JobRecord, JobFits(job)
             PROVE  JobFits(job)'
  BY DEF Jobs
<1>1. job.rec \in GoodRecs' \cup {Nil}
  BY RecsStay DEF JobFits
<1>2. \A l \in Lines : Tip(l) \in Nat /\ Tip(l)' \in Nat /\ Tip(l) <= Tip(l)'
  BY LinesStand DEF Base, Growth
<1>3. job.line # 0 => job.line \in Lines
  BY DEF JobRecord
<1> QED BY <1>1, <1>2, <1>3 DEF JobFits

\* What is published still fits
LEMMA OutStays ==
    ASSUME Base, Growth, NEW r \in DOMAIN releases, IsOut(r), OutFits(r)
    PROVE  r \in DOMAIN releases' /\ OutFits(r)'
<1> DEFINE t == releases[r].tag
           rec == [id |-> releases[r].id, draft |-> r, assets |-> releases[r].assets]
<1>1. r \in DOMAIN releases' /\ releases'[r] = releases[r] /\ t \in DOMAIN tags' /\ tags'[t] = tags[t]
  BY DEF Growth, ReleasesGrow
<1>2. CASE t.phase # Nil
  BY <1>1, <1>2 DEF OutFits, BuildCommit
<1>3. CASE t.phase = Nil
  <2>1. PICK l \in Lines : \E i \in 1..Tip(l) : tags[t] = <<"line", l, i>> /\ Merged(l, i, rec)
    BY <1>3 DEF OutFits
  <2>2. PICK i \in 1..Tip(l) : tags[t] = <<"line", l, i>> /\ Merged(l, i, rec)
    BY <2>1
  <2>3. PICK x : x = rec
    OBVIOUS
  <2>4. Merged(l, i, x)
    BY <2>2, <2>3 DEF Merged, MergedAsTested
  <2>5. Merged(l, i, x)'
    BY <2>4, MergesStand DEF Base, Growth
  <2>6. x = [id |-> releases'[r].id, draft |-> r, assets |-> releases'[r].assets]
    BY <1>1, <2>3
  <2>7. i \in 1..Tip(l)' /\ tags'[releases'[r].tag] = <<"line", l, i>>
    BY <1>1, <2>2, <2>5 DEF Merged, IsMerge
  <2>8. releases'[r].tag \in DOMAIN tags' /\ releases'[r].tag.phase = Nil
    BY <1>1, <1>3
  <2> QED BY <1>1, <2>5, <2>6, <2>7, <2>8 DEF OutFits, Merged, MergedAsTested
<1> QED BY <1>2, <1>3

LEMMA PublishedKept ==
    ASSUME ReleasesInductive, BranchesGrow, UNCHANGED published
    PROVE  /\ Growth /\ PublishedTyped' /\ ReleasesFit' /\ OutsFit' /\ Once' /\ LatestIsHighest'
           /\ GoodRecs \subseteq GoodRecs'
<1>1. Base /\ PublishedTyped /\ OutsFit /\ Once /\ LatestIsHighest
  BY DEF ReleasesInductive, Base, ReleaseTyped
<1>2. releases' = releases /\ tags' = tags /\ latest' = latest /\ uploads' = uploads
  BY DEF published
<1>3. ReleasesGrow
  BY <1>1, <1>2 DEF ReleasesGrow, OutsFit, OutFits
<1>4. Growth
  BY <1>3 DEF Growth
<1>5. PublishedTyped' /\ LatestIsHighest'
  BY <1>1, <1>2 DEF PublishedTyped, LatestIsHighest, Stable
<1>6. ReleasesFit'
  BY <1>1, <1>2, <1>4, GoodStay DEF Base, ReleasesFit, Listed
<1>7. OutsFit'
  BY <1>1, <1>2, <1>4, OutStays DEF OutsFit, IsOut
<1>8. Once'
  <2>1. \A r \in DOMAIN releases : releases[r].id.src \in DOMAIN heads
    BY <1>1 DEF Base, ReleasesFit, GoodIds, Sourced
  <2>2. \A r \in DOMAIN releases : heads'[releases[r].id.src] = heads[releases[r].id.src]
    BY <1>1, <2>1, HeadsStand DEF Base
  <2> QED BY <1>1, <1>2, <2>2 DEF Once, IsOut, Snapshot
<1> QED BY <1>1, <1>4, <1>5, <1>6, <1>7, <1>8, RecsStay

\* What runs carry, and what becomes of them
LEMMA ReadingsGrow ==
    ASSUME NEW sourced, NEW ids, NEW listed, NEW s2, NEW i2, NEW l2,
           sourced \subseteq s2, ids \subseteq i2, listed \subseteq l2
    PROVE  Readings(sourced, ids, listed) \subseteq Readings(s2, i2, l2)
BY DEF Readings

LEMMA RunsGrow ==
    ASSUME NEW ids, NEW recs, NEW i2, NEW r2, ids \subseteq i2, recs \subseteq r2
    PROVE  Runs(ids, recs) \subseteq Runs(i2, r2)
BY DEF Runs

LEMMA PublicationsGrow ==
    ASSUME NEW jobs, NEW recs, NEW j2, NEW r2, jobs \subseteq j2, recs \subseteq r2
    PROVE  Publications(jobs, recs) \subseteq Publications(j2, r2)
BY DEF Publications

LEMMA Candidates ==
    ASSUME NEW ids, NEW recs, ids \subseteq Identities
    PROVE  /\ NoRun \in Runs(ids, recs)
           /\ \A id \in ids : Candidate(id) \in Runs(ids, recs) /\ Candidate(id).at = "build"
<1>1. NoRun \in Runs(ids, recs)
  BY DEF NoRun, Runs, RunRecord
<1>2. ASSUME NEW id \in ids
      PROVE  Candidate(id) \in Runs(ids, recs) /\ Candidate(id).at = "build"
  BY NilIsNone DEF Candidate, NoRun, Runs, RunRecord
<1> QED BY <1>1, <1>2

LEMMA RunsEnd ==
    ASSUME NEW ids, NEW recs, ids \subseteq Identities, NEW c \in Runs(ids, recs)
    PROVE  Ended(c) \in Runs(ids, recs) /\ Ended(c).at \in {"none", "build"}
<1>1. c.next \in ids \cup {Nil}
  BY DEF Runs
<1>2. CASE c.next = Nil
  BY <1>2, Candidates DEF Ended, NoRun
<1>3. CASE c.next # Nil
  BY <1>1, <1>3, Candidates DEF Ended
<1> QED BY <1>2, <1>3

LEMMA RunsQueue ==
    ASSUME NEW ids, NEW recs, ids \subseteq Identities, NEW c \in Runs(ids, recs), NEW id \in ids
    PROVE  /\ Queued(c, id) \in Runs(ids, recs)
           /\ Queued(c, id).at \in {c.at, "build"}
           /\ Queued(c, id).at \in Writing => Queued(c, id).id = c.id /\ Queued(c, id).draft = c.draft
<1>1. CASE c.at = "none"
  BY <1>1, Candidates DEF Queued, Writing
<1>2. CASE c.at # "none"
  BY <1>2 DEF Queued, Runs, RunRecord
<1> QED BY <1>1, <1>2

LEMMA PublicationsStart ==
    ASSUME NEW jobs, NEW recs, jobs \subseteq JobRecord, NEW p \in Publications(jobs, recs), NEW job \in jobs,
           job.rec \in recs \cup {Nil}
    PROVE  /\ Triggered(p, job) \in Publications(jobs, recs)
           /\ Triggered(p, job).at \in Holding => Triggered(p, job).at = p.at /\ Triggered(p, job).job = p.job
<1>1. NoJob \in JobRecord
  BY DEF NoJob, JobRecord
<1>2. CASE p.at = "none"
  <2>1. Publishing(job) \in Publications(jobs, recs) /\ Publishing(job).at = "start"
    BY <1>1 DEF Publishing, NotPublishing, Publications, PublicationRecord
  <2> QED BY <1>2, <2>1 DEF Triggered, Holding
<1>3. CASE p.at # "none"
  BY <1>3 DEF Triggered, Publications, PublicationRecord
<1> QED BY <1>2, <1>3

LEMMA PublicationsEnd ==
    ASSUME NEW jobs, NEW recs, jobs \subseteq {job \in JobRecord : job.rec \in recs \cup {Nil}},
           NEW p \in Publications(jobs, recs)
    PROVE  PublishEnded(p) \in Publications(jobs, recs) /\ PublishEnded(p).at \notin Holding
<1>1. NoJob \in JobRecord /\ NoJob.rec = Nil
  BY DEF NoJob, JobRecord
<1>2. p.next \in jobs \cup {NoJob}
  BY DEF Publications
<1>3. CASE p.next = NoJob
  BY <1>1, <1>3 DEF PublishEnded, NotPublishing, Publications, PublicationRecord, Holding
<1>4. CASE p.next # NoJob
  BY <1>1, <1>2, <1>4 DEF PublishEnded, Publishing, NotPublishing, Publications, PublicationRecord, Holding
<1> QED BY <1>3, <1>4

\* The lock
LEMMA OneHolder ==
    ASSUME NEW l \in Lines \cup {Publisher}, NEW m \in Lines \cup {Publisher}, Has(l), Has(m)
    PROVE  l = m
BY DEF Has

LEMMA PublisherIsNoLine == Publisher \notin Lines
BY LinesAreMajors DEF Publisher

LEMMA LockTaken ==
    ASSUME lock \in Seq(Lines \cup {Publisher}), NEW job \in Lines \cup {Publisher}, lock' = Came(job)
    PROVE  /\ lock' \in Seq(Lines \cup {Publisher})
           /\ \A m \in Lines \cup {Publisher} : Has(m) => Has(m)'
<1> DEFINE S == Lines \cup {Publisher}
<1>1. lock \in Seq(S) /\ job \in S
  OBVIOUS
<1> HIDE DEF S
<1>2. CASE Len(lock) = 2
  <2>0. lock' = <<lock[1], job>>
    BY <1>2 DEF Came
  <2>a. lock[1] \in S
    BY <1>1, <1>2, ElementOfSeq
  <2>1. lock' = <<lock[1], job>> /\ lock[1] \in S
    BY <2>0, <2>a
  <2>2. lock' \in Seq(S) /\ Head(lock') = lock[1] /\ lock' # <<>>
    BY <1>1, <2>1
  <2> QED BY <1>1, <1>2, <2>2 DEF Has, S
<1>3. CASE Len(lock) # 2
  <2>1. lock' = Append(lock, job)
    BY <1>3 DEF Came
  <2>2. lock' \in Seq(S) /\ lock' # <<>> /\ (lock # <<>> => Head(lock') = Head(lock))
    BY <1>1, <2>1
  <2> QED BY <2>2 DEF Has, S
<1> QED BY <1>2, <1>3

LEMMA LockLeft ==
    ASSUME lock \in Seq(Lines \cup {Publisher}), NEW job \in Lines \cup {Publisher},
           lock' = WithoutJob(job) \/ (Has(job) /\ lock' = Tail(lock))
    PROVE  /\ lock' \in Seq(Lines \cup {Publisher})
           /\ \A m \in (Lines \cup {Publisher}) \ {job} : Has(m) => Has(m)'
<1> DEFINE S == Lines \cup {Publisher}
<1>1. lock \in Seq(S) /\ job \in S
  OBVIOUS
<1> HIDE DEF S
<1>2. CASE Has(job)
  <2>1. lock' = Tail(lock) /\ lock # <<>> /\ Head(lock) = job
    BY <1>2 DEF WithoutJob, Has
  <2>2. lock' \in Seq(S)
    BY <1>1, <2>1
  <2>3. \A m \in S \ {job} : ~Has(m)
    BY <2>1 DEF Has
  <2> QED BY <2>2, <2>3 DEF S
<1>3. CASE ~Has(job) /\ Cancelled = job
  <2>1. lock' = <<Head(lock)>>
    BY <1>3 DEF WithoutJob
  <2>2. CASE lock # <<>>
    <3>1. Head(lock) \in S
      BY <1>1, <2>2
    <3>2. lock' \in Seq(S) /\ Head(lock') = Head(lock) /\ lock' # <<>>
      BY <2>1, <3>1
    <3> QED BY <3>2 DEF Has, S
  <2>3. CASE lock = <<>>
    <3>1. Cancelled = Nil /\ Nil \notin S
      BY <2>3, NilIsNone DEF Cancelled, S, Publisher
    <3> QED BY <1>1, <1>3, <3>1
  <2> QED BY <2>2, <2>3
<1>4. CASE ~Has(job) /\ Cancelled # job
  <2>1. lock' = lock
    BY <1>4 DEF WithoutJob
  <2> QED BY <1>1, <2>1 DEF Has, S
<1> QED BY <1>2, <1>3, <1>4

\* What a step leaves of what writers and the publisher have
WritersGoOn ==
    \A l \in Lines : cand'[l].at \in Writing =>
        /\ cand[l].at \in Writing /\ cand'[l].draft = cand[l].draft /\ cand'[l].id = cand[l].id
        /\ Has(l) => Has(l)'
PublisherGoesOn ==
    pub'.at \in Holding => /\ pub'.at = pub.at /\ pub'.job = pub.job
                           /\ Has(Publisher) => Has(Publisher)'

LEMMA WritersKept ==
    ASSUME ReleasesInductive, UNCHANGED releases, WritersGoOn
    PROVE  WritingFits'
<1> SUFFICES ASSUME NEW l \in Lines, cand'[l].at \in Writing
             PROVE  /\ Has(l)' /\ cand'[l].draft \in DOMAIN releases'
                    /\ ~(~releases'[cand'[l].draft].draft)
                    /\ releases'[cand'[l].draft].tag = cand'[l].id.tag
  BY DEF WritingFits, IsOut
<1>1. /\ cand[l].at \in Writing /\ cand'[l].draft = cand[l].draft /\ cand'[l].id = cand[l].id
      /\ Has(l) => Has(l)'
  BY DEF WritersGoOn
<1>2. /\ Has(l) /\ cand[l].draft \in DOMAIN releases
      /\ ~IsOut(cand[l].draft) /\ releases[cand[l].draft].tag = cand[l].id.tag
  BY <1>1 DEF WritingFits, ReleasesInductive
<1> QED BY <1>1, <1>2 DEF IsOut

LEMMA PublisherKept ==
    ASSUME ReleasesInductive, BranchesGrow, UNCHANGED <<releases, tags>>, PublisherGoesOn
    PROVE  PublishingFits'
<1>1. CASE pub'.at \notin Holding
  BY <1>1 DEF PublishingFits
<1>2. CASE pub'.at \in Holding
  <2>1. /\ pub'.at = pub.at /\ pub'.job = pub.job /\ releases' = releases /\ tags' = tags
        /\ Has(Publisher) => Has(Publisher)'
    BY <1>2 DEF PublisherGoesOn
  <2> DEFINE j == pub.job
  <2>2. /\ Has(Publisher) /\ j.rec # Nil
        /\ ~IsOut(j.rec.draft) /\ releases[j.rec.draft].id = j.rec.id /\ releases[j.rec.draft].assets = j.rec.assets
        /\ j.rec.id.tag.phase = Nil => j.line # 0 /\ Merged(j.line, j.commit, j.rec)
        /\ j.rec.id.tag.phase # Nil => j.line = 0 /\ releases[j.rec.draft].rec = j.rec
        /\ pub.at = "refresh" => j.rec.id.tag.phase # Nil
        /\ pub.at = "publish" => j.rec.id.tag \in DOMAIN tags /\ tags[j.rec.id.tag] = Target
    BY <1>2, <2>1 DEF ReleasesInductive, PublishingFits
  <2>3. Target' = Target
    BY <2>1 DEF Target, BuildCommit
  <2>4. j.rec.id.tag.phase = Nil => Merged(pub.job.line, pub.job.commit, pub.job.rec)'
    <3>1. SUFFICES ASSUME j.rec.id.tag.phase = Nil
                   PROVE  Merged(pub.job.line, pub.job.commit, pub.job.rec)'
      OBVIOUS
    <3>2. PICK l : l = j.line
      OBVIOUS
    <3>3. PICK i : i = j.commit
      OBVIOUS
    <3>4. PICK rec : rec = j.rec
      OBVIOUS
    <3>5. Merged(l, i, rec)
      BY <2>2, <3>1, <3>2, <3>3, <3>4 DEF Merged, IsMerge, MergedAsTested
    <3>6. Merged(l, i, rec)'
      BY <3>5, MergesStand DEF ReleasesInductive
    <3> QED BY <2>1, <3>2, <3>3, <3>4, <3>6 DEF Merged, IsMerge, MergedAsTested, RecordAt, Merges, Tip
  <2> QED BY <2>1, <2>2, <2>3, <2>4 DEF PublishingFits, IsOut
<1> QED BY <1>1, <1>2

LEMMA FromParts ==
    ASSUME ReleasesInductive, BranchesGrow, BranchesTyped', BranchesFit', UNCHANGED published,
           \A h \in DOMAIN heads' : heads'[h].rec \in GoodRecs \cup {Nil},
           ctl' \in [Lines -> Readings(SourcedIds, GoodIds, Listed)],
           cand' \in [Lines -> Runs(GoodIds, GoodRecs)],
           pub' \in Publications(Jobs, GoodRecs) \/ pub' \in Publications(Jobs', GoodRecs'),
           lock' \in Seq(Lines \cup {Publisher}), WritingFits', PublishingFits'
    PROVE  ReleasesInductive' /\ ReleasesGrow
<1>1. /\ Growth /\ PublishedTyped' /\ ReleasesFit' /\ OutsFit' /\ Once' /\ LatestIsHighest'
      /\ GoodRecs \subseteq GoodRecs'
  BY PublishedKept
<1>2. Base
  BY DEF ReleasesInductive, Base
<1>3. /\ SourcedIds \subseteq SourcedIds' /\ GoodIds \subseteq GoodIds' /\ Listed \subseteq Listed'
      /\ Jobs \subseteq Jobs'
  BY <1>1, <1>2, SourcedStay, GoodStay, ListedStay, JobsStay
<1>4. ctl' \in [Lines -> Readings(SourcedIds, GoodIds, Listed)']
  <2>1. Readings(SourcedIds, GoodIds, Listed) \subseteq Readings(SourcedIds', GoodIds', Listed')
    BY <1>3, ReadingsGrow
  <2>2. ctl' \in [Lines -> Readings(SourcedIds', GoodIds', Listed')]
    BY <2>1
  <2> QED BY <2>2
<1>5. cand' \in [Lines -> Runs(GoodIds, GoodRecs)']
  <2>1. Runs(GoodIds, GoodRecs) \subseteq Runs(GoodIds', GoodRecs')
    BY <1>1, <1>3, RunsGrow
  <2>2. cand' \in [Lines -> Runs(GoodIds', GoodRecs')]
    BY <2>1
  <2> QED BY <2>2
<1>6. pub' \in Publications(Jobs, GoodRecs)'
  <2>1. Publications(Jobs, GoodRecs) \subseteq Publications(Jobs', GoodRecs')
    BY <1>1, <1>3, PublicationsGrow
  <2>2. pub' \in Publications(Jobs', GoodRecs')
    BY <2>1
  <2> QED BY <2>2
<1>7. RunsCarry'
  BY <1>1, <1>4, <1>5, <1>6 DEF RunsCarry
<1>8. ReleaseTyped'
  BY <1>1 DEF ReleaseTyped
<1> QED BY <1>1, <1>7, <1>8 DEF ReleasesInductive, Growth

\* The state as it is
LEMMA StateIs ==
    ASSUME ReleasesInductive
    PROVE  /\ Base /\ ReleaseTyped /\ BranchesFit
           /\ pr \in [Lines -> PRRecord] /\ prep \in [Lines -> PrepRecord]
           /\ \A l \in Lines : prep[l].base <= Tip(l) /\ (prep[l].at = "sync" => pr[l].head # 0)
           /\ ctl \in [Lines -> Readings(SourcedIds, GoodIds, Listed)]
           /\ cand \in [Lines -> Runs(GoodIds, GoodRecs)] /\ pub \in Publications(Jobs, GoodRecs)
           /\ lock \in Seq(Lines \cup {Publisher})
           /\ GoodIds \subseteq Identities /\ GoodRecs \subseteq Records
           /\ Nil \notin Identities /\ Nil \notin Records /\ Nil \notin Phases
           /\ Jobs \subseteq {job \in JobRecord : job.rec \in GoodRecs \cup {Nil}}
           /\ \A h \in DOMAIN heads : heads[h].rec \in GoodRecs \cup {Nil}
BY NilIsNone DEF ReleasesInductive, Base, ReleaseTyped, BranchesTyped, BranchesFit, RunsCarry, GoodIds, GoodRecs,
   Jobs, JobFits

BranchesStep ==
    /\ BranchesGrow /\ BranchesTyped' /\ BranchesFit'
    /\ \A h \in DOMAIN heads' : heads'[h].rec \in GoodRecs \cup {Nil}
RunsStep ==
    /\ ctl' \in [Lines -> Readings(SourcedIds, GoodIds, Listed)]
    /\ cand' \in [Lines -> Runs(GoodIds, GoodRecs)]
    /\ pub' \in Publications(Jobs, GoodRecs) \/ pub' \in Publications(Jobs', GoodRecs')
    /\ lock' \in Seq(Lines \cup {Publisher})
    /\ WritersGoOn /\ PublisherGoesOn
Goes == ReleasesInductive' /\ ReleasesGrow

LEMMA StepKept ==
    ASSUME ReleasesInductive, BranchesStep, UNCHANGED published, RunsStep
    PROVE  Goes
<1>1. releases' = releases /\ tags' = tags
  BY DEF published
<1>2. WritingFits' /\ PublishingFits'
  BY <1>1, WritersKept, PublisherKept DEF RunsStep, BranchesStep
<1> QED BY <1>2, FromParts DEF BranchesStep, RunsStep, Goes

LEMMA BranchesSame ==
    ASSUME ReleasesInductive, UNCHANGED branches
    PROVE  BranchesStep
<1>1. line' = line /\ heads' = heads /\ pr' = pr /\ prep' = prep
  BY DEF branches
<1>2. HeadsGrow /\ LinesGrow
  <2>1. \A l \in Lines : Tip(l) \in Nat
    BY StateIs, BranchesAre
  <2> QED BY <1>1, <2>1, StateIs DEF HeadsGrow, LinesGrow, ReleaseTyped, BranchesTyped, Tip
<1>3. BranchesTyped' /\ BranchesFit'
  BY <1>1, StateIs DEF ReleaseTyped, BranchesTyped, BranchesFit, Tip
<1> QED BY <1>1, <1>2, <1>3, StateIs DEF BranchesStep, BranchesGrow

LEMMA StillBranches ==
    ASSUME ReleasesInductive, UNCHANGED <<line, heads>>,
           pr' \in [Lines -> PRRecord], prep' \in [Lines -> PrepRecord],
           \A m \in Lines :
              /\ pr'[m].head = pr[m].head
              /\ pr'[m].open => pr[m].open \/ pr[m].head # 0
              /\ prep'[m].base <= Tip(m)
              /\ prep'[m].at = "sync" => pr[m].head # 0
    PROVE  BranchesStep
<1>1. HeadsGrow /\ LinesGrow
  <2>1. \A l \in Lines : Tip(l) \in Nat
    BY StateIs, BranchesAre
  <2> QED BY <2>1, StateIs DEF HeadsGrow, LinesGrow, ReleaseTyped, BranchesTyped, Tip
<1>2. BranchesTyped' /\ BranchesFit'
  BY <1>1, StateIs, BranchesGo
<1> QED BY <1>1, <1>2, StateIs DEF BranchesStep, BranchesGrow

LEMMA LineStep ==
    ASSUME ReleasesInductive, UNCHANGED heads, NEW l \in Lines, NEW x \in [head : {0} \cup DOMAIN heads, pr : Nat],
           line' = [line EXCEPT ![l] = Append(@, x)],
           pr' \in [Lines -> PRRecord], prep' \in [Lines -> PrepRecord],
           \A m \in Lines :
              /\ pr'[m].head = pr[m].head
              /\ pr'[m].open => pr[m].open \/ pr[m].head # 0
              /\ prep'[m].base <= Tip(m)
              /\ prep'[m].at = "sync" => pr[m].head # 0
    PROVE  BranchesStep /\ Tip(l)' = Tip(l) + 1
<1>1. x \in [head : Nat, pr : Nat]
  BY StateIs, BranchesAre
<1>2. /\ LinesGrow /\ Len(line'[l]) = Tip(l) + 1 /\ line'[l][Tip(l) + 1] = x
      /\ \A m \in Lines \ {l} : line'[m] = line[m]
  BY <1>1, StateIs, LineAppended
<1>3. HeadsGrow
  BY StateIs DEF HeadsGrow, ReleaseTyped, BranchesTyped
<1>4. \A m \in Lines : \A i \in 1..Len(line'[m]) :
         i \notin 1..Len(line[m]) => line'[m][i].head \in {0} \cup DOMAIN heads'
  <2> SUFFICES ASSUME NEW m \in Lines, NEW i \in 1..Len(line'[m]), i \notin 1..Len(line[m])
               PROVE  line'[m][i].head \in {0} \cup DOMAIN heads
    OBVIOUS
  <2>1. m = l /\ i = Tip(l) + 1
    <3>1. Tip(l) \in Nat
      BY StateIs, BranchesAre
    <3> QED BY <1>2, <3>1 DEF Tip
  <2> QED BY <1>2, <2>1
<1>5. BranchesTyped' /\ BranchesFit'
  BY <1>2, <1>3, <1>4, StateIs, BranchesGo
<1> QED BY <1>2, <1>3, <1>5, StateIs DEF BranchesStep, BranchesGrow, Tip

LEMMA HeadStep ==
    ASSUME ReleasesInductive, UNCHANGED line, NEW l \in Lines, NEW x \in HeadRecord,
           heads' = Append(heads, x), x.line = l, x.base <= Tip(l), x.rec \in GoodRecs \cup {Nil},
           x.rec # Nil => x.rec.id.tag.phase = Nil,
           pr' \in [Lines -> PRRecord], prep' \in [Lines -> PrepRecord], pr'[l].head = Len(heads) + 1,
           \A m \in Lines :
              /\ m # l => pr'[m] = pr[m]
              /\ prep'[m].base <= Tip(m)
              /\ m # l => (prep'[m].at = "sync" => pr[m].head # 0)
    PROVE  BranchesStep
<1>1. /\ HeadsGrow /\ DOMAIN heads' = 1..(Len(heads) + 1) /\ heads'[Len(heads) + 1] = x
      /\ DOMAIN heads = 1..Len(heads) /\ Len(heads) \in Nat
  BY StateIs, HeadAppended
<1>2. LinesGrow
  <2>1. \A m \in Lines : Tip(m) \in Nat
    BY StateIs, BranchesAre
  <2> QED BY <2>1, StateIs DEF LinesGrow, ReleaseTyped, BranchesTyped, Tip
<1>3. \A h \in DOMAIN heads' \ DOMAIN heads : heads'[h] = x
  BY <1>1
<1>4. \A h \in DOMAIN heads' \ DOMAIN heads :
              /\ heads'[h].base <= Len(line'[heads'[h].line])
              /\ heads'[h].rec # Nil => heads'[h].rec.id.tag.phase = Nil
  BY <1>3 DEF Tip
<1>5. \A m \in Lines :
         /\ pr'[m].head = pr[m].head
            \/ (pr'[m].head \in DOMAIN heads' /\ heads'[pr'[m].head].line = m /\ pr'[m].head # 0)
         /\ pr'[m].open => pr[m].open \/ pr'[m].head # 0
         /\ prep'[m].at = "sync" => pr'[m].head # 0
  BY <1>1
<1>6. BranchesTyped' /\ BranchesFit'
  BY <1>1, <1>2, <1>4, <1>5, StateIs, BranchesGo
<1>7. \A h \in DOMAIN heads' : heads'[h].rec \in GoodRecs \cup {Nil}
  BY <1>1, <1>3, StateIs DEF HeadsGrow
<1> QED BY <1>1, <1>2, <1>6, <1>7 DEF BranchesStep, BranchesGrow

\* The runs, when a step leaves them alone or touches one of them
LEMMA ControllerAsked ==
    ASSUME ReleasesInductive, NEW l \in Lines, NEW b \in BOOLEAN, ctl' = [ctl EXCEPT ![l].asked = b]
    PROVE  ctl' \in [Lines -> Readings(SourcedIds, GoodIds, Listed)]
<1>1. ctl \in [Lines -> Readings(SourcedIds, GoodIds, Listed)]
  BY StateIs
<1>2. [ctl[l] EXCEPT !.asked = b] \in Readings(SourcedIds, GoodIds, Listed)
  BY <1>1 DEF Readings, ReadingRecord
<1>3. ctl' = [ctl EXCEPT ![l] = [ctl[l] EXCEPT !.asked = b]]
  OBVIOUS
<1> QED BY <1>1, <1>2, <1>3

LEMMA ControllerEnded ==
    ASSUME ReleasesInductive, NEW l \in Lines, ControllerEnds(l)
    PROVE  ctl' \in [Lines -> Readings(SourcedIds, GoodIds, Listed)]
<1>1. ctl \in [Lines -> Readings(SourcedIds, GoodIds, Listed)]
  BY StateIs
<1>2. [ctl[l] EXCEPT !.at = "none", !.id = Nil, !.tags = {}] \in Readings(SourcedIds, GoodIds, Listed)
  <2>1. PICK c : c = [ctl[l] EXCEPT !.at = "none", !.id = Nil, !.tags = {}]
    OBVIOUS
  <2>2. c \in ReadingRecord /\ c.at = "none" /\ c.id = Nil /\ c.tags = {}
    BY <1>1, <2>1 DEF Readings, ReadingRecord
  <2>3. c \in Readings(SourcedIds, GoodIds, Listed)
    BY <2>2, FS_EmptySet DEF Readings
  <2> QED BY <2>1, <2>3
<1>3. ctl' = [ctl EXCEPT ![l] = [ctl[l] EXCEPT !.at = "none", !.id = Nil, !.tags = {}]]
  BY DEF ControllerEnds
<1> QED BY <1>1, <1>2, <1>3

\* Nothing of the candidates, the publication and the lock changes
LEMMA WritersSame ==
    ASSUME ReleasesInductive, UNCHANGED <<cand, lock>>
    PROVE  cand' \in [Lines -> Runs(GoodIds, GoodRecs)] /\ lock' \in Seq(Lines \cup {Publisher}) /\ WritersGoOn
BY StateIs DEF WritersGoOn, Has

LEMMA PublisherSame ==
    ASSUME ReleasesInductive, UNCHANGED <<pub, lock>>
    PROVE  pub' \in Publications(Jobs, GoodRecs) /\ PublisherGoesOn
BY StateIs DEF PublisherGoesOn, Has

\* One candidate goes on without writing, or ends
LEMMA WriterGoes ==
    ASSUME ReleasesInductive, UNCHANGED lock, NEW l \in Lines, NEW c \in Runs(GoodIds, GoodRecs),
           cand' = [cand EXCEPT ![l] = c],
           c.at \in Writing => c.at = cand[l].at /\ c.draft = cand[l].draft /\ c.id = cand[l].id
    PROVE  cand' \in [Lines -> Runs(GoodIds, GoodRecs)] /\ lock' \in Seq(Lines \cup {Publisher}) /\ WritersGoOn
<1>1. cand \in [Lines -> Runs(GoodIds, GoodRecs)]
  BY StateIs
<1>2. cand'[l] = c /\ \A m \in Lines \ {l} : cand'[m] = cand[m]
  BY <1>1
<1>3. WritersGoOn
  BY <1>2 DEF WritersGoOn, Has
<1> QED BY <1>1, <1>3, StateIs

LEMMA WriterEnds ==
    ASSUME ReleasesInductive, UNCHANGED lock, NEW l \in Lines, cand' = [cand EXCEPT ![l] = Ended(@)]
    PROVE  cand' \in [Lines -> Runs(GoodIds, GoodRecs)] /\ lock' \in Seq(Lines \cup {Publisher}) /\ WritersGoOn
<1>1. cand[l] \in Runs(GoodIds, GoodRecs)
  BY StateIs
<1>2. Ended(cand[l]) \in Runs(GoodIds, GoodRecs) /\ Ended(cand[l]).at \in {"none", "build"}
  BY <1>1, StateIs, RunsEnd
<1>3. cand' = [cand EXCEPT ![l] = Ended(cand[l])]
  OBVIOUS
<1> QED BY <1>2, <1>3, WriterGoes DEF Writing

\* The publication is triggered
LEMMA PublisherTriggered ==
    ASSUME ReleasesInductive, BranchesStep, UNCHANGED <<published, lock>>, NEW job \in Jobs', pub' = Triggered(pub, job)
    PROVE  pub' \in Publications(Jobs', GoodRecs') /\ PublisherGoesOn
<1>1. Growth /\ GoodRecs \subseteq GoodRecs'
  BY PublishedKept DEF BranchesStep
<1>2. Jobs \subseteq Jobs'
  BY <1>1, StateIs, JobsStay
<1>3. pub \in Publications(Jobs', GoodRecs')
  BY <1>1, <1>2, StateIs, PublicationsGrow
<1>4. Jobs' \subseteq JobRecord /\ job.rec \in GoodRecs' \cup {Nil}
  BY DEF Jobs, JobFits
<1>5. /\ Triggered(pub, job) \in Publications(Jobs', GoodRecs')
      /\ Triggered(pub, job).at \in Holding => Triggered(pub, job).at = pub.at /\ Triggered(pub, job).job = pub.job
  BY <1>3, <1>4, PublicationsStart
<1> QED BY <1>5 DEF PublisherGoesOn, Has

LEMMA PushIsAJob ==
    ASSUME NEW l \in Lines, Tip(l)' \in Nat, NEW i \in 1..Tip(l)'
    PROVE  Push(l, i) \in Jobs'
<1>1. l # 0 /\ i \in Nat
  BY LinesAreMajors
<1>2. Push(l, i).line = l /\ Push(l, i).commit = i /\ Push(l, i).rec = Nil
  BY DEF Push, NoJob
<1>3. NoJob \in JobRecord
  BY DEF NoJob, JobRecord
<1>4. Push(l, i) \in JobRecord
  BY <1>1, <1>3 DEF Push, JobRecord
<1> HIDE DEF Push
<1> QED BY <1>1, <1>2, <1>4 DEF Jobs, JobFits

LEMMA PreviewIsAJob ==
    ASSUME ReleasesInductive, BranchesStep, UNCHANGED published, NEW rec \in GoodRecs
    PROVE  Preview(rec) \in Jobs'
<1>1. rec \in GoodRecs' /\ rec \in Records /\ rec # Nil
  BY PublishedKept, StateIs DEF BranchesStep
<1> QED BY <1>1 DEF Preview, NoJob, Jobs, JobRecord, JobFits

(* People, and the branches *)

LEMMA PreparationAsked ==
    ASSUME ReleasesInductive, NEW l \in Lines, prep' = [prep EXCEPT ![l].asked = TRUE]
    PROVE  /\ prep' \in [Lines -> PrepRecord]
           /\ \A m \in Lines : prep'[m].base = prep[m].base /\ prep'[m].at = prep[m].at
<1>1. prep \in [Lines -> PrepRecord] /\ prep[l] \in PrepRecord
  BY StateIs
<1>2. PICK w : w = [prep[l] EXCEPT !.asked = TRUE]
  OBVIOUS
<1>3. w \in PrepRecord /\ w.base = prep[l].base /\ w.at = prep[l].at
  BY <1>1, <1>2 DEF PrepRecord
<1>4. prep' = [prep EXCEPT ![l] = w]
  BY <1>2
<1> QED BY <1>1, <1>3, <1>4

LEMMA StepOfBackport == ASSUME ReleasesInductive, NEW l \in Lines, Backport(l) PROVE Goes
<1> DEFINE x == [head |-> 0, pr |-> 0]
<1>1. /\ UNCHANGED heads /\ x \in [head : {0} \cup DOMAIN heads, pr : Nat]
      /\ line' = [line EXCEPT ![l] = Append(@, x)]
  BY DEF Backport
<1>2. PICK base \in {pr[l].base, Tip(l) + 1} : pr' = [pr EXCEPT ![l].base = base]
  BY DEF Backport
<1>3. Tip(l) \in Nat
  BY StateIs, BranchesAre
<1>4. pr' \in [Lines -> PRRecord] /\ \A m \in Lines : pr'[m].head = pr[m].head /\ pr'[m].open = pr[m].open
  <2>1. pr \in [Lines -> PRRecord] /\ pr[l] \in PRRecord
    BY StateIs
  <2>2. PICK q : q = [pr[l] EXCEPT !.base = base]
    OBVIOUS
  <2>3. q \in PRRecord /\ q.head = pr[l].head /\ q.open = pr[l].open
    BY <1>2, <1>3, <2>1, <2>2 DEF PRRecord
  <2>4. pr' = [pr EXCEPT ![l] = q]
    BY <1>2, <2>2
  <2> QED BY <2>1, <2>3, <2>4
<1>5. prep' \in [Lines -> PrepRecord] /\ \A m \in Lines : prep'[m].base = prep[m].base /\ prep'[m].at = prep[m].at
  BY PreparationAsked DEF Backport
<1>6. BranchesStep /\ Tip(l)' = Tip(l) + 1
  <2> HIDE DEF x
  <2>1. \A m \in Lines :
              /\ pr'[m].head = pr[m].head
              /\ pr'[m].open => pr[m].open \/ pr[m].head # 0
              /\ prep'[m].base <= Tip(m)
              /\ prep'[m].at = "sync" => pr[m].head # 0
    BY <1>4, <1>5, StateIs
  <2> QED BY <1>1, <1>4, <1>5, <2>1, LineStep
<1>7. UNCHANGED published /\ UNCHANGED ctl /\ UNCHANGED <<cand, lock>> /\ pub' = Triggered(pub, Push(l, Tip(l) + 1))
  BY DEF Backport
<1>8. Push(l, Tip(l) + 1) \in Jobs'
  BY <1>3, <1>6, PushIsAJob
<1>9. RunsStep
  BY <1>6, <1>7, <1>8, StateIs, WritersSame, PublisherTriggered DEF RunsStep
<1> QED BY <1>6, <1>7, <1>9, StepKept

LEMMA StepOfMerge == ASSUME ReleasesInductive, NEW l \in Lines, Merge(l) PROVE Goes
<1> DEFINE x == [head |-> pr[l].head, pr |-> pr[l].number]
<1>0. pr[l] \in PRRecord /\ pr[l].open
  BY StateIs DEF Merge
<1>a. pr[l].head \in DOMAIN heads
  BY <1>0, StateIs DEF BranchesFit
<1>1. /\ UNCHANGED heads /\ x \in [head : {0} \cup DOMAIN heads, pr : Nat]
      /\ line' = [line EXCEPT ![l] = Append(@, x)]
  BY <1>0, <1>a DEF Merge, PRRecord
<1>3. Tip(l) \in Nat
  BY StateIs, BranchesAre
<1>4. /\ pr' \in [Lines -> PRRecord]
      /\ \A m \in Lines : pr'[m].head = pr[m].head /\ (pr'[m].open => pr[m].open)
  <2>1. PICK p : p = [pr[l] EXCEPT !.open = FALSE, !.gate = 0]
    OBVIOUS
  <2>2. pr \in [Lines -> PRRecord]
    BY StateIs
  <2>3. p \in PRRecord /\ p.head = pr[l].head /\ p.open = FALSE
    BY <2>1, <2>2 DEF PRRecord
  <2>4. pr' = [pr EXCEPT ![l] = p]
    BY <2>1 DEF Merge
  <2> QED BY <2>2, <2>3, <2>4
<1>5. prep' \in [Lines -> PrepRecord] /\ \A m \in Lines : prep'[m].base = prep[m].base /\ prep'[m].at = prep[m].at
  BY PreparationAsked DEF Merge
<1>6. BranchesStep /\ Tip(l)' = Tip(l) + 1
  <2> HIDE DEF x
  <2>1. \A m \in Lines :
              /\ pr'[m].head = pr[m].head
              /\ pr'[m].open => pr[m].open \/ pr[m].head # 0
              /\ prep'[m].base <= Tip(m)
              /\ prep'[m].at = "sync" => pr[m].head # 0
    BY <1>4, <1>5, StateIs
  <2> QED BY <1>1, <1>4, <1>5, <2>1, LineStep
<1>7. UNCHANGED published /\ UNCHANGED ctl /\ UNCHANGED <<cand, lock>> /\ pub' = Triggered(pub, Push(l, Tip(l) + 1))
  BY DEF Merge
<1>8. Push(l, Tip(l) + 1) \in Jobs'
  BY <1>3, <1>6, PushIsAJob
<1>9. RunsStep
  BY <1>6, <1>7, <1>8, StateIs, WritersSame, PublisherTriggered DEF RunsStep
<1> QED BY <1>6, <1>7, <1>9, StepKept

\* A new head is asked about, and tested, again
LEMMA NewHeadStep ==
    ASSUME ReleasesInductive, UNCHANGED line, NEW l \in Lines, NEW x \in HeadRecord, NewHead(l, x),
           x.line = l, x.base <= Tip(l), x.rec \in GoodRecs \cup {Nil},
           x.rec # Nil => x.rec.id.tag.phase = Nil, prep' \in [Lines -> PrepRecord],
           \A m \in Lines : prep'[m].base <= Tip(m) /\ (m # l => (prep'[m].at = "sync" => prep[m].at = "sync"))
    PROVE  BranchesStep /\ ctl' \in [Lines -> Readings(SourcedIds, GoodIds, Listed)]
<1>1. heads' = Append(heads, x)
  BY DEF NewHead
<1>2. Tip(l) \in Nat /\ Len(heads) \in Nat
  BY StateIs, BranchesAre
<1>3. pr' \in [Lines -> PRRecord] /\ pr'[l].head = Len(heads) + 1 /\ \A m \in Lines : m # l => pr'[m] = pr[m]
  <2>1. pr \in [Lines -> PRRecord] /\ pr[l] \in PRRecord
    BY StateIs
  <2>2. PICK q : q = [pr[l] EXCEPT !.head = Len(heads) + 1, !.gate = 0, !.base = IF pr[l].open THEN Tip(l) ELSE @]
    OBVIOUS
  <2>a. PICK head \in Nat : head = Len(heads) + 1
    BY <1>2
  <2>b. PICK base \in Nat : base = IF pr[l].open THEN Tip(l) ELSE pr[l].base
    BY <1>2, <2>1 DEF PRRecord
  <2>c. q = [pr[l] EXCEPT !.head = head, !.gate = 0, !.base = base]
    BY <2>2, <2>a, <2>b
  <2>d. q \in PRRecord /\ q.head = head
    BY <2>1, <2>c DEF PRRecord
  <2>3. q \in PRRecord /\ q.head = Len(heads) + 1
    BY <2>a, <2>d
  <2>4. pr' = [pr EXCEPT ![l] = q]
    BY <2>2 DEF NewHead
  <2> QED BY <2>1, <2>3, <2>4
<1>4. \A m \in Lines : m # l => (prep'[m].at = "sync" => pr[m].head # 0)
  BY StateIs
<1>5. BranchesStep
  BY <1>1, <1>3, <1>4, HeadStep
<1>6. ctl' \in [Lines -> Readings(SourcedIds, GoodIds, Listed)]
  <2>1. ctl[l].asked \in BOOLEAN /\ pr[l].open \in BOOLEAN
    BY StateIs DEF Readings, ReadingRecord, PRRecord
  <2>2. PICK b \in BOOLEAN : b = (ctl[l].asked \/ pr[l].open)
    BY <2>1
  <2>3. ctl' = [ctl EXCEPT ![l].asked = b]
    BY <2>2 DEF NewHead
  <2> QED BY <2>3, ControllerAsked
<1> QED BY <1>5, <1>6

LEMMA StepOfEditHead == ASSUME ReleasesInductive, NEW l \in Lines, EditHead(l) PROVE Goes
<1> DEFINE h == pr[l].head
           x == [heads[h] EXCEPT !.parent = h, !.edit = Len(heads) + 1]
<1>1. h \in DOMAIN heads /\ heads[h] \in HeadRecord /\ heads[h].line = l /\ Len(heads) \in Nat /\ h \in Nat
  <2>1. pr[l].open /\ h \in DOMAIN heads /\ heads[h].line = l
    BY StateIs DEF EditHead, BranchesFit
  <2> QED BY <2>1, StateIs, BranchesAre
<1>2. /\ x \in HeadRecord /\ x.line = l /\ x.base = heads[h].base /\ x.rec = heads[h].rec
  <2>1. PICK y : y = heads[h]
    OBVIOUS
  <2>2. Len(heads) + 1 \in Nat /\ y \in HeadRecord /\ y.line = l
    BY <1>1, <2>1
  <2>3. \A e \in Nat : /\ [y EXCEPT !.parent = h, !.edit = e] \in HeadRecord
                       /\ [y EXCEPT !.parent = h, !.edit = e].line = l
                       /\ [y EXCEPT !.parent = h, !.edit = e].base = y.base
                       /\ [y EXCEPT !.parent = h, !.edit = e].rec = y.rec
    BY <1>1, <2>2 DEF HeadRecord
  <2> QED BY <2>1, <2>2, <2>3
<1>3. /\ heads[h].base <= Tip(l) /\ heads[h].rec \in GoodRecs \cup {Nil}
      /\ heads[h].rec # Nil => heads[h].rec.id.tag.phase = Nil
  BY <1>1, StateIs DEF BranchesFit
<1>4. NewHead(l, x) /\ UNCHANGED <<line, prep>> /\ UNCHANGED published /\ UNCHANGED <<cand, lock>> /\ UNCHANGED <<pub, lock>>
  BY DEF EditHead
<1> HIDE DEF x
<1>5. BranchesStep /\ ctl' \in [Lines -> Readings(SourcedIds, GoodIds, Listed)]
  BY <1>2, <1>3, <1>4, StateIs, NewHeadStep
<1>6. RunsStep
  BY <1>4, <1>5, WritersSame, PublisherSame DEF RunsStep
<1> QED BY <1>4, <1>5, <1>6, StepKept

LEMMA StepOfPhase == ASSUME ReleasesInductive, NEW l \in Lines, AddLabel(l) \/ RemoveLabel(l) PROVE Goes
<1>1. PICK phase \in Phases \cup {Nil} : SetPhase(l, phase)
  BY DEF AddLabel, RemoveLabel
<1>2. pr' \in [Lines -> PRRecord] /\ \A m \in Lines : pr'[m].head = pr[m].head /\ pr'[m].open = pr[m].open
  <2>1. PICK p : p = [pr[l] EXCEPT !.phase = phase, !.gate = 0]
    OBVIOUS
  <2>2. pr \in [Lines -> PRRecord]
    BY StateIs
  <2>3. p \in PRRecord /\ p.head = pr[l].head /\ p.open = pr[l].open
    BY <2>1, <2>2 DEF PRRecord
  <2>4. pr' = [pr EXCEPT ![l] = p]
    BY <1>1, <2>1 DEF SetPhase
  <2> QED BY <2>2, <2>3, <2>4
<1>3. UNCHANGED <<line, heads>> /\ UNCHANGED prep /\ UNCHANGED published /\ UNCHANGED <<cand, lock>> /\ UNCHANGED <<pub, lock>>
  BY <1>1 DEF SetPhase
<1>4. BranchesStep
  BY <1>2, <1>3, StateIs, StillBranches
<1>5. ctl' \in [Lines -> Readings(SourcedIds, GoodIds, Listed)]
  BY <1>1, ControllerAsked DEF SetPhase
<1>6. RunsStep
  BY <1>3, <1>5, WritersSame, PublisherSame DEF RunsStep
<1> QED BY <1>3, <1>4, <1>6, StepKept

LEMMA StepOfAsk == ASSUME ReleasesInductive, NEW l \in Lines, Ask(l) PROVE Goes
<1>1. UNCHANGED branches /\ UNCHANGED published /\ UNCHANGED <<cand, lock>> /\ UNCHANGED <<pub, lock>>
  BY DEF Ask
<1>2. ctl' \in [Lines -> Readings(SourcedIds, GoodIds, Listed)]
  BY ControllerAsked DEF Ask
<1>3. RunsStep
  BY <1>1, <1>2, WritersSame, PublisherSame DEF RunsStep
<1> QED BY <1>1, <1>3, BranchesSame, StepKept

LEMMA StepOfRetryPublish == ASSUME ReleasesInductive, NEW l \in Lines, RetryPublish(l) PROVE Goes
<1>1. UNCHANGED branches /\ UNCHANGED published /\ UNCHANGED <<cand, lock>> /\ UNCHANGED ctl
  BY DEF RetryPublish
<1>2. PICK i \in Merges(l, Tip(l)) : pub' = Triggered(pub, Push(l, i))
  BY DEF RetryPublish
<1>3. Tip(l) \in Nat /\ Tip(l)' = Tip(l)
  BY <1>1, StateIs, BranchesAre DEF branches, Tip
<1>4. Push(l, i) \in Jobs'
  <2>1. i \in 1..Tip(l)'
    BY <1>2, <1>3 DEF Merges
  <2> QED BY <1>3, <2>1, PushIsAJob
<1>5. RunsStep
  BY <1>1, <1>2, <1>4, StateIs, BranchesSame, WritersSame, PublisherTriggered DEF RunsStep
<1> QED BY <1>1, <1>5, BranchesSame, StepKept

\* Only the pull request, or what is prepared, changes
LEMMA QuietStep ==
    ASSUME ReleasesInductive, BranchesStep, UNCHANGED <<ctl, cand, pub, lock>>, UNCHANGED published
    PROVE  Goes
<1>1. RunsStep
  BY StateIs, WritersSame, PublisherSame DEF RunsStep
<1> QED BY <1>1, StepKept

LEMMA StepOfGate == ASSUME ReleasesInductive, NEW l \in Lines, Gate(l) PROVE Goes
<1>1. UNCHANGED <<line, heads>> /\ UNCHANGED prep /\ UNCHANGED <<ctl, cand, pub, lock>> /\ UNCHANGED published
  BY DEF Gate, workflows
<1>2. PICK passed \in {pr[l].head, 0} : pr' = [pr EXCEPT ![l].gate = passed]
  BY DEF Gate
<1>3. pr' \in [Lines -> PRRecord] /\ \A m \in Lines : pr'[m].head = pr[m].head /\ pr'[m].open = pr[m].open
  <2>1. pr \in [Lines -> PRRecord] /\ pr[l] \in PRRecord
    BY StateIs
  <2>2. PICK q : q = [pr[l] EXCEPT !.gate = passed]
    OBVIOUS
  <2>3. q \in PRRecord /\ q.head = pr[l].head /\ q.open = pr[l].open
    BY <1>2, <2>1, <2>2 DEF PRRecord
  <2>4. pr' = [pr EXCEPT ![l] = q]
    BY <1>2, <2>2
  <2> QED BY <2>1, <2>3, <2>4
<1>4. BranchesStep
  BY <1>1, <1>3, StateIs, StillBranches
<1> QED BY <1>1, <1>4, QuietStep

\* Release PR, while the pull requests stay
LEMMA PreparationStep ==
    ASSUME ReleasesInductive, NEW l \in Lines, UNCHANGED <<line, heads, pr>>, UNCHANGED <<ctl, cand, pub, lock>>,
           UNCHANGED published,
           NEW w \in PrepRecord, prep' = [prep EXCEPT ![l] = w], w.base <= Tip(l), w.at # "sync" \/ prep[l].at = "sync"
    PROVE  Goes
<1>1. prep' \in [Lines -> PrepRecord] /\ prep'[l] = w /\ \A m \in Lines \ {l} : prep'[m] = prep[m]
  BY StateIs
<1>2. \A m \in Lines : prep'[m].base <= Tip(m) /\ (prep'[m].at = "sync" => pr[m].head # 0)
  BY <1>1, StateIs
<1>3. BranchesStep
  BY <1>1, <1>2, StateIs, StillBranches
<1> QED BY <1>3, QuietStep

LEMMA UnpreparedIs ==
    ASSUME ReleasesInductive, NEW l \in Lines
    PROVE  /\ Tip(l) \in Nat /\ prep[l] \in PrepRecord
           /\ \E w \in PrepRecord : w.base = 0 /\ w.at = "none" /\ (Unprepared(l) => prep' = [prep EXCEPT ![l] = w])
<1>1. Tip(l) \in Nat /\ prep[l] \in PrepRecord
  BY StateIs, BranchesAre
<1> DEFINE w == [prep[l] EXCEPT !.at = "none", !.base = 0, !.old = 0]
<1>2. w \in PrepRecord /\ w.base = 0 /\ w.at = "none"
  BY <1>1 DEF PrepRecord
<1>3. Unprepared(l) => prep' = [prep EXCEPT ![l] = w]
  BY DEF Unprepared
<1> HIDE DEF w
<1> QED BY <1>1, <1>2, <1>3

LEMMA StepOfPreparing ==
    ASSUME ReleasesInductive, NEW l \in Lines, Regenerate(l) \/ Prepare(l) \/ CheckLine(l)
    PROVE  Goes
<1>1. UNCHANGED <<line, heads, pr>> /\ UNCHANGED <<ctl, cand, pub, lock>> /\ UNCHANGED published
  BY DEF Regenerate, Prepare, CheckLine, workflows
<1>2. /\ Tip(l) \in Nat /\ prep[l] \in PrepRecord /\ pr[l].head \in Nat
      /\ prep[l].base <= Tip(l)
  BY UnpreparedIs, StateIs DEF PRRecord
<1>3. \E w \in PrepRecord :
         prep' = [prep EXCEPT ![l] = w] /\ w.base <= Tip(l) /\ (w.at # "sync" \/ prep[l].at = "sync")
  <2>1. CASE Regenerate(l)
    <3>1. PICK w : w = [prep[l] EXCEPT !.asked = TRUE]
      OBVIOUS
    <3>2. w \in PrepRecord /\ w.base = prep[l].base /\ w.at = prep[l].at
      BY <1>2, <3>1 DEF PrepRecord
    <3>3. prep' = [prep EXCEPT ![l] = w]
      BY <2>1, <3>1 DEF Regenerate
    <3> QED BY <1>2, <3>2, <3>3
  <2>2. CASE Prepare(l) /\ Pending(l)
    <3>1. PICK w : w = [asked |-> FALSE, at |-> "check", base |-> Tip(l), old |-> pr[l].head]
      OBVIOUS
    <3>2. w \in PrepRecord /\ w.base = Tip(l) /\ w.at # "sync"
      BY <1>2, <3>1 DEF PrepRecord
    <3>3. prep' = [prep EXCEPT ![l] = w]
      BY <2>2, <3>1 DEF Prepare
    <3>4. w.base <= Tip(l)
      BY <1>2, <3>2
    <3> QED BY <3>2, <3>3, <3>4
  <2>3. CASE Prepare(l) /\ ~Pending(l)
    <3>1. PICK w : w = [prep[l] EXCEPT !.asked = FALSE]
      OBVIOUS
    <3>2. w \in PrepRecord /\ w.base = prep[l].base /\ w.at = prep[l].at
      BY <1>2, <3>1 DEF PrepRecord
    <3>3. prep' = [prep EXCEPT ![l] = w]
      BY <2>3, <3>1 DEF Prepare
    <3> QED BY <1>2, <3>2, <3>3
  <2>4. CASE CheckLine(l) /\ Tip(l) = prep[l].base
    <3>1. PICK w : w = [prep[l] EXCEPT !.at = "push"]
      OBVIOUS
    <3>2. w \in PrepRecord /\ w.base = prep[l].base /\ w.at # "sync"
      BY <1>2, <3>1 DEF PrepRecord
    <3>3. prep' = [prep EXCEPT ![l] = w]
      BY <2>4, <3>1 DEF CheckLine
    <3> QED BY <1>2, <3>2, <3>3
  <2>5. CASE CheckLine(l) /\ Tip(l) # prep[l].base
    <3>1. Unprepared(l)
      BY <2>5 DEF CheckLine
    <3>2. PICK w \in PrepRecord : w.base = 0 /\ w.at = "none" /\ prep' = [prep EXCEPT ![l] = w]
      BY <3>1, UnpreparedIs
    <3>3. w.base <= Tip(l) /\ w.at # "sync"
      BY <1>2, <3>2
    <3> QED BY <3>2, <3>3
  <2> QED BY <2>1, <2>2, <2>3, <2>4, <2>5
<1> QED BY <1>1, <1>3, PreparationStep

LEMMA StepOfPushPrepared == ASSUME ReleasesInductive, NEW l \in Lines, PushPrepared(l) PROVE Goes
<1>1. /\ UNCHANGED line /\ UNCHANGED <<cand, lock>> /\ UNCHANGED <<pub, lock>> /\ UNCHANGED published
      /\ UNCHANGED <<cand, pub, lock>>
  BY DEF PushPrepared
<1>2. /\ Tip(l) \in Nat /\ prep[l] \in PrepRecord /\ prep[l].base \in Nat /\ prep[l].base <= Tip(l)
  BY UnpreparedIs, StateIs DEF PrepRecord
<1>3. CASE pr[l].head = prep[l].old
  <2>1. PICK x : x = [line |-> l, parent |-> 0, base |-> prep[l].base, edit |-> 0, rec |-> Nil]
    OBVIOUS
  <2>2. x \in HeadRecord /\ x.line = l /\ x.base <= Tip(l) /\ x.rec = Nil
    BY <1>2, <2>1 DEF HeadRecord
  <2>3. NewHead(l, x) /\ prep' = [prep EXCEPT ![l].at = "sync"]
    BY <1>3, <2>1 DEF PushPrepared
  <2>4. PICK w : w = [prep[l] EXCEPT !.at = "sync"]
    OBVIOUS
  <2>5. w \in PrepRecord /\ w.base = prep[l].base
    BY <1>2, <2>4 DEF PrepRecord
  <2>6. prep' = [prep EXCEPT ![l] = w]
    BY <2>3, <2>4
  <2>7. prep' \in [Lines -> PrepRecord] /\ prep'[l] = w /\ \A m \in Lines \ {l} : prep'[m] = prep[m]
    BY <2>5, <2>6, StateIs
  <2>8. \A m \in Lines : prep'[m].base <= Tip(m) /\ (m # l => (prep'[m].at = "sync" => prep[m].at = "sync"))
    BY <1>2, <2>5, <2>7, StateIs
  <2>9. BranchesStep /\ ctl' \in [Lines -> Readings(SourcedIds, GoodIds, Listed)]
    BY <1>1, <2>2, <2>3, <2>7, <2>8, NewHeadStep
  <2>10. RunsStep
    BY <1>1, <2>9, WritersSame, PublisherSame DEF RunsStep
  <2> QED BY <1>1, <2>9, <2>10, StepKept
<1>4. CASE pr[l].head # prep[l].old
  <2>1. Unprepared(l) /\ UNCHANGED <<line, heads, pr>> /\ UNCHANGED <<ctl, cand, pub, lock>>
    BY <1>1, <1>4 DEF PushPrepared
  <2>2. PICK w \in PrepRecord : w.base = 0 /\ w.at = "none" /\ prep' = [prep EXCEPT ![l] = w]
    BY <2>1, UnpreparedIs
  <2>3. w.base <= Tip(l) /\ w.at # "sync"
    BY <1>2, <2>2
  <2> QED BY <1>1, <2>1, <2>2, <2>3, PreparationStep
<1> QED BY <1>3, <1>4

LEMMA StepOfSyncPR == ASSUME ReleasesInductive, NEW l \in Lines, SyncPR(l) PROVE Goes
<1>1. /\ UNCHANGED <<line, heads>> /\ UNCHANGED <<cand, lock>> /\ UNCHANGED <<pub, lock>> /\ UNCHANGED published
  BY DEF SyncPR
<1>2. /\ Tip(l) \in Nat /\ prep[l] \in PrepRecord /\ pr[l] \in PRRecord /\ pr[l].head # 0
      /\ pr \in [Lines -> PRRecord] /\ prep \in [Lines -> PrepRecord]
  BY UnpreparedIs, StateIs DEF SyncPR
<1>3. \E q \in PRRecord : q.head = pr[l].head /\ pr' = [pr EXCEPT ![l] = q]
  <2>1. CASE pr[l].open
    <3>1. pr' = [pr EXCEPT ![l] = pr[l]]
      BY <1>2, <2>1 DEF SyncPR
    <3> QED BY <1>2, <3>1
  <2>2. CASE ~pr[l].open
    <3>1. PICK number \in Nat : number = pr[l].number + 1
      BY <1>2 DEF PRRecord
    <3>2. PICK q : q = [pr[l] EXCEPT !.open = TRUE, !.number = number, !.base = Tip(l), !.phase = Nil]
      OBVIOUS
    <3>3. q \in PRRecord /\ q.head = pr[l].head
      BY <1>2, <3>2 DEF PRRecord
    <3>4. pr' = [pr EXCEPT ![l] = q]
      BY <2>2, <3>1, <3>2 DEF SyncPR
    <3> QED BY <3>3, <3>4
  <2> QED BY <2>1, <2>2
<1>4. PICK q \in PRRecord : q.head = pr[l].head /\ pr' = [pr EXCEPT ![l] = q]
  BY <1>3
<1>5. PICK w \in PrepRecord : w.base = 0 /\ w.at = "none" /\ prep' = [prep EXCEPT ![l] = w]
  BY UnpreparedIs DEF SyncPR
<1>6. /\ pr' \in [Lines -> PRRecord] /\ pr'[l].head = pr[l].head /\ \A m \in Lines \ {l} : pr'[m] = pr[m]
      /\ prep' \in [Lines -> PrepRecord] /\ prep'[l] = w /\ \A m \in Lines \ {l} : prep'[m] = prep[m]
  BY <1>2, <1>4, <1>5
<1>7. \A m \in Lines :
         /\ pr'[m].head = pr[m].head
         /\ pr'[m].open => pr[m].open \/ pr[m].head # 0
         /\ prep'[m].base <= Tip(m)
         /\ prep'[m].at = "sync" => pr[m].head # 0
  BY <1>2, <1>5, <1>6, StateIs
<1>8. BranchesStep
  BY <1>1, <1>6, <1>7, StillBranches
<1>9. ctl' \in [Lines -> Readings(SourcedIds, GoodIds, Listed)]
  BY ControllerAsked DEF SyncPR
<1>10. RunsStep
  BY <1>1, <1>9, WritersSame, PublisherSame DEF RunsStep
<1> QED BY <1>1, <1>8, <1>10, StepKept

LEMMA StepOfPushRecord == ASSUME ReleasesInductive, NEW l \in Lines, PushRecord(l) PROVE Goes
<1>1. /\ UNCHANGED line /\ UNCHANGED prep /\ UNCHANGED lock /\ UNCHANGED published
      /\ cand' = [cand EXCEPT ![l] = Ended(@)]
  BY DEF PushRecord
<1>2. cand' \in [Lines -> Runs(GoodIds, GoodRecs)] /\ lock' \in Seq(Lines \cup {Publisher}) /\ WritersGoOn
  BY <1>1, WriterEnds
<1>3. CASE pr[l].head = cand[l].id.src
  <2> DEFINE h == pr[l].head
             rec == cand[l].rec
  <2>1. cand[l].at = "push" /\ cand[l] \in Runs(GoodIds, GoodRecs)
    BY StateIs DEF PushRecord
  <2>2. rec \in GoodRecs /\ rec.id = cand[l].id /\ rec.id.tag.phase = Nil /\ cand[l].id \in GoodIds
    BY <2>1, StateIs DEF Runs
  <2>3. h \in DOMAIN heads /\ h # 0
    <3>1. h \in DOMAIN heads
      BY <1>3, <2>2 DEF GoodIds, Sourced
    <3> QED BY <3>1, StateIs, BranchesAre
  <2>4. heads[h] \in HeadRecord /\ heads[h].line = l /\ h \in Nat /\ heads[h].base <= Tip(l)
    BY <2>3, StateIs, BranchesAre DEF BranchesFit
  <2>5. PICK y : y = heads[h]
    OBVIOUS
  <2>6. PICK x : x = [y EXCEPT !.parent = h, !.rec = rec]
    OBVIOUS
  <2>7. rec \in Records
    BY <2>2, StateIs
  <2>8. x \in HeadRecord /\ x.line = l /\ x.base = y.base /\ x.rec = rec
    <3> HIDE DEF h, rec
    <3> QED BY <2>4, <2>5, <2>6, <2>7 DEF HeadRecord
  <2>9. NewHead(l, x)
    BY <1>3, <2>5, <2>6 DEF PushRecord
  <2>10. x.base <= Tip(l) /\ x.rec \in GoodRecs \cup {Nil} /\ x.rec.id.tag.phase = Nil
    BY <2>2, <2>4, <2>5, <2>8
  <2>11. BranchesStep /\ ctl' \in [Lines -> Readings(SourcedIds, GoodIds, Listed)]
    BY <1>1, <2>8, <2>9, <2>10, StateIs, NewHeadStep
  <2>12. Preview(rec) \in Jobs' /\ pub' = Triggered(pub, Preview(rec))
    BY <1>1, <1>3, <2>2, <2>11, PreviewIsAJob DEF PushRecord
  <2>13. pub' \in Publications(Jobs', GoodRecs') /\ PublisherGoesOn
    <3>1. UNCHANGED <<published, lock>>
      BY <1>1
    <3> HIDE DEF rec
    <3> QED BY <3>1, <2>11, <2>12, PublisherTriggered
  <2>14. RunsStep
    BY <1>2, <2>11, <2>13 DEF RunsStep
  <2> QED BY <1>1, <2>11, <2>14, StepKept
<1>4. CASE pr[l].head # cand[l].id.src
  <2>1. UNCHANGED branches /\ UNCHANGED ctl /\ UNCHANGED <<pub, lock>>
    BY <1>1, <1>4 DEF PushRecord, branches
  <2>2. RunsStep
    BY <1>2, <2>1, StateIs, PublisherSame DEF RunsStep
  <2> QED BY <1>1, <2>1, <2>2, BranchesSame, StepKept
<1> QED BY <1>3, <1>4

(* Release controller *)

LEMMA PreparedIsNat ==
    ASSUME ReleasesInductive, NEW h \in DOMAIN heads
    PROVE  Prepared(h) \in Nat
<1> DEFINE M == Merges(heads[h].line, heads[h].base)
<1>1. heads[h].base \in Nat
  BY StateIs, BranchesAre DEF HeadRecord
<1>2. IsFiniteSet(1..heads[h].base) /\ M \subseteq 1..heads[h].base
  BY <1>1, FS_Interval DEF Merges
<1>3. Cardinality(M) \in Nat
  BY <1>2, FS_Subset, FS_CardinalityType
<1> QED BY <1>3 DEF Prepared

\* A run of the controller goes on
LEMMA ControllerStep ==
    ASSUME ReleasesInductive, NEW l \in Lines, NEW c \in Readings(SourcedIds, GoodIds, Listed),
           ctl' = [ctl EXCEPT ![l] = c], UNCHANGED <<branches, cand, pub, lock, published>>
    PROVE  Goes
<1>1. ctl' \in [Lines -> Readings(SourcedIds, GoodIds, Listed)]
  BY StateIs
<1>2. UNCHANGED branches /\ UNCHANGED published /\ UNCHANGED <<cand, lock>> /\ UNCHANGED <<pub, lock>>
  OBVIOUS
<1>3. RunsStep
  BY <1>1, <1>2, WritersSame, PublisherSame DEF RunsStep
<1> QED BY <1>2, <1>3, BranchesSame, StepKept

LEMMA ControllerEndStep ==
    ASSUME ReleasesInductive, NEW l \in Lines, ControllerEnds(l), UNCHANGED <<branches, cand, pub, lock, published>>
    PROVE  Goes
<1>1. ctl' \in [Lines -> Readings(SourcedIds, GoodIds, Listed)]
  BY ControllerEnded
<1>2. UNCHANGED branches /\ UNCHANGED published /\ UNCHANGED <<cand, lock>> /\ UNCHANGED <<pub, lock>>
  OBVIOUS
<1>3. RunsStep
  BY <1>1, <1>2, WritersSame, PublisherSame DEF RunsStep
<1> QED BY <1>2, <1>3, BranchesSame, StepKept

LEMMA StepOfReadPR == ASSUME ReleasesInductive, NEW l \in Lines, ReadPR(l) PROVE Goes
<1> DEFINE p == pr[l]
           tag == [line |-> l, n |-> Prepared(p.head), phase |-> p.phase, k |-> 0]
           id == [pr |-> p.number, base |-> p.base, src |-> p.head, tag |-> tag]
<1>1. UNCHANGED <<branches, cand, pub, lock, published>>
  BY DEF ReadPR
<1>2. p \in PRRecord /\ ctl[l] \in Readings(SourcedIds, GoodIds, Listed) /\ ctl[l].at = "none"
  BY StateIs DEF ReadPR
<1>3. CASE ~p.open
  <2>1. ctl' = [ctl EXCEPT ![l].asked = FALSE]
    BY <1>3 DEF ReadPR
  <2>2. PICK c : c = [ctl[l] EXCEPT !.asked = FALSE]
    OBVIOUS
  <2>3. c \in Readings(SourcedIds, GoodIds, Listed)
    BY <1>2, <2>2 DEF Readings, ReadingRecord
  <2>4. ctl' = [ctl EXCEPT ![l] = c]
    BY <2>1, <2>2
  <2> QED BY <1>1, <2>3, <2>4, ControllerStep
<1>4. CASE p.open
  <2>1. p.head \in DOMAIN heads /\ heads[p.head].line = l
    BY <1>4, StateIs DEF BranchesFit
  <2>2. Prepared(p.head) \in Nat
    BY <2>1, PreparedIsNat
  <2>3. tag \in TagNames
    BY <1>2, <2>2 DEF PRRecord, TagNames
  <2>4. id \in Identities /\ id.src = p.head /\ id.tag = tag
    BY <1>2, <2>3 DEF PRRecord, Identities
  <2>5. Sourced(id) /\ id.tag.k = 0
    BY <2>1, <2>4 DEF Sourced
  <2>6. ctl' = [ctl EXCEPT ![l] = [@ EXCEPT !.asked = FALSE, !.at = "tags", !.id = id]]
    BY <1>4 DEF ReadPR
  <2>7. PICK d : d = id
    OBVIOUS
  <2>8. PICK c : c = [ctl[l] EXCEPT !.asked = FALSE, !.at = "tags", !.id = d]
    OBVIOUS
  <2>9. d \in SourcedIds /\ d \in Identities /\ d.tag.k = 0
    BY <2>4, <2>5, <2>7 DEF SourcedIds, Sourced
  <2>10. ctl' = [ctl EXCEPT ![l] = c]
    BY <2>6, <2>7, <2>8
  <2>11. c \in Readings(SourcedIds, GoodIds, Listed)
    BY <1>2, <2>8, <2>9 DEF Readings, ReadingRecord
  <2> QED BY <1>1, <2>10, <2>11, ControllerStep
<1> QED BY <1>3, <1>4

LEMMA StepOfReadTags == ASSUME ReleasesInductive, NEW l \in Lines, ReadTags(l) PROVE Goes
<1>1. UNCHANGED <<branches, cand, pub, lock, published>>
  BY DEF ReadTags
<1>2. ctl[l] \in Readings(SourcedIds, GoodIds, Listed) /\ ctl[l].at = "tags"
  BY StateIs DEF ReadTags
<1>3. PICK seen : seen = {t \in DOMAIN tags : t.k > 0 /\ [t EXCEPT !.k = 0] = ctl[l].id.tag}
  OBVIOUS
<1>4. DOMAIN tags \subseteq Listed /\ DOMAIN tags \subseteq TagNames /\ IsFiniteSet(Listed)
  <2>1. DOMAIN tags \subseteq Listed /\ DOMAIN tags \subseteq TagNames /\ releases \in Seq(ReleaseRecord)
    BY StateIs DEF Base, ReleasesFit, ReleaseTyped, PublishedTyped
  <2>2. IsFiniteSet(DOMAIN releases)
    BY <2>1, LenProperties, FS_Interval
  <2>3. IsFiniteSet({releases[r].tag : r \in DOMAIN releases})
    <3> DEFINE f == [r \in DOMAIN releases |-> releases[r].tag]
               T == {releases[r].tag : r \in DOMAIN releases}
    <3>1. f \in [DOMAIN releases -> T] /\ \A t \in T : \E r \in DOMAIN releases : f[r] = t
      OBVIOUS
    <3>2. f \in Surjection(DOMAIN releases, T)
      BY <3>1 DEF Surjection
    <3> QED BY <2>2, <3>2, FS_Surjection
  <2> QED BY <2>1, <2>3 DEF Listed
<1>5. IsFiniteSet(seen) /\ seen \subseteq TagNames
  BY <1>3, <1>4, FS_Subset
<1>6. PICK c : c = [ctl[l] EXCEPT !.at = "releases", !.tags = seen]
  OBVIOUS
<1>7. c \in Readings(SourcedIds, GoodIds, Listed)
  <2>1. \A t \in seen : t.k > 0 /\ [t EXCEPT !.k = 0] = ctl[l].id.tag /\ t \in Listed
    BY <1>3, <1>4
  <2> QED BY <1>2, <1>5, <1>6, <2>1 DEF Readings, ReadingRecord
<1>8. ctl' = [ctl EXCEPT ![l] = c]
  BY <1>3, <1>6 DEF ReadTags
<1> QED BY <1>1, <1>7, <1>8, ControllerStep

LEMMA StepOfDispatch == ASSUME ReleasesInductive, NEW l \in Lines, Dispatch(l) PROVE Goes
<1>1. UNCHANGED branches /\ UNCHANGED published /\ UNCHANGED lock /\ UNCHANGED <<pub, lock>>
  BY DEF Dispatch
<1>2. ctl' \in [Lines -> Readings(SourcedIds, GoodIds, Listed)]
  BY ControllerEnded DEF Dispatch
<1>3. ctl[l].id \in GoodIds /\ cand[l] \in Runs(GoodIds, GoodRecs)
  BY StateIs DEF Dispatch, Readings
<1>4. cand' \in [Lines -> Runs(GoodIds, GoodRecs)] /\ lock' \in Seq(Lines \cup {Publisher}) /\ WritersGoOn
  <2>1. CASE IsLive(ctl[l].id)
    <3>1. PICK c : c = Queued(cand[l], ctl[l].id)
      OBVIOUS
    <3>2. /\ c \in Runs(GoodIds, GoodRecs) /\ c.at \in {cand[l].at, "build"}
          /\ c.at \in Writing => c.id = cand[l].id /\ c.draft = cand[l].draft
      BY <1>3, <3>1, StateIs, RunsQueue
    <3>3. cand' = [cand EXCEPT ![l] = c]
      BY <2>1, <3>1 DEF Dispatch
    <3> QED BY <1>1, <3>2, <3>3, WriterGoes DEF Writing
  <2>2. CASE ~IsLive(ctl[l].id)
    <3>1. UNCHANGED <<cand, lock>>
      BY <1>1, <2>2 DEF Dispatch
    <3> QED BY <3>1, WritersSame
  <2> QED BY <2>1, <2>2
<1>5. RunsStep
  BY <1>1, <1>2, <1>4, PublisherSame DEF RunsStep
<1> QED BY <1>1, <1>5, BranchesSame, StepKept

\* What next_preview_version gives: every lower number is that of a published preview of
\* the version in this phase, which no published preview of the same snapshot is
LEMMA NextNumberFits ==
    ASSUME ReleasesInductive, NEW id \in SourcedIds, id.tag.k = 0, id.tag.phase # Nil, ~PublishedBefore(id),
           NEW seen \in SUBSET Listed, IsFiniteSet(seen),
           \A t \in seen : t.k > 0 /\ [t EXCEPT !.k = 0] = id.tag,
           NEW n, n = NextNumber(seen), NEW d, d = [id EXCEPT !.tag = [id.tag EXCEPT !.k = n]]
    PROVE  d \in GoodIds
<1> DEFINE Out == {s \in seen : With(s) = {} \/ Published(s)}
           Numbers == {0} \cup {t.k : t \in Out}
<1>1. id \in Identities /\ id.tag \in TagNames /\ Sourced(id)
  BY DEF SourcedIds, Identities
<1>2. \A t \in Listed : t \in TagNames /\ t.k \in Nat /\ With(t) # {}
  <2> SUFFICES ASSUME NEW r \in DOMAIN releases
               PROVE  releases[r].tag \in TagNames /\ releases[r].tag.k \in Nat /\ With(releases[r].tag) # {}
    BY DEF Listed
  <2>1. releases[r] \in ReleaseRecord
    BY StateIs, ElementOfSeq, LenProperties DEF ReleaseTyped, PublishedTyped
  <2>2. releases[r].tag \in TagNames
    BY <2>1 DEF ReleaseRecord
  <2> QED BY <2>2 DEF With, TagNames
<1>3. Numbers \subseteq Nat /\ 0 \in Numbers
  BY <1>2
<1>4. IsFiniteSet(Numbers)
  <2> DEFINE f == [t \in Out |-> t.k]
             T == {t.k : t \in Out}
  <2>1. IsFiniteSet(Out)
    BY FS_Subset
  <2>2. f \in [Out -> T] /\ \A k \in T : \E t \in Out : f[t] = k
    OBVIOUS
  <2>3. f \in Surjection(Out, T)
    BY <2>2 DEF Surjection
  <2>4. IsFiniteSet(T)
    BY <2>1, <2>3, FS_Surjection
  <2>5. IsFiniteSet(T \cup {0})
    BY <2>4, FS_AddElement
  <2>6. Numbers = T \cup {0}
    OBVIOUS
  <2> QED BY <2>5, <2>6
<1> DEFINE max == Max(Numbers)
<1>5. max \in Numbers /\ max \in Nat /\ n = 1 + max
  <2>1. Numbers # {}
    BY <1>3
  <2>2. max \in Numbers
    <3> HIDE DEF Numbers
    <3> QED BY <1>3, <1>4, <2>1, MaxExists
  <2> QED BY <1>3, <2>2 DEF NextNumber
<1> HIDE DEF max
<1>6. n \in Nat /\ n > 0 /\ n - 1 = max
  BY <1>5
<1>7. d \in Identities /\ d.src = id.src /\ d.tag = [id.tag EXCEPT !.k = n]
  BY <1>1, <1>6 DEF Identities, TagNames
<1>8. d.tag.line = id.tag.line /\ d.tag.n = id.tag.n /\ d.tag.phase = id.tag.phase /\ d.tag.k = n
  BY <1>1, <1>7 DEF TagNames
<1>9. \A j : [d.tag EXCEPT !.k = j] = [id.tag EXCEPT !.k = j]
  BY <1>1, <1>7 DEF TagNames
<1>10. Sourced(d)
  BY <1>1, <1>7, <1>8 DEF Sourced
\* published previews of this phase are of other snapshots
<1>11. ASSUME NEW r \in DOMAIN releases, IsOut(r), releases[r].tag.phase = id.tag.phase
       PROVE  Snapshot(releases[r].id.src) # Snapshot(id.src)
  <2>1. OutFits(r)
    BY <1>11 DEF ReleasesInductive, OutsFit
  <2>2. releases[r].rec = [id |-> releases[r].id, draft |-> r, assets |-> releases[r].assets]
    BY <1>11, <2>1 DEF OutFits
  <2>3. releases[r].rec.id = releases[r].id
    BY <2>2
  <2> QED BY <1>11, <2>3 DEF PublishedBefore, IsOut
<1>12. ASSUME NEW j \in 1..(n - 1)
       PROVE  \E r \in DOMAIN releases : Precedes(r, d, j)
  <2>1. j \in Nat /\ j > 0 /\ j <= max /\ max > 0
    BY <1>5, <1>6
  <2>2. PICK t \in Out : t.k = max
    BY <1>5, <2>1
  <2>3. Published(t) /\ t \in TagNames /\ [t EXCEPT !.k = 0] = id.tag
    BY <1>2, <2>2
  <2>4. PICK r \in DOMAIN releases : IsOut(r) /\ releases[r].tag = t
    BY <2>3 DEF Published, With, IsOut
  <2>5. t = [id.tag EXCEPT !.k = max] /\ t.phase = id.tag.phase
    BY <1>1, <2>2, <2>3 DEF TagNames
  <2>6. CASE j = max
    <3>1. Snapshot(releases[r].id.src) # Snapshot(id.src)
      BY <1>11, <2>4, <2>5
    <3>2. releases[r].tag = [d.tag EXCEPT !.k = j]
      BY <1>9, <2>4, <2>5, <2>6
    <3>3. Precedes(r, d, j)
      BY <1>7, <2>4, <3>1, <3>2 DEF Precedes
    <3> QED BY <3>3
  <2>7. CASE j # max
    <3>1. releases[r].id \in GoodIds /\ releases[r].id.tag = t
      BY <2>4, StateIs DEF Base, ReleasesFit
    <3>a. Numbered(releases[r].id)
      BY <3>1 DEF GoodIds
    <3>b. j \in 1..(t.k - 1)
      BY <1>5, <2>1, <2>2, <2>7
    <3>2. Numbered(releases[r].id) /\ j \in 1..(t.k - 1)
      BY <3>a, <3>b
    <3>3. PICK s \in DOMAIN releases : Precedes(s, releases[r].id, j)
      BY <2>5, <3>1, <3>2 DEF Numbered
    <3>4. IsOut(s) /\ releases[s].tag = [t EXCEPT !.k = j]
      BY <3>1, <3>3 DEF Precedes
    <3>5. [t EXCEPT !.k = j] = [id.tag EXCEPT !.k = j] /\ releases[s].tag.phase = id.tag.phase
      BY <1>1, <2>5, <3>4 DEF TagNames
    <3>6. Snapshot(releases[s].id.src) # Snapshot(id.src)
      BY <1>11, <3>4, <3>5
    <3> QED BY <1>7, <1>9, <3>4, <3>5, <3>6 DEF Precedes
  <2> QED BY <2>6, <2>7
<1>13. Numbered(d)
  BY <1>6, <1>8, <1>12 DEF Numbered
<1> QED BY <1>7, <1>10, <1>13 DEF GoodIds

LEMMA StepOfResolve == ASSUME ReleasesInductive, NEW l \in Lines, Resolve(l) PROVE Goes
<1> DEFINE id == ctl[l].id
<1>1. UNCHANGED <<branches, cand, pub, lock, published>>
  BY DEF Resolve
<1>2. ctl[l] \in Readings(SourcedIds, GoodIds, Listed) /\ ctl[l].at = "releases"
  BY StateIs DEF Resolve
<1>3. id \in SourcedIds /\ id.tag.k = 0 /\ id \in Identities
  BY <1>2 DEF Readings, SourcedIds
<1>4. CASE ControllerEnds(l)
  BY <1>1, <1>4, ControllerEndStep
<1>5. CASE id.tag.phase # Nil /\ ~PublishedBefore(id) /\ ~ControllerEnds(l)
  <2>1. PICK n : n = NextNumber(ctl[l].tags)
    OBVIOUS
  <2>2. PICK d : d = [id EXCEPT !.tag = [id.tag EXCEPT !.k = n]]
    OBVIOUS
  <2>3. /\ ctl[l].tags \in SUBSET Listed /\ IsFiniteSet(ctl[l].tags)
        /\ \A t \in ctl[l].tags : t.k > 0 /\ [t EXCEPT !.k = 0] = id.tag
    BY <1>2 DEF Readings
  <2>4. d \in GoodIds
    <3> HIDE DEF id
    <3> QED BY <1>3, <1>5, <2>1, <2>2, <2>3, NextNumberFits
  <2>5. d \in Identities
    BY <2>4, StateIs
  <2>6. PICK c : c = [ctl[l] EXCEPT !.at = "dispatch", !.tags = {}, !.id = d]
    OBVIOUS
  <2>7. c \in Readings(SourcedIds, GoodIds, Listed)
    BY <1>2, <2>4, <2>5, <2>6, FS_EmptySet DEF Readings, ReadingRecord
  <2>8. ctl' = [ctl EXCEPT ![l].at = "dispatch", ![l].tags = {}, ![l].id.tag.k = n]
    BY <1>5, <2>1 DEF Resolve
  <2>9. ctl' = [ctl EXCEPT ![l] = c]
    BY <2>2, <2>6, <2>8
  <2> QED BY <1>1, <2>7, <2>9, ControllerStep
<1>6. CASE id.tag.phase = Nil /\ ~ControllerEnds(l)
  <2>1. id \in GoodIds
    BY <1>3, <1>6 DEF GoodIds, SourcedIds, Numbered
  <2>2. PICK c : c = [ctl[l] EXCEPT !.at = "dispatch"]
    OBVIOUS
  <2>3. c \in Readings(SourcedIds, GoodIds, Listed)
    BY <1>2, <2>1, <2>2 DEF Readings, ReadingRecord
  <2>4. ctl' = [ctl EXCEPT ![l] = c]
    BY <1>6, <2>2 DEF Resolve
  <2> QED BY <1>1, <2>3, <2>4, ControllerStep
<1> QED BY <1>4, <1>5, <1>6 DEF Resolve

(* Candidates and the publication, as far as they write nothing *)

LEMMA StepOfControllerDies == ASSUME ReleasesInductive, NEW l \in Lines, ControllerDies(l) PROVE Goes
<1>1. UNCHANGED <<branches, cand, pub, lock, published>> /\ ControllerEnds(l)
  BY DEF ControllerDies
<1> QED BY <1>1, ControllerEndStep

\* Who waited for the lock is cancelled when another comes
LEMMA Cancels ==
    ASSUME ReleasesInductive, NEW job \in Lines \cup {Publisher}, lock' = Came(job), UNCHANGED ctl, UNCHANGED branches,
           UNCHANGED published,
           cand' \in [Lines -> Runs(GoodIds, GoodRecs)],
           \A m \in Lines : cand'[m] = cand[m] \/ cand'[m].at \notin Writing,
           pub' \in Publications(Jobs, GoodRecs), (pub'.at = pub.at /\ pub'.job = pub.job) \/ pub'.at \notin Holding
    PROVE  Goes
<1>1. /\ lock' \in Seq(Lines \cup {Publisher})
      /\ \A m \in Lines \cup {Publisher} : Has(m) => Has(m)'
  BY StateIs, LockTaken
<1>2. WritersGoOn /\ PublisherGoesOn
  BY <1>1 DEF WritersGoOn, PublisherGoesOn
<1>3. RunsStep
  BY <1>1, <1>2, StateIs DEF RunsStep
<1> QED BY <1>3, BranchesSame, StepKept

LEMMA CancelledEnds ==
    ASSUME ReleasesInductive, NEW m \in Lines
    PROVE  /\ cand[m] \in Runs(GoodIds, GoodRecs)
           /\ Ended(cand[m]) \in Runs(GoodIds, GoodRecs) /\ Ended(cand[m]).at \notin Writing
<1>1. cand[m] \in Runs(GoodIds, GoodRecs)
  BY StateIs
<1>2. Ended(cand[m]) \in Runs(GoodIds, GoodRecs) /\ Ended(cand[m]).at \in {"none", "build"}
  BY <1>1, StateIs, RunsEnd
<1> QED BY <1>1, <1>2 DEF Writing

LEMMA PublicationEnds ==
    ASSUME ReleasesInductive
    PROVE  PublishEnded(pub) \in Publications(Jobs, GoodRecs) /\ PublishEnded(pub).at \notin Holding
BY StateIs, PublicationsEnd

LEMMA StepOfBuild == ASSUME ReleasesInductive, NEW l \in Lines, Build(l) PROVE Goes
<1>1. /\ lock' = Came(l) /\ UNCHANGED ctl /\ UNCHANGED branches /\ UNCHANGED published
      /\ pub' = IF Cancelled = Publisher THEN PublishEnded(pub) ELSE pub
      /\ cand' = [m \in Lines |->
             IF m = l THEN [cand[l] EXCEPT !.at = "select"]
             ELSE IF m = Cancelled THEN Ended(cand[m]) ELSE cand[m]]
  BY DEF Build
<1>2. PICK c : c = [cand[l] EXCEPT !.at = "select"]
  OBVIOUS
<1>3. c \in Runs(GoodIds, GoodRecs) /\ c.at \notin Writing
  <2>1. cand[l].at = "build" /\ cand[l] \in Runs(GoodIds, GoodRecs)
    BY CancelledEnds DEF Build
  <2> QED BY <1>2, <2>1 DEF Runs, RunRecord, Writing
<1>4. cand' \in [Lines -> Runs(GoodIds, GoodRecs)] /\ \A m \in Lines : cand'[m] = cand[m] \/ cand'[m].at \notin Writing
  BY <1>1, <1>2, <1>3, CancelledEnds
<1>5. pub' \in Publications(Jobs, GoodRecs) /\ ((pub'.at = pub.at /\ pub'.job = pub.job) \/ pub'.at \notin Holding)
  BY <1>1, StateIs, PublicationEnds
<1> QED BY <1>1, <1>4, <1>5, Cancels

LEMMA StepOfStartPublish == ASSUME ReleasesInductive, StartPublish PROVE Goes
<1>1. /\ lock' = Came(Publisher) /\ UNCHANGED ctl /\ UNCHANGED branches /\ UNCHANGED published
      /\ pub' = [pub EXCEPT !.at = "check"] /\ pub.at = "start"
      /\ cand' = [m \in Lines |-> IF m = Cancelled THEN Ended(cand[m]) ELSE cand[m]]
  BY DEF StartPublish
<1>2. cand' \in [Lines -> Runs(GoodIds, GoodRecs)] /\ \A m \in Lines : cand'[m] = cand[m] \/ cand'[m].at \notin Writing
  BY <1>1, CancelledEnds
<1>3. pub' \in Publications(Jobs, GoodRecs) /\ pub'.at \notin Holding
  BY <1>1, StateIs DEF Publications, PublicationRecord, Holding
<1> QED BY <1>1, <1>2, <1>3, Cancels

\* A run that writes nothing goes on
LEMMA CandidateStep ==
    ASSUME ReleasesInductive, NEW l \in Lines, NEW c \in Runs(GoodIds, GoodRecs), c.at \notin Writing,
           cand' = [cand EXCEPT ![l] = c], UNCHANGED <<branches, ctl, pub, lock, published>>
    PROVE  Goes
<1>1. UNCHANGED branches /\ UNCHANGED published /\ UNCHANGED lock /\ UNCHANGED <<pub, lock>> /\ UNCHANGED ctl
  OBVIOUS
<1>2. cand' \in [Lines -> Runs(GoodIds, GoodRecs)] /\ lock' \in Seq(Lines \cup {Publisher}) /\ WritersGoOn
  BY <1>1, WriterGoes
<1>3. RunsStep
  BY <1>1, <1>2, StateIs, PublisherSame DEF RunsStep
<1> QED BY <1>1, <1>3, BranchesSame, StepKept

LEMMA CandidateFailsStep ==
    ASSUME ReleasesInductive, NEW l \in Lines, CandidateFails(l), UNCHANGED <<branches, ctl, pub, lock, published>>
    PROVE  Goes
<1>1. cand' = [cand EXCEPT ![l] = Ended(cand[l])]
  BY DEF CandidateFails
<1>2. PICK c : c = Ended(cand[l])
  OBVIOUS
<1> QED BY <1>1, <1>2, CancelledEnds, CandidateStep

LEMMA StepOfVerifyDraft == ASSUME ReleasesInductive, NEW l \in Lines, VerifyDraft(l) PROVE Goes
<1> DEFINE rec == cand[l].rec
<1>1. UNCHANGED branches /\ UNCHANGED ctl /\ UNCHANGED lock /\ UNCHANGED published
  BY DEF VerifyDraft
<1>2. cand[l] \in Runs(GoodIds, GoodRecs) /\ cand[l].at = "verify"
  BY CancelledEnds DEF VerifyDraft
<1>3. rec \in GoodRecs /\ rec.id = cand[l].id /\ cand[l].id \in GoodIds
  BY <1>2, StateIs DEF Runs
<1>4. CASE CandidateFails(l) /\ UNCHANGED pub
  BY <1>1, <1>4, CandidateFailsStep
<1>5. CASE rec.id.tag.phase = Nil /\ cand' = [cand EXCEPT ![l].at = "recheck"] /\ UNCHANGED pub
  <2>1. PICK c : c = [cand[l] EXCEPT !.at = "recheck"]
    OBVIOUS
  <2>2. c \in Runs(GoodIds, GoodRecs) /\ c.at \notin Writing
    BY <1>2, <1>3, <1>5, <2>1, StateIs DEF Runs, RunRecord, Writing
  <2>3. cand' = [cand EXCEPT ![l] = c]
    BY <1>5, <2>1
  <2> QED BY <1>1, <1>5, <2>2, <2>3, CandidateStep
<1>6. CASE cand' = [cand EXCEPT ![l] = Ended(@)] /\ pub' = Triggered(pub, Preview(rec))
  <2>1. cand' \in [Lines -> Runs(GoodIds, GoodRecs)] /\ lock' \in Seq(Lines \cup {Publisher}) /\ WritersGoOn
    BY <1>1, <1>6, WriterEnds
  <2>2. BranchesStep
    BY <1>1, BranchesSame
  <2>3. PICK job : job = Preview(rec)
    OBVIOUS
  <2>4. job \in Jobs' /\ pub' = Triggered(pub, job)
    BY <1>1, <1>3, <1>6, <2>2, <2>3, PreviewIsAJob
  <2>5. pub' \in Publications(Jobs', GoodRecs') /\ PublisherGoesOn
    BY <1>1, <2>2, <2>4, PublisherTriggered
  <2>6. RunsStep
    BY <1>1, <2>1, <2>5, StateIs DEF RunsStep
  <2> QED BY <1>1, <2>2, <2>6, StepKept
<1> QED BY <1>4, <1>5, <1>6 DEF VerifyDraft

LEMMA StepOfRecheck == ASSUME ReleasesInductive, NEW l \in Lines, Recheck(l) PROVE Goes
<1>1. UNCHANGED <<branches, ctl, pub, lock, published>>
  BY DEF Recheck
<1>2. cand[l] \in Runs(GoodIds, GoodRecs) /\ cand[l].at = "recheck"
  BY CancelledEnds DEF Recheck
<1>3. CASE CandidateFails(l)
  BY <1>1, <1>3, CandidateFailsStep
<1>4. CASE cand' = [cand EXCEPT ![l].at = "push"]
  <2>1. PICK c : c = [cand[l] EXCEPT !.at = "push"]
    OBVIOUS
  <2>2. c \in Runs(GoodIds, GoodRecs) /\ c.at \notin Writing
    BY <1>2, <2>1, StateIs DEF Runs, RunRecord, Writing
  <2>3. cand' = [cand EXCEPT ![l] = c]
    BY <1>4, <2>1
  <2> QED BY <1>1, <2>2, <2>3, CandidateStep
<1> QED BY <1>3, <1>4 DEF Recheck

LEMMA StepOfCandidateDies == ASSUME ReleasesInductive, NEW l \in Lines, CandidateDies(l) PROVE Goes
<1>1. UNCHANGED branches /\ UNCHANGED ctl /\ UNCHANGED pub /\ UNCHANGED published /\ lock' = WithoutJob(l) /\ cand[l].at # "none"
  BY DEF CandidateDies
<1>2. PICK again \in BOOLEAN :
          cand' = [cand EXCEPT ![l] = IF again THEN Queued(Ended(cand[l]), cand[l].id) ELSE Ended(cand[l])]
  BY DEF CandidateDies
<1>3. PICK c : c = IF again THEN Queued(Ended(cand[l]), cand[l].id) ELSE Ended(cand[l])
  OBVIOUS
<1>4. c \in Runs(GoodIds, GoodRecs) /\ c.at \notin Writing
  <2>1. PICK e : e = Ended(cand[l])
    OBVIOUS
  <2>2. e \in Runs(GoodIds, GoodRecs) /\ e.at \in {"none", "build"} /\ cand[l] \in Runs(GoodIds, GoodRecs)
    BY <2>1, StateIs, RunsEnd
  <2>3. cand[l].id \in GoodIds
    BY <1>1, <2>2 DEF Runs
  <2>4. Queued(e, cand[l].id) \in Runs(GoodIds, GoodRecs) /\ Queued(e, cand[l].id).at \in {e.at, "build"}
    BY <2>2, <2>3, StateIs, RunsQueue
  <2> QED BY <1>3, <2>1, <2>2, <2>4 DEF Writing
<1>5. /\ lock' \in Seq(Lines \cup {Publisher})
      /\ \A m \in (Lines \cup {Publisher}) \ {l} : Has(m) => Has(m)'
  BY <1>1, StateIs, LockLeft
<1>6. cand' \in [Lines -> Runs(GoodIds, GoodRecs)] /\ cand'[l] = c /\ \A m \in Lines \ {l} : cand'[m] = cand[m]
  BY <1>2, <1>3, <1>4, StateIs
<1>7. WritersGoOn /\ PublisherGoesOn
  BY <1>1, <1>4, <1>5, <1>6, PublisherIsNoLine DEF WritersGoOn, PublisherGoesOn
<1>8. RunsStep
  BY <1>1, <1>5, <1>6, <1>7, StateIs DEF RunsStep
<1> QED BY <1>1, <1>8, BranchesSame, StepKept

\* The publication ends, or goes on
LEMMA PublicationEndStep ==
    ASSUME ReleasesInductive, pub' = PublishEnded(pub),
           lock' = WithoutJob(Publisher) \/ (Has(Publisher) /\ lock' = Tail(lock)),
           UNCHANGED <<branches, ctl, cand, published>>
    PROVE  Goes
<1>1. UNCHANGED branches /\ UNCHANGED ctl /\ UNCHANGED cand /\ UNCHANGED published
  OBVIOUS
<1>2. /\ lock' \in Seq(Lines \cup {Publisher})
      /\ \A m \in (Lines \cup {Publisher}) \ {Publisher} : Has(m) => Has(m)'
  BY StateIs, LockLeft
<1>3. WritersGoOn /\ PublisherGoesOn
  BY <1>1, <1>2, PublicationEnds, PublisherIsNoLine DEF WritersGoOn, PublisherGoesOn
<1>4. RunsStep
  BY <1>1, <1>2, <1>3, StateIs, PublicationEnds DEF RunsStep
<1> QED BY <1>1, <1>4, BranchesSame, StepKept

LEMMA PublicationStep ==
    ASSUME ReleasesInductive, pub' \in Publications(Jobs, GoodRecs), PublishingFits',
           UNCHANGED <<branches, ctl, cand, lock, published>>
    PROVE  Goes
<1>1. UNCHANGED branches /\ UNCHANGED ctl /\ UNCHANGED <<cand, lock>> /\ UNCHANGED published /\ UNCHANGED releases
  BY DEF published
<1>2. cand' \in [Lines -> Runs(GoodIds, GoodRecs)] /\ lock' \in Seq(Lines \cup {Publisher}) /\ WritersGoOn
  BY <1>1, WritersSame
<1>3. WritingFits'
  BY <1>1, <1>2, WritersKept
<1> QED BY <1>1, <1>2, <1>3, StateIs, BranchesSame, FromParts DEF BranchesStep, Goes

LEMMA StepOfPublishDies == ASSUME ReleasesInductive, PublishDies PROVE Goes
BY PublicationEndStep DEF PublishDies

LEMMA StepOfCheckPreview == ASSUME ReleasesInductive, CheckPreview PROVE Goes
<1> DEFINE rec == pub.job.rec
<1>1. UNCHANGED <<branches, ctl, cand, published>> /\ Has(Publisher) /\ pub.at = "check" /\ rec # Nil
  BY DEF CheckPreview
<1>2. CASE PublishEnds
  BY <1>1, <1>2, PublicationEndStep DEF PublishEnds
<1>3. CASE /\ rec.id.tag.phase # Nil /\ Shaped(rec) /\ DraftVerified(rec, BuildCommit(rec.id))
           /\ pub' = [pub EXCEPT !.at = "refresh"] /\ UNCHANGED lock
  <2>1. pub \in Publications(Jobs, GoodRecs) /\ pub.job \in Jobs
    BY <1>1, StateIs DEF Publications
  <2>2. pub.job.line = 0
    BY <1>1, <2>1 DEF Jobs, JobFits
  <2>3. pub' \in Publications(Jobs, GoodRecs) /\ pub'.at = "refresh" /\ pub'.job = pub.job
    BY <1>3, <2>1 DEF Publications, PublicationRecord
  <2>4. /\ ~IsOut(rec.draft) /\ releases[rec.draft].id = rec.id /\ releases[rec.draft].assets = rec.assets
        /\ releases[rec.draft].rec = rec
    BY <1>3 DEF DraftVerified, Shaped, IsOut
  <2>5. releases' = releases /\ lock' = lock
    BY <1>1, <1>3 DEF published
  <2>6. PublishingFits'
    BY <1>1, <1>3, <2>2, <2>3, <2>4, <2>5 DEF PublishingFits, IsOut, Has
  <2> QED BY <1>1, <1>3, <2>3, <2>6, PublicationStep
<1> QED BY <1>2, <1>3 DEF CheckPreview

LEMMA StepOfRefresh == ASSUME ReleasesInductive, Refresh PROVE Goes
<1> DEFINE rec == pub.job.rec
<1>1. UNCHANGED <<branches, ctl, cand, published>> /\ pub.at = "refresh"
  BY DEF Refresh
<1>2. /\ Has(Publisher) /\ rec # Nil
      /\ ~IsOut(rec.draft) /\ releases[rec.draft].id = rec.id /\ releases[rec.draft].assets = rec.assets
      /\ rec.id.tag.phase # Nil /\ pub.job.line = 0 /\ releases[rec.draft].rec = rec
  BY <1>1 DEF ReleasesInductive, PublishingFits, Holding
<1>3. CASE PublishEnds
  BY <1>1, <1>2, <1>3, PublicationEndStep DEF PublishEnds
<1>4. CASE pub' = [pub EXCEPT !.at = "tag"] /\ UNCHANGED lock
  <2>1. pub \in Publications(Jobs, GoodRecs)
    BY StateIs
  <2>2. pub' \in Publications(Jobs, GoodRecs) /\ pub'.at = "tag" /\ pub'.job = pub.job
    BY <1>4, <2>1 DEF Publications, PublicationRecord
  <2>3. releases' = releases /\ lock' = lock
    BY <1>1, <1>4 DEF published
  <2>4. PublishingFits'
    BY <1>2, <2>2, <2>3 DEF PublishingFits, IsOut, Has
  <2> QED BY <1>1, <1>4, <2>2, <2>4, PublicationStep
<1> QED BY <1>3, <1>4 DEF Refresh

LEMMA StepOfCheckPush == ASSUME ReleasesInductive, CheckPush PROVE Goes
<1> DEFINE l == pub.job.line
           i == pub.job.commit
<1>1. /\ UNCHANGED <<branches, ctl, cand, published>> /\ Has(Publisher) /\ pub.at = "check" /\ pub.job.rec = Nil
  BY DEF CheckPush
<1>2. CASE PublishEnds
  BY <1>1, <1>2, PublicationEndStep DEF PublishEnds
<1>3. CASE ~PublishEnds
  <2>1. PICK rec : rec = RecordAt(l, i)
    OBVIOUS
  <2>2. /\ rec # Nil /\ MergedHere(rec, l, i) /\ MergedAsTested(rec, l, i)
        /\ Shaped(rec) /\ DraftVerified(rec, <<"line", l, i>>)
        /\ pub' = [pub EXCEPT !.at = "tag", !.job.rec = rec] /\ UNCHANGED lock
    BY <1>3, <2>1 DEF CheckPush
  <2>3. pub \in Publications(Jobs, GoodRecs) /\ pub.job \in Jobs
    BY <1>1, StateIs DEF Publications
  <2>4. l # 0 /\ l \in Lines /\ i \in 1..Tip(l) /\ pub.job \in JobRecord
    BY <1>1, <2>3 DEF Jobs, JobFits, JobRecord
  <2>5. IsMerge(l, i) /\ Merged(l, i, rec)
    BY <2>1, <2>2, <2>4 DEF MergedHere, IsMerge, Merged
  <2>6. rec \in GoodRecs /\ rec.id.tag.phase = Nil
    <3>1. rec = heads[line[l][i].head].rec
      <4> HIDE DEF l, i
      <4> QED BY <2>1, <2>5, StateIs, RecordAtMerge
    <3>2. line[l][i].head \in DOMAIN heads
      BY <2>5, StateIs DEF BranchesFit, IsMerge
    <3> QED BY <2>2, <3>1, <3>2, StateIs DEF BranchesFit
  <2>7. PICK job : job = [pub.job EXCEPT !.rec = rec]
    OBVIOUS
  <2>8. job \in JobRecord /\ job.line = l /\ job.commit = i /\ job.rec = rec
    BY <2>4, <2>6, <2>7, StateIs DEF JobRecord
  <2>9. pub' = [pub EXCEPT !.at = "tag", !.job = job]
    BY <2>2, <2>7
  <2>10. pub' \in Publications(Jobs, GoodRecs) /\ pub'.at = "tag" /\ pub'.job = job
    BY <2>3, <2>6, <2>8, <2>9 DEF Publications, PublicationRecord
  <2>11. ~IsOut(rec.draft) /\ releases[rec.draft].id = rec.id /\ releases[rec.draft].assets = rec.assets
    BY <2>2 DEF DraftVerified, Shaped, IsOut
  <2>12. releases' = releases /\ lock' = lock /\ line' = line /\ heads' = heads
    BY <1>1, <2>2 DEF published, branches
  <2>13. Merged(pub.job.line, pub.job.commit, pub.job.rec)'
    BY <2>5, <2>8, <2>10, <2>12 DEF Merged, IsMerge, MergedAsTested, RecordAt, Merges, Tip
  <2>14. PublishingFits'
    BY <1>1, <2>2, <2>4, <2>6, <2>8, <2>10, <2>11, <2>12, <2>13 DEF PublishingFits, IsOut, Has
  <2> QED BY <1>1, <2>2, <2>10, <2>14, PublicationStep
<1> QED BY <1>2, <1>3

(* Steps that write *)

LEMMA FromPublished ==
    ASSUME ReleasesInductive, UNCHANGED branches, UNCHANGED ctl, ReleasesGrow, PublishedTyped',
           lock' \in Seq(Lines \cup {Publisher}), ReleasesFit', OutsFit', Once', LatestIsHighest',
           cand' \in [Lines -> Runs(GoodIds', GoodRecs')], pub' \in Publications(Jobs, GoodRecs),
           WritingFits', PublishingFits'
    PROVE  Goes
<1>1. BranchesStep /\ Base /\ heads' = heads
  BY BranchesSame, StateIs DEF branches
<1>2. Growth
  BY <1>1 DEF Growth, BranchesStep
<1>3. /\ SourcedIds \subseteq SourcedIds' /\ GoodIds \subseteq GoodIds' /\ Listed \subseteq Listed'
      /\ Jobs \subseteq Jobs' /\ GoodRecs \subseteq GoodRecs'
  BY <1>1, <1>2, SourcedStay, GoodStay, ListedStay, JobsStay, RecsStay
<1>4. ctl' \in [Lines -> Readings(SourcedIds', GoodIds', Listed')]
  <2>1. Readings(SourcedIds, GoodIds, Listed) \subseteq Readings(SourcedIds', GoodIds', Listed')
    BY <1>3, ReadingsGrow
  <2> QED BY <2>1, StateIs
<1>5. pub' \in Publications(Jobs', GoodRecs')
  BY <1>3, PublicationsGrow
<1>6. RunsCarry'
  BY <1>1, <1>3, <1>4, <1>5, StateIs DEF RunsCarry
<1>7. ReleaseTyped' /\ BranchesFit'
  BY <1>1 DEF ReleaseTyped, BranchesStep
<1> QED BY <1>6, <1>7 DEF ReleasesInductive, Goes

\* A candidate that has the lock changes a draft or adds one
LEMMA DraftStep ==
    ASSUME ReleasesInductive, UNCHANGED <<branches, ctl, pub, latest>>, NEW l \in Lines, Has(l),
           ReleasesGrow, PublishedTyped', ReleasesFit',
           \A r \in DOMAIN releases' : ~releases'[r].draft => r \in DOMAIN releases /\ IsOut(r),
           lock' = lock \/ lock' = Tail(lock),
           NEW c \in Runs(GoodIds', GoodRecs'), cand' = [cand EXCEPT ![l] = c],
           c.at \in Writing => /\ lock' = lock /\ c.draft \in DOMAIN releases'
                               /\ releases'[c.draft].draft /\ releases'[c.draft].tag = c.id.tag
    PROVE  Goes
<1>1. UNCHANGED branches /\ UNCHANGED ctl /\ pub' = pub /\ latest' = latest /\ heads' = heads
  BY DEF branches
<1>2. BranchesStep /\ Base /\ Growth
  BY <1>1, BranchesSame, StateIs DEF Growth, BranchesStep
<1>3. lock' \in Seq(Lines \cup {Publisher})
  BY StateIs, LockLeft
<1>4. \A r \in DOMAIN releases : IsOut(r) => r \in DOMAIN releases' /\ releases'[r] = releases[r]
  BY DEF ReleasesGrow
<1>5. OutsFit'
  <2> SUFFICES ASSUME NEW r \in DOMAIN releases', ~releases'[r].draft
               PROVE  OutFits(r)'
    BY DEF OutsFit, IsOut
  <2>1. r \in DOMAIN releases /\ IsOut(r)
    OBVIOUS
  <2>2. OutFits(r)
    BY <2>1 DEF ReleasesInductive, OutsFit
  <2> QED BY <1>2, <2>1, <2>2, OutStays
<1>6. Once'
  BY <1>1, <1>4 DEF ReleasesInductive, Once, IsOut, Snapshot
<1>7. LatestIsHighest'
  <2>1. \A r : (r \in DOMAIN releases' /\ Stable(r)') <=> (r \in DOMAIN releases /\ Stable(r))
    BY <1>4 DEF Stable, IsOut
  <2>2. {r \in DOMAIN releases' : Stable(r)'} = {r \in DOMAIN releases : Stable(r)}
    BY <2>1
  <2>3. \A r \in {s \in DOMAIN releases : Stable(s)} : releases'[r].tag = releases[r].tag
    BY <1>4 DEF Stable, IsOut
  <2>4. {releases'[r].tag : r \in {s \in DOMAIN releases' : Stable(s)'}}
        = {releases[r].tag : r \in {s \in DOMAIN releases : Stable(s)}}
    BY <2>2, <2>3
  <2> QED BY <1>1, <2>4 DEF ReleasesInductive, LatestIsHighest, Above
<1>8. \A m \in Lines \ {l} : cand[m].at \notin Writing
  BY OneHolder DEF ReleasesInductive, WritingFits
<1>9. Runs(GoodIds, GoodRecs) \subseteq Runs(GoodIds', GoodRecs')
  BY <1>2, GoodStay, RecsStay, RunsGrow
<1>10. cand' \in [Lines -> Runs(GoodIds', GoodRecs')] /\ cand'[l] = c /\ \A m \in Lines \ {l} : cand'[m] = cand[m]
  BY <1>9, StateIs
<1>11. WritingFits'
  BY <1>8, <1>10 DEF WritingFits, Has, IsOut
<1>12. pub.at \notin Holding
  BY OneHolder, PublisherIsNoLine DEF ReleasesInductive, PublishingFits
<1>13. PublishingFits'
  BY <1>1, <1>12 DEF PublishingFits
<1> QED BY <1>1, <1>3, <1>5, <1>6, <1>7, <1>10, <1>11, <1>13, StateIs, FromPublished

\* What the line that writes has
LEMMA WriterIs ==
    ASSUME ReleasesInductive, NEW l \in Lines
    PROVE  /\ cand[l] \in Runs(GoodIds, GoodRecs) /\ cand[l].id \in GoodIds \cup {Nil}
           /\ cand[l].at # "none" => cand[l].id \in GoodIds /\ cand[l].id \in Identities /\ cand[l].id.tag \in TagNames
           /\ cand[l].at \in Writing =>
                 /\ Has(l) /\ cand[l].draft \in DOMAIN releases
                 /\ releases[cand[l].draft].draft /\ releases[cand[l].draft].tag = cand[l].id.tag
           /\ releases \in Seq(ReleaseRecord) /\ \A r \in DOMAIN releases : releases[r] \in ReleaseRecord
           /\ DOMAIN tags \subseteq TagNames /\ DOMAIN tags \subseteq Listed /\ uploads \in Nat
           /\ DOMAIN releases = 1..Len(releases) /\ Len(releases) \in Nat
           /\ \A r \in DOMAIN releases : releases[r].tag = releases[r].id.tag /\ releases[r].id \in GoodIds
           /\ \A r, s \in DOMAIN releases : r # s => releases[r].tag # releases[s].tag
           /\ \A r \in DOMAIN releases : IsOut(r) => releases[r].tag \in DOMAIN tags
<1>1. cand[l] \in Runs(GoodIds, GoodRecs)
  BY StateIs
<1>2. cand[l].id \in GoodIds \cup {Nil} /\ (cand[l].at # "none" => cand[l].id \in GoodIds)
  BY <1>1 DEF Runs
<1>3. cand[l].at # "none" => cand[l].id \in Identities /\ cand[l].id.tag \in TagNames
  BY <1>2, StateIs DEF Identities
<1>4. releases \in Seq(ReleaseRecord) /\ DOMAIN tags \subseteq TagNames /\ uploads \in Nat
  BY StateIs DEF ReleaseTyped, PublishedTyped
<1>5. /\ \A r \in DOMAIN releases : releases[r] \in ReleaseRecord
      /\ DOMAIN releases = 1..Len(releases) /\ Len(releases) \in Nat
  BY <1>4, ElementOfSeq, LenProperties
<1>6. \A r \in DOMAIN releases : IsOut(r) => releases[r].tag \in DOMAIN tags
  BY DEF ReleasesInductive, OutsFit, OutFits
<1>7. cand[l].at \in Writing =>
                 /\ Has(l) /\ cand[l].draft \in DOMAIN releases
                 /\ releases[cand[l].draft].draft /\ releases[cand[l].draft].tag = cand[l].id.tag
  BY DEF ReleasesInductive, WritingFits, IsOut
<1>8. /\ DOMAIN tags \subseteq Listed
      /\ \A r \in DOMAIN releases : releases[r].tag = releases[r].id.tag /\ releases[r].id \in GoodIds
      /\ \A r, s \in DOMAIN releases : r # s => releases[r].tag # releases[s].tag
  BY DEF ReleasesInductive, ReleasesFit
<1> QED BY <1>1, <1>2, <1>3, <1>4, <1>5, <1>6, <1>7, <1>8

\* One draft is rewritten
LEMMA DraftRewritten ==
    ASSUME ReleasesInductive, NEW d \in DOMAIN releases, releases[d].draft, NEW x \in ReleaseRecord,
           x.draft, x.tag = releases[d].tag, x.id \in GoodIds, x.id.tag = x.tag,
           releases' = [releases EXCEPT ![d] = x], UNCHANGED <<branches, tags>>, uploads' \in Nat
    PROVE  /\ ReleasesGrow /\ PublishedTyped' /\ ReleasesFit' /\ GoodIds \subseteq GoodIds' /\ Growth
           /\ \A r \in DOMAIN releases' : ~releases'[r].draft => r \in DOMAIN releases /\ IsOut(r)
           /\ DOMAIN releases' = DOMAIN releases /\ releases'[d] = x
           /\ \A r \in DOMAIN releases : releases'[r].tag = releases[r].tag
<1>1. /\ releases \in Seq(ReleaseRecord) /\ DOMAIN tags \subseteq TagNames /\ DOMAIN tags \subseteq Listed
      /\ \A r \in DOMAIN releases : releases[r].tag = releases[r].id.tag /\ releases[r].id \in GoodIds
      /\ \A r, s \in DOMAIN releases : r # s => releases[r].tag # releases[s].tag
      /\ \A r \in DOMAIN releases : IsOut(r) => releases[r].tag \in DOMAIN tags
  BY DEF ReleasesInductive, ReleaseTyped, PublishedTyped, ReleasesFit, OutsFit, OutFits
<1>2. /\ releases' \in Seq(ReleaseRecord) /\ DOMAIN releases' = DOMAIN releases /\ releases'[d] = x
      /\ \A r \in DOMAIN releases \ {d} : releases'[r] = releases[r]
  BY <1>1, SeqChanges
<1>3. ReleasesGrow
  BY <1>1, <1>2 DEF ReleasesGrow, IsOut
<1>4. BranchesStep /\ Base
  BY BranchesSame, StateIs
<1>5. Growth /\ GoodIds \subseteq GoodIds'
  BY <1>3, <1>4, GoodStay DEF Growth, BranchesStep
<1>6. \A r \in DOMAIN releases : releases'[r].tag = releases[r].tag
  BY <1>2
<1>7. ReleasesFit'
  <2>1. \A r \in DOMAIN releases' : releases'[r].tag = releases'[r].id.tag /\ releases'[r].id \in GoodIds'
    BY <1>1, <1>2, <1>5
  <2>2. \A r, s \in DOMAIN releases' : r # s => releases'[r].tag # releases'[s].tag
    BY <1>1, <1>2, <1>6
  <2>3. DOMAIN tags' \subseteq Listed'
    BY <1>1, <1>5, ListedStay
  <2> QED BY <2>1, <2>2, <2>3 DEF ReleasesFit
<1>8. \A r \in DOMAIN releases' : ~releases'[r].draft => r \in DOMAIN releases /\ IsOut(r)
  BY <1>2 DEF IsOut
<1>9. PublishedTyped'
  BY <1>1, <1>2 DEF PublishedTyped
<1> QED BY <1>2, <1>3, <1>5, <1>6, <1>7, <1>8, <1>9

LEMMA StepOfAdopt == ASSUME ReleasesInductive, NEW l \in Lines, Adopt(l) PROVE Goes
<1>1. /\ UNCHANGED <<branches, ctl, pub, latest>> /\ UNCHANGED <<branches, tags>> /\ lock' = lock /\ uploads' = uploads
      /\ releases' = [releases EXCEPT ![cand[l].draft].id = cand[l].id]
      /\ cand' = [cand EXCEPT ![l].at = "clear"] /\ cand[l].at = "adopt"
  BY DEF Adopt
<1> DEFINE d == cand[l].draft
<1>2. /\ Has(l) /\ d \in DOMAIN releases /\ releases[d] \in ReleaseRecord
      /\ releases[d].draft /\ releases[d].tag = cand[l].id.tag /\ cand[l].id \in GoodIds /\ cand[l].id \in Identities
      /\ cand[l] \in Runs(GoodIds, GoodRecs) /\ uploads \in Nat
  BY <1>1, WriterIs DEF Writing
<1>3. PICK x : x = [releases[d] EXCEPT !.id = cand[l].id]
  OBVIOUS
<1>4. x \in ReleaseRecord /\ x.draft /\ x.tag = releases[d].tag /\ x.id = cand[l].id
  BY <1>2, <1>3 DEF ReleaseRecord
<1>5. releases' = [releases EXCEPT ![d] = x]
  BY <1>1, <1>3
<1>6. /\ ReleasesGrow /\ PublishedTyped' /\ ReleasesFit' /\ GoodIds \subseteq GoodIds' /\ Growth
      /\ \A r \in DOMAIN releases' : ~releases'[r].draft => r \in DOMAIN releases /\ IsOut(r)
      /\ DOMAIN releases' = DOMAIN releases /\ releases'[d] = x
  <2>1. d \in DOMAIN releases /\ releases[d].draft /\ uploads' \in Nat
    BY <1>1, <1>2, StateIs DEF IsOut
  <2>2. x \in ReleaseRecord /\ x.draft /\ x.tag = releases[d].tag /\ x.id \in GoodIds /\ x.id.tag = x.tag
    BY <1>2, <1>4
  <2>3. UNCHANGED <<branches, tags>>
    BY <1>1
  <2>4. releases' = [releases EXCEPT ![d] = x]
    BY <1>5
  <2> QED BY <2>1, <2>2, <2>3, <2>4, DraftRewritten
<1>7. PICK c : c = [cand[l] EXCEPT !.at = "clear"]
  OBVIOUS
<1>8. c \in Runs(GoodIds', GoodRecs') /\ c.draft = d /\ c.id = cand[l].id
  <2>1. c \in Runs(GoodIds, GoodRecs) /\ c.draft = d /\ c.id = cand[l].id
    BY <1>1, <1>2, <1>7 DEF Runs, RunRecord
  <2> QED BY <1>6, <2>1, StateIs, RecsStay, RunsGrow
<1>9. cand' = [cand EXCEPT ![l] = c]
  BY <1>1, <1>7
<1>10. c.draft \in DOMAIN releases' /\ releases'[c.draft].draft /\ releases'[c.draft].tag = c.id.tag
  BY <1>2, <1>4, <1>6, <1>8
<1> QED BY <1>1, <1>2, <1>6, <1>8, <1>9, <1>10, DraftStep

LEMMA StepOfClear == ASSUME ReleasesInductive, NEW l \in Lines, Clear(l) PROVE Goes
<1>1. /\ UNCHANGED <<branches, ctl, pub, latest>> /\ UNCHANGED <<branches, tags>> /\ lock' = lock /\ uploads' = uploads
      /\ releases' = [releases EXCEPT ![cand[l].draft].assets = 0, ![cand[l].draft].rec = Nil]
      /\ cand' = [cand EXCEPT ![l].at = "upload"] /\ cand[l].at = "clear"
  BY DEF Clear
<1> DEFINE d == cand[l].draft
<1>2. /\ Has(l) /\ d \in DOMAIN releases /\ releases[d] \in ReleaseRecord
      /\ releases[d].draft /\ releases[d].tag = cand[l].id.tag
      /\ releases[d].id \in GoodIds /\ releases[d].id.tag = releases[d].tag
      /\ cand[l] \in Runs(GoodIds, GoodRecs) /\ uploads \in Nat
  BY <1>1, WriterIs DEF Writing
<1>3. PICK x : x = [releases[d] EXCEPT !.assets = 0, !.rec = Nil]
  OBVIOUS
<1>4. x \in ReleaseRecord /\ x.draft /\ x.tag = releases[d].tag /\ x.id = releases[d].id
  BY <1>2, <1>3 DEF ReleaseRecord
<1>5. releases' = [releases EXCEPT ![d] = x]
  BY <1>1, <1>3
<1>6. /\ ReleasesGrow /\ PublishedTyped' /\ ReleasesFit' /\ GoodIds \subseteq GoodIds' /\ Growth
      /\ \A r \in DOMAIN releases' : ~releases'[r].draft => r \in DOMAIN releases /\ IsOut(r)
      /\ DOMAIN releases' = DOMAIN releases /\ releases'[d] = x
  BY <1>1, <1>2, <1>4, <1>5, DraftRewritten
<1>7. PICK c : c = [cand[l] EXCEPT !.at = "upload"]
  OBVIOUS
<1>8. c \in Runs(GoodIds', GoodRecs') /\ c.draft = d /\ c.id = cand[l].id
  <2>1. c \in Runs(GoodIds, GoodRecs) /\ c.draft = d /\ c.id = cand[l].id
    BY <1>1, <1>2, <1>7 DEF Runs, RunRecord
  <2> QED BY <1>6, <2>1, StateIs, RecsStay, RunsGrow
<1>9. cand' = [cand EXCEPT ![l] = c]
  BY <1>1, <1>7
<1>10. c.draft \in DOMAIN releases' /\ releases'[c.draft].draft /\ releases'[c.draft].tag = c.id.tag
  BY <1>2, <1>4, <1>6, <1>8
<1> QED BY <1>1, <1>2, <1>6, <1>8, <1>9, <1>10, DraftStep

LEMMA StepOfUpload == ASSUME ReleasesInductive, NEW l \in Lines, Upload(l) PROVE Goes
<1> DEFINE d == cand[l].draft
           id == cand[l].id
<1>1. /\ UNCHANGED <<branches, ctl, pub, latest>> /\ UNCHANGED <<branches, tags>> /\ lock' = Tail(lock)
      /\ uploads' = uploads + 1 /\ cand[l].at = "upload"
  BY DEF Upload
<1>2. /\ Has(l) /\ d \in DOMAIN releases /\ releases[d] \in ReleaseRecord /\ d \in Nat
      /\ releases[d].draft /\ releases[d].tag = id.tag /\ id \in GoodIds /\ id \in Identities
      /\ releases[d].id \in GoodIds /\ releases[d].id.tag = releases[d].tag
      /\ cand[l] \in Runs(GoodIds, GoodRecs) /\ uploads \in Nat
  BY <1>1, WriterIs DEF Writing
<1>3. PICK rec : rec = [id |-> id, draft |-> d, assets |-> uploads + 1]
  OBVIOUS
<1>4. rec \in Records /\ rec.id = id /\ rec.draft = d /\ rec # Nil
  <2>1. rec \in Records
    BY <1>2, <1>3 DEF Records
  <2> QED BY <1>3, <2>1, StateIs
<1>5. PICK kept \in Records \cup {Nil} : kept = IF id.tag.phase = Nil THEN Nil ELSE rec
  BY <1>4
<1>6. PICK number \in Nat : number = uploads + 1
  BY <1>2
<1>7. PICK x : x = [releases[d] EXCEPT !.assets = number, !.rec = kept]
  OBVIOUS
<1>8. x \in ReleaseRecord /\ x.draft /\ x.tag = releases[d].tag /\ x.id = releases[d].id
  BY <1>2, <1>5, <1>6, <1>7 DEF ReleaseRecord
<1>9. releases' = [releases EXCEPT ![d] = x]
  <2>1. releases' = [releases EXCEPT ![d].assets = number, ![d].rec = kept]
    BY <1>3, <1>5, <1>6 DEF Upload
  <2> QED BY <1>7, <2>1
<1>10. /\ ReleasesGrow /\ PublishedTyped' /\ ReleasesFit' /\ GoodIds \subseteq GoodIds' /\ Growth
       /\ \A r \in DOMAIN releases' : ~releases'[r].draft => r \in DOMAIN releases /\ IsOut(r)
       /\ DOMAIN releases' = DOMAIN releases /\ releases'[d] = x
  BY <1>1, <1>2, <1>6, <1>8, <1>9, DraftRewritten
<1>11. PICK c : c = [cand[l] EXCEPT !.at = "verify", !.rec = rec]
  OBVIOUS
<1>12. rec \in GoodRecs'
  BY <1>2, <1>4, <1>8, <1>10 DEF GoodRecs
<1>13. c \in Runs(GoodIds', GoodRecs') /\ c.at = "verify"
  <2>1. cand[l] \in Runs(GoodIds', GoodRecs')
    BY <1>2, <1>10, StateIs, RecsStay, RunsGrow
  <2> QED BY <1>1, <1>4, <1>11, <1>12, <2>1 DEF Runs, RunRecord
<1>14. cand' = [cand EXCEPT ![l] = c]
  BY <1>3, <1>11 DEF Upload
<1> QED BY <1>1, <1>2, <1>10, <1>13, <1>14, DraftStep DEF Writing

\* The releases stay as they are
LEMMA DraftsSame ==
    ASSUME ReleasesInductive, UNCHANGED <<branches, ctl, pub, latest>>, UNCHANGED published, NEW l \in Lines, Has(l),
           lock' = lock \/ lock' = Tail(lock),
           NEW c \in Runs(GoodIds, GoodRecs), cand' = [cand EXCEPT ![l] = c],
           c.at \in Writing => /\ lock' = lock /\ c.draft \in DOMAIN releases
                               /\ releases[c.draft].draft /\ releases[c.draft].tag = c.id.tag
    PROVE  Goes
<1>1. BranchesStep /\ releases' = releases
  BY BranchesSame DEF published
<1>2. Growth /\ PublishedTyped' /\ ReleasesFit' /\ GoodRecs \subseteq GoodRecs'
  BY <1>1, PublishedKept DEF BranchesStep
<1>3. c \in Runs(GoodIds', GoodRecs')
  BY <1>2, StateIs, GoodStay, RunsGrow
<1>4. ReleasesGrow /\ \A r \in DOMAIN releases' : ~releases'[r].draft => r \in DOMAIN releases /\ IsOut(r)
  BY <1>1, <1>2 DEF Growth, IsOut
<1> QED BY <1>1, <1>2, <1>3, <1>4, DraftStep

LEMMA StepOfSelect == ASSUME ReleasesInductive, NEW l \in Lines, Select(l) PROVE Goes
<1> DEFINE id == cand[l].id
           found == With(id.tag)
           draft == CHOOSE r \in found : TRUE
<1>1. /\ UNCHANGED <<branches, ctl, pub, latest>> /\ tags' = tags /\ uploads' = uploads
      /\ cand[l].at = "select" /\ Has(l)
  BY DEF Select
<1>2. /\ cand[l] \in Runs(GoodIds, GoodRecs) /\ id \in GoodIds /\ id \in Identities /\ id.tag \in TagNames
      /\ releases \in Seq(ReleaseRecord) /\ DOMAIN releases = 1..Len(releases) /\ Len(releases) \in Nat
      /\ DOMAIN tags \subseteq TagNames /\ DOMAIN tags \subseteq Listed /\ uploads \in Nat
  BY <1>1, WriterIs
<1>3. CASE found = {}
  <2>1. PICK x : x = [tag |-> id.tag, draft |-> TRUE, id |-> id, assets |-> 0, rec |-> Nil]
    OBVIOUS
  <2>2. x \in ReleaseRecord /\ x.draft /\ x.tag = id.tag /\ x.id = id
    BY <1>2, <2>1 DEF ReleaseRecord
  <2>3. releases' = Append(releases, x) /\ lock' = lock
    BY <1>3, <2>1 DEF Select
  <2>4. /\ releases' \in Seq(ReleaseRecord) /\ releases'[Len(releases) + 1] = x
        /\ \A r \in 1..Len(releases) : releases'[r] = releases[r]
        /\ DOMAIN releases' = 1..(Len(releases) + 1)
    BY <1>2, <2>2, <2>3, SeqGrows
  <2>5. /\ \A r \in DOMAIN releases : r \in DOMAIN releases' /\ releases'[r] = releases[r]
        /\ \A r \in DOMAIN releases' : r \in DOMAIN releases \/ r = Len(releases) + 1
        /\ Len(releases) + 1 \in DOMAIN releases'
    BY <1>2, <2>4
  <2>6. ReleasesGrow /\ PublishedTyped'
    BY <1>1, <1>2, <2>4, <2>5, WriterIs DEF ReleasesGrow, PublishedTyped
  <2>7. Growth /\ GoodIds \subseteq GoodIds' /\ GoodRecs \subseteq GoodRecs'
    BY <1>1, <2>6, StateIs, BranchesSame, GoodStay, RecsStay DEF Growth, BranchesStep
  <2>8. ReleasesFit'
    <3>1. \A r \in DOMAIN releases' : releases'[r].tag = releases'[r].id.tag /\ releases'[r].id \in GoodIds'
      BY <1>2, <2>2, <2>4, <2>5, <2>7, WriterIs
    <3>2. \A r \in DOMAIN releases : releases[r].tag # x.tag
      BY <1>3, <2>2 DEF With
    <3>3. \A r, s \in DOMAIN releases' : r # s => releases'[r].tag # releases'[s].tag
      BY <2>4, <2>5, <3>2, WriterIs
    <3>4. DOMAIN tags' \subseteq Listed'
      BY <1>1, <1>2, <2>7, ListedStay
    <3> QED BY <3>1, <3>3, <3>4 DEF ReleasesFit
  <2>9. \A r \in DOMAIN releases' : ~releases'[r].draft => r \in DOMAIN releases /\ IsOut(r)
    BY <2>2, <2>4, <2>5 DEF IsOut
  <2>10. PICK new \in Nat : new = Len(releases) + 1
    BY <1>2
  <2>11. PICK c : c = [cand[l] EXCEPT !.at = "upload", !.draft = new]
    OBVIOUS
  <2>12. c \in Runs(GoodIds, GoodRecs) /\ c.draft = new /\ c.id = id
    BY <1>1, <1>2, <2>11 DEF Runs, RunRecord
  <2>13. c \in Runs(GoodIds', GoodRecs')
    BY <2>7, <2>12, RunsGrow
  <2>14. cand' = [cand EXCEPT ![l] = c]
    BY <1>3, <2>10, <2>11 DEF Select
  <2>15. c.draft \in DOMAIN releases' /\ releases'[c.draft].draft /\ releases'[c.draft].tag = c.id.tag
    BY <2>2, <2>4, <2>5, <2>10, <2>12
  <2> QED BY <1>1, <2>3, <2>6, <2>8, <2>9, <2>13, <2>14, <2>15, DraftStep
<1>4. CASE found # {} /\ \A r \in found : MayTake(r, id)
  <2>1. /\ cand' = [cand EXCEPT ![l].draft = draft,
                               ![l].at = IF releases[draft].id = id THEN "clear" ELSE "untag"]
        /\ UNCHANGED published /\ lock' = lock
    BY <1>1, <1>4 DEF Select, published
  <2>2. draft \in found
    BY <1>4
  <2>3. draft \in DOMAIN releases /\ releases[draft].tag = id.tag /\ releases[draft].draft
    BY <1>4, <2>2 DEF With, MayTake
  <2>4. PICK to \in {"clear", "untag"} : to = IF releases[draft].id = id THEN "clear" ELSE "untag"
    OBVIOUS
  <2>5. PICK d \in Nat : d = draft
    BY <1>2, <2>3
  <2>6. PICK c : c = [cand[l] EXCEPT !.draft = d, !.at = to]
    OBVIOUS
  <2>7. c \in Runs(GoodIds, GoodRecs) /\ c.draft = d /\ c.id = id
    BY <1>1, <1>2, <2>4, <2>6 DEF Runs, RunRecord
  <2>a. cand' = [cand EXCEPT ![l].draft = d, ![l].at = to]
    <3> HIDE DEF draft
    <3> QED BY <2>1, <2>4, <2>5
  <2>8. cand' = [cand EXCEPT ![l] = c]
    BY <2>6, <2>a
  <2>9. c.draft \in DOMAIN releases /\ releases[c.draft].draft /\ releases[c.draft].tag = c.id.tag
    BY <2>3, <2>5, <2>7
  <2> QED BY <1>1, <2>1, <2>7, <2>8, <2>9, DraftsSame
<1>5. CASE found # {} /\ ~(\A r \in found : MayTake(r, id))
  <2>1. cand' = [cand EXCEPT ![l] = Ended(cand[l])] /\ UNCHANGED published /\ lock' = Tail(lock)
    BY <1>1, <1>5 DEF Select, CandidateFails, published
  <2>2. PICK c : c = Ended(cand[l])
    OBVIOUS
  <2>3. c \in Runs(GoodIds, GoodRecs) /\ c.at \notin Writing
    BY <2>2, CancelledEnds
  <2> QED BY <1>1, <2>1, <2>2, <2>3, DraftsSame
<1> QED BY <1>3, <1>4, <1>5

LEMMA StepOfUntag == ASSUME ReleasesInductive, NEW l \in Lines, Untag(l) PROVE Goes
<1> DEFINE tag == cand[l].id.tag
           d == cand[l].draft
<1>1. /\ UNCHANGED <<branches, ctl, pub, latest>> /\ releases' = releases /\ uploads' = uploads
      /\ cand[l].at = "untag"
  BY DEF Untag
<1>2. /\ Has(l) /\ d \in DOMAIN releases
      /\ releases[d].draft /\ releases[d].tag = tag /\ cand[l].id \in GoodIds
      /\ cand[l] \in Runs(GoodIds, GoodRecs) /\ DOMAIN tags \subseteq TagNames /\ DOMAIN tags \subseteq Listed
  BY <1>1, WriterIs DEF Writing
<1>3. CASE tag \in DOMAIN tags /\ tags[tag] # BuildCommit(releases[d].id)
  <2>1. cand' = [cand EXCEPT ![l] = Ended(cand[l])] /\ UNCHANGED published /\ lock' = Tail(lock)
    BY <1>1, <1>3 DEF Untag, CandidateFails, published
  <2>2. PICK c : c = Ended(cand[l])
    OBVIOUS
  <2>3. c \in Runs(GoodIds, GoodRecs) /\ c.at \notin Writing
    BY <2>2, CancelledEnds
  <2> QED BY <1>1, <1>2, <2>1, <2>2, <2>3, DraftsSame
<1>4. CASE ~(tag \in DOMAIN tags /\ tags[tag] # BuildCommit(releases[d].id))
  <2>1. tags' = Restrict(tags, DOMAIN tags \ {tag}) /\ lock' = lock /\ cand' = [cand EXCEPT ![l].at = "adopt"]
    BY <1>4 DEF Untag
  <2>2. DOMAIN tags' = DOMAIN tags \ {tag} /\ \A t \in DOMAIN tags \ {tag} : tags'[t] = tags[t]
    BY <2>1 DEF Restrict
  <2>3. \A r \in DOMAIN releases : IsOut(r) => releases[r].tag # tag /\ releases[r].tag \in DOMAIN tags
    BY <1>2, WriterIs DEF IsOut
  <2>4. ReleasesGrow
    BY <1>1, <2>2, <2>3 DEF ReleasesGrow
  <2>5. PublishedTyped'
    BY <1>1, <1>2, <2>2, WriterIs DEF PublishedTyped
  <2>6. Growth /\ GoodIds \subseteq GoodIds' /\ GoodRecs \subseteq GoodRecs'
    BY <1>1, <2>4, StateIs, BranchesSame, GoodStay, RecsStay DEF Growth, BranchesStep
  <2>7. ReleasesFit'
    <3>1. \A r \in DOMAIN releases' : releases'[r].tag = releases'[r].id.tag /\ releases'[r].id \in GoodIds'
      BY <1>1, <2>6, WriterIs
    <3>2. \A r, s \in DOMAIN releases' : r # s => releases'[r].tag # releases'[s].tag
      BY <1>1, WriterIs
    <3>3. DOMAIN tags' \subseteq Listed'
      BY <1>2, <2>2, <2>6, ListedStay
    <3> QED BY <3>1, <3>2, <3>3 DEF ReleasesFit
  <2>8. \A r \in DOMAIN releases' : ~releases'[r].draft => r \in DOMAIN releases /\ IsOut(r)
    BY <1>1 DEF IsOut
  <2>9. PICK c : c = [cand[l] EXCEPT !.at = "adopt"]
    OBVIOUS
  <2>10. c \in Runs(GoodIds, GoodRecs) /\ c.draft = d /\ c.id = cand[l].id
    BY <1>1, <1>2, <2>9 DEF Runs, RunRecord
  <2>11. c \in Runs(GoodIds', GoodRecs')
    BY <2>6, <2>10, RunsGrow
  <2>12. cand' = [cand EXCEPT ![l] = c]
    BY <2>1, <2>9
  <2>13. c.draft \in DOMAIN releases' /\ releases'[c.draft].draft /\ releases'[c.draft].tag = c.id.tag
    BY <1>1, <1>2, <2>10
  <2> QED BY <1>1, <1>2, <2>1, <2>4, <2>5, <2>7, <2>8, <2>11, <2>12, <2>13, DraftStep
<1> QED BY <1>3, <1>4

\* What is about to be published
LEMMA HeldIs ==
    ASSUME ReleasesInductive, pub.at \in Holding
    PROVE  LET rec == pub.job.rec IN
           /\ Has(Publisher) /\ rec \in GoodRecs /\ rec \in Records /\ rec.id \in GoodIds
           /\ rec.draft \in DOMAIN releases /\ releases[rec.draft].tag = rec.id.tag
           /\ releases[rec.draft].draft /\ releases[rec.draft].id = rec.id /\ releases[rec.draft].assets = rec.assets
           /\ rec.id.tag.phase = Nil => pub.job.line # 0 /\ Merged(pub.job.line, pub.job.commit, rec)
           /\ rec.id.tag.phase # Nil => pub.job.line = 0 /\ releases[rec.draft].rec = rec
           /\ pub.at = "publish" => rec.id.tag \in DOMAIN tags /\ tags[rec.id.tag] = Target
           /\ \A m \in Lines : cand[m].at \notin Writing
<1> DEFINE rec == pub.job.rec
<1>1. /\ Has(Publisher) /\ rec # Nil
      /\ ~IsOut(rec.draft) /\ releases[rec.draft].id = rec.id /\ releases[rec.draft].assets = rec.assets
      /\ rec.id.tag.phase = Nil => pub.job.line # 0 /\ Merged(pub.job.line, pub.job.commit, rec)
      /\ rec.id.tag.phase # Nil => pub.job.line = 0 /\ releases[rec.draft].rec = rec
      /\ pub.at = "publish" => rec.id.tag \in DOMAIN tags /\ tags[rec.id.tag] = Target
  BY DEF ReleasesInductive, PublishingFits
<1>2. rec \in GoodRecs \cup {Nil}
  BY StateIs DEF Publications
<1>3. /\ rec \in GoodRecs /\ rec \in Records /\ rec.id \in GoodIds
      /\ rec.draft \in DOMAIN releases /\ releases[rec.draft].tag = rec.id.tag
  BY <1>1, <1>2 DEF GoodRecs
<1>4. \A m \in Lines : cand[m].at \notin Writing
  BY <1>1, OneHolder, PublisherIsNoLine DEF ReleasesInductive, WritingFits
<1> QED BY <1>1, <1>3, <1>4 DEF IsOut

LEMMA StepOfEnsureTag == ASSUME ReleasesInductive, EnsureTag PROVE Goes
<1> DEFINE rec == pub.job.rec
           tag == rec.id.tag
<1>1. UNCHANGED <<branches, ctl, cand, releases, latest, uploads>> /\ pub.at = "tag" /\ pub.at \in Holding
  BY DEF EnsureTag, Holding
<1>2. /\ Has(Publisher) /\ rec \in GoodRecs /\ rec \in Records /\ rec.id \in GoodIds
      /\ rec.draft \in DOMAIN releases /\ releases[rec.draft].tag = tag
      /\ releases[rec.draft].draft /\ releases[rec.draft].id = rec.id /\ releases[rec.draft].assets = rec.assets
      /\ tag.phase = Nil => pub.job.line # 0 /\ Merged(pub.job.line, pub.job.commit, rec)
      /\ tag.phase # Nil => pub.job.line = 0 /\ releases[rec.draft].rec = rec
      /\ \A m \in Lines : cand[m].at \notin Writing
  BY <1>1, HeldIs
<1>3. rec # Nil
  BY <1>2, StateIs
<1>4. CASE tag \in DOMAIN tags /\ tags[tag] # Target
  <2>1. UNCHANGED <<branches, ctl, cand, published>> /\ PublishEnds
    BY <1>1, <1>4 DEF EnsureTag, published
  <2> QED BY <1>2, <2>1, PublicationEndStep DEF PublishEnds
<1>5. CASE ~(tag \in DOMAIN tags /\ tags[tag] # Target)
  <2>1. /\ tags' = [t \in DOMAIN tags \cup {tag} |-> IF t = tag THEN Target ELSE tags[t]]
        /\ pub' = [pub EXCEPT !.at = "publish"] /\ lock' = lock
    BY <1>5 DEF EnsureTag
  <2>2. /\ releases' = releases /\ latest' = latest /\ uploads' = uploads /\ cand' = cand
        /\ heads' = heads /\ line' = line
    BY <1>1 DEF branches
  <2>3. tag \in Listed /\ tag \in TagNames
    BY <1>2, StateIs DEF Listed, Identities
  <2>4. DOMAIN tags' = DOMAIN tags \cup {tag} /\ tags'[tag] = Target /\ \A t \in DOMAIN tags \ {tag} : tags'[t] = tags[t]
    BY <2>1
  <2>5. \A r \in DOMAIN releases : IsOut(r) => releases[r].tag # tag /\ releases[r].tag \in DOMAIN tags
    <3>1. \A r, s \in DOMAIN releases : r # s => releases[r].tag # releases[s].tag
      BY DEF ReleasesInductive, ReleasesFit
    <3>2. \A r \in DOMAIN releases : IsOut(r) => releases[r].tag \in DOMAIN tags
      BY DEF ReleasesInductive, OutsFit, OutFits
    <3> QED BY <1>2, <3>1, <3>2 DEF IsOut
  <2>6. ReleasesGrow
    BY <2>2, <2>4, <2>5 DEF ReleasesGrow
  <2>7. PublishedTyped'
    <3>1. releases \in Seq(ReleaseRecord) /\ DOMAIN tags \subseteq TagNames /\ uploads \in Nat
      BY StateIs DEF ReleaseTyped, PublishedTyped
    <3> QED BY <2>2, <2>3, <2>4, <3>1 DEF PublishedTyped
  <2>8. BranchesStep /\ Growth /\ GoodIds \subseteq GoodIds' /\ GoodRecs \subseteq GoodRecs'
    BY <1>1, <2>6, StateIs, BranchesSame, GoodStay, RecsStay DEF Growth, BranchesStep
  <2>9. ReleasesFit'
    <3>1. /\ DOMAIN tags \subseteq Listed
          /\ \A r \in DOMAIN releases : releases[r].tag = releases[r].id.tag /\ releases[r].id \in GoodIds
          /\ \A r, s \in DOMAIN releases : r # s => releases[r].tag # releases[s].tag
      BY DEF ReleasesInductive, ReleasesFit
    <3>2. DOMAIN tags' \subseteq Listed'
      BY <2>3, <2>4, <2>8, <3>1, ListedStay
    <3>3. \A r \in DOMAIN releases' : releases'[r].tag = releases'[r].id.tag /\ releases'[r].id \in GoodIds'
      BY <2>2, <2>8, <3>1
    <3> QED BY <2>2, <3>1, <3>2, <3>3 DEF ReleasesFit
  <2>10. OutsFit'
    <3> SUFFICES ASSUME NEW r \in DOMAIN releases, IsOut(r)
                 PROVE  OutFits(r)'
      BY <2>2 DEF OutsFit, IsOut
    <3>1. OutFits(r)
      BY DEF ReleasesInductive, OutsFit
    <3> QED BY <2>8, <3>1, StateIs, OutStays
  <2>11. Once' /\ LatestIsHighest'
    BY <2>2 DEF ReleasesInductive, Once, IsOut, Snapshot, LatestIsHighest, Stable
  <2>12. pub \in Publications(Jobs, GoodRecs)
    BY StateIs
  <2>13. pub' \in Publications(Jobs, GoodRecs) /\ pub'.at = "publish" /\ pub'.job = pub.job
    BY <2>1, <2>12 DEF Publications, PublicationRecord
  <2>14. cand' \in [Lines -> Runs(GoodIds', GoodRecs')]
    <3>1. Runs(GoodIds, GoodRecs) \subseteq Runs(GoodIds', GoodRecs')
      BY <2>8, RunsGrow
    <3> QED BY <2>2, <3>1, StateIs
  <2>15. WritingFits'
    BY <1>2, <2>2 DEF WritingFits
  <2>16. tag.phase = Nil => Merged(pub.job.line, pub.job.commit, pub.job.rec)'
    BY <1>2, <2>2, <2>13 DEF Merged, IsMerge, MergedAsTested, RecordAt, Merges, Tip
  <2>17. Target' = Target
    BY <2>13 DEF Target, BuildCommit
  <2>18. PublishingFits'
    BY <1>2, <1>3, <2>1, <2>2, <2>4, <2>13, <2>16, <2>17 DEF PublishingFits, IsOut, Has
  <2> QED BY <1>1, <2>1, <2>6, <2>7, <2>9, <2>10, <2>11, <2>13, <2>14, <2>15, <2>18, StateIs, FromPublished
<1> QED BY <1>4, <1>5

\* A draft that is published is the first of its snapshot in its phase: another one of the
\* same version has a lower number, which the draft has seen, or a higher one, and then the
\* draft would be out
LEMMA DraftIsFirst ==
    ASSUME ReleasesInductive, NEW d \in DOMAIN releases, ~IsOut(d), NEW r \in DOMAIN releases, IsOut(r),
           releases[d].tag.phase # Nil, releases[r].tag.phase = releases[d].tag.phase
    PROVE  Snapshot(releases[d].id.src) # Snapshot(releases[r].id.src)
<1> SUFFICES ASSUME Snapshot(releases[d].id.src) = Snapshot(releases[r].id.src)
             PROVE  FALSE
  OBVIOUS
<1> DEFINE a == releases[d].id
           b == releases[r].id
<1>1. /\ a \in GoodIds /\ b \in GoodIds /\ a.tag = releases[d].tag /\ b.tag = releases[r].tag
      /\ \A p, q \in DOMAIN releases : releases[p].tag = releases[q].tag => p = q
  BY DEF ReleasesInductive, ReleasesFit
<1>2. a.tag \in TagNames /\ b.tag \in TagNames /\ Sourced(a) /\ Sourced(b) /\ Numbered(a) /\ Numbered(b)
  BY <1>1 DEF GoodIds, Identities
<1>3. heads[a.src].line = heads[b.src].line /\ heads[a.src].base = heads[b.src].base
  BY DEF Snapshot
<1>4. a.tag.line = b.tag.line /\ a.tag.n = b.tag.n /\ a.tag.phase = b.tag.phase
  BY <1>1, <1>2, <1>3 DEF Sourced, Prepared
<1>5. a.tag.k \in Nat /\ b.tag.k \in Nat /\ a.tag.k > 0 /\ b.tag.k > 0
  BY <1>1, <1>2, <1>4 DEF Numbered, TagNames
<1>6. [a.tag EXCEPT !.k = b.tag.k] = b.tag /\ [b.tag EXCEPT !.k = a.tag.k] = a.tag
  BY <1>2, <1>4 DEF TagNames
<1>7. CASE b.tag.k < a.tag.k
  <2>1. PICK s \in DOMAIN releases : Precedes(s, a, b.tag.k)
    BY <1>1, <1>2, <1>5, <1>7 DEF Numbered
  <2>2. releases[s].tag = releases[r].tag
    BY <1>1, <1>6, <2>1 DEF Precedes
  <2>3. s = r
    BY <1>1, <2>2
  <2> QED BY <2>1, <2>3 DEF Precedes
<1>8. CASE a.tag.k < b.tag.k
  <2>1. PICK s \in DOMAIN releases : Precedes(s, b, a.tag.k)
    BY <1>1, <1>2, <1>4, <1>5, <1>8 DEF Numbered
  <2>2. releases[s].tag = releases[d].tag /\ IsOut(s)
    BY <1>1, <1>6, <2>1 DEF Precedes
  <2>3. s = d
    BY <1>1, <2>2
  <2> QED BY <2>2, <2>3
<1>9. CASE a.tag.k = b.tag.k
  <2>1. a.tag = b.tag
    BY <1>2, <1>4, <1>9 DEF TagNames
  <2>2. d = r
    BY <1>1, <2>1
  <2> QED BY <2>2
<1> QED BY <1>5, <1>7, <1>8, <1>9

LEMMA StepOfPublishRelease == ASSUME ReleasesInductive, PublishRelease PROVE Goes
<1> DEFINE rec == pub.job.rec
           tag == rec.id.tag
           d == rec.draft
<1>1. /\ UNCHANGED <<branches, ctl, cand, tags, uploads>> /\ pub.at = "publish" /\ pub.at \in Holding
      /\ PublishEnds /\ releases' = [releases EXCEPT ![d].draft = FALSE]
      /\ latest' = IF tag.phase = Nil /\ ShouldMakeLatest(tag) THEN tag ELSE latest
  BY DEF PublishRelease, Holding
<1>2. /\ Has(Publisher) /\ rec \in GoodRecs /\ rec \in Records /\ rec.id \in GoodIds
      /\ d \in DOMAIN releases /\ releases[d].tag = tag
      /\ releases[d].draft /\ releases[d].id = rec.id /\ releases[d].assets = rec.assets
      /\ tag.phase = Nil => pub.job.line # 0 /\ Merged(pub.job.line, pub.job.commit, rec)
      /\ tag.phase # Nil => pub.job.line = 0 /\ releases[d].rec = rec
      /\ tag \in DOMAIN tags /\ tags[tag] = Target
      /\ \A m \in Lines : cand[m].at \notin Writing
  BY <1>1, HeldIs
<1>3. /\ releases \in Seq(ReleaseRecord) /\ DOMAIN tags \subseteq TagNames /\ uploads \in Nat
      /\ DOMAIN tags \subseteq Listed
      /\ \A r \in DOMAIN releases : releases[r].tag = releases[r].id.tag /\ releases[r].id \in GoodIds
      /\ \A r, s \in DOMAIN releases : r # s => releases[r].tag # releases[s].tag
      /\ \A r \in DOMAIN releases : IsOut(r) => OutFits(r) /\ releases[r].tag \in DOMAIN tags
      /\ \A r \in DOMAIN releases : releases[r] \in ReleaseRecord
  BY ElementOfSeq, LenProperties
  DEF ReleasesInductive, ReleaseTyped, PublishedTyped, ReleasesFit, OutsFit, OutFits
<1>4. PICK x : x = [releases[d] EXCEPT !.draft = FALSE]
  OBVIOUS
<1>5. x \in ReleaseRecord /\ ~x.draft /\ x.tag = tag /\ x.id = rec.id /\ x.assets = rec.assets /\ x.rec = releases[d].rec
  BY <1>2, <1>3, <1>4 DEF ReleaseRecord
<1>6. /\ releases' \in Seq(ReleaseRecord) /\ DOMAIN releases' = DOMAIN releases /\ releases'[d] = x
      /\ \A r \in DOMAIN releases \ {d} : releases'[r] = releases[r]
  <2>1. releases' = [releases EXCEPT ![d] = x]
    BY <1>1, <1>4
  <2> HIDE DEF d
  <2> QED BY <1>2, <1>3, <1>5, <2>1, SeqChanges
<1>7. /\ tags' = tags /\ uploads' = uploads /\ cand' = cand /\ line' = line /\ heads' = heads
      /\ pub' = PublishEnded(pub) /\ lock' = Tail(lock)
  BY <1>1 DEF branches, PublishEnds
<1>8. ReleasesGrow
  BY <1>2, <1>3, <1>5, <1>6, <1>7 DEF ReleasesGrow, IsOut
<1>9. PublishedTyped'
  BY <1>3, <1>6, <1>7 DEF PublishedTyped
<1>10. BranchesStep /\ Growth /\ GoodIds \subseteq GoodIds' /\ GoodRecs \subseteq GoodRecs'
  BY <1>1, <1>8, StateIs, BranchesSame, GoodStay, RecsStay DEF Growth, BranchesStep
<1>11. \A r \in DOMAIN releases : releases'[r].tag = releases[r].tag /\ releases'[r].id = releases[r].id
  BY <1>2, <1>5, <1>6
<1>12. ReleasesFit'
  <2>1. DOMAIN tags' \subseteq Listed'
    BY <1>3, <1>7, <1>10, ListedStay
  <2> QED BY <1>3, <1>6, <1>10, <1>11, <2>1 DEF ReleasesFit
<1>13. OutsFit'
  <2> SUFFICES ASSUME NEW r \in DOMAIN releases, ~releases'[r].draft
               PROVE  OutFits(r)'
    BY <1>6 DEF OutsFit, IsOut
  <2>1. CASE r # d
    <3>1. IsOut(r) /\ OutFits(r)
      BY <1>3, <1>6, <2>1 DEF IsOut
    <3> QED BY <1>10, <3>1, StateIs, OutStays
  <2>2. CASE r = d
    <3>1. releases'[r].tag = tag /\ tag \in DOMAIN tags' /\ tags'[tag] = Target
      BY <1>2, <1>5, <1>6, <1>7, <2>2
    <3>2. rec = [id |-> releases'[r].id, draft |-> r, assets |-> releases'[r].assets]
      BY <1>2, <1>5, <1>6, <2>2 DEF Records
    <3>3. CASE tag.phase # Nil
      <4>1. Target = BuildCommit(rec.id) /\ releases'[r].rec = rec /\ releases'[r].id = rec.id
        BY <1>2, <1>5, <1>6, <2>2, <3>3 DEF Target
      <4> QED BY <3>1, <3>2, <3>3, <4>1 DEF OutFits, BuildCommit
    <3>4. CASE tag.phase = Nil
      <4>1. PICK l : l = pub.job.line
        OBVIOUS
      <4>2. PICK i : i = pub.job.commit
        OBVIOUS
      <4>3. PICK y : y = rec
        OBVIOUS
      <4>4. Merged(l, i, y)
        BY <1>2, <3>4, <4>1, <4>2, <4>3 DEF Merged, IsMerge, MergedAsTested
      <4>5. Merged(l, i, y)'
        BY <1>7, <4>4 DEF Merged, IsMerge, MergedAsTested, RecordAt, Merges, Tip
      <4>6. l \in Lines /\ i \in 1..Tip(l)' /\ Target = <<"line", l, i>>
        BY <1>2, <3>4, <4>1, <4>2, <4>5 DEF Merged, IsMerge, Target
      <4>7. y = [id |-> releases'[r].id, draft |-> r, assets |-> releases'[r].assets]
        BY <3>2, <4>3
      <4> QED BY <3>1, <3>4, <4>5, <4>6, <4>7 DEF OutFits, Merged, MergedAsTested
    <3> QED BY <3>3, <3>4
  <2> QED BY <2>1, <2>2
<1>14. Once'
  <2>1. ~IsOut(d)
    BY <1>2 DEF IsOut
  <2>2. \A r \in DOMAIN releases : ~releases'[r].draft => r = d \/ IsOut(r)
    BY <1>6 DEF IsOut
  <2>3. \A h : Snapshot(h)' = Snapshot(h)
    BY <1>7 DEF Snapshot
  <2> SUFFICES ASSUME NEW r \in DOMAIN releases, NEW s \in DOMAIN releases,
                      r # s, ~releases'[r].draft, ~releases'[s].draft, releases[r].tag.phase # Nil,
                      releases[r].tag.phase = releases[s].tag.phase
               PROVE  Snapshot(releases[r].id.src) # Snapshot(releases[s].id.src)
    BY <1>6, <1>7, <1>11 DEF Once, IsOut, Snapshot
  <2>4. CASE r = d
    <3>1. IsOut(s) /\ releases[d].tag.phase # Nil /\ releases[s].tag.phase = releases[d].tag.phase
      BY <2>2, <2>4
    <3> HIDE DEF d
    <3> QED BY <1>2, <2>1, <2>4, <3>1, DraftIsFirst
  <2>5. CASE s = d
    <3>1. IsOut(r) /\ releases[d].tag.phase # Nil /\ releases[r].tag.phase = releases[d].tag.phase
      BY <2>2, <2>5
    <3>2. Snapshot(releases[d].id.src) # Snapshot(releases[r].id.src)
      <4> HIDE DEF d
      <4> QED BY <1>2, <2>1, <3>1, DraftIsFirst
    <3> QED BY <2>5, <3>2
  <2>6. CASE r # d /\ s # d
    BY <2>2, <2>6 DEF ReleasesInductive, Once
  <2> QED BY <2>4, <2>5, <2>6
<1>15. LatestIsHighest'
  <2> DEFINE out == {releases[r].tag : r \in {s \in DOMAIN releases : Stable(s)}}
             after == {releases'[r].tag : r \in {s \in DOMAIN releases' : Stable(s)'}}
  <2>1. /\ out = {} => latest = Nil
        /\ out # {} => latest \in out /\ \A t \in out : ~Above(t, latest)
    BY DEF ReleasesInductive, LatestIsHighest
  <2>2. /\ after = {} => latest' = Nil
        /\ after # {} => latest' \in after /\ \A t \in after : ~Above(t, latest')
    <3>0. PICK e \in DOMAIN releases : e = d
      BY <1>2
    <3>1. \A r \in DOMAIN releases \ {e} : Stable(r)' <=> Stable(r)
      BY <1>6, <3>0 DEF Stable
    <3>a. releases[e].draft /\ releases'[e].tag.phase = tag.phase /\ ~releases'[e].draft
      BY <1>2, <1>5, <1>6, <3>0
    <3>2. ~Stable(e) /\ (Stable(e)' <=> tag.phase = Nil)
      BY <3>a DEF Stable
    <3>3. CASE tag.phase # Nil
      <4>1. \A r : (r \in DOMAIN releases' /\ Stable(r)') <=> (r \in DOMAIN releases /\ Stable(r))
        <5> HIDE DEF tag
        <5> QED BY <1>6, <3>1, <3>2, <3>3
      <4>2. {r \in DOMAIN releases' : Stable(r)'} = {r \in DOMAIN releases : Stable(r)}
        BY <4>1
      <4>3. \A r \in {s \in DOMAIN releases : Stable(s)} : releases'[r].tag = releases[r].tag
        BY <1>11
      <4>4. after = out
        BY <4>2, <4>3
      <4> QED BY <1>1, <2>1, <3>3, <4>4
    <3>4. CASE tag.phase = Nil
      <4>1. \A r : (r \in DOMAIN releases' /\ Stable(r)') <=> (r = e \/ (r \in DOMAIN releases /\ Stable(r)))
        <5> HIDE DEF tag
        <5> QED BY <1>6, <3>0, <3>1, <3>2, <3>4
      <4>2. {r \in DOMAIN releases' : Stable(r)'} = {r \in DOMAIN releases : Stable(r)} \cup {e}
        BY <4>1
      <4>3. \A r \in {s \in DOMAIN releases : Stable(s)} : releases'[r].tag = releases[r].tag
        BY <1>11
      <4>4. after = out \cup {tag}
        BY <1>5, <1>6, <3>0, <4>2, <4>3
      <4>5. \A t \in out \cup {tag} : t.line \in Nat /\ t.n \in Nat
        <5>1. \A r \in DOMAIN releases : releases[r].tag \in TagNames
          BY <1>3 DEF ReleaseRecord
        <5>2. \A t \in TagNames : t.line \in Nat /\ t.n \in Nat
          BY LinesAreMajors DEF TagNames
        <5> QED BY <1>2, <5>1, <5>2
      <4>6. ShouldMakeLatest(tag) <=> \A t \in out : ~Above(t, tag)
        BY DEF ShouldMakeLatest
      <4> HIDE DEF out, after, tag
      <4>7. CASE ShouldMakeLatest(tag)
        <5>1. latest' = tag
          BY <1>1, <3>4, <4>7
        <5>2. ~Above(tag, tag)
          BY <4>5 DEF Above
        <5> QED BY <4>4, <4>6, <4>7, <5>1, <5>2
      <4>8. CASE ~ShouldMakeLatest(tag)
        <5>1. latest' = latest
          BY <1>1, <4>8
        <5>2. PICK t \in out : Above(t, tag)
          BY <4>6, <4>8
        <5>3. latest \in out /\ ~Above(t, latest) /\ \A u \in out : ~Above(u, latest)
          BY <2>1, <5>2
        <5>4. ~Above(tag, latest)
          BY <4>5, <5>2, <5>3 DEF Above
        <5> QED BY <4>4, <5>1, <5>3, <5>4
      <4> QED BY <4>7, <4>8
    <3> QED BY <3>3, <3>4
  <2> QED BY <2>2 DEF LatestIsHighest, Above
<1>16. pub' \in Publications(Jobs, GoodRecs) /\ pub'.at \notin Holding
  BY <1>7, PublicationEnds
<1>17. cand' \in [Lines -> Runs(GoodIds', GoodRecs')]
  <2>1. Runs(GoodIds, GoodRecs) \subseteq Runs(GoodIds', GoodRecs')
    BY <1>10, RunsGrow
  <2> QED BY <1>7, <2>1, StateIs
<1>18. lock' \in Seq(Lines \cup {Publisher})
  BY <1>2, <1>7, StateIs, LockLeft
<1>19. WritingFits' /\ PublishingFits'
  BY <1>2, <1>7, <1>16 DEF WritingFits, PublishingFits
<1> QED BY <1>1, <1>8, <1>9, <1>12, <1>13, <1>14, <1>15, <1>16, <1>17, <1>18, <1>19, FromPublished

LEMMA ReleasesStart == ReleaseInit => ReleasesInductive
<1> SUFFICES ASSUME ReleaseInit PROVE ReleasesInductive
  OBVIOUS
<1>1. PICK order \in UNION {[1..n -> Lines] : n \in 0..Cardinality(Lines)} :
          /\ \A i, j \in DOMAIN order : i < j => order[i] < order[j]
          /\ heads = [i \in DOMAIN order |->
                         [line |-> order[i], parent |-> 0, base |-> 1, edit |-> 0, rec |-> Nil]]
          /\ line = [l \in Lines |->
                       IF \E i \in DOMAIN order : order[i] = l THEN <<[head |-> 0, pr |-> 0]>> ELSE <<>>]
          /\ pr = [l \in Lines |->
                 [number |-> 0, open |-> \E i \in DOMAIN order : order[i] = l, base |-> Len(line[l]),
                  phase |-> Nil, head |-> Max({0} \cup {i \in DOMAIN order : order[i] = l}), gate |-> 0]]
  BY DEF ReleaseInit
<1>2. PICK n \in Nat : order \in [1..n -> Lines]
  <2>1. Cardinality(Lines) \in Nat
    BY LinesAreMajors, FS_CardinalityType
  <2> QED BY <2>1
<1>3. DOMAIN order = 1..n /\ \A i \in 1..n : order[i] \in Lines
  BY <1>2
<1>4. heads \in Seq(HeadRecord) /\ DOMAIN heads = 1..n /\ \A h \in DOMAIN heads :
         heads[h] = [line |-> order[h], parent |-> 0, base |-> 1, edit |-> 0, rec |-> Nil]
  <2>1. \A i \in 1..n : [line |-> order[i], parent |-> 0, base |-> 1, edit |-> 0, rec |-> Nil] \in HeadRecord
    BY <1>3 DEF HeadRecord
  <2>2. heads \in [1..n -> HeadRecord]
    BY <1>1, <1>3, <2>1
  <2> QED BY <1>1, <1>2, <1>3, <2>2, SeqDef
<1>5. /\ line \in [Lines -> Seq([head : Nat, pr : Nat])]
      /\ \A l \in Lines : \A i \in 1..Len(line[l]) : line[l][i].head = 0
      /\ \A l \in Lines : (\E i \in 1..n : order[i] = l) => Len(line[l]) = 1
      /\ \A l \in Lines : Len(line[l]) \in Nat
  <2> DEFINE first == <<[head |-> 0, pr |-> 0]>>
  <2>1. first \in Seq([head : Nat, pr : Nat]) /\ Len(first) = 1 /\ first[1].head = 0
    OBVIOUS
  <2>2. <<>> \in Seq([head : Nat, pr : Nat]) /\ Len(<<>>) = 0
    OBVIOUS
  <2>3. line = [l \in Lines |-> IF \E i \in DOMAIN order : order[i] = l THEN first ELSE <<>>]
    BY <1>1
  <2> HIDE DEF first
  <2>4. \A l \in Lines : line[l] = first \/ line[l] = <<>>
    BY <2>3
  <2>5. line \in [Lines -> Seq([head : Nat, pr : Nat])]
    BY <2>1, <2>2, <2>3
  <2>6. \A l \in Lines : (\E i \in 1..n : order[i] = l) => line[l] = first
    BY <1>3, <2>3
  <2>7. \A l \in Lines : \A i \in 1..Len(line[l]) : line[l][i].head = 0
    BY <2>1, <2>2, <2>4
  <2> QED BY <2>1, <2>2, <2>4, <2>5, <2>6, <2>7
<1>6. \A l \in Lines : Max({0} \cup {i \in DOMAIN order : order[i] = l}) \in {0} \cup {i \in 1..n : order[i] = l}
  <2> SUFFICES ASSUME NEW l \in Lines
               PROVE  Max({0} \cup {i \in DOMAIN order : order[i] = l}) \in {0} \cup {i \in 1..n : order[i] = l}
    OBVIOUS
  <2> DEFINE S == {0} \cup {i \in DOMAIN order : order[i] = l}
  <2>1. S \subseteq 0..n /\ 0 \in S
    BY <1>3
  <2>2. IsFiniteSet(S) /\ S \subseteq Nat /\ S # {}
    <3> HIDE DEF S
    <3>1. 0 \in Int /\ n \in Int
      BY <1>2
    <3>2. IsFiniteSet(0..n)
      BY <3>1, FS_Interval
    <3>3. IsFiniteSet(S)
      BY <2>1, <3>2, FS_Subset
    <3>4. 0..n \subseteq Nat
      BY <1>2
    <3> QED BY <2>1, <3>3, <3>4
  <2>3. Max(S) \in S
    <3> HIDE DEF S
    <3> QED BY <2>2, MaxExists
  <2> QED BY <1>3, <2>3
<1>7. \A l \in Lines : (\E i \in DOMAIN order : order[i] = l)
                          => Max({0} \cup {i \in DOMAIN order : order[i] = l}) \in {i \in 1..n : order[i] = l}
  <2> SUFFICES ASSUME NEW l \in Lines, NEW k \in DOMAIN order, order[k] = l
               PROVE  Max({0} \cup {i \in DOMAIN order : order[i] = l}) \in {i \in 1..n : order[i] = l}
    OBVIOUS
  <2> DEFINE S == {0} \cup {i \in DOMAIN order : order[i] = l}
  <2>1. \A i \in S : i <= k
    <3>1. \A i, j \in DOMAIN order : i < j => order[i] < order[j]
      BY <1>1
    <3>2. \A i \in DOMAIN order : order[i] \in Nat
      BY <1>3, LinesAreMajors
    <3>3. ASSUME NEW i \in DOMAIN order, order[i] = l, k < i
          PROVE  FALSE
      <4>1. order[k] < order[i] /\ order[k] \in Nat
        BY <3>1, <3>2, <3>3
      <4> QED BY <3>3, <4>1
    <3>4. k \in Nat /\ k > 0
      BY <1>3
    <3> QED BY <1>3, <3>3, <3>4
  <2>2. k \in S /\ S \subseteq Nat /\ k \in 1..n
    BY <1>3
  <2>3. Max(S) = k
    <3> HIDE DEF S
    <3> QED BY <2>1, <2>2, MaxIs
  <2> QED BY <2>2, <2>3
<1>8. pr \in [Lines -> PRRecord] /\ \A l \in Lines : Max({0} \cup {i \in DOMAIN order : order[i] = l}) = pr[l].head
  <2>1. \A l \in Lines : Max({0} \cup {i \in DOMAIN order : order[i] = l}) \in Nat
    BY <1>6
  <2> QED BY <1>1, <1>5, <2>1 DEF PRRecord
<1>9. \A l \in Lines : pr[l].open \/ pr[l].head # 0 => pr[l].head \in DOMAIN heads /\ heads[pr[l].head].line = l
  <2> SUFFICES ASSUME NEW l \in Lines, pr[l].open \/ pr[l].head # 0
               PROVE  pr[l].head \in {i \in 1..n : order[i] = l}
    BY <1>3, <1>4
  <2>1. pr[l].open <=> \E i \in DOMAIN order : order[i] = l
    BY <1>1
  <2> QED BY <1>6, <1>7, <1>8, <2>1
<1>10. prep \in [Lines -> PrepRecord] /\ \A l \in Lines : prep[l].base = 0 /\ prep[l].at = "none"
  BY DEF ReleaseInit, PrepRecord
<1>11. /\ releases = <<>> /\ tags = <<>> /\ latest = Nil /\ uploads = 0 /\ lock = <<>>
       /\ cand = [l \in Lines |-> NoRun] /\ pub = NotPublishing
  BY DEF ReleaseInit
<1>12. DOMAIN releases = {} /\ DOMAIN tags = {} /\ releases \in Seq(ReleaseRecord) /\ lock \in Seq(Lines \cup {Publisher})
  BY <1>11
<1>13. ReleaseTyped
  BY <1>4, <1>5, <1>8, <1>10, <1>11, <1>12 DEF ReleaseTyped, BranchesTyped, PublishedTyped
<1>14. BranchesFit
  <2>1. \A h \in DOMAIN heads : heads[h].base <= Tip(heads[h].line) /\ heads[h].rec = Nil
    <3> SUFFICES ASSUME NEW h \in DOMAIN heads
                 PROVE  heads[h].base <= Tip(heads[h].line) /\ heads[h].rec = Nil
      OBVIOUS
    <3>1. h \in 1..n /\ heads[h].line = order[h] /\ heads[h].base = 1 /\ heads[h].rec = Nil
      BY <1>4
    <3>2. order[h] \in Lines
      BY <1>3, <3>1
    <3>3. Len(line[order[h]]) = 1
      BY <1>5, <3>1, <3>2
    <3> QED BY <3>1, <3>3 DEF Tip
  <2>2. \A l \in Lines : \A i \in 1..Tip(l) : line[l][i].head \in {0} \cup DOMAIN heads
    BY <1>5 DEF Tip
  <2>3. \A l \in Lines : prep[l].base <= Tip(l) /\ (prep[l].at = "sync" => pr[l].head # 0)
    BY <1>5, <1>10 DEF Tip
  <2> QED BY <1>9, <2>1, <2>2, <2>3 DEF BranchesFit
<1>15. RunsCarry
  <2>1. ctl = [l \in Lines |-> [asked |-> pr[l].open, at |-> "none", id |-> Nil, tags |-> {}]]
    BY DEF ReleaseInit
  <2>2. \A l \in Lines : pr[l].open \in BOOLEAN
    BY <1>8 DEF PRRecord
  <2>3. ctl \in [Lines -> Readings(SourcedIds, GoodIds, Listed)]
    BY <2>1, <2>2, FS_EmptySet DEF Readings, ReadingRecord
  <2>4. GoodIds \subseteq Identities
    BY DEF GoodIds
  <2>5. cand \in [Lines -> Runs(GoodIds, GoodRecs)]
    BY <1>11, <2>4, Candidates
  <2>6. NoJob \in JobRecord /\ NoJob.rec = Nil
    BY DEF NoJob, JobRecord
  <2>7. pub \in Publications(Jobs, GoodRecs)
    BY <1>11, <2>6 DEF NotPublishing, Publications, PublicationRecord
  <2> QED BY <1>4, <2>3, <2>5, <2>7 DEF RunsCarry
<1>16. WritingFits /\ PublishingFits
  <2>1. \A l \in Lines : cand[l].at = "none"
    BY <1>11 DEF NoRun
  <2>2. pub.at = "none"
    BY <1>11 DEF NotPublishing
  <2> QED BY <2>1, <2>2 DEF WritingFits, PublishingFits, Writing, Holding
<1>17. ReleasesFit /\ OutsFit /\ Once
  BY <1>12 DEF ReleasesFit, OutsFit, Once
<1>18. LatestIsHighest
  BY <1>11, <1>12 DEF LatestIsHighest
<1> QED BY <1>13, <1>14, <1>15, <1>16, <1>17, <1>18 DEF ReleasesInductive

LEMMA ReleaseStep == ReleasesInductive /\ [ReleaseNext]_release => Goes
<1> SUFFICES ASSUME ReleasesInductive, [ReleaseNext]_release PROVE Goes
  OBVIOUS
<1>1. CASE UNCHANGED release
  BY <1>1, BranchesSame, QuietStep DEF release, workflows
<1>2. ASSUME NEW l \in Lines,
             Backport(l) \/ EditHead(l) \/ AddLabel(l) \/ RemoveLabel(l) \/ Ask(l)
             \/ Regenerate(l) \/ RetryPublish(l) \/ Gate(l) \/ Merge(l)
             \/ Prepare(l) \/ CheckLine(l) \/ PushPrepared(l) \/ SyncPR(l)
      PROVE  Goes
  BY <1>2, StepOfBackport, StepOfEditHead, StepOfPhase, StepOfAsk, StepOfPreparing, StepOfRetryPublish, StepOfGate,
     StepOfMerge, StepOfPushPrepared, StepOfSyncPR
<1>3. ASSUME NEW l \in Lines,
             ReadPR(l) \/ ReadTags(l) \/ Resolve(l) \/ Dispatch(l)
             \/ Build(l) \/ Select(l) \/ Untag(l) \/ Adopt(l) \/ Clear(l) \/ Upload(l)
             \/ VerifyDraft(l) \/ Recheck(l) \/ PushRecord(l)
             \/ ControllerDies(l) \/ CandidateDies(l)
      PROVE  Goes
  BY <1>3, StepOfReadPR, StepOfReadTags, StepOfResolve, StepOfDispatch, StepOfBuild, StepOfSelect, StepOfUntag,
     StepOfAdopt, StepOfClear, StepOfUpload, StepOfVerifyDraft, StepOfRecheck, StepOfPushRecord, StepOfControllerDies,
     StepOfCandidateDies
<1>4. CASE StartPublish \/ CheckPreview \/ Refresh \/ CheckPush \/ EnsureTag \/ PublishRelease \/ PublishDies
  BY <1>4, StepOfStartPublish, StepOfCheckPreview, StepOfRefresh, StepOfCheckPush, StepOfEnsureTag,
     StepOfPublishRelease, StepOfPublishDies
<1> QED BY <1>1, <1>2, <1>3, <1>4 DEF ReleaseNext

LEMMA ReleasesFollow == ReleasesInductive => ReleasesInv
<1> SUFFICES ASSUME ReleasesInductive PROVE ReleasesInv
  OBVIOUS
<1>1. /\ \A r \in DOMAIN releases : releases[r].tag = releases[r].id.tag /\ releases[r].id \in GoodIds
      /\ \A r, s \in DOMAIN releases : r # s => releases[r].tag # releases[s].tag
      /\ \A r \in DOMAIN releases : IsOut(r) => OutFits(r)
      /\ Once /\ LatestIsHighest
  BY DEF ReleasesInductive, ReleasesFit, OutsFit
<1>2. ASSUME NEW r \in DOMAIN releases, IsOut(r)
      PROVE  /\ releases[r].tag \in DOMAIN tags
             /\ LET target == tags[releases[r].tag] IN
                IF releases[r].tag.phase # Nil THEN target = BuildCommit(releases[r].id)
                ELSE /\ target[1] = "line" /\ line[target[2]][target[3]].head # 0
                     /\ MergedAsTested(RecordOf(r), target[2], target[3])
             /\ RecordOf(r) = [id |-> releases[r].id, draft |-> r, assets |-> releases[r].assets]
  <2>1. OutFits(r) /\ releases[r].tag \in DOMAIN tags
    BY <1>1, <1>2 DEF OutFits
  <2>2. CASE releases[r].tag.phase # Nil
    BY <2>1, <2>2 DEF OutFits, RecordOf
  <2>3. CASE releases[r].tag.phase = Nil
    <3> DEFINE rec == [id |-> releases[r].id, draft |-> r, assets |-> releases[r].assets]
    <3>1. PICK l \in Lines : \E i \in 1..Tip(l) : tags[releases[r].tag] = <<"line", l, i>> /\ Merged(l, i, rec)
      BY <2>1, <2>3 DEF OutFits
    <3>2. PICK i \in 1..Tip(l) : tags[releases[r].tag] = <<"line", l, i>> /\ Merged(l, i, rec)
      BY <3>1
    <3>3. RecordOf(r) = RecordAt(l, i)
      BY <2>3, <3>2 DEF RecordOf
    <3> QED BY <2>1, <2>3, <3>2, <3>3 DEF Merged, IsMerge, MergedAsTested
  <2> QED BY <2>2, <2>3
<1>3. PublishedIsTagged /\ PublishedIsRecorded
  BY <1>2 DEF PublishedIsTagged, PublishedIsRecorded
<1>4. OncePerSnapshot
  BY <1>1 DEF OncePerSnapshot, Once
<1>5. NoGaps
  <2> SUFFICES ASSUME NEW r \in DOMAIN releases, IsOut(r), releases[r].tag.k > 1
               PROVE  Published([releases[r].tag EXCEPT !.k = @ - 1])
    BY DEF NoGaps
  <2> DEFINE id == releases[r].id
  <2>1. Numbered(id) /\ id.tag = releases[r].tag /\ id.tag.k \in Nat
    BY <1>1 DEF GoodIds, Identities, TagNames
  <2>2. id.tag.phase # Nil
    BY <2>1 DEF Numbered
  <2>3. id.tag.k - 1 \in 1..(id.tag.k - 1)
    BY <2>1
  <2>4. PICK s \in DOMAIN releases : Precedes(s, id, id.tag.k - 1)
    BY <2>1, <2>2, <2>3 DEF Numbered
  <2>5. IsOut(s) /\ releases[s].tag = [releases[r].tag EXCEPT !.k = @ - 1]
    BY <2>1, <2>4 DEF Precedes
  <2> QED BY <2>5 DEF Published, With, IsOut
<1> QED BY <1>1, <1>3, <1>4, <1>5 DEF ReleasesInv

(* Whatever is published is tagged at the commit that was built or merged as    *)
(* tested, holds the assets of its record, is the only release of its snapshot  *)
(* in its phase, follows the preview numbered before it, and the highest stable *)
(* version is the latest (_ensure_tag, select_draft, verify_draft.verify,       *)
(* published_snapshots, next_preview_version, should_make_latest), however the  *)
(* workflows of all lines interleave, wait, are cancelled and are run again.    *)
THEOREM ReleasesHold == ReleaseSpec => []ReleasesInv
<1>1. ReleaseInit => ReleasesInductive
  BY ReleasesStart
<1>2. ReleasesInductive /\ [ReleaseNext]_release => ReleasesInductive'
  BY ReleaseStep DEF Goes
<1>3. ReleasesInductive => ReleasesInv
  BY ReleasesFollow
<1> QED BY <1>1, <1>2, <1>3, PTL DEF ReleaseSpec

(* No step of a candidate or of a publication changes a published release or    *)
(* moves its tag: select_draft refuses to take it, and who writes to a draft    *)
(* has had release-mutation since it was one.                                   *)
THEOREM PublishedReleasesStay == ReleaseSpec => PublishedStays
<1>1. ReleaseInit => ReleasesInductive
  BY ReleasesStart
<1>2. ReleasesInductive /\ [ReleaseNext]_release => ReleasesInductive'
  BY ReleaseStep DEF Goes
<1>3. ReleasesInductive /\ [ReleaseNext]_release =>
        [\A r \in DOMAIN releases : IsOut(r) =>
          /\ releases'[r] = releases[r]
          /\ releases[r].tag \in DOMAIN tags' /\ tags'[releases[r].tag] = tags[releases[r].tag]]_release
  BY ReleaseStep DEF Goes, ReleasesGrow
<1> QED BY <1>1, <1>2, <1>3, PTL DEF ReleaseSpec, PublishedStays

=============================================================================
