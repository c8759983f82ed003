------------------------- MODULE InstanceDataProofs -------------------------
(***************************************************************************)
(* Proofs about what copies and what replaces the data of an instance:     *)
(* restores of any number of instances (LocalRestore); upgrades by dump    *)
(* and restore, and reverts, with any number of writes (InstanceUpgrade);  *)
(* the choice of an upgrade and those in place, for any releases and any   *)
(* projects, and any number of commands, failures and edits                *)
(* (ServerUpgrade); and any number of backups that run side by side, with  *)
(* any number of listings (LocalBackup).                                   *)
(***************************************************************************)
EXTENDS
    LocalRestore, InstanceUpgrade, ServerUpgrade, LocalBackup, FiniteSetTheorems, WellFoundedInduction, TLAPS

-----------------------------------------------------------------------------
(* Restores *)

(* Directories of different instances, and of different kinds, differ.      *)
LEMMA DirsDiffer ==
    /\ \A i, j \in Instances, v, w \in {"before", "backup", "partial", "scratch"} :
          Dir(i, v) = Dir(j, w) => i = j /\ v = w
    /\ \A i \in Instances, v \in {"before", "backup", "partial", "scratch"} :
          Dir(i, v) \in RestoreDirs /\ Dir(i, v) # Vacant /\ Dir(i, v) # Mixed
    /\ Vacant \in RestoreDirs /\ Mixed \in RestoreDirs
BY NobodyAssumption DEF Dir, RestoreDirs, Vacant, Mixed

(* The initial states satisfy the invariant. *)
LEMMA InitRestoreInv == RestoreInit => RestoreInv
BY DirsDiffer DEF RestoreInit, RestoreInv, RestoreTypeOK, AloneFits, KeepsData, SuccessInstalls,
   Active, AtRest, Intact

(* Every step of a restore keeps the invariant: one case for each action. *)
LEMMA RestoreStep ==
    ASSUME RestoreInv, [RestoreNext]_restore
    PROVE  RestoreInv'
<1> USE DirsDiffer DEF RestoreInv, RestoreTypeOK, AloneFits, KeepsData, SuccessInstalls,
        Active, AtRest, Intact, Turn, Unless, tmps
<1>1. ASSUME NEW i \in Instances, Begin(i) PROVE RestoreInv'
  BY <1>1 DEF Begin
<1>2. ASSUME NEW i \in Instances, CleanNew(i) PROVE RestoreInv'
  BY <1>2 DEF CleanNew
<1>3. ASSUME NEW i \in Instances, CheckOld(i) PROVE RestoreInv'
  BY <1>3 DEF CheckOld
<1>4. ASSUME NEW i \in Instances, RemoveByHand(i) PROVE RestoreInv'
  BY <1>4 DEF RemoveByHand
<1>5. ASSUME NEW i \in Instances, Unpack(i) PROVE RestoreInv'
  BY <1>5 DEF Unpack
<1>6. ASSUME NEW i \in Instances, Unpacked(i) PROVE RestoreInv'
  BY <1>6 DEF Unpacked
<1>7. ASSUME NEW i \in Instances, UnpackChain(i) PROVE RestoreInv'
  BY <1>7 DEF UnpackChain
<1>8. ASSUME NEW i \in Instances, Combine(i) PROVE RestoreInv'
  BY <1>8 DEF Combine
<1>9. ASSUME NEW i \in Instances, DropChain(i) PROVE RestoreInv'
  BY <1>9 DEF DropChain
<1>10. ASSUME NEW i \in Instances, Verify(i) PROVE RestoreInv'
  BY <1>10 DEF Verify
<1>11. ASSUME NEW i \in Instances, Stash(i) PROVE RestoreInv'
  BY <1>11 DEF Stash
<1>12. ASSUME NEW i \in Instances, Install(i) PROVE RestoreInv'
  BY <1>12 DEF Install
<1>13. ASSUME NEW i \in Instances, Discard(i) PROVE RestoreInv'
  BY <1>13 DEF Discard
<1>14. ASSUME NEW i \in Instances, Fail(i) PROVE RestoreInv'
  BY <1>14 DEF Fail
<1>15. CASE UNCHANGED restore
  BY <1>15 DEF restore
<1> HIDE DEF RestoreInv
<1> QED
  BY <1>1, <1>2, <1>3, <1>4, <1>5, <1>6, <1>7, <1>8, <1>9, <1>10, <1>11, <1>12,
     <1>13, <1>14, <1>15 DEF RestoreNext

(* An instance's data survives its restores, wherever they die and whatever *)
(* those of other instances do, and a restore that reports success has      *)
(* installed its backup, unless a restore of the instance ran beside that   *)
(* of another one, in the work directories that they share. *)
THEOREM DataSurvivesRestores == RestoreSpec => []RestoreKeepsWord
<1>1. RestoreInv /\ [RestoreNext]_restore => RestoreInv'
  BY RestoreStep
<1>2. RestoreInv => RestoreKeepsWord
  BY DEF RestoreInv, RestoreKeepsWord, AloneFits
<1> QED BY InitRestoreInv, <1>1, <1>2, PTL DEF RestoreSpec

-----------------------------------------------------------------------------
(* Upgrades by dump and restore, and reverts *)

(* The initial state satisfies the invariant. *)
LEMMA InitUpgradeInv == Init => UpgradeInv
<1> SUFFICES ASSUME Init PROVE UpgradeInv
  OBVIOUS
<1> USE DEF Init
<1>1. data \in Dirs /\ backup \in Dirs /\ tmp \in Dirs
  BY DEF Dirs, Files, Absent
<1>2. Whole(data) /\ owed \subseteq data.has
  BY DEF Whole
<1>3. /\ written \in 0..MaxWrites /\ dump \in SUBSET Writes
      /\ owed \in SUBSET Writes /\ late \in SUBSET Writes /\ late = {}
  BY MaxWritesAssumption
<1>4. marker \in BOOLEAN /\ up \in BOOLEAN /\ broken \in BOOLEAN /\ torn \in BOOLEAN
  OBVIOUS
<1>5. pc \in Resting /\ pc \notin {"aside", "moved"}
  BY DEF Resting
<1>7. ~torn /\ (Whole(tmp) => There(tmp))
  BY DEF Whole, There, Absent
<1>6. TypeOK
  BY ONLY <1>1, <1>3, <1>4, <1>5 DEF TypeOK
<1> QED
  BY <1>2, <1>3, <1>6, <1>7 DEF UpgradeInv, OnData, OnBackup, Down, Minor, LateWritesKept

(* A user's write keeps it: while an upgrade is past its dump, the server   *)
(* is down or the write is not owed. *)
LEMMA WriteStep == UpgradeInv /\ Write => UpgradeInv'
<1> SUFFICES ASSUME UpgradeInv, Write PROVE UpgradeInv'
  OBVIOUS
<1>1. /\ written' = written + 1 /\ written' \in 0 .. MaxWrites /\ written' \in Writes
      /\ data'.has = data.has \cup {written'} /\ data'.files = data.files /\ data' \in Dirs
      /\ Whole(data) /\ Whole(data)' /\ up
      /\ UNCHANGED <<pc, backup, tmp, dump, marker, up, broken, torn>>
      /\ owed' \subseteq owed \cup {written'} /\ late' \subseteq late \cup {written'}
      /\ pc # "dumped" => late' = late
      /\ pc = "dumped" => owed' = owed
  BY MaxWritesAssumption DEF Write, UpgradeInv, TypeOK, Dirs, Whole, Writes, history
<1>2. TypeOK'
  <2>1. pc \notin {"aside", "moved"}
    BY <1>1 DEF UpgradeInv, Down
  <2> QED BY <1>1, <2>1 DEF UpgradeInv, TypeOK
<1>3. LateWritesKept'
  BY <1>1 DEF UpgradeInv, LateWritesKept, Whole
<1>4. owed \subseteq data.has /\ pc \notin Down
  BY <1>1 DEF UpgradeInv
<1> QED
  BY <1>1, <1>2, <1>3, <1>4 DEF UpgradeInv, Keeps, Whole, There, Info, Meta, Reverting, OnData, OnBackup, Down

(* The steps of an upgrade keep it. *)
LEMMA UpgradeStep == UpgradeInv /\ Upgrade => UpgradeInv'
<1> SUFFICES ASSUME UpgradeInv, Upgrade PROVE UpgradeInv'
  OBVIOUS
<1> USE DEF UpgradeInv, TypeOK, Keeps, Dirs, Absent, Fresh, There, Whole, Info, Meta, Plus,
        Minus, Files, Resting, Upgrading, Reverting, Minor, OnData, OnBackup, Down, Goto, dirs,
        user, history, LateWritesKept
<1>1. CASE OpenInfo
  BY <1>1 DEF OpenInfo
<1>2. CASE RewriteInfo
  BY <1>2 DEF RewriteInfo
<1>3. CASE BeginUpgrade
  BY <1>3 DEF BeginUpgrade
<1>4. CASE TakeDump
  BY <1>4 DEF TakeDump, InTime
<1>5. CASE StopServer
  BY <1>5 DEF StopServer
<1>6. CASE RefuseMarked
  BY <1>6 DEF RefuseMarked
<1>7. CASE WriteMarker
  BY <1>7 DEF WriteMarker
<1>8. CASE WriteMeta
  BY <1>8 DEF WriteMeta
<1>9. CASE RemoveOldBackup
  BY <1>9 DEF RemoveOldBackup, Removed, Remains
<1>10. CASE SetAside
  BY <1>10 DEF SetAside
<1>11. CASE Reinit
  BY <1>11 DEF Reinit
<1>12. CASE RestoreDump
  BY <1>12 DEF RestoreDump
<1>13. CASE WriteInfo
  BY <1>13 DEF WriteInfo
<1>14. CASE NeedsRevert
  BY <1>14 DEF NeedsRevert
<1>15. CASE RemoveMarker
  BY <1>15 DEF RemoveMarker
<1>16. CASE RestartNew
  BY <1>16 DEF RestartNew
<1> QED
  BY <1>1, <1>2, <1>3, <1>4, <1>5, <1>6, <1>7, <1>8, <1>9, <1>10, <1>11, <1>12, <1>13,
     <1>14, <1>15, <1>16 DEF Upgrade

(* The steps of a revert keep it. *)
LEMMA RevertStep == UpgradeInv /\ Revert => UpgradeInv'
<1> SUFFICES ASSUME UpgradeInv, Revert PROVE UpgradeInv'
  OBVIOUS
<1> USE DEF UpgradeInv, TypeOK, Keeps, Dirs, Absent, There, Whole, Info, Meta, Plus,
        Minus, Files, Resting, Upgrading, Reverting, Minor, OnData, OnBackup, Down, Goto, dirs,
        user, history, LateWritesKept
<1>1. CASE BeginRevert
  BY <1>1 DEF BeginRevert
<1>2. CASE MoveAway
  BY <1>2 DEF MoveAway
<1>3. CASE MoveBack
  BY <1>3 DEF MoveBack
<1>4. CASE RestartOld
  BY <1>4 DEF RestartOld
<1>5. CASE RemoveMeta
  BY <1>5 DEF RemoveMeta
<1>6. CASE RemoveTmp
  <2>1. /\ pc = "clearing" /\ pc' \in {"reverted", "idle"}
        /\ UNCHANGED <<data, backup, dump, marker, up, written, owed, late>>
    BY <1>6 DEF RemoveTmp, Removed, Remains
  <2>2. broken' \in BOOLEAN /\ tmp' \in Dirs /\ ~Whole(tmp)'
    <3>1. CASE Removed(tmp, "reverted") /\ broken' = FALSE
      BY <3>1 DEF Removed
    <3>2. CASE Remains(tmp) /\ UNCHANGED broken
      BY <3>2 DEF Remains
    <3> QED BY <1>6, <3>1, <3>2 DEF RemoveTmp
  <2>3. late = {} /\ ~Whole(backup) /\ torn' = (torn \/ ~Whole(data))
    BY <1>6, <2>1 DEF RemoveTmp
  <2> HIDE DEF Whole
  <2>4. torn' \in BOOLEAN /\ (torn' => ~Whole(data)') /\ (~Whole(data)' => torn')
    BY <2>1, <2>3 DEF Whole
  <2>5. torn' => ~Whole(backup)'
    BY <2>1, <2>3 DEF Whole
  <2> QED
    BY <2>1, <2>2, <2>3, <2>4, <2>5 DEF Whole
<1> QED
  BY <1>1, <1>2, <1>3, <1>4, <1>5, <1>6 DEF Revert

(* Nothing that happens breaks the invariant. *)
LEMMA UpgradeInvInductive == UpgradeInv /\ [Next]_vars => UpgradeInv'
<1> SUFFICES ASSUME UpgradeInv, [Next]_vars PROVE UpgradeInv'
  OBVIOUS
<1>1. CASE Write
  BY <1>1, WriteStep
<1>2. CASE StartServer
  BY <1>2 DEF StartServer, UpgradeInv, TypeOK, Keeps, There, Whole, Info, Meta, Resting,
     Upgrading, Reverting, Minor, OnData, OnBackup, Down, dirs, user, history, LateWritesKept
<1>3. CASE Upgrade
  BY <1>3, UpgradeStep
<1>4. CASE Revert
  BY <1>4, RevertStep
<1>5. CASE Die
  BY <1>5 DEF Die, UpgradeInv, TypeOK, Keeps, There, Whole, Info, Meta, Resting,
     Upgrading, Reverting, Minor, OnData, OnBackup, Down, dirs, user, history, LateWritesKept
<1>6. CASE UNCHANGED vars
  BY <1>6 DEF vars, UpgradeInv, TypeOK, Keeps, There, Whole, Info, Meta, dirs, user, history,
     LateWritesKept
<1> QED
  BY <1>1, <1>2, <1>3, <1>4, <1>5, <1>6 DEF Next

(* The invariant holds however many writes there are. *)
THEOREM UpgradeInvHolds == Spec => []UpgradeInv
BY InitUpgradeInv, UpgradeInvInductive, PTL DEF Spec

(* Whatever upgrades and reverts die where, no acknowledged write is lost   *)
(* that its user has not agreed to lose: it is in the data directory or in  *)
(* the backup (NothingOwedLost), those after a dump too, until the next     *)
(* upgrade removes the backup (LateWritesKept).  The exception in both is a *)
(* revert to a backup of which an upgrade had removed files. *)
THEOREM OwedWritesSurvive == Spec => [](NothingOwedLost /\ LateWritesKept)
<1>1. UpgradeInv => NothingOwedLost /\ LateWritesKept
  BY DEF UpgradeInv, NothingOwedLost, Keeps, Whole
<1> QED BY UpgradeInvHolds, <1>1, PTL

(* An upgrade that reports success has the owed writes, and has left those  *)
(* that came after its dump in the backup; one that asks for a revert has   *)
(* left a backup that has them all.  With the theorem above. *)
THEOREM UpgradesKeepTheirWord == Spec => []UpgradeKeepsWord
<1>1. UpgradeInv => UpgradeKeepsData /\ UndoPossible
  BY DEF UpgradeInv, UpgradeKeepsData, UndoPossible, Keeps, Whole, Info, Meta, OnBackup
<1>2. UpgradeKeepsData /\ UndoPossible /\ NothingOwedLost /\ LateWritesKept => UpgradeKeepsWord
  BY DEF UpgradeKeepsWord
<1> QED BY OwedWritesSurvive, UpgradeInvHolds, <1>1, <1>2, PTL

-----------------------------------------------------------------------------
(* The choice of an upgrade, and upgrades in place *)

Steps == {"calm", "compatible", "restart", "dump", "start", "rollback", "rolled", "block", "collected", "preparing",
          "prepared", "stop", "finalize", "finalized", "run", "clear", "manifest"}
Command == [pc : Steps, project : Projects \cup {NoProject}, to : Releases \cup {0}, asked : BOOLEAN]

ServerUpgradeTypeOK ==
    /\ info \in [version : Releases, state : {"none", "started", "prepared"}]
    /\ upg \in Command /\ tomls \in [Projects -> Queries]
    /\ ddlOff \in BOOLEAN /\ severed \in BOOLEAN /\ failed \in BOOLEAN /\ leftover \in BOOLEAN

\* What the command has found out before it changes anything
CommandKnows ==
    /\ upg.pc = "calm" => upg = Calm
    /\ upg.pc # "calm" => upg.to \in Releases
    /\ upg.asked => upg.project \in Projects
    /\ upg.project \in Projects => upg.asked \/ Fits(tomls[upg.project], upg.to)
    /\ upg.pc = "compatible" => IsCompatible(info.version, upg.to)

\* Where the upgrade in place has come to, and what it has recorded of it
InPlaceStep ==
    /\ upg.pc \in {"finalized", "run", "clear"} => prepared = 0
    /\ upg.pc \in {"rolled", "block", "collected", "preparing"} => prepared = 0 \/ leftover
    /\ upg.pc \in {"prepared", "stop", "finalize"} => ~leftover
    /\ leftover => prepared # 0
    /\ upg.pc \in {"block", "run", "clear"} => info.state = "none"
    /\ upg.pc \in {"preparing", "prepared", "stop", "finalize"} => info.state # "none"
    /\ upg.pc \in {"finalize", "finalized", "run"} => serving = 0
    /\ upg.pc \in {"finalized", "run", "clear"} => format = Major(upg.to)
    /\ upg.pc \in Installed => info.version = upg.to
    /\ upg.pc = "manifest" => upg.asked /\ Projects \ {upg.project} \subseteq loose
    /\ ddlOff /\ ~failed => upg.pc \in {"collected", "preparing", "prepared", "stop", "finalize",
                                        "finalized", "run", "clear"}

ServerUpgradeInductive ==
    ServerUpgradeTypeOK /\ CommandKnows /\ InPlaceStep /\ InPlaceInv

(* The version that a package is found for fits what was asked for, and     *)
(* gel.toml with that version fits it.                                      *)
LEMMA PackagesFit ==
    /\ \A q : \A v \in Package(q) : v \in Releases /\ Fits(q, v)
    /\ \A v \in Releases : Fits(FromVersion(v), v) /\ FromVersion(v) \in Queries
<1>1. \A q : \A v \in Package(q) : v \in Releases /\ Fits(q, v)
  BY DEF Package
<1>2. ASSUME NEW v \in Releases PROVE Fits(FromVersion(v), v) /\ FromVersion(v) \in Queries
  <2>1. v >= v
    BY ReleasesAssumption
  <2> QED BY <2>1 DEF Fits, FromVersion, Queries
<1> QED BY <1>1, <1>2

LEMMA ServerUpgradeStart == ServerUpgradeInit => ServerUpgradeInductive
<1> SUFFICES ASSUME NEW v \in Releases, info = [version |-> v, state |-> "none"], format = Major(v),
                    tomls \in [Projects -> {q \in Queries : Fits(q, v)}],
                    serving = 0, prepared = 0, ddlOff = FALSE,
                    loose = {}, severed = FALSE, failed = FALSE, leftover = FALSE, upg = Calm
             PROVE  ServerUpgradeInductive
  BY DEF ServerUpgradeInit
<1> QED
  BY ReleasesAssumption DEF ServerUpgradeInductive, ServerUpgradeTypeOK, Command, Steps, CommandKnows,
     InPlaceStep, InPlaceInv, ManifestFollows, Installed, Startable, Calm

(* What the choice of a command comes to.                                   *)
LEMMA CommandChosen ==
    ASSUME ServerUpgradeInductive, upg = Calm,
           NEW project \in Projects \cup {NoProject}, NEW to, NEW asked \in BOOLEAN, NEW next,
           Commanded(project, to, asked, next),
           next = "refused" \/ /\ next \in {"compatible", "start", "dump"} /\ to \in Releases
                               /\ next = "compatible" => IsCompatible(info.version, to)
                               /\ asked => project \in Projects
                               /\ project \in Projects => asked \/ Fits(tomls[project], to)
    PROVE  ServerUpgradeInductive'
<1> USE DEF ServerUpgradeInductive, ServerUpgradeTypeOK, CommandKnows, InPlaceStep, InPlaceInv,
        ManifestFollows, Installed, Startable, Calm, Commanded, server, told, Command, Steps
<1>1. CASE next = "refused"
  BY <1>1
<1>2. CASE next # "refused"
  <2>1. upg' = [pc |-> next, project |-> project, to |-> to, asked |-> asked]
    BY <1>2
  <2> QED BY <1>2, <2>1
<1> QED BY <1>1, <1>2

LEMMA MethodsKnown ==
    ASSUME NEW v, NEW w, NEW anew, NEW force, NEW inPlace, NEW dumpRestore
    PROVE  LET m == Method(v, w, anew, force, inPlace, dumpRestore)
           IN  /\ m \in {"refused", "compatible", "start", "dump"}
               /\ m = "compatible" => IsCompatible(v, w)
BY DEF Method

(* Every step keeps the invariant, one case for each action.                *)
LEMMA ServerUpgradeStep ==
    ASSUME ServerUpgradeInductive, [ServerUpgradeNext]_serverUpgrade
    PROVE  ServerUpgradeInductive'
<1>1. ASSUME upg = Calm, NEW q, NEW option, NEW force \in BOOLEAN, NEW inPlace \in BOOLEAN,
             NEW dumpRestore \in BOOLEAN, UpgradeInstance(q, option, force, inPlace, dumpRestore)
      PROVE  ServerUpgradeInductive'
  <2>1. PICK v \in Package(q) :
           Commanded(NoProject, v, FALSE,
               Method(info.version, v, (force /\ option) \/ dumpRestore, force, inPlace, dumpRestore))
    BY <1>1 DEF UpgradeInstance
  <2> DEFINE m == Method(info.version, v, (force /\ option) \/ dumpRestore, force, inPlace, dumpRestore)
  <2>2. m \in {"refused", "compatible", "start", "dump"} /\ (m = "compatible" => IsCompatible(info.version, v))
    BY MethodsKnown
  <2> HIDE DEF m
  <2>3. Commanded(NoProject, v, FALSE, m)
    BY <2>1 DEF m
  <2> QED BY <1>1, <2>2, <2>3, CommandChosen, PackagesFit, ReleasesAssumption
<1>2. ASSUME upg = Calm, NEW project \in Projects, NEW q, NEW asked \in BOOLEAN, asked \/ q = tomls[project],
             NEW force \in BOOLEAN, NEW inPlace \in BOOLEAN, NEW dumpRestore \in BOOLEAN,
             UpgradeLocal(project, q, asked, force, inPlace, dumpRestore)
      PROVE  ServerUpgradeInductive'
  <2>1. PICK v \in Package(q) :
           Commanded(project, v, asked, Method(info.version, v, force, force, inPlace, dumpRestore))
    BY <1>2 DEF UpgradeLocal
  <2> DEFINE m == Method(info.version, v, force, force, inPlace, dumpRestore)
  <2>2. m \in {"refused", "compatible", "start", "dump"} /\ (m = "compatible" => IsCompatible(info.version, v))
    BY MethodsKnown
  <2> HIDE DEF m
  <2>3. Commanded(project, v, asked, m)
    BY <2>1 DEF m
  <2> QED BY <1>2, <2>2, <2>3, CommandChosen, PackagesFit
<1>3. ASSUME upg = Calm, NEW project \in Projects \cup {NoProject}, NEW q, NothingToDo(project, q)
      PROVE  ServerUpgradeInductive'
  BY <1>3, CommandChosen DEF NothingToDo
<1> USE ReleasesAssumption
    DEF ServerUpgradeInductive, ServerUpgradeTypeOK, CommandKnows, InPlaceStep, InPlaceInv,
        ManifestFollows, Installed, Startable, Passes, Ends, Calm, Command, Steps, told, commands
<1>4. ASSUME NEW project \in Projects, NEW q \in Queries, EditManifest(project, q)
      PROVE  ServerUpgradeInductive'
  BY <1>4 DEF EditManifest, server
<1>5. CASE RecordCompatible
  <2>1. IsCompatible(info.version, upg.to) /\ Major(upg.to) = Major(info.version)
    BY <1>5 DEF RecordCompatible, IsCompatible
  <2>2. serving # 0 => IsCompatible(serving, upg.to)
    BY <2>1 DEF IsCompatible
  <2>3. info' \in [version : Releases, state : {"none", "started", "prepared"}]
        /\ info'.version = upg.to /\ info'.state = info.state
    BY <1>5 DEF RecordCompatible
  <2>4. upg' = [upg EXCEPT !.pc = "restart"] /\ upg.pc = "compatible"
        /\ UNCHANGED <<serving, format, prepared, ddlOff, tomls, loose, severed, failed, leftover>>
    BY <1>5 DEF RecordCompatible
  <2>5. (severed \/ Startable)' /\ (serving # 0 => Major(serving) = format)'
    BY <2>1, <2>3, <2>4
  <2>6. InPlaceInv'
    BY <2>2, <2>3, <2>4, <2>5
  <2>7. ServerUpgradeTypeOK' /\ CommandKnows' /\ InPlaceStep'
    BY <2>3, <2>4
  <2> QED BY <2>6, <2>7
<1>25. CASE RestartCompatible
  <2>1. upg.pc = "restart" /\ info.version = upg.to /\ IsCompatible(upg.to, upg.to)
        /\ UNCHANGED <<info, format, prepared, ddlOff, tomls, severed, failed, leftover>>
    BY <1>25 DEF RestartCompatible, IsCompatible
  <2>2. CASE ~Startable
    <3>1. upg' = Calm /\ loose' = Projects /\ serving' = 0
      BY <1>25, <2>2, Zenon DEF RestartCompatible, Succeeds, Ends
    <3>2. severed
      BY <2>1, <2>2
    <3> QED BY <2>1, <3>1, <3>2
  <2>3. CASE Startable
    <3>1. /\ upg' = IF upg.asked THEN [upg EXCEPT !.pc = "manifest"] ELSE Calm
          /\ loose' = (Projects \ {upg.project}) \cup (loose \cap IF upg.asked THEN {upg.project} ELSE {})
          /\ serving' = upg.to
      BY <1>25, <2>3, Zenon DEF RestartCompatible, Succeeds
    <3>2. ServerUpgradeTypeOK' /\ CommandKnows' /\ InPlaceStep'
      BY <2>1, <2>3, <3>1
    <3>3. InPlaceInv'
      BY <2>1, <2>3, <3>1
    <3> QED BY <3>2, <3>3
  <2> QED BY <2>2, <2>3
<1>6. CASE UpgradeByDump
  <2> DEFINE i == [info EXCEPT !.version = upg.to]
  <2>1. /\ i \in [version : Releases, state : {"none", "started", "prepared"}]
        /\ i.version = upg.to /\ i.state = info.state /\ info' = i
    BY <1>6 DEF UpgradeByDump
  <2> HIDE DEF i
  <2>2. upg' \in Command /\ ddlOff' \in BOOLEAN
    BY <1>6 DEF UpgradeByDump, Succeeds
  <2>3. ddlOff' => ddlOff
    BY <1>6, Zenon DEF UpgradeByDump
  <2>4. ServerUpgradeTypeOK' /\ CommandKnows'
    BY <1>6, <2>1, <2>2 DEF UpgradeByDump, Succeeds
  <2>5. InPlaceStep'
    BY <1>6, <2>1, <2>3 DEF UpgradeByDump, Succeeds
  <2>6. serving' = upg.to /\ format' = Major(upg.to) /\ IsCompatible(upg.to, upg.to)
    BY <1>6 DEF UpgradeByDump, IsCompatible
  <2>7. InPlaceInv'
    <3>1. ManifestFollows'
      BY <1>6, <2>1 DEF UpgradeByDump, Succeeds
    <3> QED BY <1>6, <2>1, <2>3, <2>6, <3>1 DEF UpgradeByDump, Succeeds
  <2> QED BY <2>4, <2>5, <2>7
<1>7. CASE StartOld
  BY <1>7 DEF StartOld, Started, IsCompatible
<1>8. CASE RollBackPrepared
  BY <1>8 DEF RollBackPrepared, RolledBack
<1>9. CASE RecordRolledBack
  BY <1>9 DEF RecordRolledBack
<1>10. CASE Block
  BY <1>10 DEF Block
<1>11. CASE RecordStarted
  BY <1>11 DEF RecordStarted
<1>12. CASE Prepare
  BY <1>12 DEF Prepare
<1>13. CASE PrepareFails
  BY <1>13 DEF PrepareFails, RolledBack
<1>14. CASE RecordPrepared
  BY <1>14 DEF RecordPrepared
<1>15. CASE StopOld
  BY <1>15 DEF StopOld
<1>16. CASE Finalize
  BY <1>16 DEF Finalize
<1>17. CASE RecordFinalized
  BY <1>17 DEF RecordFinalized
<1>18. CASE StartNew
  BY <1>18 DEF StartNew, Started, IsCompatible
<1>19. CASE ClearForceError
  BY <1>19 DEF ClearForceError, Succeeds
<1>20. CASE WriteManifest
  BY <1>20, PackagesFit DEF WriteManifest, server
<1>21. CASE Break
  BY <1>21 DEF Break, server
<1>22. CASE CannotStart
  BY <1>22 DEF CannotStart, server
<1>23. CASE StartServing
  BY <1>23 DEF StartServing, Started, IsCompatible
<1>24. CASE UNCHANGED serverUpgrade
  BY <1>24 DEF serverUpgrade
<1> HIDE DEF ServerUpgradeInductive, ServerUpgradeTypeOK, CommandKnows, InPlaceStep, InPlaceInv,
        ManifestFollows, Installed, Startable, Passes, Ends, Calm, Command, Steps, told, commands
<1>26. ASSUME upg = Calm, NEW force \in BOOLEAN, NEW inPlace \in BOOLEAN, NEW dumpRestore \in BOOLEAN,
              \/ \E q \in Queries, option \in BOOLEAN :
                    UpgradeInstance(q, option, force, inPlace, dumpRestore)
              \/ \E q \in Queries, project \in Projects :
                    UpgradeTo(project, q, force, inPlace, dumpRestore)
              \/ \E project \in Projects : UpgradeByManifest(project, force, inPlace, dumpRestore)
       PROVE  ServerUpgradeInductive'
  BY <1>1, <1>2, <1>26 DEF UpgradeTo, UpgradeByManifest
<1> QED
  BY <1>3, <1>4, <1>5, <1>6, <1>7, <1>8, <1>9, <1>10, <1>11, <1>12, <1>13, <1>14, <1>15, <1>16, <1>17,
     <1>18, <1>19, <1>20, <1>21, <1>22, <1>23, <1>24, <1>25, <1>26
  DEF ServerUpgradeNext, MayUpgrade

(* However upgrades, in place or not, break off and are begun again, the    *)
(* installation runs the data, what is finalised is what was prepared, no   *)
(* preparation is unrecorded but one of which a rollback failed, and the    *)
(* manifests of projects follow.                                            *)
THEOREM UpgradesInPlaceHold == ServerUpgradeSpec => []InPlaceInv
<1>1. ServerUpgradeInductive /\ [ServerUpgradeNext]_serverUpgrade => ServerUpgradeInductive'
  BY ServerUpgradeStep
<1>2. ServerUpgradeInductive => InPlaceInv
  BY DEF ServerUpgradeInductive
<1> QED BY ServerUpgradeStart, <1>1, <1>2, PTL DEF ServerUpgradeSpec

-----------------------------------------------------------------------------
(* Backups *)

\* Where the backup in an incremental one's metadata is not known yet, and where its
\* directory may have its final name
Uncopied == {"idle", "waiting", "stranded", "choosing", "pinning", "making", "describing", "opened", "copying"}
Out ==
    {"announcing", "clearing", "pointing", "renaming", "unpointing", "repointing", "rerenaming", "noting"}
    \cup Ended

\* What a backup has recorded of itself
RecordFits(b) ==
    /\ dir[b] = "final" => stage[b] \in Out
    /\ stage[b] \in {"idle", "waiting", "stranded", "choosing"} => parent[b] = 0
    /\ stage[b] \in Uncopied => base[b] = 0 /\ (parent[b] # 0 => kind[b] = "Incremental")
    /\ base[b] = 0 => gen[b] = 0
    /\ base[b] # 0 => base[b] = parent[b] /\ kind[b] = "Incremental" /\ child[b] # "none"
    /\ parent[b] = 0 => kind[b] = "Full"
    /\ parent[b] # 0 /\ stage[b] \in {"making", "describing", "opened", "copying"} => child[b] # "none"
    /\ stage[b] \notin Uncopied \cup {"failed", "crashed"} \/ dir[b] = "final" =>
          (kind[b] = "Incremental" => base[b] # 0)

\* ... and of the one it is incremental on, which was published and changes no more
ParentFits(b) ==
    parent[b] # 0 =>
        /\ parent[b] # b /\ stage[parent[b]] \in Out
        /\ base[b] # 0 => gen[b] = gen[parent[b]] + 1
        /\ wish[b] = "Auto" => gen[parent[b]] <= MaxGeneration
        /\ struck \/ dir[parent[b]] = "final"

\* What it has in its directory, unless a listing has struck
FilesFit(b) ==
    /\ stage[b] \in {"idle", "waiting", "stranded", "choosing", "pinning", "making"} =>
          dir[b] = "none" /\ meta[b] = "absent" /\ contents[b] = "none"
    /\ stage[b] = "describing" => dir[b] = "tmp" /\ meta[b] = "absent" /\ contents[b] = "none"
    /\ stage[b] = "opened" => dir[b] = "tmp" /\ meta[b] = "blank" /\ contents[b] = "none"
    /\ stage[b] = "copying" => dir[b] = "tmp" /\ contents[b] = "part"
    /\ stage[b] \in {"copied", "sealing"} => dir[b] = "tmp" /\ contents[b] = "whole"
    /\ stage[b] = "sealed" => dir[b] = "tmp" /\ meta[b] = "blank" /\ contents[b] = "whole"
    /\ stage[b] = "publishing" => dir[b] = "tmp" /\ meta[b] = "completed" /\ contents[b] = "whole"
    /\ dir[b] = "final" => meta[b] = "completed" /\ contents[b] = "whole"
ListFits(l) ==
    /\ \A e \in scan[l].todo : e[2] = "final" => dir[e[1]] = "final"
    /\ \A e \in scan[l].doomed : e[2] # "final"

\* A chain is no longer than there are incremental backups
Incremental == {b \in Ids : gen[b] > 0}

BackupsInductive ==
    /\ BackupTypeOK
    /\ \A b \in Ids : RecordFits(b) /\ ParentFits(b) /\ gen[b] <= Cardinality(Incremental)
    /\ struck \/ \A b \in Ids : FilesFit(b)
    /\ struck \/ \A l \in Listers : ListFits(l)

\* The step of one backup
OthersStay(b) ==
    \A c \in Ids \ {b} :
        /\ stage'[c] = stage[c] /\ wish'[c] = wish[c] /\ parent'[c] = parent[c] /\ tick'[c] = tick[c]
        /\ dir'[c] = dir[c] /\ meta'[c] = meta[c] /\ contents'[c] = contents[c] /\ child'[c] = child[c]
        /\ kind'[c] = kind[c] /\ base'[c] = base[c] /\ gen'[c] = gen[c]
BackupKept(b) ==
    /\ stage[b] \in Out => stage'[b] \in Out /\ gen'[b] = gen[b]
    /\ dir[b] = "final" => dir'[b] = "final"
    /\ gen'[b] = gen[b] \/ (gen[b] = 0 /\ gen'[b] <= Cardinality(Incremental) + 1)
BackupStep(b) ==
    /\ OthersStay(b) /\ scan' = scan /\ struck' = struck /\ BackupTypeOK'
    /\ BackupKept(b) /\ RecordFits(b)' /\ ParentFits(b)' /\ (struck \/ FilesFit(b)')

LEMMA IncrementalCounted ==
    ASSUME BackupTypeOK
    PROVE  /\ IsFiniteSet(Incremental) /\ Cardinality(Incremental) \in Nat
           /\ Cardinality(Incremental) <= MaxBackups
           /\ \A b \in Ids : gen[b] = 0 => Cardinality(Incremental) + 1 <= MaxBackups
           /\ \A b \in Ids : Cardinality(Incremental \cup {b}) \in Nat
           /\ \A b \in Ids : gen[b] = 0 => Cardinality(Incremental \cup {b}) = Cardinality(Incremental) + 1
<1>1. MaxBackups \in Nat /\ 1 \in Int /\ MaxBackups \in Int
  BY SizesAssumption
<1>2. IsFiniteSet(Ids) /\ Cardinality(Ids) = MaxBackups
  <2>1. IsFiniteSet(1..MaxBackups) /\ Cardinality(1..MaxBackups) = IF 1 > MaxBackups THEN 0 ELSE MaxBackups - 1 + 1
    BY <1>1, FS_Interval
  <2>2. (IF 1 > MaxBackups THEN 0 ELSE MaxBackups - 1 + 1) = MaxBackups
    BY SizesAssumption
  <2> QED BY <2>1, <2>2 DEF Ids
<1>3. Incremental \subseteq Ids
  BY DEF Incremental
<1>4. IsFiniteSet(Incremental) /\ Cardinality(Incremental) <= MaxBackups
  BY <1>2, <1>3, FS_Subset
<1>5. Cardinality(Incremental) \in Nat
  BY <1>4, FS_CardinalityType
<1>6. ASSUME NEW b \in Ids PROVE Cardinality(Incremental \cup {b}) \in Nat
  <2>1. IsFiniteSet(Incremental \cup {b})
    BY <1>4, FS_AddElement
  <2> QED BY <2>1, FS_CardinalityType
<1>7. ASSUME NEW b \in Ids, gen[b] = 0
      PROVE  /\ Cardinality(Incremental \cup {b}) = Cardinality(Incremental) + 1
             /\ Cardinality(Incremental) + 1 <= MaxBackups
  <2>1. b \notin Incremental
    BY <1>7 DEF Incremental
  <2>2. Cardinality(Incremental \cup {b}) = Cardinality(Incremental) + 1
    BY <1>4, <2>1, FS_AddElement
  <2>3. Incremental \cup {b} \subseteq Ids
    BY <1>3
  <2>4. Cardinality(Incremental \cup {b}) <= MaxBackups
    BY <1>2, <2>3, FS_Subset
  <2> QED BY <2>2, <2>4
<1> QED BY <1>4, <1>5, <1>6, <1>7

LEMMA BackupMoves ==
    ASSUME BackupsInductive, NEW b \in Ids, BackupStep(b)
    PROVE  BackupsInductive'
<1>1. BackupTypeOK /\ BackupTypeOK' /\ OthersStay(b) /\ BackupKept(b) /\ struck' = struck /\ scan' = scan
  BY DEF BackupsInductive, BackupStep
<1>2. ASSUME NEW c \in Ids PROVE RecordFits(c)' /\ ParentFits(c)'
  <2>1. CASE c = b
    BY <2>1 DEF BackupStep
  <2>2. CASE c # b
    <3>1. RecordFits(c) /\ ParentFits(c)
      BY DEF BackupsInductive
    <3>2. RecordFits(c)'
      BY <1>1, <2>2, <3>1 DEF RecordFits, OthersStay
    <3>3. parent[c] # 0 => parent[c] \in Ids
      BY <1>1 DEF BackupTypeOK, Ids
    <3>4. parent[c] # 0 => /\ stage[parent[c]] \in Out => stage'[parent[c]] \in Out /\ gen'[parent[c]] = gen[parent[c]]
                           /\ dir[parent[c]] = "final" => dir'[parent[c]] = "final"
      BY <1>1, <3>3 DEF OthersStay, BackupKept
    <3>5. ParentFits(c)'
      BY <1>1, <2>2, <3>1, <3>4 DEF ParentFits, OthersStay
    <3> QED BY <3>2, <3>5
  <2> QED BY <2>1, <2>2
<1>3. ASSUME NEW c \in Ids PROVE gen'[c] <= Cardinality(Incremental')
  <2>1. gen[c] <= Cardinality(Incremental) /\ gen[c] \in Nat /\ gen'[c] \in Nat /\ gen[b] \in Nat /\ gen'[b] \in Nat
    BY <1>1 DEF BackupsInductive, BackupTypeOK
  <2>2. Cardinality(Incremental) \in Nat
    BY <1>1, IncrementalCounted
  <2>3. CASE gen'[b] = gen[b]
    <3>1. \A d \in Ids : gen'[d] = gen[d]
      BY <1>1, <2>3 DEF OthersStay
    <3>2. Incremental' = Incremental
      BY <3>1 DEF Incremental
    <3> QED BY <2>1, <3>1, <3>2
  <2>4. CASE gen'[b] # gen[b]
    <3>1. gen[b] = 0 /\ gen'[b] > 0 /\ gen'[b] <= Cardinality(Incremental) + 1
      BY <1>1, <2>1, <2>4 DEF BackupKept
    <3>2. Incremental' = Incremental \cup {b}
      BY <1>1, <3>1 DEF Incremental, OthersStay
    <3>3. Cardinality(Incremental') = Cardinality(Incremental) + 1
      BY <1>1, <3>1, <3>2, IncrementalCounted
    <3>4. c # b => gen'[c] = gen[c]
      BY <1>1 DEF OthersStay
    <3> QED BY <2>1, <2>2, <3>1, <3>3, <3>4
  <2> QED BY <2>3, <2>4
<1>4. struck' \/ \A c \in Ids : FilesFit(c)'
  <2> SUFFICES ASSUME ~struck', NEW c \in Ids PROVE FilesFit(c)'
    OBVIOUS
  <2>1. CASE c = b
    BY <1>1, <2>1 DEF BackupStep
  <2>2. CASE c # b
    <3>1. FilesFit(c)
      BY <1>1 DEF BackupsInductive
    <3> QED BY <1>1, <2>2, <3>1 DEF FilesFit, OthersStay
  <2> QED BY <2>1, <2>2
<1>5. struck' \/ \A l \in Listers : ListFits(l)'
  <2> SUFFICES ASSUME ~struck', NEW l \in Listers PROVE ListFits(l)'
    OBVIOUS
  <2>1. ListFits(l)
    BY <1>1 DEF BackupsInductive
  <2>2. scan[l].todo \subseteq Ids \X {"tmp", "final"}
    BY <1>1 DEF BackupTypeOK, Entries
  <2>3. \A c \in Ids : dir[c] = "final" => dir'[c] = "final"
    BY <1>1 DEF OthersStay, BackupKept
  <2>4. \A e \in scan[l].todo : e[1] \in Ids
    BY <2>2
  <2> QED BY <1>1, <2>1, <2>3, <2>4 DEF ListFits
<1> QED BY <1>1, <1>2, <1>3, <1>4, <1>5 DEF BackupsInductive

LEMMA ParentStays ==
    ASSUME BackupTypeOK, NEW b \in Ids, ParentFits(b), OthersStay(b), BackupKept(b), struck' = struck,
           parent'[b] = parent[b], wish'[b] = wish[b], base'[b] = base[b], gen'[b] = gen[b]
    PROVE  ParentFits(b)'
<1>1. parent[b] # 0 => parent[b] \in Ids
  BY DEF BackupTypeOK, Ids
<1>2. parent[b] # 0 => parent[b] # b
  BY DEF ParentFits
<1>3. parent[b] # 0 => /\ stage'[parent[b]] = stage[parent[b]] /\ gen'[parent[b]] = gen[parent[b]]
                       /\ dir'[parent[b]] = dir[parent[b]]
  BY <1>1, <1>2 DEF OthersStay
<1> QED BY <1>1, <1>3 DEF ParentFits

\* The greatest of a set of ids, and what --latest and the next incremental backup find
LEMMA Greatest ==
    ASSUME NEW S, S \subseteq Ids, S # {}
    PROVE  \E b \in S : \A c \in S : c <= b
<1> DEFINE Below == {MaxBackups - x : x \in S}
<1>1. \A x \in S : x \in Nat /\ MaxBackups - x \in Nat
  BY SizesAssumption DEF Ids
<1>2. Below \subseteq Nat /\ Below # {}
  BY <1>1
<1>3. PICK n \in Below : \A m \in Below : ~(<<m, n>> \in OpToRel(<, Nat))
  <2> HIDE DEF Below
  <2> QED BY <1>2, WFMin, NatLessThanWellFounded
<1>4. \A m \in Below : ~(m < n)
  <2> HIDE DEF Below
  <2> QED BY <1>2, <1>3 DEF OpToRel
<1>5. PICK b \in S : n = MaxBackups - b
  BY <1>3
<1>6. ASSUME NEW c \in S PROVE c <= b
  <2>1. ~(MaxBackups - c < MaxBackups - b)
    BY <1>4, <1>5
  <2> QED BY <1>1, <2>1, SizesAssumption
<1> QED BY <1>6

LEMMA LatestIs ==
    ASSUME BackupTypeOK
    PROVE  /\ Latest = 0 \/ (Latest \in Ids /\ dir[Latest] = "final")
           /\ Latest \in 0..MaxBackups
           /\ (\A b \in Published : meta[b] = "completed") /\ Published # {} => Latest \in Published
<1> DEFINE completed == {b \in Published : meta[b] = "completed"}
<1>1. Published \subseteq Ids /\ completed \subseteq Published /\ \A b \in Published : dir[b] = "final"
  BY DEF Published
<1>2. completed # {} => Latest \in Published
  <2> SUFFICES ASSUME completed # {}, latest \notin Published
               PROVE  Latest \in Published
    BY DEF Latest
  <2>1. \E b \in completed : \A c \in completed : c <= b
    <3> HIDE DEF completed
    <3> QED BY <1>1, Greatest
  <2>2. Latest = CHOOSE b \in completed : \A c \in completed : c <= b
    BY DEF Latest
  <2>3. Latest \in completed
    <3> HIDE DEF completed
    <3> QED BY <2>1, <2>2
  <2> QED BY <1>1, <2>3
<1>3. completed = {} => Latest = 0 \/ Latest \in Published
  BY DEF Latest
<1>4. Latest = 0 \/ Latest \in Published
  BY <1>2, <1>3
<1>5. \A b \in Ids : b \in 0..MaxBackups
  BY SizesAssumption DEF Ids
<1>6. 0 \in 0..MaxBackups
  BY SizesAssumption
<1> QED BY <1>1, <1>2, <1>4, <1>5, <1>6

LEMMA StepOfStart ==
    ASSUME BackupsInductive, NEW b \in Ids,
           \E w \in Wishes : Start(b, w)
    PROVE  BackupStep(b)
<1>1. BackupTypeOK /\ RecordFits(b) /\ ParentFits(b) /\ (struck \/ FilesFit(b))
  BY DEF BackupsInductive
<1>2. OthersStay(b) /\ scan' = scan /\ struck' = struck
  BY <1>1 DEF Start, files, record, pointers, backupVars, To, BackupTypeOK, OthersStay
<1>3. BackupTypeOK'
  BY <1>1, WishesAssumption DEF Start, files, record, pointers, backupVars, To, BackupTypeOK, Ids, Stages, Ended, Places
<1>4. BackupKept(b)
  BY <1>1 DEF Start, files, record, pointers, backupVars, To, BackupTypeOK, BackupKept, RecordFits, Out, Ended
<1>5. RecordFits(b)'
  BY <1>1 DEF Start, files, record, pointers, backupVars, To, BackupTypeOK, RecordFits, Uncopied, Out, Ended
<1>6. ParentFits(b)'
  BY <1>1 DEF Start, files, record, pointers, backupVars, To, BackupTypeOK, ParentFits, RecordFits, Out, Ended
<1>7. struck \/ FilesFit(b)'
  BY <1>1 DEF Start, files, record, pointers, backupVars, To, BackupTypeOK, FilesFit, RecordFits, Out, Ended
<1> QED BY <1>2, <1>3, <1>4, <1>5, <1>6, <1>7 DEF BackupStep

LEMMA StepOfConnected ==
    ASSUME BackupsInductive, NEW b \in Ids,
           Connected(b) \/ ConnectFails(b)
    PROVE  BackupStep(b)
<1>1. BackupTypeOK /\ RecordFits(b) /\ ParentFits(b) /\ (struck \/ FilesFit(b))
  BY DEF BackupsInductive
<1>2. OthersStay(b) /\ scan' = scan /\ struck' = struck
  BY <1>1 DEF Connected, ConnectFails, files, record, pointers, backupVars, To, BackupTypeOK, OthersStay
<1>3. BackupTypeOK'
  <2>1. stage' \in [Ids -> Stages]
    BY <1>1, WishesAssumption DEF Connected, ConnectFails, files, record, pointers, backupVars, To, BackupTypeOK, Ids, Stages, Ended, Places
  <2>2. UNCHANGED <<wish, parent, dir, meta, kind, base, gen, contents, tick, stale, child, latest, latestTmp, scan, struck>>
    BY DEF Connected, ConnectFails, files, record, pointers, backupVars, To, BackupTypeOK, Ids, Stages, Ended, Places
  <2>3. \A c \in Ids : tick[c] # "off" => stage'[c] \in {"copying", "copied"}
    <3>1. stage[b] \notin {"copying", "copied"}
      BY DEF Connected, ConnectFails
    <3> QED BY <1>1, <1>2, <3>1 DEF BackupTypeOK, OthersStay
  <2> QED BY <1>1, <2>1, <2>2, <2>3 DEF BackupTypeOK
<1>4. BackupKept(b)
  BY <1>1 DEF Connected, ConnectFails, files, record, pointers, backupVars, To, BackupTypeOK, BackupKept, RecordFits, Out, Ended
<1>5. RecordFits(b)'
  BY <1>1 DEF Connected, ConnectFails, files, record, pointers, backupVars, To, BackupTypeOK, RecordFits, Uncopied, Out, Ended
<1>6. ParentFits(b)'
  <2>1. parent'[b] = parent[b] /\ wish'[b] = wish[b] /\ base'[b] = base[b] /\ gen'[b] = gen[b]
    BY <1>1 DEF Connected, ConnectFails, files, record, pointers, backupVars, To
  <2> QED BY <1>1, <1>2, <1>4, <2>1, ParentStays
<1>7. struck \/ FilesFit(b)'
  BY <1>1 DEF Connected, ConnectFails, files, record, pointers, backupVars, To, BackupTypeOK, FilesFit, RecordFits, Out, Ended
<1> QED BY <1>2, <1>3, <1>4, <1>5, <1>6, <1>7 DEF BackupStep

LEMMA StepOfChoose ==
    ASSUME BackupsInductive, NEW b \in Ids,
           Choose(b)
    PROVE  BackupStep(b)
<1>1. BackupTypeOK /\ RecordFits(b) /\ ParentFits(b) /\ (struck \/ FilesFit(b))
  BY DEF BackupsInductive
<1>2. OthersStay(b) /\ scan' = scan /\ struck' = struck
  BY <1>1 DEF Choose, files, record, pointers, backupVars, To, BackupTypeOK, OthersStay
<1>3. BackupTypeOK'
  <2>1. stage' \in [Ids -> Stages]
    BY <1>1, WishesAssumption DEF Choose, files, record, pointers, backupVars, To, BackupTypeOK, Ids, Stages, Ended, Places
  <2>2. parent' \in [Ids -> 0..MaxBackups]
    BY <1>1, LatestIs DEF Choose, files, record, pointers, backupVars, To, BackupTypeOK
  <2>3. kind' \in [Ids -> {"Full", "Incremental"}]
    BY <1>1, WishesAssumption DEF Choose, files, record, pointers, backupVars, To, BackupTypeOK, Ids, Stages, Ended, Places
  <2>4. UNCHANGED <<wish, dir, meta, base, gen, contents, tick, stale, child, latest, latestTmp, scan, struck>>
    BY DEF Choose, files, record, pointers, backupVars, To, BackupTypeOK, Ids, Stages, Ended, Places
  <2>5. \A c \in Ids : tick[c] # "off" => stage'[c] \in {"copying", "copied"}
    <3>1. stage[b] \notin {"copying", "copied"}
      BY DEF Choose
    <3> QED BY <1>1, <1>2, <3>1 DEF BackupTypeOK, OthersStay
  <2> QED BY <1>1, <2>1, <2>2, <2>3, <2>4, <2>5 DEF BackupTypeOK
<1>4. BackupKept(b)
  BY <1>1 DEF Choose, files, record, pointers, backupVars, To, BackupTypeOK, BackupKept, RecordFits, Out, Ended
<1>5. RecordFits(b)'
  BY <1>1 DEF Choose, files, record, pointers, backupVars, To, BackupTypeOK, RecordFits, Uncopied, Out, Ended
<1>6. ParentFits(b)'
  <2>1. CASE parent'[b] = 0
    BY <2>1 DEF ParentFits
  <2>2. CASE parent'[b] # 0
    <3>1. /\ parent' = [parent EXCEPT ![b] = Latest] /\ stage[b] = "choosing" /\ Latest # 0
          /\ wish[b] = "Auto" => Extends(Latest)
      BY <1>1, <2>2 DEF Choose, RecordFits, BackupTypeOK
    <3> DEFINE q == Latest
    <3>2. q \in Ids /\ dir[q] = "final"
      BY <1>1, <3>1, LatestIs
    <3>3. stage[q] \in Out /\ RecordFits(q)
      BY <3>2 DEF BackupsInductive, RecordFits
    <3>4. q # b
      BY <1>1, <3>1, <3>3 DEF Out, Ended
    <3>5. /\ parent'[b] = q /\ base'[b] = 0 /\ wish'[b] = wish[b] /\ gen'[q] = gen[q] /\ dir'[q] = dir[q]
          /\ stage'[q] = stage[q]
      <4>1. parent'[b] = q
        BY <1>1, <3>1 DEF BackupTypeOK
      <4>2. base'[b] = 0 /\ wish' = wish /\ gen' = gen /\ dir' = dir
        BY <1>1, <3>1 DEF Choose, files, RecordFits, Uncopied
      <4>3. stage'[q] = stage[q]
        BY <1>2, <3>2, <3>4 DEF OthersStay
      <4> QED BY <4>1, <4>2, <4>3
    <3>6. wish[b] = "Auto" => gen[q] <= MaxGeneration
      BY <3>1 DEF Extends
    <3> HIDE DEF q
    <3> QED BY <3>2, <3>3, <3>4, <3>5, <3>6 DEF ParentFits
  <2> QED BY <2>1, <2>2
<1>7. struck \/ FilesFit(b)'
  BY <1>1 DEF Choose, files, record, pointers, backupVars, To, BackupTypeOK, FilesFit, RecordFits, Out, Ended
<1> QED BY <1>2, <1>3, <1>4, <1>5, <1>6, <1>7 DEF BackupStep

LEMMA StepOfPin ==
    ASSUME BackupsInductive, NEW b \in Ids,
           WriteChild(b, "pinning", "in-progress", "making")
    PROVE  BackupStep(b)
<1>1. BackupTypeOK /\ RecordFits(b) /\ ParentFits(b) /\ (struck \/ FilesFit(b))
  BY DEF BackupsInductive
<1>2. OthersStay(b) /\ scan' = scan /\ struck' = struck
  BY <1>1 DEF WriteChild, files, record, pointers, backupVars, To, BackupTypeOK, OthersStay
<1>3. BackupTypeOK'
  <2>1. stage' \in [Ids -> Stages]
    BY <1>1, WishesAssumption DEF WriteChild, files, record, pointers, backupVars, To, BackupTypeOK, Ids, Stages, Ended, Places
  <2>2. child' \in [Ids -> {"none", "in-progress", "finalizing", "completed"}]
    BY <1>1, WishesAssumption DEF WriteChild, files, record, pointers, backupVars, To, BackupTypeOK, Ids, Stages, Ended, Places
  <2>3. UNCHANGED <<wish, parent, dir, meta, kind, base, gen, contents, tick, stale, latest, latestTmp, scan, struck>>
    BY DEF WriteChild, files, record, pointers, backupVars, To, BackupTypeOK, Ids, Stages, Ended, Places
  <2>4. \A c \in Ids : tick[c] # "off" => stage'[c] \in {"copying", "copied"}
    <3>1. stage[b] \notin {"copying", "copied"}
      BY DEF WriteChild
    <3> QED BY <1>1, <1>2, <3>1 DEF BackupTypeOK, OthersStay
  <2> QED BY <1>1, <2>1, <2>2, <2>3, <2>4 DEF BackupTypeOK
<1>4. BackupKept(b)
  BY <1>1 DEF WriteChild, files, record, pointers, backupVars, To, BackupTypeOK, BackupKept, RecordFits, Out, Ended
<1>5. RecordFits(b)'
  BY <1>1 DEF WriteChild, files, record, pointers, backupVars, To, BackupTypeOK, RecordFits, Uncopied, Out, Ended
<1>6. ParentFits(b)'
  <2>1. parent'[b] = parent[b] /\ wish'[b] = wish[b] /\ base'[b] = base[b] /\ gen'[b] = gen[b]
    BY <1>1 DEF WriteChild, files, record, pointers, backupVars, To
  <2> QED BY <1>1, <1>2, <1>4, <2>1, ParentStays
<1>7. struck \/ FilesFit(b)'
  BY <1>1 DEF WriteChild, files, record, pointers, backupVars, To, BackupTypeOK, FilesFit, RecordFits, Out, Ended
<1> QED BY <1>2, <1>3, <1>4, <1>5, <1>6, <1>7 DEF BackupStep

LEMMA StepOfMakeDir ==
    ASSUME BackupsInductive, NEW b \in Ids,
           MakeDir(b)
    PROVE  BackupStep(b)
<1>1. BackupTypeOK /\ RecordFits(b) /\ ParentFits(b) /\ (struck \/ FilesFit(b))
  BY DEF BackupsInductive
<1>2. OthersStay(b) /\ scan' = scan /\ struck' = struck
  BY <1>1 DEF MakeDir, files, record, pointers, backupVars, To, BackupTypeOK, OthersStay
<1>3. BackupTypeOK'
  BY <1>1, WishesAssumption DEF MakeDir, files, record, pointers, backupVars, To, BackupTypeOK, Ids, Stages, Ended, Places
<1>4. BackupKept(b)
  BY <1>1 DEF MakeDir, files, record, pointers, backupVars, To, BackupTypeOK, BackupKept, RecordFits, Out, Ended
<1>5. RecordFits(b)'
  BY <1>1 DEF MakeDir, files, record, pointers, backupVars, To, BackupTypeOK, RecordFits, Uncopied, Out, Ended
<1>6. ParentFits(b)'
  BY <1>1 DEF MakeDir, files, record, pointers, backupVars, To, BackupTypeOK, ParentFits, RecordFits, Out, Ended
<1>7. struck \/ FilesFit(b)'
  BY <1>1 DEF MakeDir, files, record, pointers, backupVars, To, BackupTypeOK, FilesFit, RecordFits, Out, Ended
<1> QED BY <1>2, <1>3, <1>4, <1>5, <1>6, <1>7 DEF BackupStep

LEMMA StepOfOpenFirst ==
    ASSUME BackupsInductive, NEW b \in Ids,
           OpenMeta(b, "describing", "opened")
    PROVE  BackupStep(b)
<1>1. BackupTypeOK /\ RecordFits(b) /\ ParentFits(b) /\ (struck \/ FilesFit(b))
  BY DEF BackupsInductive
<1>2. OthersStay(b) /\ scan' = scan /\ struck' = struck
  BY <1>1 DEF OpenMeta, files, record, pointers, backupVars, To, BackupTypeOK, OthersStay
<1>3. BackupTypeOK'
  <2>1. stage' \in [Ids -> Stages]
    BY <1>1, WishesAssumption DEF OpenMeta, files, record, pointers, backupVars, To, BackupTypeOK, Ids, Stages, Ended, Places
  <2>2. meta' \in [Ids -> {"absent", "blank", "running", "completed"}]
    BY <1>1, WishesAssumption DEF OpenMeta, files, record, pointers, backupVars, To, BackupTypeOK, Ids, Stages, Ended, Places
  <2>3. UNCHANGED <<wish, parent, dir, kind, base, gen, contents, tick, stale, child, latest, latestTmp, scan, struck>>
    BY DEF OpenMeta, files, record, pointers, backupVars, To, BackupTypeOK, Ids, Stages, Ended, Places
  <2>4. \A c \in Ids : tick[c] # "off" => stage'[c] \in {"copying", "copied"}
    <3>1. stage[b] \notin {"copying", "copied"}
      BY DEF OpenMeta
    <3> QED BY <1>1, <1>2, <3>1 DEF BackupTypeOK, OthersStay
  <2> QED BY <1>1, <2>1, <2>2, <2>3, <2>4 DEF BackupTypeOK
<1>4. BackupKept(b)
  BY <1>1 DEF OpenMeta, files, record, pointers, backupVars, To, BackupTypeOK, BackupKept, RecordFits, Out, Ended
<1>5. RecordFits(b)'
  BY <1>1 DEF OpenMeta, files, record, pointers, backupVars, To, BackupTypeOK, RecordFits, Uncopied, Out, Ended
<1>6. ParentFits(b)'
  <2>1. parent'[b] = parent[b] /\ wish'[b] = wish[b] /\ base'[b] = base[b] /\ gen'[b] = gen[b]
    BY <1>1 DEF OpenMeta, files, record, pointers, backupVars, To
  <2> QED BY <1>1, <1>2, <1>4, <2>1, ParentStays
<1>7. struck \/ FilesFit(b)'
  BY <1>1 DEF OpenMeta, files, record, pointers, backupVars, To, BackupTypeOK, FilesFit, RecordFits, Out, Ended
<1> QED BY <1>2, <1>3, <1>4, <1>5, <1>6, <1>7 DEF BackupStep

LEMMA StepOfDescribeMeta ==
    ASSUME BackupsInductive, NEW b \in Ids,
           DescribeMeta(b)
    PROVE  BackupStep(b)
<1>1. BackupTypeOK /\ RecordFits(b) /\ ParentFits(b) /\ (struck \/ FilesFit(b))
  BY DEF BackupsInductive
<1>2. OthersStay(b) /\ scan' = scan /\ struck' = struck
  BY <1>1 DEF DescribeMeta, Written, files, record, pointers, backupVars, To, BackupTypeOK, OthersStay
<1>3. BackupTypeOK'
  BY <1>1, WishesAssumption DEF DescribeMeta, Written, files, record, pointers, backupVars, To, BackupTypeOK, Ids, Stages, Ended, Places
<1>4. BackupKept(b)
  BY <1>1 DEF DescribeMeta, Written, files, record, pointers, backupVars, To, BackupTypeOK, BackupKept, RecordFits, Out, Ended
<1>5. RecordFits(b)'
  BY <1>1 DEF DescribeMeta, Written, files, record, pointers, backupVars, To, BackupTypeOK, RecordFits, Uncopied, Out, Ended
<1>6. ParentFits(b)'
  BY <1>1 DEF DescribeMeta, Written, files, record, pointers, backupVars, To, BackupTypeOK, ParentFits, RecordFits, Out, Ended
<1>7. struck \/ FilesFit(b)'
  BY <1>1 DEF DescribeMeta, Written, files, record, pointers, backupVars, To, BackupTypeOK, FilesFit, RecordFits, Out, Ended
<1> QED BY <1>2, <1>3, <1>4, <1>5, <1>6, <1>7 DEF BackupStep

LEMMA StepOfTickOpen ==
    ASSUME BackupsInductive, NEW b \in Ids,
           TickOpen(b)
    PROVE  BackupStep(b)
<1>1. BackupTypeOK /\ RecordFits(b) /\ ParentFits(b) /\ (struck \/ FilesFit(b))
  BY DEF BackupsInductive
<1>2. OthersStay(b) /\ scan' = scan /\ struck' = struck
  BY <1>1 DEF TickOpen, files, record, pointers, backupVars, To, BackupTypeOK, OthersStay
<1>3. BackupTypeOK'
  BY <1>1, WishesAssumption DEF TickOpen, files, record, pointers, backupVars, To, BackupTypeOK, Ids, Stages, Ended, Places
<1>4. BackupKept(b)
  BY <1>1 DEF TickOpen, files, record, pointers, backupVars, To, BackupTypeOK, BackupKept, RecordFits, Out, Ended
<1>5. RecordFits(b)'
  BY <1>1 DEF TickOpen, files, record, pointers, backupVars, To, BackupTypeOK, RecordFits, Uncopied, Out, Ended
<1>6. ParentFits(b)'
  BY <1>1 DEF TickOpen, files, record, pointers, backupVars, To, BackupTypeOK, ParentFits, RecordFits, Out, Ended
<1>7. struck \/ FilesFit(b)'
  BY <1>1 DEF TickOpen, files, record, pointers, backupVars, To, BackupTypeOK, FilesFit, RecordFits, Out, Ended
<1> QED BY <1>2, <1>3, <1>4, <1>5, <1>6, <1>7 DEF BackupStep

LEMMA StepOfTickWrite ==
    ASSUME BackupsInductive, NEW b \in Ids,
           TickWrite(b)
    PROVE  BackupStep(b)
<1>1. BackupTypeOK /\ RecordFits(b) /\ ParentFits(b) /\ (struck \/ FilesFit(b))
  BY DEF BackupsInductive
<1>2. OthersStay(b) /\ scan' = scan /\ struck' = struck
  BY <1>1 DEF TickWrite, Written, files, record, pointers, backupVars, To, BackupTypeOK, OthersStay
<1>3. BackupTypeOK'
  BY <1>1, WishesAssumption DEF TickWrite, Written, files, record, pointers, backupVars, To, BackupTypeOK, Ids, Stages, Ended, Places
<1>4. BackupKept(b)
  BY <1>1 DEF TickWrite, Written, files, record, pointers, backupVars, To, BackupTypeOK, BackupKept, RecordFits, Out, Ended
<1>5. RecordFits(b)'
  BY <1>1 DEF TickWrite, Written, files, record, pointers, backupVars, To, BackupTypeOK, RecordFits, Uncopied, Out, Ended
<1>6. ParentFits(b)'
  BY <1>1 DEF TickWrite, Written, files, record, pointers, backupVars, To, BackupTypeOK, ParentFits, RecordFits, Out, Ended
<1>7. struck \/ FilesFit(b)'
  BY <1>1 DEF TickWrite, Written, files, record, pointers, backupVars, To, BackupTypeOK, FilesFit, RecordFits, Out, Ended
<1> QED BY <1>2, <1>3, <1>4, <1>5, <1>6, <1>7 DEF BackupStep

LEMMA StepOfCopy ==
    ASSUME BackupsInductive, NEW b \in Ids,
           Copy(b)
    PROVE  BackupStep(b)
<1>1. BackupTypeOK /\ RecordFits(b) /\ ParentFits(b) /\ (struck \/ FilesFit(b))
  BY DEF BackupsInductive
<1>0. \/ /\ parent[b] # 0 /\ gen[parent[b]] \in Nat /\ Cardinality(Incremental) \in Nat
         /\ gen' = [gen EXCEPT ![b] = gen[parent[b]] + 1]
         /\ gen[parent[b]] + 1 \in 0..MaxBackups
         /\ gen[parent[b]] + 1 <= Cardinality(Incremental) + 1
      \/ gen' = gen /\ base' = base
  <2> SUFFICES ASSUME parent[b] # 0, gen' = [gen EXCEPT ![b] = gen[parent[b]] + 1]
               PROVE  /\ gen[parent[b]] \in Nat /\ Cardinality(Incremental) \in Nat
                      /\ gen[parent[b]] + 1 \in 0..MaxBackups
                      /\ gen[parent[b]] + 1 <= Cardinality(Incremental) + 1
    BY DEF Copy
  <2>1. parent[b] \in Ids
    BY <1>1 DEF BackupTypeOK, Ids
  <2>2. gen[parent[b]] <= Cardinality(Incremental) /\ gen[parent[b]] \in Nat
    BY <1>1, <2>1 DEF BackupsInductive, BackupTypeOK
  <2>3. gen[b] = 0
    BY <1>1 DEF Copy, RecordFits, Uncopied
  <2>4. Cardinality(Incremental) \in Nat /\ Cardinality(Incremental) + 1 <= MaxBackups
    BY <1>1, <2>3, IncrementalCounted
  <2> QED BY <2>2, <2>4, SizesAssumption
<1>2. OthersStay(b) /\ scan' = scan /\ struck' = struck
  BY <1>1 DEF Copy, files, record, pointers, backupVars, To, BackupTypeOK, OthersStay
<1>3. BackupTypeOK'
  <2>1. stage' \in [Ids -> Stages]
    BY <1>1, WishesAssumption DEF Copy, files, record, pointers, backupVars, To, BackupTypeOK, Ids, Stages, Ended, Places
  <2>2. contents' \in [Ids -> {"none", "part", "whole", "damaged"}]
    BY <1>1, WishesAssumption DEF Copy, files, record, pointers, backupVars, To, BackupTypeOK, Ids, Stages, Ended, Places
  <2>3. base' \in [Ids -> 0..MaxBackups]
    BY <1>1, WishesAssumption DEF Copy, files, record, pointers, backupVars, To, BackupTypeOK, Ids, Stages, Ended, Places
  <2>4. gen' \in [Ids -> 0..MaxBackups]
    BY <1>1, <1>0 DEF BackupTypeOK
  <2>5. kind' \in [Ids -> {"Full", "Incremental"}]
    BY <1>1, WishesAssumption DEF Copy, files, record, pointers, backupVars, To, BackupTypeOK, Ids, Stages, Ended, Places
  <2>6. UNCHANGED <<wish, parent, dir, meta, tick, stale, child, latest, latestTmp, scan, struck>>
    BY DEF Copy, files, record, pointers, backupVars, To, BackupTypeOK, Ids, Stages, Ended, Places
  <2>7. \A c \in Ids : tick[c] # "off" => stage'[c] \in {"copying", "copied"}
    BY <1>1, WishesAssumption DEF Copy, files, record, pointers, backupVars, To, BackupTypeOK, Ids, Stages, Ended, Places
  <2> QED BY <1>1, <2>1, <2>2, <2>3, <2>4, <2>5, <2>6, <2>7 DEF BackupTypeOK
<1>4. BackupKept(b)
  <2>1. stage[b] \notin Out /\ (dir[b] = "final" => dir'[b] = "final")
    BY DEF Copy, Out, Ended
  <2>2. gen[b] = 0 /\ b \in DOMAIN gen
    BY <1>1 DEF Copy, RecordFits, Uncopied, BackupTypeOK
  <2>3. gen'[b] = gen[b] \/ gen'[b] <= Cardinality(Incremental) + 1
    BY <1>0, <2>2
  <2> QED BY <2>1, <2>2, <2>3 DEF BackupKept
<1>5. RecordFits(b)'
  BY <1>1 DEF Copy, files, record, pointers, backupVars, To, BackupTypeOK, RecordFits, Uncopied, Out, Ended
<1>6. ParentFits(b)'
  <2> SUFFICES ASSUME parent[b] # 0 PROVE ParentFits(b)'
    BY DEF Copy, ParentFits
  <2> DEFINE q == parent[b]
  <2>1. q \in Ids /\ q # b /\ stage[q] \in Out
    BY <1>1 DEF ParentFits, BackupTypeOK, Ids
  <2>2. stage'[q] = stage[q] /\ gen'[q] = gen[q] /\ dir' = dir /\ wish' = wish /\ parent' = parent /\ struck' = struck
    BY <1>2, <2>1 DEF OthersStay, Copy
  <2>3. base'[b] # 0 => gen'[b] = gen[q] + 1
    <3>1. base[b] = 0 /\ b \in DOMAIN gen /\ b \in DOMAIN base
      BY <1>1 DEF Copy, RecordFits, Uncopied, BackupTypeOK
    <3> QED BY <1>0, <3>1
  <2> QED BY <1>1, <2>1, <2>2, <2>3 DEF ParentFits
<1>7. struck \/ FilesFit(b)'
  BY <1>1 DEF Copy, files, record, pointers, backupVars, To, BackupTypeOK, FilesFit, RecordFits, Out, Ended
<1> QED BY <1>2, <1>3, <1>4, <1>5, <1>6, <1>7 DEF BackupStep

LEMMA StepOfCopyFails ==
    ASSUME BackupsInductive, NEW b \in Ids,
           CopyFails(b)
    PROVE  BackupStep(b)
<1>1. BackupTypeOK /\ RecordFits(b) /\ ParentFits(b) /\ (struck \/ FilesFit(b))
  BY DEF BackupsInductive
<1>2. OthersStay(b) /\ scan' = scan /\ struck' = struck
  BY <1>1 DEF CopyFails, files, record, pointers, backupVars, To, BackupTypeOK, OthersStay
<1>3. BackupTypeOK'
  <2>1. stage' \in [Ids -> Stages] /\ tick' \in [Ids -> {"off", "idle", "writing"}]
    BY <1>1 DEF CopyFails, To, BackupTypeOK, Stages, Ended
  <2>2. dir' \in [Ids -> Places]
    BY <1>1 DEF CopyFails, files, BackupTypeOK, Places
  <2>3. meta' \in [Ids -> {"absent", "blank", "running", "completed"}]
    BY <1>1 DEF CopyFails, files, BackupTypeOK
  <2>4. contents' \in [Ids -> {"none", "part", "whole", "damaged"}]
    BY <1>1 DEF CopyFails, files, BackupTypeOK
  <2>5. UNCHANGED <<wish, parent, kind, base, gen, stale, child, latest, latestTmp, scan, struck>>
    BY DEF CopyFails, record, pointers
  <2>6. \A c \in Ids : tick'[c] # "off" => stage'[c] \in {"copying", "copied"}
    <3>1. tick'[b] = "off"
      BY <1>1 DEF CopyFails, BackupTypeOK
    <3> QED BY <1>1, <1>2, <3>1 DEF BackupTypeOK, OthersStay
  <2> QED BY <1>1, <2>1, <2>2, <2>3, <2>4, <2>5, <2>6 DEF BackupTypeOK
<1>4. BackupKept(b)
  BY <1>1 DEF CopyFails, files, record, pointers, backupVars, To, BackupTypeOK, BackupKept, RecordFits, Out, Ended
<1>5. RecordFits(b)'
  BY <1>1 DEF CopyFails, files, record, pointers, backupVars, To, BackupTypeOK, RecordFits, Uncopied, Out, Ended
<1>6. ParentFits(b)'
  <2>1. parent'[b] = parent[b] /\ wish'[b] = wish[b] /\ base'[b] = base[b] /\ gen'[b] = gen[b]
    BY <1>1 DEF CopyFails, files, record, pointers, backupVars, To
  <2> QED BY <1>1, <1>2, <1>4, <2>1, ParentStays
<1>7. struck \/ FilesFit(b)'
  BY <1>1 DEF CopyFails, files, record, pointers, backupVars, To, BackupTypeOK, FilesFit, RecordFits, Out, Ended
<1> QED BY <1>2, <1>3, <1>4, <1>5, <1>6, <1>7 DEF BackupStep

LEMMA StepOfSettle ==
    ASSUME BackupsInductive, NEW b \in Ids,
           Settle(b)
    PROVE  BackupStep(b)
<1>1. BackupTypeOK /\ RecordFits(b) /\ ParentFits(b) /\ (struck \/ FilesFit(b))
  BY DEF BackupsInductive
<1>2. OthersStay(b) /\ scan' = scan /\ struck' = struck
  BY <1>1 DEF Settle, files, record, pointers, backupVars, To, BackupTypeOK, OthersStay
<1>3. BackupTypeOK'
  BY <1>1, WishesAssumption DEF Settle, files, record, pointers, backupVars, To, BackupTypeOK, Ids, Stages, Ended, Places
<1>4. BackupKept(b)
  BY <1>1 DEF Settle, files, record, pointers, backupVars, To, BackupTypeOK, BackupKept, RecordFits, Out, Ended
<1>5. RecordFits(b)'
  BY <1>1 DEF Settle, files, record, pointers, backupVars, To, BackupTypeOK, RecordFits, Uncopied, Out, Ended
<1>6. ParentFits(b)'
  BY <1>1 DEF Settle, files, record, pointers, backupVars, To, BackupTypeOK, ParentFits, RecordFits, Out, Ended
<1>7. struck \/ FilesFit(b)'
  BY <1>1 DEF Settle, files, record, pointers, backupVars, To, BackupTypeOK, FilesFit, RecordFits, Out, Ended
<1> QED BY <1>2, <1>3, <1>4, <1>5, <1>6, <1>7 DEF BackupStep

LEMMA StepOfOpenLast ==
    ASSUME BackupsInductive, NEW b \in Ids,
           OpenMeta(b, "sealing", "sealed")
    PROVE  BackupStep(b)
<1>1. BackupTypeOK /\ RecordFits(b) /\ ParentFits(b) /\ (struck \/ FilesFit(b))
  BY DEF BackupsInductive
<1>2. OthersStay(b) /\ scan' = scan /\ struck' = struck
  BY <1>1 DEF OpenMeta, files, record, pointers, backupVars, To, BackupTypeOK, OthersStay
<1>3. BackupTypeOK'
  <2>1. stage' \in [Ids -> Stages]
    BY <1>1, WishesAssumption DEF OpenMeta, files, record, pointers, backupVars, To, BackupTypeOK, Ids, Stages, Ended, Places
  <2>2. meta' \in [Ids -> {"absent", "blank", "running", "completed"}]
    BY <1>1, WishesAssumption DEF OpenMeta, files, record, pointers, backupVars, To, BackupTypeOK, Ids, Stages, Ended, Places
  <2>3. UNCHANGED <<wish, parent, dir, kind, base, gen, contents, tick, stale, child, latest, latestTmp, scan, struck>>
    BY DEF OpenMeta, files, record, pointers, backupVars, To, BackupTypeOK, Ids, Stages, Ended, Places
  <2>4. \A c \in Ids : tick[c] # "off" => stage'[c] \in {"copying", "copied"}
    <3>1. stage[b] \notin {"copying", "copied"}
      BY DEF OpenMeta
    <3> QED BY <1>1, <1>2, <3>1 DEF BackupTypeOK, OthersStay
  <2> QED BY <1>1, <2>1, <2>2, <2>3, <2>4 DEF BackupTypeOK
<1>4. BackupKept(b)
  BY <1>1 DEF OpenMeta, files, record, pointers, backupVars, To, BackupTypeOK, BackupKept, RecordFits, Out, Ended
<1>5. RecordFits(b)'
  BY <1>1 DEF OpenMeta, files, record, pointers, backupVars, To, BackupTypeOK, RecordFits, Uncopied, Out, Ended
<1>6. ParentFits(b)'
  <2>1. parent'[b] = parent[b] /\ wish'[b] = wish[b] /\ base'[b] = base[b] /\ gen'[b] = gen[b]
    BY <1>1 DEF OpenMeta, files, record, pointers, backupVars, To
  <2> QED BY <1>1, <1>2, <1>4, <2>1, ParentStays
<1>7. struck \/ FilesFit(b)'
  BY <1>1 DEF OpenMeta, files, record, pointers, backupVars, To, BackupTypeOK, FilesFit, RecordFits, Out, Ended
<1> QED BY <1>2, <1>3, <1>4, <1>5, <1>6, <1>7 DEF BackupStep

LEMMA StepOfSealMeta ==
    ASSUME BackupsInductive, NEW b \in Ids,
           SealMeta(b)
    PROVE  BackupStep(b)
<1>1. BackupTypeOK /\ RecordFits(b) /\ ParentFits(b) /\ (struck \/ FilesFit(b))
  BY DEF BackupsInductive
<1>2. OthersStay(b) /\ scan' = scan /\ struck' = struck
  BY <1>1 DEF SealMeta, Written, files, record, pointers, backupVars, To, BackupTypeOK, OthersStay
<1>3. BackupTypeOK'
  BY <1>1, WishesAssumption DEF SealMeta, Written, files, record, pointers, backupVars, To, BackupTypeOK, Ids, Stages, Ended, Places
<1>4. BackupKept(b)
  BY <1>1 DEF SealMeta, Written, files, record, pointers, backupVars, To, BackupTypeOK, BackupKept, RecordFits, Out, Ended
<1>5. RecordFits(b)'
  BY <1>1 DEF SealMeta, Written, files, record, pointers, backupVars, To, BackupTypeOK, RecordFits, Uncopied, Out, Ended
<1>6. ParentFits(b)'
  BY <1>1 DEF SealMeta, Written, files, record, pointers, backupVars, To, BackupTypeOK, ParentFits, RecordFits, Out, Ended
<1>7. struck \/ FilesFit(b)'
  BY <1>1 DEF SealMeta, Written, files, record, pointers, backupVars, To, BackupTypeOK, FilesFit, RecordFits, Out, Ended
<1> QED BY <1>2, <1>3, <1>4, <1>5, <1>6, <1>7 DEF BackupStep

LEMMA StepOfPublish ==
    ASSUME BackupsInductive, NEW b \in Ids,
           Publish(b)
    PROVE  BackupStep(b)
<1>1. BackupTypeOK /\ RecordFits(b) /\ ParentFits(b) /\ (struck \/ FilesFit(b))
  BY DEF BackupsInductive
<1>2. OthersStay(b) /\ scan' = scan /\ struck' = struck
  BY <1>1 DEF Publish, files, record, pointers, backupVars, To, BackupTypeOK, OthersStay
<1>3. BackupTypeOK'
  <2>1. stage' \in [Ids -> Stages]
    BY <1>1, WishesAssumption DEF Publish, files, record, pointers, backupVars, To, BackupTypeOK, Ids, Stages, Ended, Places
  <2>2. dir' \in [Ids -> Places]
    BY <1>1, WishesAssumption DEF Publish, files, record, pointers, backupVars, To, BackupTypeOK, Ids, Stages, Ended, Places
  <2>3. UNCHANGED <<wish, parent, meta, kind, base, gen, contents, tick, stale, child, latest, latestTmp, scan, struck>>
    BY DEF Publish, files, record, pointers, backupVars, To, BackupTypeOK, Ids, Stages, Ended, Places
  <2>4. \A c \in Ids : tick[c] # "off" => stage'[c] \in {"copying", "copied"}
    <3>1. stage[b] \notin {"copying", "copied"}
      BY DEF Publish
    <3> QED BY <1>1, <1>2, <3>1 DEF BackupTypeOK, OthersStay
  <2> QED BY <1>1, <2>1, <2>2, <2>3, <2>4 DEF BackupTypeOK
<1>4. BackupKept(b)
  BY <1>1 DEF Publish, files, record, pointers, backupVars, To, BackupTypeOK, BackupKept, RecordFits, Out, Ended
<1>5. RecordFits(b)'
  BY <1>1 DEF Publish, files, record, pointers, backupVars, To, BackupTypeOK, RecordFits, Uncopied, Out, Ended
<1>6. ParentFits(b)'
  <2>1. parent'[b] = parent[b] /\ wish'[b] = wish[b] /\ base'[b] = base[b] /\ gen'[b] = gen[b]
    BY <1>1 DEF Publish, files, record, pointers, backupVars, To
  <2> QED BY <1>1, <1>2, <1>4, <2>1, ParentStays
<1>7. struck \/ FilesFit(b)'
  BY <1>1 DEF Publish, files, record, pointers, backupVars, To, BackupTypeOK, FilesFit, RecordFits, Out, Ended
<1> QED BY <1>2, <1>3, <1>4, <1>5, <1>6, <1>7 DEF BackupStep

LEMMA StepOfAnnounce ==
    ASSUME BackupsInductive, NEW b \in Ids,
           WriteChild(b, "announcing", "finalizing", "clearing")
    PROVE  BackupStep(b)
<1>1. BackupTypeOK /\ RecordFits(b) /\ ParentFits(b) /\ (struck \/ FilesFit(b))
  BY DEF BackupsInductive
<1>2. OthersStay(b) /\ scan' = scan /\ struck' = struck
  BY <1>1 DEF WriteChild, files, record, pointers, backupVars, To, BackupTypeOK, OthersStay
<1>3. BackupTypeOK'
  <2>1. stage' \in [Ids -> Stages]
    BY <1>1, WishesAssumption DEF WriteChild, files, record, pointers, backupVars, To, BackupTypeOK, Ids, Stages, Ended, Places
  <2>2. child' \in [Ids -> {"none", "in-progress", "finalizing", "completed"}]
    BY <1>1, WishesAssumption DEF WriteChild, files, record, pointers, backupVars, To, BackupTypeOK, Ids, Stages, Ended, Places
  <2>3. UNCHANGED <<wish, parent, dir, meta, kind, base, gen, contents, tick, stale, latest, latestTmp, scan, struck>>
    BY DEF WriteChild, files, record, pointers, backupVars, To, BackupTypeOK, Ids, Stages, Ended, Places
  <2>4. \A c \in Ids : tick[c] # "off" => stage'[c] \in {"copying", "copied"}
    <3>1. stage[b] \notin {"copying", "copied"}
      BY DEF WriteChild
    <3> QED BY <1>1, <1>2, <3>1 DEF BackupTypeOK, OthersStay
  <2> QED BY <1>1, <2>1, <2>2, <2>3, <2>4 DEF BackupTypeOK
<1>4. BackupKept(b)
  BY <1>1 DEF WriteChild, files, record, pointers, backupVars, To, BackupTypeOK, BackupKept, RecordFits, Out, Ended
<1>5. RecordFits(b)'
  BY <1>1 DEF WriteChild, files, record, pointers, backupVars, To, BackupTypeOK, RecordFits, Uncopied, Out, Ended
<1>6. ParentFits(b)'
  <2>1. parent'[b] = parent[b] /\ wish'[b] = wish[b] /\ base'[b] = base[b] /\ gen'[b] = gen[b]
    BY <1>1 DEF WriteChild, files, record, pointers, backupVars, To
  <2> QED BY <1>1, <1>2, <1>4, <2>1, ParentStays
<1>7. struck \/ FilesFit(b)'
  BY <1>1 DEF WriteChild, files, record, pointers, backupVars, To, BackupTypeOK, FilesFit, RecordFits, Out, Ended
<1> QED BY <1>2, <1>3, <1>4, <1>5, <1>6, <1>7 DEF BackupStep

LEMMA StepOfPoint ==
    ASSUME BackupsInductive, NEW b \in Ids,
           ClearLatestTmp(b) \/ WriteLatestTmp(b, "pointing", "renaming") \/ RenameLatest(b, "renaming", "unpointing") \/ RemoveLatest(b) \/ WriteLatestTmp(b, "repointing", "rerenaming") \/ RenameLatest(b, "rerenaming", "failed")
    PROVE  BackupStep(b)
<1>1. BackupTypeOK /\ RecordFits(b) /\ ParentFits(b) /\ (struck \/ FilesFit(b))
  BY DEF BackupsInductive
<1>2. OthersStay(b) /\ scan' = scan /\ struck' = struck
  BY <1>1 DEF ClearLatestTmp, WriteLatestTmp, RenameLatest, RemoveLatest, files, record, pointers, backupVars, To, BackupTypeOK, OthersStay
<1>3. BackupTypeOK'
  <2>1. stage' \in [Ids -> Stages]
    BY <1>1, WishesAssumption DEF ClearLatestTmp, WriteLatestTmp, RenameLatest, RemoveLatest, files, record, pointers, backupVars, To, BackupTypeOK, Ids, Stages, Ended, Places
  <2>2. latest' \in 0..MaxBackups
    <3>1. b \in 0..MaxBackups /\ 0 \in 0..MaxBackups
      BY SizesAssumption DEF Ids
    <3> QED BY <1>1, <3>1 DEF ClearLatestTmp, WriteLatestTmp, RenameLatest, RemoveLatest, files, record, pointers, backupVars, To, BackupTypeOK
  <2>3. latestTmp' \in 0..MaxBackups
    <3>1. b \in 0..MaxBackups /\ 0 \in 0..MaxBackups
      BY SizesAssumption DEF Ids
    <3> QED BY <1>1, <3>1 DEF ClearLatestTmp, WriteLatestTmp, RenameLatest, RemoveLatest, files, record, pointers, backupVars, To, BackupTypeOK
  <2>4. UNCHANGED <<wish, parent, dir, meta, kind, base, gen, contents, tick, stale, child, scan, struck>>
    BY DEF ClearLatestTmp, WriteLatestTmp, RenameLatest, RemoveLatest, files, record, pointers, backupVars, To, BackupTypeOK, Ids, Stages, Ended, Places
  <2>5. \A c \in Ids : tick[c] # "off" => stage'[c] \in {"copying", "copied"}
    <3>1. stage[b] \notin {"copying", "copied"}
      BY DEF ClearLatestTmp, WriteLatestTmp, RenameLatest, RemoveLatest
    <3> QED BY <1>1, <1>2, <3>1 DEF BackupTypeOK, OthersStay
  <2> QED BY <1>1, <2>1, <2>2, <2>3, <2>4, <2>5 DEF BackupTypeOK
<1>4. BackupKept(b)
  BY <1>1 DEF ClearLatestTmp, WriteLatestTmp, RenameLatest, RemoveLatest, files, record, pointers, backupVars, To, BackupTypeOK, BackupKept, RecordFits, Out, Ended
<1>5. RecordFits(b)'
  BY <1>1 DEF ClearLatestTmp, WriteLatestTmp, RenameLatest, RemoveLatest, files, record, pointers, backupVars, To, BackupTypeOK, RecordFits, Uncopied, Out, Ended
<1>6. ParentFits(b)'
  <2>1. parent'[b] = parent[b] /\ wish'[b] = wish[b] /\ base'[b] = base[b] /\ gen'[b] = gen[b]
    BY <1>1 DEF ClearLatestTmp, WriteLatestTmp, RenameLatest, RemoveLatest, files, record, pointers, backupVars, To
  <2> QED BY <1>1, <1>2, <1>4, <2>1, ParentStays
<1>7. struck \/ FilesFit(b)'
  BY <1>1 DEF ClearLatestTmp, WriteLatestTmp, RenameLatest, RemoveLatest, files, record, pointers, backupVars, To, BackupTypeOK, FilesFit, RecordFits, Out, Ended
<1> QED BY <1>2, <1>3, <1>4, <1>5, <1>6, <1>7 DEF BackupStep

LEMMA StepOfNote ==
    ASSUME BackupsInductive, NEW b \in Ids,
           WriteChild(b, "noting", "completed", "done")
    PROVE  BackupStep(b)
<1>1. BackupTypeOK /\ RecordFits(b) /\ ParentFits(b) /\ (struck \/ FilesFit(b))
  BY DEF BackupsInductive
<1>2. OthersStay(b) /\ scan' = scan /\ struck' = struck
  BY <1>1 DEF WriteChild, files, record, pointers, backupVars, To, BackupTypeOK, OthersStay
<1>3. BackupTypeOK'
  <2>1. stage' \in [Ids -> Stages]
    BY <1>1, WishesAssumption DEF WriteChild, files, record, pointers, backupVars, To, BackupTypeOK, Ids, Stages, Ended, Places
  <2>2. child' \in [Ids -> {"none", "in-progress", "finalizing", "completed"}]
    BY <1>1, WishesAssumption DEF WriteChild, files, record, pointers, backupVars, To, BackupTypeOK, Ids, Stages, Ended, Places
  <2>3. UNCHANGED <<wish, parent, dir, meta, kind, base, gen, contents, tick, stale, latest, latestTmp, scan, struck>>
    BY DEF WriteChild, files, record, pointers, backupVars, To, BackupTypeOK, Ids, Stages, Ended, Places
  <2>4. \A c \in Ids : tick[c] # "off" => stage'[c] \in {"copying", "copied"}
    <3>1. stage[b] \notin {"copying", "copied"}
      BY DEF WriteChild
    <3> QED BY <1>1, <1>2, <3>1 DEF BackupTypeOK, OthersStay
  <2> QED BY <1>1, <2>1, <2>2, <2>3, <2>4 DEF BackupTypeOK
<1>4. BackupKept(b)
  BY <1>1 DEF WriteChild, files, record, pointers, backupVars, To, BackupTypeOK, BackupKept, RecordFits, Out, Ended
<1>5. RecordFits(b)'
  BY <1>1 DEF WriteChild, files, record, pointers, backupVars, To, BackupTypeOK, RecordFits, Uncopied, Out, Ended
<1>6. ParentFits(b)'
  <2>1. parent'[b] = parent[b] /\ wish'[b] = wish[b] /\ base'[b] = base[b] /\ gen'[b] = gen[b]
    BY <1>1 DEF WriteChild, files, record, pointers, backupVars, To
  <2> QED BY <1>1, <1>2, <1>4, <2>1, ParentStays
<1>7. struck \/ FilesFit(b)'
  BY <1>1 DEF WriteChild, files, record, pointers, backupVars, To, BackupTypeOK, FilesFit, RecordFits, Out, Ended
<1> QED BY <1>2, <1>3, <1>4, <1>5, <1>6, <1>7 DEF BackupStep

LEMMA StepOfCrash ==
    ASSUME BackupsInductive, NEW b \in Ids,
           Crash(b)
    PROVE  BackupStep(b)
<1>1. BackupTypeOK /\ RecordFits(b) /\ ParentFits(b) /\ (struck \/ FilesFit(b))
  BY DEF BackupsInductive
<1>2. OthersStay(b) /\ scan' = scan /\ struck' = struck
  BY <1>1 DEF Crash, Live, files, record, pointers, backupVars, To, BackupTypeOK, OthersStay
<1>3. BackupTypeOK'
  BY <1>1, WishesAssumption DEF Crash, Live, files, record, pointers, backupVars, To, BackupTypeOK, Ids, Stages, Ended, Places
<1>4. BackupKept(b)
  BY <1>1 DEF Crash, Live, files, record, pointers, backupVars, To, BackupTypeOK, BackupKept, RecordFits, Out, Ended
<1>5. RecordFits(b)'
  BY <1>1 DEF Crash, Live, files, record, pointers, backupVars, To, BackupTypeOK, RecordFits, Uncopied, Out, Ended
<1>6. ParentFits(b)'
  BY <1>1 DEF Crash, Live, files, record, pointers, backupVars, To, BackupTypeOK, ParentFits, RecordFits, Out, Ended
<1>7. struck \/ FilesFit(b)'
  BY <1>1 DEF Crash, Live, files, record, pointers, backupVars, To, BackupTypeOK, FilesFit, RecordFits, Out, Ended
<1> QED BY <1>2, <1>3, <1>4, <1>5, <1>6, <1>7 DEF BackupStep

LEMMA StepOfAge ==
    ASSUME BackupsInductive, NEW b \in Ids,
           Age(b)
    PROVE  BackupStep(b)
<1>1. BackupTypeOK /\ RecordFits(b) /\ ParentFits(b) /\ (struck \/ FilesFit(b))
  BY DEF BackupsInductive
<1>2. OthersStay(b) /\ scan' = scan /\ struck' = struck
  BY <1>1 DEF Age, files, record, pointers, backupVars, To, BackupTypeOK, OthersStay
<1>3. BackupTypeOK'
  BY <1>1, WishesAssumption DEF Age, files, record, pointers, backupVars, To, BackupTypeOK, Ids, Stages, Ended, Places
<1>4. BackupKept(b)
  BY <1>1 DEF Age, files, record, pointers, backupVars, To, BackupTypeOK, BackupKept, RecordFits, Out, Ended
<1>5. RecordFits(b)'
  BY <1>1 DEF Age, files, record, pointers, backupVars, To, BackupTypeOK, RecordFits, Uncopied, Out, Ended
<1>6. ParentFits(b)'
  BY <1>1 DEF Age, files, record, pointers, backupVars, To, BackupTypeOK, ParentFits, RecordFits, Out, Ended
<1>7. struck \/ FilesFit(b)'
  BY <1>1 DEF Age, files, record, pointers, backupVars, To, BackupTypeOK, FilesFit, RecordFits, Out, Ended
<1> QED BY <1>2, <1>3, <1>4, <1>5, <1>6, <1>7 DEF BackupStep

\* The steps of a listing
LEMMA ListMoves ==
    ASSUME BackupsInductive, NEW l \in Listers, UNCHANGED backupVars, BackupTypeOK', struck => struck',
           struck' \/ /\ \A b \in Ids : FilesFit(b)'
                      /\ \A b \in Ids : dir[b] = "final" => dir'[b] = "final"
                      /\ ListFits(l)',
           \A k \in Listers \ {l} : scan'[k] = scan[k],
           \A b \in Ids : dir'[b] = "final" => dir[b] = "final"
    PROVE  BackupsInductive'
<1>1. /\ stage' = stage /\ wish' = wish /\ parent' = parent /\ kind' = kind /\ base' = base /\ gen' = gen
      /\ child' = child
  BY DEF backupVars, record
<1>2. ASSUME NEW b \in Ids PROVE RecordFits(b)'
  <2>1. RecordFits(b)
    BY DEF BackupsInductive
  <2> QED BY <1>1, <2>1 DEF RecordFits
<1>3. ASSUME NEW b \in Ids PROVE ParentFits(b)'
  <2>1. ParentFits(b)
    BY DEF BackupsInductive
  <2>2. parent[b] # 0 => parent[b] \in Ids
    BY DEF BackupsInductive, BackupTypeOK, Ids
  <2> QED BY <1>1, <2>1, <2>2 DEF ParentFits
<1>4. ASSUME NEW b \in Ids PROVE gen'[b] <= Cardinality(Incremental')
  <2>1. Incremental' = Incremental
    BY <1>1 DEF Incremental
  <2> QED BY <1>1, <2>1 DEF BackupsInductive
<1>5. ASSUME ~struck', NEW k \in Listers PROVE ListFits(k)'
  <2>1. CASE k = l
    BY <1>5, <2>1
  <2>2. CASE k # l
    <3>1. ListFits(k) /\ scan'[k] = scan[k]
      BY <1>5, <2>2 DEF BackupsInductive
    <3>2. \A e \in scan[k].todo : e[1] \in Ids
      BY DEF BackupsInductive, BackupTypeOK, Entries
    <3> QED BY <1>5, <3>1, <3>2 DEF ListFits
  <2> QED BY <2>1, <2>2
<1> QED BY <1>2, <1>3, <1>4, <1>5 DEF BackupsInductive

\* Only what a listing keeps of its work changes
LEMMA ListReads ==
    ASSUME BackupsInductive, NEW l \in Listers, UNCHANGED <<files, backupVars, struck>>,
           NEW s \in [todo : SUBSET Entries, doomed : SUBSET Entries, victim : Entries \cup {NoEntry}, on : BOOLEAN],
           scan' = [scan EXCEPT ![l] = s],
           struck \/ /\ \A e \in s.todo : e[2] = "final" => dir[e[1]] = "final"
                     /\ \A e \in s.doomed : e[2] # "final"
    PROVE  BackupsInductive'
<1>1. UNCHANGED <<stage, wish, parent, dir, meta, contents, kind, base, gen, tick, stale, child, latest, latestTmp, struck>>
  BY DEF files, backupVars, record, pointers
<1>2. BackupTypeOK /\ (struck \/ \A b \in Ids : FilesFit(b))
  BY DEF BackupsInductive
<1>3. scan' \in [Listers -> [todo : SUBSET Entries, doomed : SUBSET Entries,
                             victim : Entries \cup {NoEntry}, on : BOOLEAN]]
  BY <1>2 DEF BackupTypeOK
<1>4. BackupTypeOK'
  BY <1>1, <1>2, <1>3 DEF BackupTypeOK
<1>5. scan'[l] = s /\ \A k \in Listers \ {l} : scan'[k] = scan[k]
  BY <1>2 DEF BackupTypeOK
<1>6. struck' \/ ListFits(l)'
  BY <1>1, <1>5 DEF ListFits
<1>7. struck' \/ \A b \in Ids : FilesFit(b)'
  BY <1>1, <1>2 DEF FilesFit
<1> QED BY <1>1, <1>4, <1>5, <1>6, <1>7, ListMoves

LEMMA StepOfReading ==
    ASSUME BackupsInductive, NEW l \in Listers, ListStart(l) \/ ListEntry(l) \/ RemoveEntry(l) \/ ListEnd(l)
    PROVE  BackupsInductive'
<1> DEFINE Scans == [todo : SUBSET Entries, doomed : SUBSET Entries, victim : Entries \cup {NoEntry}, on : BOOLEAN]
<1>1. scan \in [Listers -> Scans] /\ scan[l] \in Scans
  BY DEF BackupsInductive, BackupTypeOK
<1>2. struck \/ (ListFits(l) /\ \A b \in Ids : FilesFit(b))
  BY DEF BackupsInductive
<1>3. NotListing \in Scans /\ NotListing.todo = {} /\ NotListing.doomed = {}
  BY DEF NotListing
<1>4. CASE ListEnd(l)
  <2>1. UNCHANGED <<files, backupVars, struck>> /\ scan' = [scan EXCEPT ![l] = NotListing]
    BY <1>4 DEF ListEnd
  <2> QED BY <1>3, <2>1, ListReads
<1>5. CASE ListStart(l)
  <2>1. PICK s : s = [NotListing EXCEPT !.on = TRUE, !.todo = {e \in Entries : dir[e[1]] = e[2]}]
    OBVIOUS
  <2>2. s \in Scans /\ s.doomed = {} /\ s.todo = {e \in Entries : dir[e[1]] = e[2]}
    BY <1>3, <2>1 DEF NotListing
  <2>3. \A e \in s.todo : e[2] = "final" => dir[e[1]] = "final"
    BY <2>2
  <2>4. UNCHANGED <<files, backupVars, struck>> /\ scan' = [scan EXCEPT ![l] = s]
    BY <1>5, <2>1 DEF ListStart
  <2> QED BY <2>2, <2>3, <2>4, ListReads
<1>6. CASE ListEntry(l)
  <2>1. PICK e \in scan[l].todo :
            /\ scan' = [scan EXCEPT ![l].todo = @ \ {e},
                                    ![l].doomed = IF Readable(e[1], e[2]) THEN @ ELSE @ \cup {e}]
            /\ UNCHANGED <<files, backupVars, struck>>
    BY <1>6 DEF ListEntry
  <2>2. PICK s : s = [scan[l] EXCEPT !.todo = @ \ {e}, !.doomed = IF Readable(e[1], e[2]) THEN @ ELSE @ \cup {e}]
    OBVIOUS
  <2>3. /\ s \in Scans /\ s.todo = scan[l].todo \ {e} /\ e \in Entries
        /\ s.doomed = IF Readable(e[1], e[2]) THEN scan[l].doomed ELSE scan[l].doomed \cup {e}
    BY <1>1, <2>2
  <2>4. scan' = [scan EXCEPT ![l] = s]
    BY <1>1, <2>1, <2>2
  <2>5. ~struck /\ e[2] = "final" => Readable(e[1], e[2])
    <3> SUFFICES ASSUME ~struck, e[2] = "final" PROVE Readable(e[1], e[2])
      OBVIOUS
    <3>1. e[1] \in Ids /\ dir[e[1]] = "final"
      BY <1>2, <2>3 DEF ListFits, Entries
    <3>2. meta[e[1]] = "completed"
      BY <1>2, <3>1 DEF FilesFit
    <3> QED BY <3>1, <3>2 DEF Readable
  <2>6. struck \/ /\ \A d \in s.todo : d[2] = "final" => dir[d[1]] = "final"
                  /\ \A d \in s.doomed : d[2] # "final"
    BY <1>2, <2>3, <2>5 DEF ListFits
  <2> HIDE DEF Scans
  <2> QED BY <2>1, <2>3, <2>4, <2>6, ListReads DEF Scans
<1>7. CASE RemoveEntry(l)
  <2>1. PICK e \in scan[l].doomed :
            /\ scan' = [scan EXCEPT ![l].doomed = @ \ {e},
                                    ![l].victim = IF dir[e[1]] = e[2] THEN e ELSE NoEntry]
            /\ UNCHANGED <<files, backupVars, struck>>
    BY <1>7 DEF RemoveEntry
  <2>2. PICK s : s = [scan[l] EXCEPT !.doomed = @ \ {e}, !.victim = IF dir[e[1]] = e[2] THEN e ELSE NoEntry]
    OBVIOUS
  <2>3. s \in Scans /\ s.todo = scan[l].todo /\ s.doomed = scan[l].doomed \ {e}
    BY <1>1, <2>2
  <2>4. scan' = [scan EXCEPT ![l] = s]
    BY <1>1, <2>1, <2>2
  <2>5. struck \/ /\ \A d \in s.todo : d[2] = "final" => dir[d[1]] = "final"
                  /\ \A d \in s.doomed : d[2] # "final"
    BY <1>2, <2>3 DEF ListFits
  <2> HIDE DEF Scans
  <2> QED BY <2>1, <2>3, <2>4, <2>5, ListReads DEF Scans
<1> QED BY <1>4, <1>5, <1>6, <1>7

\* What is removed without striking is the directory of a backup that failed or crashed
LEMMA StepOfRemoving ==
    ASSUME BackupsInductive, NEW l \in Listers, RemoveFiles(l) \/ RemoveDir(l)
    PROVE  BackupsInductive'
<1> DEFINE b == scan[l].victim[1]
<1>1. /\ BackupTypeOK /\ scan[l].victim \in Entries /\ b \in Ids
      /\ struck \/ (ListFits(l) /\ \A c \in Ids : FilesFit(c))
  <2>1. scan[l].victim \in Entries \cup {NoEntry} /\ scan[l].victim # NoEntry
    BY DEF BackupsInductive, BackupTypeOK, RemoveFiles, RemoveDir
  <2>2. scan[l].victim[1] \in Ids
    BY <2>1 DEF Entries
  <2> QED BY <2>1, <2>2 DEF BackupsInductive
<1>2. UNCHANGED backupVars /\ struck' = (struck \/ Live(b) \/ dir[b] = "final")
  BY DEF RemoveFiles, RemoveDir
<1>3. UNCHANGED <<stage, wish, parent, kind, base, gen, tick, stale, child, latest, latestTmp>>
  BY <1>2 DEF backupVars, record, pointers
<1>4. \A c \in Ids \ {b} : dir'[c] = dir[c] /\ meta'[c] = meta[c] /\ contents'[c] = contents[c]
  BY <1>1 DEF RemoveFiles, RemoveDir, BackupTypeOK
<1>5. \A c \in Ids : dir'[c] = "final" => dir[c] = "final"
  BY <1>1 DEF RemoveFiles, RemoveDir, BackupTypeOK
<1>6. /\ dir' \in [Ids -> Places]
      /\ meta' \in [Ids -> {"absent", "blank", "running", "completed"}]
      /\ contents' \in [Ids -> {"none", "part", "whole", "damaged"}]
  <2>1. dir' = dir \/ dir' = [dir EXCEPT ![b] = "none"]
    BY DEF RemoveFiles, RemoveDir
  <2>2. meta' = meta \/ meta' = [meta EXCEPT ![b] = "absent"]
    BY DEF RemoveFiles, RemoveDir
  <2>3. \/ contents' = contents \/ contents' = [contents EXCEPT ![b] = "none"]
        \/ contents' = [contents EXCEPT ![b] = IF contents[b] = "none" THEN contents[b] ELSE "damaged"]
    BY DEF RemoveFiles, RemoveDir
  <2>4. /\ dir \in [Ids -> {"none", "tmp", "final"}] /\ b \in Ids
        /\ meta \in [Ids -> {"absent", "blank", "running", "completed"}]
        /\ contents \in [Ids -> {"none", "part", "whole", "damaged"}]
    BY <1>1 DEF BackupTypeOK, Places
  <2> HIDE DEF b
  <2>5. dir' \in [Ids -> Places]
    BY <2>1, <2>4 DEF Places
  <2>6. meta' \in [Ids -> {"absent", "blank", "running", "completed"}]
    BY <2>2, <2>4
  <2>7. contents' \in [Ids -> {"none", "part", "whole", "damaged"}]
    BY <2>3, <2>4
  <2> QED BY <2>5, <2>6, <2>7
<1>7. /\ scan' \in [Listers -> [todo : SUBSET Entries, doomed : SUBSET Entries,
                                victim : Entries \cup {NoEntry}, on : BOOLEAN]]
      /\ \A k \in Listers \ {l} : scan'[k] = scan[k]
      /\ scan'[l].todo = scan[l].todo /\ scan'[l].doomed = scan[l].doomed
  <2>1. scan' = scan \/ scan' = [scan EXCEPT ![l].victim = NoEntry]
    BY DEF RemoveFiles, RemoveDir
  <2> QED BY <1>1, <2>1 DEF BackupTypeOK
<1>8. struck \in BOOLEAN /\ struck' \in BOOLEAN
  BY <1>1, <1>2 DEF BackupTypeOK, Live
<1>9. BackupTypeOK'
  BY <1>1, <1>3, <1>6, <1>7, <1>8 DEF BackupTypeOK
<1>10. ASSUME ~struck'
       PROVE  /\ \A c \in Ids : FilesFit(c)'
              /\ \A c \in Ids : dir[c] = "final" => dir'[c] = "final"
              /\ ListFits(l)'
  <2>1. ~struck /\ ~Live(b) /\ dir[b] # "final"
    BY <1>2, <1>10
  <2>2. stage[b] \in {"idle"} \cup Ended
    BY <2>1 DEF Live
  <2>3. \A c \in Ids : dir[c] = "final" => dir'[c] = "final"
    BY <1>4, <2>1
  <2>4. \A c \in Ids : FilesFit(c)'
    <3> SUFFICES ASSUME NEW c \in Ids PROVE FilesFit(c)'
      OBVIOUS
    <3>1. FilesFit(c)
      BY <1>1, <2>1
    <3>2. CASE c # b
      BY <1>3, <1>4, <3>1, <3>2 DEF FilesFit
    <3>3. CASE c = b /\ stage[b] \in Ended
      BY <1>3, <1>5, <2>1, <3>1, <3>3 DEF FilesFit, Ended
    <3>4. CASE c = b /\ stage[b] = "idle"
      <4>1. dir[b] = "none" /\ meta[b] = "absent" /\ contents[b] = "none"
        BY <3>1, <3>4 DEF FilesFit
      <4>2. dir'[b] = "none" /\ meta'[b] = "absent" /\ contents'[b] = "none"
        BY <1>1, <4>1 DEF RemoveFiles, RemoveDir, BackupTypeOK
      <4> QED BY <1>3, <3>4, <4>2 DEF FilesFit, Ended
    <3> QED BY <2>2, <3>2, <3>3, <3>4
  <2>5. ListFits(l)'
    <3>1. \A e \in scan[l].todo : e[1] \in Ids
      BY <1>1 DEF BackupTypeOK, Entries
    <3> QED BY <1>1, <1>7, <2>1, <2>3, <3>1 DEF ListFits
  <2> QED BY <2>3, <2>4, <2>5
<1> QED BY <1>2, <1>5, <1>7, <1>8, <1>9, <1>10, ListMoves

\* The chain under a published backup has as many backups above the full one as its generation
ChainStands(b) ==
    \E chain \in [0..gen[b] -> Ids] :
        /\ chain[0] = b /\ \A m \in 1..gen[b] : chain[m] = base[chain[m - 1]]
        /\ \A m \in 0..gen[b] : Sound(chain[m]) /\ (kind[chain[m]] = "Full" <=> m = gen[b])

LEMMA PublishedFits ==
    ASSUME BackupsInductive, ~struck, NEW b \in Published
    PROVE  /\ b \in Ids /\ Sound(b) /\ gen[b] \in Nat
           /\ kind[b] = "Full" => gen[b] = 0
           /\ kind[b] # "Full" => base[b] \in Published /\ gen[b] = gen[base[b]] + 1
<1>1. /\ b \in Ids /\ dir[b] = "final" /\ BackupTypeOK /\ RecordFits(b) /\ ParentFits(b) /\ FilesFit(b)
      /\ gen[b] \in Nat /\ base[b] \in 0..MaxBackups /\ parent[b] \in 0..MaxBackups
      /\ kind[b] \in {"Full", "Incremental"}
  BY DEF BackupsInductive, Published, BackupTypeOK
<1>2. Sound(b)
  BY <1>1 DEF Sound, FilesFit
<1>3. kind[b] = "Full" => gen[b] = 0
  BY <1>1 DEF RecordFits
<1>4. kind[b] # "Full" => base[b] \in Published /\ gen[b] = gen[base[b]] + 1
  BY <1>1 DEF RecordFits, ParentFits, Published, Ids
<1> QED BY <1>1, <1>2, <1>3, <1>4

LEMMA ChainsStand ==
    ASSUME BackupsInductive, ~struck
    PROVE  \A b \in Published : ChainStands(b)
<1> DEFINE Broken == {b \in Published : ~ChainStands(b)}
           Gens == {gen[b] : b \in Broken}
<1> SUFFICES ASSUME Broken # {} PROVE FALSE
  OBVIOUS
<1>1. Gens \subseteq Nat /\ Gens # {}
  BY PublishedFits
<1>2. PICK g \in Gens : \A h \in Gens : ~(<<h, g>> \in OpToRel(<, Nat))
  <2> HIDE DEF Gens
  <2> QED BY <1>1, WFMin, NatLessThanWellFounded
<1>3. \A h \in Gens : ~(h < g)
  <2> HIDE DEF Gens
  <2> QED BY <1>1, <1>2 DEF OpToRel
<1>4. PICK b \in Broken : g = gen[b]
  BY <1>2
<1>5. b \in Published /\ ~ChainStands(b) /\ b \in Ids /\ Sound(b) /\ gen[b] \in Nat
  BY <1>4, PublishedFits
<1>6. CASE kind[b] = "Full"
  <2>1. gen[b] = 0
    BY <1>5, <1>6, PublishedFits
  <2>2. PICK chain : chain = [m \in 0..0 |-> b]
    OBVIOUS
  <2>3. chain \in [0..gen[b] -> Ids] /\ chain[0] = b /\ \A m \in 0..gen[b] : m = 0
    BY <1>5, <2>1, <2>2
  <2> QED BY <1>5, <1>6, <2>1, <2>3 DEF ChainStands
<1>7. CASE kind[b] # "Full"
  <2> DEFINE q == base[b]
             n == gen[q]
  <2>1. q \in Published /\ gen[b] = n + 1 /\ n \in Nat
    BY <1>5, <1>7, PublishedFits
  <2>2. ChainStands(q)
    <3> SUFFICES ASSUME ~ChainStands(q) PROVE FALSE
      OBVIOUS
    <3>1. q \in Broken
      BY <2>1
    <3>2. n \in Gens
      BY <3>1
    <3>3. ~(n < g)
      BY <1>3, <3>2
    <3> QED BY <1>4, <2>1, <3>3
  <2>3. PICK chain \in [0..n -> Ids] :
            /\ chain[0] = q /\ \A m \in 1..n : chain[m] = base[chain[m - 1]]
            /\ \A m \in 0..n : Sound(chain[m]) /\ (kind[chain[m]] = "Full" <=> m = n)
    BY <2>2 DEF ChainStands
  <2> DEFINE on == [m \in 0..(n + 1) |-> IF m = 0 THEN b ELSE chain[m - 1]]
  <2> HIDE DEF q, n
  <2>4. \A m \in 1..(n + 1) : m - 1 \in 0..n /\ m \in 0..(n + 1) /\ m # 0
    BY <2>1
  <2>5. \A m \in 0..(n + 1) : m = 0 \/ m \in 1..(n + 1)
    BY <2>1
  <2>6. 0 \in 0..(n + 1)
    BY <2>1
  <2>7. on[0] = b /\ \A m \in 1..(n + 1) : on[m] = chain[m - 1]
    BY <2>4, <2>6
  <2>8. on \in [0..(n + 1) -> Ids]
    BY <1>5, <2>3, <2>4, <2>5
  <2>9. ASSUME NEW m \in 1..(n + 1) PROVE on[m] = base[on[m - 1]]
    <3>1. CASE m = 1
      <4>1. on[1] = chain[0] /\ 1 - 1 = 0
        BY <2>4, <2>7, <3>1
      <4> QED BY <2>3, <2>7, <3>1, <4>1 DEF q
    <3>2. CASE m # 1
      <4>1. m - 1 \in 1..n /\ m - 1 \in 1..(n + 1)
        BY <2>1, <3>2
      <4>2. chain[m - 1] = base[chain[(m - 1) - 1]]
        BY <2>3, <4>1
      <4>3. on[m - 1] = chain[(m - 1) - 1]
        BY <2>7, <4>1
      <4> QED BY <2>7, <4>2, <4>3
    <3> QED BY <3>1, <3>2
  <2>10. ASSUME NEW m \in 0..(n + 1) PROVE Sound(on[m]) /\ (kind[on[m]] = "Full" <=> m = n + 1)
    <3>1. CASE m = 0
      <4>1. m # n + 1
        BY <2>1, <3>1
      <4> QED BY <1>5, <1>7, <2>7, <3>1, <4>1
    <3>2. CASE m \in 1..(n + 1)
      <4>1. m - 1 \in 0..n /\ on[m] = chain[m - 1] /\ (m - 1 = n <=> m = n + 1)
        BY <2>1, <2>4, <2>7, <3>2
      <4> HIDE DEF on
      <4> QED BY <2>3, <4>1
    <3> QED BY <2>5, <3>1, <3>2
  <2>11. gen[b] = n + 1
    BY <2>1
  <2> HIDE DEF on
  <2>12. ChainStands(b)
    <3>1. on \in [0..gen[b] -> Ids] /\ on[0] = b
      BY <2>7, <2>8, <2>11
    <3>2. \A m \in 1..gen[b] : on[m] = base[on[m - 1]]
      BY <2>9, <2>11
    <3>3. \A m \in 0..gen[b] : Sound(on[m]) /\ (kind[on[m]] = "Full" <=> m = gen[b])
      BY <2>10, <2>11
    <3> QED BY <3>1, <3>2, <3>3 DEF ChainStands
  <2> QED BY <1>5, <2>12
<1> QED BY <1>6, <1>7

LEMMA BackupsFollow == BackupsInductive => BackupInv
<1> SUFFICES ASSUME BackupsInductive PROVE BackupInv
  OBVIOUS
<1>1. BackupTypeOK /\ \A b \in Ids : RecordFits(b) /\ ParentFits(b)
  BY DEF BackupsInductive
<1>2. ASSUME ~struck, NEW b \in Published
      PROVE  Restorable(b) /\ meta[b] = "completed" /\ contents[b] = "whole"
  <2>1. ChainStands(b) /\ Sound(b)
    BY <1>2, ChainsStand, PublishedFits
  <2>2. gen[b] \in 0..MaxBackups
    BY <1>1 DEF BackupTypeOK, Published
  <2> QED BY <2>1, <2>2 DEF ChainStands, Restorable, Sound
<1>3. PublishedIsRestorable
  BY <1>2 DEF PublishedIsRestorable
<1>4. \A b \in Ids : base[b] # 0 => child[b] # "none"
  BY <1>1 DEF RecordFits
<1>5. struck \/ \A l \in Listers : \A e \in scan[l].doomed : e[2] # "final"
  BY DEF BackupsInductive, ListFits
<1>6. struck \/ Published = {} \/ Latest \in Published
  BY <1>1, <1>2, LatestIs
<1>7. ASSUME NEW b \in Published
      PROVE  /\ gen[b] > 0 <=> kind[b] = "Incremental"
             /\ kind[b] = "Incremental" => gen[b] = gen[base[b]] + 1
             /\ wish[b] = "Auto" => gen[b] <= MaxGeneration + 1
  <2>1. b \in Ids /\ dir[b] = "final"
    BY DEF Published
  <2>2. RecordFits(b) /\ ParentFits(b)
    BY <1>1, <2>1
  <2>3. gen[b] \in Nat /\ parent[b] \in 0..MaxBackups /\ kind[b] \in {"Full", "Incremental"}
    BY <1>1, <2>1 DEF BackupTypeOK
  <2>4. MaxGeneration \in Nat
    BY SizesAssumption
  <2>5. CASE base[b] = 0
    BY <2>1, <2>2, <2>3, <2>4, <2>5 DEF RecordFits
  <2>6. CASE base[b] # 0
    <3>1. base[b] = parent[b] /\ kind[b] = "Incremental" /\ parent[b] # 0 /\ parent[b] \in Ids
      BY <2>2, <2>3, <2>6 DEF RecordFits, Ids
    <3>2. gen[parent[b]] \in Nat
      BY <1>1, <3>1 DEF BackupTypeOK
    <3> QED BY <2>2, <2>3, <2>4, <2>6, <3>1, <3>2 DEF ParentFits
  <2> QED BY <2>5, <2>6
<1> QED BY <1>1, <1>2, <1>3, <1>4, <1>5, <1>6, <1>7 DEF BackupInv

LEMMA BackupsStart == BackupInit => BackupsInductive
<1> SUFFICES ASSUME BackupInit PROVE BackupsInductive
  OBVIOUS
<1>1. 0 \in 0..MaxBackups
  BY SizesAssumption
<1>2. NotListing \in [todo : SUBSET Entries, doomed : SUBSET Entries, victim : Entries \cup {NoEntry}, on : BOOLEAN]
  BY DEF NotListing
<1>3. BackupTypeOK
  BY <1>1, <1>2 DEF BackupInit, BackupTypeOK, Stages, Ended, Places
<1>4. ASSUME NEW b \in Ids PROVE RecordFits(b) /\ ParentFits(b) /\ FilesFit(b)
  BY DEF BackupInit, RecordFits, ParentFits, FilesFit, Uncopied, Out, Ended
<1>5. ASSUME NEW b \in Ids PROVE gen[b] <= Cardinality(Incremental)
  <2>1. Cardinality(Incremental) \in Nat
    BY <1>3, IncrementalCounted
  <2>2. gen[b] = 0
    BY DEF BackupInit
  <2> QED BY <2>1, <2>2
<1>6. ASSUME NEW l \in Listers PROVE ListFits(l)
  BY DEF BackupInit, ListFits, NotListing
<1> QED BY <1>3, <1>4, <1>5, <1>6 DEF BackupsInductive

LEMMA BackupsKept == BackupsInductive /\ [BackupNext]_backups => BackupsInductive'
<1> SUFFICES ASSUME BackupsInductive, [BackupNext]_backups PROVE BackupsInductive'
  OBVIOUS
<1>1. CASE UNCHANGED backups
  BY <1>1 DEF backups, files, backupVars, record, pointers, BackupsInductive, BackupTypeOK, RecordFits, ParentFits,
     FilesFit, ListFits, Incremental
<1>2. ASSUME NEW b \in Ids,
             (\E w \in Wishes : Start(b, w)) \/ Connected(b) \/ ConnectFails(b) \/ Proceed(b)
             \/ TickOpen(b) \/ TickWrite(b) \/ Crash(b) \/ Age(b)
      PROVE  BackupsInductive'
  <2>1. CASE Proceed(b)
    BY <2>1, BackupMoves, StepOfChoose, StepOfPin, StepOfMakeDir, StepOfOpenFirst, StepOfDescribeMeta, StepOfCopy,
       StepOfCopyFails, StepOfSettle, StepOfOpenLast, StepOfSealMeta, StepOfPublish, StepOfAnnounce, StepOfPoint,
       StepOfNote DEF Proceed
  <2>2. CASE (\E w \in Wishes : Start(b, w)) \/ Connected(b) \/ ConnectFails(b) \/ TickOpen(b) \/ TickWrite(b)
             \/ Crash(b) \/ Age(b)
    BY <2>2, BackupMoves, StepOfStart, StepOfConnected, StepOfTickOpen, StepOfTickWrite, StepOfCrash, StepOfAge
  <2> QED BY <1>2, <2>1, <2>2
<1>3. ASSUME NEW l \in Listers,
             ListStart(l) \/ ListEntry(l) \/ RemoveEntry(l) \/ RemoveFiles(l) \/ RemoveDir(l) \/ ListEnd(l)
      PROVE  BackupsInductive'
  BY <1>3, StepOfReading, StepOfRemoving
<1> QED BY <1>1, <1>2, <1>3 DEF BackupNext

(* A published backup is complete, is noted in its parent and can be restored through   *)
(* the chain of its parents, however backups of one instance overlap with each other    *)
(* and with listings, crash or fail, until a listing hits a live or published one; a    *)
(* published backup is found by --latest and by the next incremental one, and automatic *)
(* chains end (InstanceBackup::backup, BackupRecord::latest, list-backups).             *)
THEOREM BackupsHold == BackupSpec => []BackupInv
<1>1. BackupInit => BackupsInductive
  BY BackupsStart
<1>2. BackupsInductive /\ [BackupNext]_backups => BackupsInductive'
  BY BackupsKept
<1>3. BackupsInductive => BackupInv
  BY BackupsFollow
<1> QED BY <1>1, <1>2, <1>3, PTL DEF BackupSpec

=============================================================================
