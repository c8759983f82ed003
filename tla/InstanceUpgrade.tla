--------------------------- MODULE InstanceUpgrade ---------------------------
(***************************************************************************)
(* `instance upgrade` of a local instance by dump and restore, the minor   *)
(* upgrade that only swaps the server, and `instance revert`               *)
(* (src/src/instance/upgrade.rs, revert.rs).  The commands hold the        *)
(* instance lock exclusively, so one of them runs at a time; any of them   *)
(* may die at any step, and what it leaves on disk is what the next finds. *)
(*                                                                         *)
(* Users write to the instance while its server runs.  `owed` collects the *)
(* acknowledged writes that they have not agreed to lose; `late` those of  *)
(* them that came between the dump of an upgrade and the stop of the       *)
(* server, which the upgraded instance does not have: they stay in the     *)
(* backup, until the next upgrade removes it or revert brings it back.     *)
(***************************************************************************)
EXTENDS Naturals

CONSTANT MaxWrites      \* writes to the instance

ASSUME MaxWritesAssumption == MaxWrites \in Nat

Writes == 1..MaxWrites

VARIABLES
    pc,         \* the step of the command under way, or how the last one ended
    data,       \* <name>: the data directory
    backup,     \* <name>.backup
    tmp,        \* .~<name>.tmp, where revert puts the data directory away
    dump,       \* writes in <name>.dump
    marker,     \* <name>.UPGRADE_IN_PROGRESS exists
    up,         \* the server runs
    written,    \* number of writes so far
    owed,       \* history: writes that must not get lost
    late,       \* history: writes that came after the dump of an upgrade
    broken,     \* history: an upgrade died under the marker, and was not reverted
    torn        \* history: revert took a backup that has files missing for the data

dirs == <<data, backup, tmp>>
user == <<written, owed, late>>
history == <<broken, torn>>
vars == <<pc, dirs, dump, marker, up, user, history>>

(* A directory: the writes in its database, and what of it is there: the    *)
(* directory itself, the files of the database with none missing, and       *)
(* instance_info.json and backup.json if they can be read. *)
Files == {"dir", "db", "info", "meta"}
Dirs == [has : SUBSET Writes, files : SUBSET Files]
Absent == [has |-> {}, files |-> {}]
Fresh == [has |-> {}, files |-> {"dir"}]

There(d) == "dir" \in d.files
Whole(d) == "db" \in d.files
Info(d) == "info" \in d.files
Meta(d) == "meta" \in d.files

Plus(d, f) == [has |-> d.has, files |-> d.files \cup {f}]
Minus(d, f) == [has |-> d.has, files |-> d.files \ {f}]

Resting == {"idle", "refused", "needsRevert", "upgraded", "reverted"}
Upgrading == {"dumping", "dumped", "stopped", "marked", "described", "removed",
              "aside", "reinit", "restored", "copying", "restarting"}
Minor == {"minor", "swapped"}
Reverting == {"reverting", "moved", "movedBack", "cleaning", "clearing"}

TypeOK ==
    /\ pc \in Resting \cup Upgrading \cup Reverting \cup Minor
    /\ data \in Dirs /\ backup \in Dirs /\ tmp \in Dirs
    /\ pc \in {"aside", "moved"} => data = Absent
    /\ dump \in SUBSET Writes
    /\ marker \in BOOLEAN /\ up \in BOOLEAN
    /\ written \in 0..MaxWrites
    /\ owed \in SUBSET Writes /\ late \in SUBSET Writes
    /\ broken \in BOOLEAN /\ torn \in BOOLEAN

Init ==
    /\ pc = "idle"
    /\ data = [has |-> {}, files |-> {"dir", "db", "info"}]
    /\ backup = Absent
    /\ tmp = Absent
    /\ dump = {}
    /\ marker = FALSE
    /\ up = TRUE
    /\ written = 0
    /\ owed = {} /\ late = {}
    /\ broken = FALSE
    /\ torn = FALSE

Goto(from, to) == pc = from /\ pc' = to

(* A user's transaction commits. *)
Write ==
    /\ up /\ Whole(data)
    /\ written < MaxWrites
    /\ written' = written + 1
    /\ data' = [has |-> data.has \cup {written'}, files |-> data.files]
    /\ IF pc = "dumped"
       THEN late' = late \cup {written'} /\ UNCHANGED owed
       ELSE owed' = owed \cup {written'} /\ UNCHANGED late
    /\ UNCHANGED <<pc, backup, tmp, dump, marker, up, history>>

(* `gel instance start` *)
StartServer ==
    /\ pc \in Resting
    /\ Whole(data) /\ Info(data) /\ ~up
    /\ up' = TRUE
    /\ UNCHANGED <<pc, dirs, dump, marker, user, history>>

----------------------------------------------------------------------------
(* upgrade_compatible *)

(* write_json truncates instance_info.json, ... *)
OpenInfo ==
    /\ pc \in Resting /\ pc' = "minor"
    /\ Whole(data) /\ Info(data)
    /\ data' = Minus(data, "info")
    /\ UNCHANGED <<backup, tmp, dump, marker, up, user, history>>

(* ... and writes it, before the server is restarted. *)
RewriteInfo ==
    /\ Goto("minor", "swapped")
    /\ data' = Plus(data, "info")
    /\ UNCHANGED <<backup, tmp, dump, marker, up, user, history>>

----------------------------------------------------------------------------
(* upgrade_incompatible *)

(* InstanceInfo::read, and do_start, which needs all of the data. *)
BeginUpgrade ==
    /\ pc \in Resting /\ pc' = "dumping"
    /\ Whole(data) /\ Info(data)
    /\ up' = TRUE
    /\ UNCHANGED <<dirs, dump, marker, user, history>>

(* What was too late for an earlier upgrade, and is in the data, is not     *)
(* late for this one.                                                       *)
InTime == owed' = owed \cup (late \cap data.has) /\ late' = late \ data.has

(* Slip: an old dump is left in place. *)
KeepOldDump ==
    /\ Goto("dumping", "dumped")
    /\ dump' = IF dump = {} THEN data.has ELSE dump
    /\ InTime
    /\ UNCHANGED <<dirs, marker, up, written, history>>

(* dump_instance removes an old dump, and takes a new one. *)
TakeDump ==
    /\ Goto("dumping", "dumped")
    /\ dump' = data.has
    /\ InTime
    /\ UNCHANGED <<dirs, marker, up, written, history>>

StopServer ==
    /\ Goto("dumped", "stopped")
    /\ up' = FALSE
    /\ UNCHANGED <<dirs, dump, marker, user, history>>

(* backup(): "Upgrade is already in progress" ... *)
RefuseMarked ==
    /\ Goto("stopped", "refused")
    /\ marker
    /\ UNCHANGED <<dirs, dump, marker, up, user, history>>

WriteMarker ==
    /\ Goto("stopped", "marked")
    /\ ~marker
    /\ marker' = TRUE
    /\ broken' = TRUE
    /\ UNCHANGED <<dirs, dump, up, user, torn>>

(* ... backup.json goes into the data directory that will be the backup ... *)
WriteMeta ==
    /\ Goto("marked", "described")
    /\ data' = Plus(data, "meta")
    /\ UNCHANGED <<backup, tmp, dump, marker, up, user, history>>

(* remove_dir_all goes through, or dies with some of the files removed. *)
Removed(d, to) == pc' = to /\ d' = Absent
Remains(d) ==
    /\ pc' = "idle"
    /\ There(d)
    /\ \E left \in SUBSET {"info", "meta"} :
          d' = [has |-> d.has, files |-> d.files \cap ({"dir"} \cup left)]

(* ... the backup of an earlier upgrade is removed, with what was too late  *)
(* for that one ... *)
RemoveOldBackup ==
    /\ pc = "described"
    /\ Removed(backup, "removed") \/ Remains(backup)
    /\ late' = late \cap data.has
    /\ UNCHANGED <<data, tmp, dump, marker, up, written, owed, history>>

(* ... and the data directory renamed to be the new one. *)
SetAside ==
    /\ Goto("removed", "aside")
    /\ backup' = data
    /\ data' = Absent
    /\ UNCHANGED <<tmp, dump, marker, up, user, history>>

(* reinit_and_restore: a new data directory, ... *)
Reinit ==
    /\ Goto("aside", "reinit")
    /\ data' = Fresh
    /\ UNCHANGED <<backup, tmp, dump, marker, up, user, history>>

(* ... the dump restored into it by a server of the new version, ... *)
RestoreDump ==
    /\ Goto("reinit", "restored")
    /\ data' = [has |-> dump, files |-> data.files \cup {"db"}]
    /\ UNCHANGED <<backup, tmp, dump, marker, up, user, history>>

(* ... instance_info.json, and the certificates copied from the backup. *)
WriteInfo ==
    /\ Goto("restored", "copying")
    /\ data' = Plus(data, "info")
    /\ UNCHANGED <<backup, tmp, dump, marker, up, user, history>>

(* An error in one of these: "To undo run: instance revert". *)
NeedsRevert ==
    /\ pc \in {"aside", "reinit", "restored", "copying"}
    /\ pc' = "needsRevert"
    /\ UNCHANGED <<dirs, dump, marker, up, user, history>>

RemoveMarker ==
    /\ Goto("copying", "restarting")
    /\ marker' = FALSE
    /\ broken' = FALSE
    /\ UNCHANGED <<dirs, dump, up, user, torn>>

RestartNew ==
    /\ pc \in {"restarting", "swapped"} /\ pc' = "upgraded"
    /\ up' = TRUE
    /\ UNCHANGED <<dirs, dump, marker, user, history>>

----------------------------------------------------------------------------
(* revert::run *)

(* The backup's two descriptions can be read; whether the rest of it is     *)
(* there is not looked at.  The user is told that what is stored will be    *)
(* lost, and agrees to have what the backup has; the server is stopped.     *)
BeginRevert ==
    /\ pc \in Resting /\ pc' = "reverting"
    /\ Info(backup) /\ Meta(backup)
    /\ up' = FALSE
    /\ owed' = owed \cap backup.has
    /\ late' = late \cap backup.has
    /\ UNCHANGED <<dirs, dump, marker, written, history>>

(* rename(data_dir, tmp_path): there must be a data directory, and nothing  *)
(* of an earlier revert in its way. *)
MoveAway ==
    /\ pc = "reverting"
    /\ \/ /\ There(data) /\ ~There(tmp)
          /\ pc' = "moved"
          /\ tmp' = data
          /\ data' = Absent
       \/ /\ ~There(data) \/ There(tmp)
          /\ pc' = "idle"
          /\ UNCHANGED <<data, tmp>>
    /\ UNCHANGED <<backup, dump, marker, up, user, history>>

(* rename(old_backup_dir, data_dir) *)
MoveBack ==
    /\ Goto("moved", "movedBack")
    /\ data' = backup
    /\ backup' = Absent
    /\ owed' = owed \cup late
    /\ late' = {}
    /\ UNCHANGED <<tmp, dump, marker, up, written, history>>

RestartOld ==
    /\ Goto("movedBack", "cleaning")
    /\ up' = TRUE
    /\ UNCHANGED <<dirs, dump, marker, user, history>>

RemoveMeta ==
    /\ Goto("cleaning", "clearing")
    /\ data' = Minus(data, "meta")
    /\ UNCHANGED <<backup, tmp, dump, marker, up, user, history>>

RemoveTmp ==
    /\ pc = "clearing"
    /\ \/ Removed(tmp, "reverted") /\ broken' = FALSE
       \/ Remains(tmp) /\ UNCHANGED broken
    /\ torn' = (torn \/ ~Whole(data))
    /\ UNCHANGED <<data, backup, dump, marker, up, user>>

(* The command is killed, or fails with an error: nothing is cleaned up.    *)
(* The server may have been stopped by then. *)
Die ==
    /\ pc \notin Resting /\ pc' = "idle"
    /\ up' \in {up, FALSE}
    /\ UNCHANGED <<dirs, dump, marker, user, history>>

Upgrade ==
    \/ OpenInfo \/ RewriteInfo
    \/ BeginUpgrade \/ TakeDump \/ StopServer \/ RefuseMarked \/ WriteMarker \/ WriteMeta
    \/ RemoveOldBackup \/ SetAside \/ Reinit \/ RestoreDump \/ WriteInfo \/ NeedsRevert
    \/ RemoveMarker \/ RestartNew

Revert == BeginRevert \/ MoveAway \/ MoveBack \/ RestartOld \/ RemoveMeta \/ RemoveTmp

Next == Write \/ StartServer \/ Upgrade \/ Revert \/ Die

Spec == Init /\ [][Next]_vars

----------------------------------------------------------------------------
(* Properties *)

Keeps(d) == Whole(d) /\ owed \subseteq d.has

(* Whatever upgrades and reverts die at whatever step, and in whatever      *)
(* order they are repeated, the owed writes are all in the data directory   *)
(* or in the backup that revert would install.  One exception: an upgrade   *)
(* that died while it removed an old backup leaves the two descriptions of  *)
(* that, so a revert takes it, with files missing (RevertTakesWhole); then  *)
(* the writes are where it put the data, until it removes that (`torn`).    *)
NothingOwedLost ==
    \/ Keeps(data) \/ Keeps(backup)
    \/ ~Whole(data) /\ ~Whole(backup) /\ (torn \/ Keeps(tmp))

(* Acknowledged writes that came after the dump of an upgrade, before it    *)
(* stopped the server, are in the data directory if the upgrade died, else  *)
(* in the backup, until the next upgrade removes that or the user agrees to *)
(* a revert that loses them.  The exception is the same.                    *)
LateWritesKept ==
    \A w \in late :
        \/ Whole(data) /\ w \in data.has
        \/ Whole(backup) /\ w \in backup.has
        \/ ~Whole(data) /\ ~Whole(backup) /\ (torn \/ (Whole(tmp) /\ w \in tmp.has))

(* "Instance {} successfully upgraded": with the owed writes, also those    *)
(* made after earlier upgrades and reverts.  It does not say so, but this   *)
(* instance lacks the late ones (UpgradeMissesNothing).                     *)
UpgradeKeepsData == pc = "upgraded" => Keeps(data)

(* "To undo run: instance revert": there is a backup that revert accepts,   *)
(* whole, with all that this upgrade had dumped and what came after that.   *)
UndoPossible ==
    pc = "needsRevert" =>
        Info(backup) /\ Meta(backup) /\ Whole(backup) /\ dump \cup late \subseteq backup.has

(* What upgrades and reverts owe whoever writes to the instance: all four.  *)
UpgradeKeepsWord == NothingOwedLost /\ LateWritesKept /\ UpgradeKeepsData /\ UndoPossible

(* Both are false: the server is stopped some time after the dump was taken *)
(* (upgrade.rs:515-517), and revert looks at nothing but the descriptions.  *)
UpgradeMissesNothing == pc = "upgraded" => owed \cup late \subseteq data.has
RevertTakesWhole == pc = "reverting" => Whole(backup)

(* "Upgrade is already in progress": one is, or one has died and waits to   *)
(* be reverted. *)
MarkerMeansUpgrade == pc = "refused" => broken

(* What UpgradeKeepsWord rests on: an inductive invariant.                  *)
(*   - an upgrade works on a whole data directory, then on a whole backup;  *)
(*   - its dump, taken from the one, is in the other;                       *)
(*   - while the server is down nothing is written that the dump misses;    *)
(*   - a revert to a backup with files missing is the last thing to happen. *)
OnData == {"dumping", "dumped", "stopped", "marked", "described", "removed"}
OnBackup == {"aside", "reinit", "restored", "copying", "needsRevert"}
Down == {"stopped", "marked", "described", "removed", "aside", "reinit", "restored",
         "copying", "restarting", "reverting", "moved", "movedBack"}

UpgradeInv ==
    /\ TypeOK
    /\ pc \in OnData \cup {"restored", "copying", "restarting", "upgraded"} \cup Minor
          => Whole(data)
    /\ pc \in OnData => Info(data)
    /\ pc \in OnData \ {"dumping"} => dump \subseteq data.has
    /\ pc \in {"described", "removed"} => Meta(data)
    /\ pc \in OnBackup =>
          Whole(backup) /\ Info(backup) /\ Meta(backup) /\ dump \cup late \subseteq backup.has
    /\ pc \in Down => ~up
    /\ Whole(data) => owed \subseteq data.has
    /\ pc \in (OnData \cup OnBackup) \ {"dumping", "needsRevert"} => owed \subseteq dump
    /\ LateWritesKept
    /\ pc = "removed" => late \subseteq data.has
    /\ pc \in {"reverting", "moved"} => late \subseteq backup.has
    /\ pc \in {"movedBack", "cleaning", "clearing"} => late = {} /\ backup = Absent
    /\ pc = "moved" \/ ~Whole(data) => Keeps(backup) \/ (~Whole(backup) /\ (torn \/ Keeps(tmp)))
    /\ pc = "reverting" => Keeps(backup) \/ ~Whole(backup)
    /\ torn => ~Whole(data) /\ ~Whole(backup)
    /\ Whole(tmp) => There(tmp)

=============================================================================
