---------------------------- MODULE LocalRestore ----------------------------
(***************************************************************************)
(* LocalBackup::restore (gel-cli-instance/src/local/localbackup.rs) and    *)
(* the `instance restore` command around it.  The exclusive instance lock  *)
(* keeps two restores of one instance apart.  The two work directories,    *)
(* .restore.new_data.tmp and .restore.old_data.tmp, lie beside the data    *)
(* directories and so are common to all instances.                         *)
(***************************************************************************)

CONSTANTS
    Instances,      \* local instances
    Nobody          \* owner of a directory that holds no instance's data

ASSUME NobodyAssumption == Nobody \notin Instances

VARIABLES
    at,         \* where the restore of each instance is
    placed,     \* contents of each data directory
    newTmp,     \* contents of .restore.new_data.tmp
    oldTmp,     \* contents of .restore.old_data.tmp
    met         \* history: instances whose restore ran beside that of another

restore == <<at, placed, newTmp, oldTmp, met>>
tmps == <<newTmp, oldTmp>>

(* What a directory may hold: an instance's data from before the restore,   *)
(* its backup unpacked, a part of that, the pieces of an incremental chain, *)
(* or files that make no data directory. *)
Dir(i, what) == [of |-> i, what |-> what]
Vacant == Dir(Nobody, "absent")
Mixed == Dir(Nobody, "mixed")
RestoreDirs == {Vacant, Mixed}
        \cup [of : Instances, what : {"before", "backup", "partial", "scratch"}]

Active == {"clean", "check", "choose", "unpack", "chain", "drop", "verify",
           "verifyAny", "stash", "install", "discard"}
AtRest == {"idle", "failed", "refused", "done"}

RestoreTypeOK ==
    /\ at \in [Instances -> Active \cup AtRest]
    /\ placed \in [Instances -> RestoreDirs]
    /\ newTmp \in RestoreDirs
    /\ oldTmp \in RestoreDirs
    /\ met \in SUBSET Instances
    /\ \A i \in Instances : at[i] = "install" => placed[i] = Vacant

RestoreInit ==
    /\ at = [i \in Instances |-> "idle"]
    /\ placed = [i \in Instances |-> Dir(i, "before")]
    /\ newTmp = Vacant
    /\ oldTmp = Vacant
    /\ met = {}

Turn(i, s) == at' = [at EXCEPT ![i] = s]

(* The step goes through, or the restore ends with an error. *)
Unless(i, ok, next) == Turn(i, IF ok THEN next ELSE "failed")

(* The command takes the instance lock and stops the server.  It knows      *)
(* nothing of restores of other instances. *)
Begin(i) ==
    LET others == {j \in Instances : at[j] \in Active}
    IN  /\ at[i] \in AtRest
        /\ Turn(i, "clean")
        /\ met' = IF others = {} THEN met ELSE met \cup others \cup {i}
        /\ UNCHANGED <<placed, tmps>>

CleanNew(i) ==
    /\ at[i] = "clean"
    /\ Turn(i, "check")
    /\ newTmp' = Vacant
    /\ UNCHANGED <<placed, oldTmp, met>>

CheckOld(i) ==
    /\ at[i] = "check"
    /\ Turn(i, IF oldTmp = Vacant THEN "choose" ELSE "refused")
    /\ UNCHANGED <<placed, tmps, met>>

(* "... already exists from an incomplete restore, please remove it         *)
(* manually": the user does, having made sure that no restore is running    *)
(* and that every instance has a data directory.  The message does not say  *)
(* that old_data.tmp may hold the only copy of an instance's data. *)
RemoveByHand(i) ==
    /\ at[i] = "refused"
    /\ \A j \in Instances : at[j] \in AtRest /\ placed[j] # Vacant
    /\ Turn(i, "idle")
    /\ oldTmp' = Vacant
    /\ UNCHANGED <<placed, newTmp, met>>

(* A full backup is unpacked straight into new_data.tmp ... *)
Unpack(i) ==
    /\ at[i] = "choose"
    /\ Turn(i, "unpack")
    /\ newTmp' = IF newTmp = Vacant THEN Dir(i, "partial") ELSE Mixed
    /\ UNCHANGED <<placed, oldTmp, met>>

(* ... and may turn out to be damaged. *)
Unpacked(i) ==
    /\ at[i] = "unpack"
    /\ Turn(i, "verify")
    /\ \/ newTmp' = IF newTmp = Dir(i, "partial") THEN Dir(i, "backup") ELSE Mixed
       \/ newTmp' = Mixed
    /\ UNCHANGED <<placed, oldTmp, met>>

(* The chain of an incremental backup is unpacked into subdirectories of    *)
(* old_data.tmp ... *)
UnpackChain(i) ==
    /\ at[i] = "choose"
    /\ Turn(i, "chain")
    /\ oldTmp' = IF oldTmp = Vacant THEN Dir(i, "scratch") ELSE oldTmp
    /\ UNCHANGED <<placed, newTmp, met>>

(* ... combined by pg_combinebackup into new_data.tmp, which must not exist *)
Combine(i) ==
    LET ok == newTmp = Vacant /\ oldTmp # Vacant
    IN  /\ at[i] = "chain"
        /\ Unless(i, ok, "drop")
        /\ newTmp' = IF ok THEN Dir(i, "backup") ELSE newTmp
        /\ UNCHANGED <<placed, oldTmp, met>>

(* ... and removed with the directory. *)
DropChain(i) ==
    /\ at[i] = "drop"
    /\ Unless(i, oldTmp # Vacant, "verifyAny")
    /\ oldTmp' = Vacant
    /\ UNCHANGED <<placed, newTmp, met>>

(* Slip: the unpacked files are not verified. *)
VerifyNothing(i) ==
    /\ at[i] \in {"verify", "verifyAny"}
    /\ Turn(i, "stash")
    /\ UNCHANGED <<placed, tmps, met>>

(* pg_verifybackup, against the manifest of the full backup, or against the *)
(* one that lies in new_data.tmp, whosoever it is. *)
Verify(i) ==
    /\ \/ at[i] = "verify" /\ Unless(i, newTmp = Dir(i, "backup"), "stash")
       \/ at[i] = "verifyAny" /\ Unless(i, newTmp.what = "backup", "stash")
    /\ UNCHANGED <<placed, tmps, met>>

(* rename(data_dir, old_data.tmp) *)
Stash(i) ==
    LET ok == placed[i] # Vacant /\ oldTmp = Vacant
    IN  /\ at[i] = "stash"
        /\ Unless(i, ok, "install")
        /\ oldTmp' = IF ok THEN placed[i] ELSE oldTmp
        /\ placed' = IF ok THEN [placed EXCEPT ![i] = Vacant] ELSE placed
        /\ UNCHANGED <<newTmp, met>>

(* rename(new_data.tmp, data_dir) *)
Install(i) ==
    LET ok == newTmp # Vacant
    IN  /\ at[i] = "install"
        /\ Unless(i, ok, "discard")
        /\ placed' = IF ok THEN [placed EXCEPT ![i] = newTmp] ELSE placed
        /\ newTmp' = Vacant
        /\ UNCHANGED <<oldTmp, met>>

(* remove_dir_all(old_data.tmp), and the instance is started again. *)
Discard(i) ==
    /\ at[i] = "discard"
    /\ Unless(i, oldTmp # Vacant, "done")
    /\ oldTmp' = Vacant
    /\ UNCHANGED <<placed, newTmp, met>>

(* A tool fails, the server is still running, no such backup exists, or the *)
(* process is killed: nothing is cleaned up. *)
Fail(i) ==
    /\ at[i] \in Active
    /\ Turn(i, "failed")
    /\ UNCHANGED <<placed, tmps, met>>

RestoreNext ==
    \E i \in Instances :
        \/ Begin(i) \/ CleanNew(i) \/ CheckOld(i) \/ RemoveByHand(i)
        \/ Unpack(i) \/ Unpacked(i) \/ UnpackChain(i) \/ Combine(i) \/ DropChain(i)
        \/ Verify(i) \/ Stash(i) \/ Install(i) \/ Discard(i) \/ Fail(i)

RestoreSpec == RestoreInit /\ [][RestoreNext]_restore

----------------------------------------------------------------------------
(* Properties *)

Intact(i) == {Dir(i, "before"), Dir(i, "backup")}

(* Whatever step a restore dies at, the instance's data, old or restored,   *)
(* is in its data directory or set aside whole in old_data.tmp. *)
KeepsData(i) == placed[i] \in Intact(i) \/ oldTmp \in Intact(i)

(* "{inst_name} has been restored successfully": a restore that reports     *)
(* success has installed the verified backup of its own instance. *)
SuccessInstalls(i) == at[i] = "done" => placed[i] = Dir(i, "backup")

(* What the restores of an instance owe its user, whatever the restores of  *)
(* other instances do before and after, and wherever they die.  Instances   *)
(* of which a restore ran beside that of another one, in the same work      *)
(* directories, are left out (localbackup.rs:496).                          *)
RestoreKeepsWord == \A i \in Instances \ met : KeepsData(i) /\ SuccessInstalls(i)

(* The same without the exception, which is false: one of two restores at   *)
(* once installs the data of the other's instance.                          *)
SuccessInstallsBackup == \A i \in Instances : SuccessInstalls(i)

(* The inductive invariant behind RestoreKeepsWord: what the steps so far   *)
(* of a restore that was alone have left in the three places; while its     *)
(* instance has no data directory, others get no further than the check.    *)
AloneFits(i) ==
    /\ KeepsData(i) /\ SuccessInstalls(i)
    /\ placed[i] \in Intact(i) \cup {Vacant}
    /\ \A j \in Instances \ {i} : at[i] \in Active => at[j] \in AtRest
    /\ \A j \in Instances : placed[i] = Vacant => at[j] \in AtRest \cup {"clean", "check", "install"}
    /\ \A j \in Instances \ {i} : placed[i] = Vacant => at[j] # "install"
    /\ at[i] \in {"choose", "unpack", "verify", "verifyAny", "stash"} => oldTmp = Vacant
    /\ at[i] \in {"chain", "drop"} => oldTmp = Dir(i, "scratch")
    /\ at[i] \in {"drop", "verifyAny", "stash", "install"} => newTmp = Dir(i, "backup")
    /\ at[i] = "discard" => placed[i] = Dir(i, "backup") /\ oldTmp \in Intact(i)
RestoreInv == RestoreTypeOK /\ \A i \in Instances \ met : AloneFits(i)

============================================================================
