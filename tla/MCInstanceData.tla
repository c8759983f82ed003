--------------------------- MODULE MCInstanceData ---------------------------
(* The data of an instance are backed up and replaced in ways which share   *)
(* no state: a behaviour is one of the backups, one of the restores, one of *)
(* an upgrade by dump and restore and its revert, or one of the choice of   *)
(* an upgrade and those in place.                                           *)
EXTENDS MCLocalBackup, LocalRestore, InstanceUpgrade, ServerUpgrade, TLC

VARIABLE way

ServerRests ==
    /\ ServerUpgradeInit /\ info.version = 50 /\ tomls = [p \in Projects |-> Stable]

DataInit ==
    /\ way \in {"backup", "restore", "upgrade", "server"} /\ BackupInit /\ RestoreInit /\ Init
    /\ IF way = "server" THEN ServerUpgradeInit ELSE ServerRests

DataNext ==
    /\ UNCHANGED way
    /\ \/ way = "backup" /\ BackupNext /\ UNCHANGED <<restore, vars, serverUpgrade>>
       \/ way = "restore" /\ RestoreNext /\ UNCHANGED <<backups, vars, serverUpgrade>>
       \/ way = "upgrade" /\ Next /\ UNCHANGED <<backups, restore, serverUpgrade>>
       \/ way = "server" /\ ServerUpgradeNext /\ UNCHANGED <<backups, restore, vars>>

(* Restores run two at once at most, and a behaviour is followed while      *)
(* something is promised to some instance.                                  *)
RestoresInPairs ==
    /\ met # Instances
    /\ \E i \in Instances : at[i] \in AtRest

AnyInstance == Permutations(Instances)

DataSpec == DataInit /\ [][DataNext]_<<way, backups, restore, vars, serverUpgrade>>
=============================================================================
