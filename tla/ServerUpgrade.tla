---------------------------- MODULE ServerUpgrade ----------------------------
(***************************************************************************)
(* How `instance upgrade` and `project upgrade` choose what to do with a   *)
(* local instance, the upgrade in place, and the version in gel.toml.  One *)
(* command runs at a time, under the lock of the instance.  The upgrade by *)
(* dump and restore is one step here: InstanceUpgrade has its steps.       *)
(***************************************************************************)
EXTENDS Naturals, FiniteSets

CONSTANTS
    Releases,    \* versions of the server: 10 * major + a number
    Beta,        \* those that are betas
    BrokenBeta,  \* 6.0-beta.1
    Projects,    \* initialised with the instance
    NoProject,
    MaxUpgrades, MaxBreaks, MaxEdits

ASSUME ReleasesAssumption ==
    Releases \subseteq Nat /\ Beta \subseteq Releases /\ NoProject \notin Projects

VARIABLES
    info,       \* instance_info.json: version of the installation, upgrade_state
    serving,    \* version of the server that runs, 0 if none does
    format,     \* major version that the data are in
    prepared,   \* version for which the data hold a prepared upgrade, 0 if none
    ddlOff,     \* force_database_error is configured
    tomls,      \* server-version in gel.toml of each project
    loose,      \* projects told of, or edited by hand, that need not match (history)
    severed,    \* an upgrade ended between finalising the data and recording it (history)
    failed,     \* an upgrade in place ended with DDL disabled (history)
    leftover,   \* a rollback failed to remove what is prepared (history)
    upg, upgrades, breaks, edits

serverUpgrade == <<info, serving, format, prepared, ddlOff, tomls, loose, severed, failed,
                   leftover, upg, upgrades, breaks, edits>>
server == <<info, serving, format, prepared, ddlOff>>
told == <<loose, severed, failed, leftover>>

Major(v) == v \div 10
Calm == [pc |-> "calm", project |-> NoProject, to |-> 0, asked |-> FALSE]

(* Query, as far as upgrades use it: Versions has all of it *)
Testing(v) == v \in Beta
Stable == [testing |-> FALSE, major |-> 0, least |-> 0]
FromVersion(v) == [testing |-> Testing(v), major |-> Major(v), least |-> v]
Fits(q, v) == Testing(v) = q.testing /\ (q.major = 0 \/ (Major(v) = q.major /\ v >= q.least))
Package(q) == {v \in Releases : Fits(q, v) /\ \A w \in Releases : Fits(q, w) => w <= v}
Queries == {Stable} \cup {FromVersion(v) : v \in Releases}

ServerUpgradeInit ==
    /\ \E v \in Releases :
          /\ info = [version |-> v, state |-> "none"] /\ format = Major(v)
          /\ tomls \in [Projects -> {q \in Queries : Fits(q, v)}]
    /\ serving = 0 /\ prepared = 0 /\ ddlOff = FALSE
    /\ loose = {} /\ severed = FALSE /\ failed = FALSE /\ leftover = FALSE
    /\ upg = Calm /\ upgrades = 0 /\ breaks = 0 /\ edits = 0

(* What is to be done *)

IsCompatible(v, w) == v = w \/ (Major(v) = Major(w) /\ ~Testing(v) /\ ~Testing(w))
InPlaceCompatible(v, w) ==
    Major(v) >= 6 /\ Major(w) >= 6 /\ Major(v) # Major(w) /\ w # BrokenBeta
InPlaceDefault(v, w) == InPlaceCompatible(v, w) /\ ~Testing(w)

\* `anew` asks for an incompatible upgrade even where a compatible one would do
Method(v, w, anew, force, inPlace, dumpRestore) ==
    IF IsCompatible(v, w) /\ ~anew THEN "compatible"
    ELSE IF inPlace /\ ~InPlaceCompatible(v, w) THEN "refused"
    ELSE IF (InPlaceDefault(v, w) \/ inPlace) /\ ~force /\ ~dumpRestore THEN "start"
    ELSE "dump"

\* The lock of the instance is free
MayUpgrade == upg = Calm /\ upgrades < MaxUpgrades
Commanded(project, to, asked, pc) ==
    /\ upgrades' = upgrades + 1
    /\ upg' = IF pc = "refused" THEN Calm
              ELSE [pc |-> pc, project |-> project, to |-> to, asked |-> asked]
    /\ UNCHANGED <<server, tomls, told, breaks, edits>>

\* upgrade_local_cmd: an instance of projects is upgraded only with --force
UpgradeInstance(q, option, force, inPlace, dumpRestore) ==
    /\ ~option => q = FromVersion(info.version)
    /\ Projects = {} \/ force
    /\ \E v \in Package(q) :
          /\ v > info.version \/ force
          /\ Commanded(NoProject, v, FALSE,
                       Method(info.version, v, (force /\ option) \/ dumpRestore, force, inPlace, dumpRestore))

\* The instance of a project; the schema is checked against the new version first
UpgradeLocal(project, q, asked, force, inPlace, dumpRestore) ==
    \E v \in Package(q) :
        /\ v > info.version \/ force
        /\ Commanded(project, v, asked, Method(info.version, v, force, force, inPlace, dumpRestore))

\* update_toml, for an option of the kind --to-...
UpgradeTo(project, q, force, inPlace, dumpRestore) ==
    UpgradeLocal(project, q, TRUE, force, inPlace, dumpRestore)

\* upgrade_instance, to what gel.toml says
UpgradeByManifest(project, force, inPlace, dumpRestore) ==
    UpgradeLocal(project, tomls[project], FALSE, force, inPlace, dumpRestore)

\* Both, when they change nothing: refused, up to date, or no package
NothingToDo(project, q) ==
    /\ \A v \in Package(q) : v <= info.version
    /\ Commanded(project, 0, FALSE, "refused")

(* The upgrades *)

\* The steps of a command that has recorded the new version
Installed == {"restart", "run", "clear", "manifest"}
Startable == Major(info.version) = format
Passes(pc, next) == upg.pc = pc /\ upg' = [upg EXCEPT !.pc = next]
Ends == upg' = Calm
commands == <<upgrades, breaks, edits>>
\* The command's upgrade is done; projects that it does not write to may differ now
Succeeds ==
    /\ upg' = IF upg.asked THEN [upg EXCEPT !.pc = "manifest"] ELSE Calm
    /\ loose' = (Projects \ {upg.project}) \cup (loose \cap IF upg.asked THEN {upg.project} ELSE {})

\* upgrade_compatible: first instance_info.json, then do_restart, which the server survives
\* only if it can read the data
RecordCompatible ==
    /\ Passes("compatible", "restart") /\ info' = [info EXCEPT !.version = upg.to]
    /\ UNCHANGED <<serving, format, prepared, ddlOff, tomls, told, commands>>
RestartCompatible ==
    /\ upg.pc = "restart"
    /\ \/ Startable /\ Succeeds /\ serving' = upg.to
       \/ ~Startable /\ Ends /\ loose' = Projects /\ serving' = 0
    /\ UNCHANGED <<info, format, prepared, ddlOff, tomls, severed, failed, leftover, commands>>
\* The new data have no prepared upgrade, but take over upgrade_state
UpgradeByDump ==
    /\ upg.pc = "dump" /\ Startable /\ Succeeds
    /\ info' = [info EXCEPT !.version = upg.to] /\ serving' = upg.to
    /\ format' = Major(upg.to) /\ prepared' = 0 /\ ddlOff' \in {ddlOff, FALSE}
    /\ leftover' = FALSE
    /\ UNCHANGED <<tomls, severed, failed, commands>>

(* upgrade_in_place *)

\* do_start does nothing to a server that runs
Started == serving' = IF serving = 0 THEN info.version ELSE serving
StartOld ==
    /\ Startable /\ Started
    /\ Passes("start", IF info.state = "none" THEN "block" ELSE "rollback")
    /\ UNCHANGED <<info, format, prepared, ddlOff, tomls, told, commands>>
\* rollback_upgrade does not look at how the server's rollback ended
RolledBack(v) == prepared' \in {0, v} /\ leftover' = (prepared' # 0)
RollBackPrepared ==
    /\ Passes("rollback", "rolled") /\ RolledBack(prepared)
    /\ UNCHANGED <<info, serving, format, ddlOff, tomls, loose, severed, failed, commands>>
RecordRolledBack ==
    /\ Passes("rolled", "block") /\ info' = [info EXCEPT !.state = "none"]
    /\ UNCHANGED <<serving, format, prepared, ddlOff, tomls, told, commands>>
\* set_force_error_and_dump_info
Block ==
    /\ Passes("block", "collected") /\ ddlOff' = TRUE
    /\ UNCHANGED <<info, serving, format, prepared, tomls, told, commands>>
\* prepare_upgrade
RecordNothing ==
    /\ Passes("collected", "preparing") /\ UNCHANGED <<server, tomls, told, commands>>
RecordStarted ==
    /\ Passes("collected", "preparing") /\ info' = [info EXCEPT !.state = "started"]
    /\ UNCHANGED <<serving, format, prepared, ddlOff, tomls, told, commands>>
Prepare ==
    /\ Passes("preparing", "prepared") /\ prepared = 0 /\ prepared' = upg.to
    /\ UNCHANGED <<info, serving, format, ddlOff, tomls, told, commands>>
\* A preparation that fails is rolled back.  It always fails where one is left already.
PrepareFails ==
    /\ upg.pc = "preparing"
    /\ \/ prepared = 0 /\ breaks < MaxBreaks /\ breaks' = breaks + 1 /\ RolledBack(upg.to)
       \/ prepared # 0 /\ UNCHANGED breaks /\ RolledBack(prepared)
    /\ Ends /\ info' = [info EXCEPT !.state = "none"] /\ failed' = TRUE
    /\ UNCHANGED <<serving, format, ddlOff, tomls, loose, severed, upgrades, edits>>
RecordPrepared ==
    /\ Passes("prepared", "stop") /\ info' = [info EXCEPT !.state = "prepared"]
    /\ UNCHANGED <<serving, format, prepared, ddlOff, tomls, told, commands>>
StopOld ==
    /\ Passes("stop", "finalize") /\ serving' = 0
    /\ UNCHANGED <<info, format, prepared, ddlOff, tomls, told, commands>>
Finalize ==
    /\ Passes("finalize", "finalized") /\ format' = Major(upg.to) /\ prepared' = 0
    /\ UNCHANGED <<info, serving, ddlOff, tomls, told, commands>>
RecordFinalized ==
    /\ Passes("finalized", "run") /\ info' = [version |-> upg.to, state |-> "none"]
    /\ UNCHANGED <<serving, format, prepared, ddlOff, tomls, told, commands>>
StartNew ==
    /\ Passes("run", "clear") /\ Started
    /\ UNCHANGED <<info, format, prepared, ddlOff, tomls, told, commands>>
\* clear_force_error
ClearForceError ==
    /\ upg.pc = "clear" /\ Succeeds /\ ddlOff' = FALSE /\ failed' = FALSE
    /\ UNCHANGED <<info, serving, format, prepared, tomls, severed, leftover, commands>>

\* modify_server_ver, with the version of the package
WriteManifest ==
    /\ upg.pc = "manifest" /\ Ends
    /\ tomls' = [tomls EXCEPT ![upg.project] = FromVersion(upg.to)]
    /\ loose' = loose \ {upg.project}
    /\ UNCHANGED <<server, severed, failed, leftover, commands>>

\* A step fails, or the command dies, maybe with the server stopped for a restart
Break ==
    /\ upg # Calm /\ breaks < MaxBreaks /\ breaks' = breaks + 1 /\ Ends
    /\ severed' = (severed \/ upg.pc = "finalized") /\ failed' = (failed \/ ddlOff)
    /\ loose' = IF upg.pc \in Installed THEN Projects ELSE loose
    /\ serving' \in {serving} \cup (IF upg.pc = "restart" THEN {0} ELSE {})
    /\ UNCHANGED <<info, format, prepared, ddlOff, leftover, tomls, upgrades, edits>>
\* `start` fails: the old server cannot read the data
CannotStart ==
    /\ upg.pc \in {"start", "dump"} /\ ~Startable /\ Ends
    /\ UNCHANGED <<server, tomls, told, commands>>

(* Others *)

StartServing ==
    /\ upg = Calm /\ serving = 0 /\ Startable /\ Started
    /\ UNCHANGED <<info, format, prepared, ddlOff, tomls, told, upg, commands>>
EditManifest(project, q) ==
    /\ upg = Calm /\ edits < MaxEdits /\ edits' = edits + 1
    /\ tomls' = [tomls EXCEPT ![project] = q] /\ loose' = loose \cup {project}
    /\ UNCHANGED <<server, severed, failed, leftover, upg, upgrades, breaks>>

ServerUpgradeNext ==
    \/ /\ MayUpgrade
       /\ \/ \E force, inPlace, dumpRestore \in BOOLEAN :
                /\ ~(inPlace /\ dumpRestore)
                /\ \/ \E q \in Queries, option \in BOOLEAN :
                         UpgradeInstance(q, option, force, inPlace, dumpRestore)
                   \/ \E q \in Queries, project \in Projects :
                         UpgradeTo(project, q, force, inPlace, dumpRestore)
                   \/ \E project \in Projects :
                         UpgradeByManifest(project, force, inPlace, dumpRestore)
          \/ \E q \in Queries, project \in Projects \cup {NoProject} : NothingToDo(project, q)
    \/ \E project \in Projects, q \in Queries : EditManifest(project, q)
    \/ RecordCompatible \/ RestartCompatible \/ UpgradeByDump
    \/ StartOld \/ RollBackPrepared \/ RecordRolledBack \/ Block \/ RecordStarted
    \/ Prepare \/ PrepareFails \/ RecordPrepared \/ StopOld \/ Finalize \/ RecordFinalized
    \/ StartNew \/ ClearForceError \/ WriteManifest \/ Break \/ CannotStart \/ StartServing

ServerUpgradeSpec == ServerUpgradeInit /\ [][ServerUpgradeNext]_serverUpgrade

(* Properties *)

\* After `project upgrade` gel.toml of the project fits the instance's version, until
\* another command is told to go on without the project or the file is edited
\* (update_toml, check_project).
ManifestFollows ==
    \A project \in Projects \ loose :
        Fits(tomls[project], info.version) \/ upg.pc \in Installed

\* The installation that instance_info.json names can run the data, unless an upgrade in
\* place ended right between finalising them and recording it; what serves them is that
\* version or, after a compatible upgrade that ended before the restart, one compatible with
\* it; what is finalised was prepared by the same version; a preparation is not left
\* unrecorded, so that the next upgrade, maybe to another version, rolls it back, unless a
\* rollback of it failed, which the code does not look at and records as done (`leftover`,
\* rollback_upgrade); DDL stays disabled only after a failure; and the manifests follow.
InPlaceInv ==
    /\ ManifestFollows
    /\ severed \/ Startable \/ upg.pc = "finalized"
    /\ serving # 0 => IsCompatible(serving, info.version) /\ Major(serving) = format
    /\ upg.pc \in {"prepared", "stop", "finalize"} => prepared = upg.to
    /\ prepared # 0 => info.state # "none" \/ leftover
    /\ upg = Calm => (ddlOff => failed)

\* A preparation that failed is reverted: DDL is not left disabled.
FailureReverted == upg = Calm /\ info.state = "none" /\ ~severed => ~ddlOff
=============================================================================
