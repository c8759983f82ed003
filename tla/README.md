# Gel CLI: specifications

TLA+ specifications of the Gel command line tool. The tool is a set of commands
that share nothing but the file system, the running servers and the services
behind them: lock files, instance directories, backups, project stashes,
migration directories, credentials. Nearly all that is hard about it happens
there: two commands interleave, one dies between two system calls and the next
one finds what it left, a request is sent twice, a long-running loop looks at
files while they change. The specifications are about that.

Sources are quoted relative to the repository's root under `src/`, so
`src/src/locking.rs` is the crate's `src/locking.rs`. `PROJECT.json` maps every
definition to the lines it models, lists the hazards at the lines where they
bite, and names for each property a mutation of the model that breaks it.

## 1. The system

| Part | State it keeps | Operations | Modelled in |
|---|---|---|---|
| Lock manager, `locking.rs` | a lock file per instance and per project stash, advisory locks on it, `CURRENT_LOCKS` | lock shared or exclusive with polling and a time limit, downgrade, drop | `LockPromise`, `FileLock` |
| Project context, `project/mod.rs`, `branch/context.rs`, `migrations/context.rs` | the two locks of a command, the stash (project to instance link) | `load_ctx`, `load_ctx_at`, `Context::new`, init, unlink, destroy, watch's downgrade, hooks | `CommandLocks` |
| Local backup, `gel-cli-instance/src/local/localbackup.rs`, `instance/backup.rs` | `<name>.backups/`: `<id>` and `.<id>.tmp`, `backup.json`, `<id>.child`, `latest`, `.latest.tmp` | backup, list-backups with its clean-up | `LocalBackup` |
| Local restore, same file | data directory, `.restore.new_data.tmp`, `.restore.old_data.tmp` | restore | `LocalRestore` |
| Upgrade and revert, `instance/upgrade.rs`, `instance/revert.rs`, `project/upgrade.rs` | `<name>`, `.backup`, `.dump`, `.UPGRADE_IN_PROGRESS`, `.~<name>.tmp`; `instance_info.json` with `upgrade_state`; gel.toml | choice of the way, minor upgrade, dump and restore, in place, revert | `InstanceUpgrade`, `ServerUpgrade` |
| Instances, `instance/create.rs`, `destroy.rs`, `link.rs`, `reset_password.rs`, `project/init.rs`, `portable/local.rs` | data directory, port map, credentials, service files, stash directories | create, destroy, link, unlink, init, reset-password | `Instances` |
| Control, `instance/control.rs`, `status.rs`, `portable/linux.rs`, `process.rs` | `service.lock`, marker, pid file, systemd unit and socket, the server | start, stop, restart, foreground, status | `Control` |
| Watch, `watch/*.rs` | channels of execution orders, a flag for another sync, the watcher's batch | match, merge, execute, trigger, abort | `Watch` |
| Migrations, `migrations/*.rs` | migration files, fixups, the databases' histories, rewrites | create, apply, dev mode, squash, extract; edit; upgrade-check | `Migrations`, `Proposals`, `Edits`, `UpgradeCheck` |
| Branches, `branch/*.rs`, `migrations/rebase.rs`, `merge.rs` | branches of the server, stash and credentials, temporary branches | create, drop, switch, rename, wipe, rebase, merge | `Branches` |
| Sync, `project/sync.rs` | schema, migrations, configuration in files and in the database | sync | `ProjectSync` |
| Dumps, `commands/dump.rs`, `restore.rs` | dump files and their temporary names | dump, restore, one database or all | `Dumps` |
| Packages, `portable/registry`, `portable/server`, `portable/ver.rs` | catalog, download cache, installed packages | choose, load, install, uninstall | `Versions`, `Registry`, `Packages` |
| The tool itself, `cli/*.rs`, `version_check.rs` | the executable under two names, its backup, `version_check.json` | install, upgrade, check | `CLI` |
| Cloud, `cloud/*.rs`, `instance/resize.rs` | operations of the service, profiles, secret keys | create, upgrade, resize, restart, backup, restore, destroy; login, logout | `CloudInstances`, `CloudAccounts` |
| Releases, `gel_release/*.py`, `.github/workflows/release-*.yml` | lines, generated branches and their pull requests; drafts, releases, tags, the latest mark | prepare, resolve, stage, gate, publish | `Release` |
| REPL, printing, options, derive macros, Docker discovery, connections | terminal, other programs | presentation, parsing | no (section 6) |

How they interact. Commands never talk to one another. A command locks the
instance and, if it works in a project, the project; the lock manager is called
by everything else. Upgrade, revert, restore, destroy and branch commands hold
the instance lock exclusively, so on one instance they exclude each other and
all backups (but `project unlink --destroy-server-instance` destroys it without that lock); `instance backup`, `list-backups`, `dump` and `sync` hold it
shared, so they run side by side. A command may run hooks, which are processes
that may run further commands; those find `_GEL_IN_HOOK=1` in their environment
and take no shared lock. Where a lock is held exclusively, the modules below let
one command run at a time and say so; where it is shared or there is none
(packages, the executable, cloud profiles, credentials, ports), they interleave.
Releases are made apart from all this, by workflows on the repository's host that
read and write the same branches, drafts and tags; a queue of one, in which a
newer job replaces the waiting one, is all the locking they have.

What is hard:

- **Interleaving.** Opening a file and locking it are two system calls, and the
  holder unlinks the file in between. Decisions rest on a look that was taken
  before the lock. Files with one temporary name have several writers.
- **Death.** Every command can be killed between any two renames and writes, and
  no journal tells the next command. Some files are rewritten in place.
- **Failure.** A command of many statements may fail at each of them, inside or
  outside of a transaction, and with files already changed.
- **Ordering.** Commands take the same two locks in different orders; metadata
  is written beside data by a background task; events, orders and manifests
  arrive in any order.
- **Time and delivery.** Lock requests have a limit; requests to the cloud are
  sent again when no answer comes; a check waits for a change or a timer.

What makes each part correct is stated by the properties in section 3.

## 2. The modules

One action is what the code does between two points where another process can
see it or it can die: a system call, a statement, a request, or what a task does
between two awaits. History variables (marked so at their declaration) only
record; no guard depends on them.

- **LockPromise, FileLock.** `LockPromise` is what a command is promised: a
  readers-writer lock that can be granted, weakened and released; once
  `compromised` it promises nothing. `FileLock` is `locking.rs` on Unix for one
  path: `entry` is the inode the path names; `OpenFile`, `LockFile`,
  `LockRefused`, `WriteInfo`, `PollAgain`, `GiveUp`, `Downgrade`, `DropGuard`,
  `Unlink`, `Unlock`, `Exit`. `raced` (history): a lock was granted on an inode
  the path did not name, since the code does not look at the path again after
  locking. `KeepsPromise` is the refinement with `raced` as `compromised`. A
  process asks for a path once at a time, so `CURRENT_LOCKS` does not appear.
- **CommandLocks** composes two `LockPromise`s with the plans of ten kinds of
  command: which locks they take, in which order, after which look at the stash. Kind
  `purge` is `project unlink --destroy-server-instance`, which works on the instance
  with a lock on the project alone.
- **LocalBackup, LocalRestore.** Backups that run beside each other and beside a
  listing which removes what it takes for dead (`struck`, history: it hit a live
  one). Restores that may die at every rename. Those of different instances have
  different locks and the same work directories, so they may run beside each other;
  `met` (history) has the instances of which a restore did.
- **InstanceUpgrade, ServerUpgrade.** The first has the steps of an upgrade by
  dump and restore and of revert, with a user who writes. What was acknowledged is
  `owed`; what was acknowledged after the dump and before the server is stopped is
  `late`, for the upgrade misses it and only the backup has it. In the second module
  that upgrade is one step, and what is modelled step by step is the choice of the
  way, the preparation, finalisation and rollback in place, the record and the restart
  after it, and gel.toml. A rollback may fail, and is recorded as done (`leftover`).
- **Instances.** Two clients run any of create, link, unlink, destroy,
  reset-password, init and unlink; each removal, rename and write is a step, `Cut`
  ends a command after any of them.
- **Control.** Launches of the server, each with the runner that holds
  `service.lock`, a pid file which may outlive it, and systemd where there is one.
  `orphans` (history) are the launches whose runner died before the server.
- **Watch, UpgradeCheck, ProjectSync.** Watch's tasks of one thread, with one
  `dirty` set per executor to tell what no run has read yet. The check that runs
  again whenever files change. `sync`, which ends whenever the user has to look.
- **Migrations, Proposals, Edits.** A revision is named by a hash of its text and
  its parent, so here an id is the sequence of schemas along its history; a
  command is a queue of statements that may fail one by one; `Leading` and the
  path search stand for fixups. `Proposals` is the dialogue with the server over
  one migration, savepoints included. `Edits` has the temporary copy that
  outlives `migration edit`.
- **Branches.** Branches are sequences of bodies, `files` the histories in
  migrations/. `migration create` writes only a file and `migrate` applies it, so a
  migration may be in migrations/ only; `work` (history) is what a branch had
  and nobody dropped. `rebase` and `merge` with `--no-apply` end before they apply.
- **Dumps.** Files are known by their inodes, because a dump writes on into a file
  that others rename or unlink; tokio's background writes are `busy`, and the
  process may be killed before the last one is done (`settle`). Where the file system
  cannot rename without replacing, a look and a rename take its place. Clients write
  at any time, also between the look of a restore and what it sends (`raced`).
- **Versions, Registry, Packages.** Order, filters and queries as operators over a
  set of versions; the concurrent loading of manifests against the catalog that
  an in-order composition gives; installation by rename without any lock. Commands
  on packages run beside each other freely; `collided` (history) is set where two meet
  in one package: one unpacks, moves or removes it where another is unpacking it, an
  uninstall moves it away while another is about to give it to an instance, or an
  instance gets it after an uninstall found it unused.
- **CLI.** Who owns the executable, and the inodes behind its names. One that is
  truncated is assumed to fail when it is started, before it does anything.
- **CloudInstances, CloudAccounts.** The service carries out operations one by
  one, may fail half-way and may follow a failure by an operation that takes it
  back (modelled from how `ops.rs` follows `subsequent_id`). The second module has
  keys, profiles and the projects that name them.
- **Release.** Each workflow is a process per line (`prep`, `ctl`, `cand`), the
  publication one for all (`pub`); `lock` is the queue `release-mutation`, where
  the job that waited is cancelled by the next. An action is what a workflow does
  between two calls that others can see. A commit of a line is a backport or the
  merge of a head; what source equivalence compares is a head's line, base and
  edits, and the version follows from the merges below the base. All assets of an
  upload are one number, so two uploads differ. GitHub (branches, merges, required
  checks, queues) is external, modelled by what the workflows use of it. People
  label, edit, merge, backport and repeat runs; a run may die at any step.

**How runs compose them.** `MCInstanceData`, `MCRemote`, `MCBranches`,
`MCPackages` and `MCWatch` each hold several modules that share no state. There a
behaviour is of one part: a variable (`way`, `matter`, `part`) chosen at the start
says which one moves, the others rest at one initial state, and each property is
about one part. Components that do share
state are composed inside a module: locks and commands in `CommandLocks`, the
executors and the trigger in `Watch`, listing and backups in `LocalBackup`.

## 3. The runs

| Run | Properties, and what they say | Bounds |
|---|---|---|
| `file_lock` | `ExclusionUnlessRaced`; `KeepsPromise` (refinement); `NeverUnlinksAnothersFile`; `RequestsAnswered` (liveness) | 3 processes, one in a hook, 2 inodes, 1 poll |
| `command_locks` | `WritersWorkAlone`, but for an unlink that destroys the instance; `CommandsProceed` (liveness): whatever the order of locks, commands work or end | 2 commands of 10 kinds, a hook that reads or writes |
| `instance_data` | `BackupInv`: what is published is whole, pinned, found, restorable. `RestoreKeepsWord`: data is never lost, success installs the verified backup, for an instance no restore of which ran beside that of another. `UpgradeKeepsWord`: acknowledged writes survive, those after a dump in the backup, and a broken upgrade can be undone. `InPlaceInv`: the installation on record can run the data; a preparation is forgotten only where its rollback failed; gel.toml fits | 3 backups, 1 listing; 3 instances, 2 restores at once; 3 writes; 5 releases, 2 projects, 2 upgrades, 2 faults |
| `watch` | `WatchInv`, `ChangesHandled`, `AbortEnds`, `SyncFollowsExtension`; `ReadyIsTrue`: what upgrade-check said last becomes the truth; `SyncIsTrue`, `SyncConverges`: "in sync" is true, and running sync again gets there | 2 files, 3 executors, 1 edit, 1 fault or checkout; 3 changes, 2 errors; 2 syncs, 2 schema versions, 1 failure or change of the configuration |
| `remote` | `MigrationsInv`: no revision lost, sessions closed between commands; `HistoriesLeadOn`: every covered database finds its way to the newest; `MigrateKeepsWord`: backed up first, all or nothing, dev mode migrations end as the file made of them; `ProposalsInv`: the migration has what the user answered; `ReportsAreTrue`: a command on a cloud instance that reports success is right; `AccountsInv`, `LoginLasts`: the profiles that projects use stay, and a login's key lasts | 3 schemas, 2 databases, histories to 2, 5 commands, 1 fault; 5 proposals; 2 callers, 2 commands, 3 operations, 1 lost answer; 2 profiles, 4 keys, 2 logins |
| `branches` | `BranchesInv`, `BranchFollowsFiles`: nothing that a branch had is lost by rebase and merge; `DumpsAreWhole`: under its final name a file is whole once its dump has written; `NothingReplaced`; `EditsInv`, `ReplacesWhatWasRead` | 3 names, 3 bodies, 4 commands, 1 fault; 2 dumpers, 2 databases, 2 packets, a third dump where dumps of one database meet (`ThirdDump`); 2 editors, 3 texts, 1 kill |
| `packages` | `SelectionIsStable`: what is chosen is matched by what is recorded; `CatalogIsReference`: the order of arrival does not matter; `PackagesInv`: installed is whole, used is installed, until two commands collide on a package; `InstancesInv`: projects, ports and credentials; `CLIInv`: the executable stays whole; `ReleasesInv`: what is published is what was recorded, tested and tagged, once, without gaps, and the highest stable version is the latest; `PublishedStays`: nothing published is changed, nor its tag moved | 9 versions, 7 filters; 3 sources, 2 at a time; 2 processes and packages, 3 commands; 2 clients, 2 names, 3 tasks, 1 cut; 2 installers, 3 builds, 1 death; 2 lines, 1 phase, 2 acts on one line or 1 beside a prepared line |
| `control` | `ServerInv`: one server, under the lock of its runner, and `StopStops`: what stop found is gone, but for servers whose runner died; `StopReturns` (liveness) | 2 users, 2 runners, 2 launches, 3 commands or 2 and a fault |
| `list_removes_live` | violated: `OnlyDeadBackupsRemoved` | 2 backups, 1 listing |
| `auto_restart` | violated: `AutoRestartRestarts` | as `control` |
| `proposals_back` | violated: `ApprovalsReverted` | as `remote` |
| `unlink_destroys` | violated: `DestroyersWorkAlone` | as `command_locks` |

Why the bounds are enough. A third process is what meets two that disagree on an
inode; an inode that nobody has open is free again, so two are the one that the
path names and the deleted one (what is proved of `FileLock` holds for any number). Polls only count, so one reaches both "try
again" and "give up". Three backups are a full one, an incremental one on it, and
one that decides whether to extend the chain; with a generation limit of 0 the
limit and its off-by-one are reached. A listing beside three backups adds nothing
to a listing beside two (it looks at each directory on its own), so the state
constraint `ListsBesideTwo` of `MCLocalBackup` starts no third backup while it
lists (nor does it follow what comes after a listing has hit a live backup, when
nothing is promised any more). Two restores at once are what meets in the work
directories, and `RestoresInPairs` follows a behaviour while some instance has not
met another. Three
writes are one before, one between and one after two commands. Three schemas give
a history, a squash of it and a change after that; the second database shares
files but not history with the first. Two of everything that interleaves without
locks meets the races of pairs; the third task, package or build is the one that
finds what they left. One fault at every possible step of a long sequence shows
what a single failure leaves; a second one is allowed where recovery is itself
interrupted (upgrades, restores, reverts).

In `Release` the acts are what people do and the runs that die, since everything
else follows from those. With two acts on one line a candidate is superseded, run
again, or dies and is retried around a label; a release after a merge then goes on
to the next version. With one act beside a second, prepared line three jobs meet
in the queue, so a waiting one is cancelled, and two lines publish in either order.

A behaviour of `watch` has a fault or a change of the git branch, one of `sync` a
failure or a change of the configuration, and one of `control` spends its commands
and its fault from one account: each of these is met at every step of the others,
and what is left out is only that both happen to the same behaviour. In `packages`
a task on instances is cut short in behaviours of two tasks (`CutBefore`): the
second one finds what was left.

In `packages`, where processes are alike, the first idle one begins (`InTurn`), and
the last run of the tool itself meets no other one (`LastAlone`): what two leave
behind is for the third to find.
In `branches`, what follows a command outside of the project, or for another branch,
is not followed (`Strayed`), since both properties except it.
Symmetry is used for interchangeable instances, branch names other than the first, dumpers,
databases, callers, tasks, profiles and schemas, and only in runs without liveness
properties. Bodies of migrations and keys are numbers, made in their order
(`InOrder`, `KeysInOrder`), since no definition looks at which one is new.

Deadlock is checked in `file_lock` and `command_locks`. Elsewhere the number of
commands is bounded, so the system stops by design; in `InstanceUpgrade` an
instance can also become unusable (a kill inside `write_json` leaves an
unreadable `instance_info.json`), with its data kept but no command that
accepts it.

Fairness. `FileLock`: a process that asks for a lock or drops one keeps being
scheduled; holders keep locks as long as they like. `CommandLocks`: the same for
a command's own steps and nothing about how long its work takes, so
`CommandsProceed` rests on the time limit. `Control`: processes that are told to
stop are scheduled and the server obeys its signals; nothing about users.
`Watch` and `UpgradeCheck`: tasks that are ready are polled by the executor, and
timers fire; users need not do anything and commands may end. `ProjectSync`: here
the user does act, since that is what the property is about: he runs `sync` again
when it ended, creates the migration that needs an answer, and agrees now and then
to start the instance (strong fairness: he may be asked many times). `MCFairness`
restricts each conjunct to the behaviours of its part.

### What the violated runs show

1. `list_removes_live`: a `backup.json` that is being rewritten in place reads as
   broken, and a listing removes the directory of a backup that is being made.
2. `auto_restart`: Ctrl-C ends `instance start --foreground --auto-restart` in the
   signal handler, before the code that starts the service again.
3. `proposals_back`: after `no`, `yes`, `back` in the dialogue of `migration
   create`, the approval that was taken back stays in force.
4. `unlink_destroys`: `project unlink --destroy-server-instance` destroys the instance
   without the lock that `instance destroy` takes, while another command that holds
   it is at work there.

### Properties that no run checks, because they do not hold

The exceptions in the properties above are as narrow as the code allows. These
definitions state the same without them, and TLC refutes each:

- `FileLock.MutualExclusion`: the race for a deleted lock file.
- `CommandLocks.WatchLocksBoth`: `load_ctx` looks for the stash before it locks;
  `project init` in between leaves watch without the instance lock.
- `LocalBackup.BackupEnds`: a failed connection leaves the command at the barrier.
- `LocalRestore.SuccessInstallsBackup`: two restores share their work directories;
  one installs the other's data.
- `InstanceUpgrade.UpgradeMissesNothing`: the server is stopped some time after the
  dump was taken, so an upgrade that reports success lacks what was acknowledged in
  between. `InstanceUpgrade.RevertTakesWhole`: an upgrade that died while it removed
  an old backup may have left it with files missing, and revert takes it.
- `InstanceUpgrade.MarkerMeansUpgrade`: revert leaves the marker of the broken
  upgrade, and later upgrades refuse after having stopped the server.
- `ServerUpgrade.FailureReverted`: DDL stays disabled after a failed preparation.
- `Migrations.FixupCanBeRetried`: a fixup applied without the rewrite that follows
  it strands the database, and a loop of fixups is taken for a bug.
- `Migrations.ExtractSyncs`: extract leaves files beyond the database's history.
- `Branches.RemovesOnlyCopies`: a rebase removes every file and writes back the
  histories of the databases, so a migration that was not applied yet is lost.
- `Versions.HintNamesTheVersion`: the hint's filter matches other versions.
- `Packages.PublishedPackageIsWhole`: two installs of one version share a
  temporary directory.
- `Instances.ResetLeadsToServer`: without readable credentials, reset-password
  writes a port that is nobody's.
- `Control.DisableStops`: a socket that is still active starts the service anew.
- `Release.StagedRecordStands`: a head with its record does not mean that "the
  candidate exists". A second run for the same identity, dispatched before the
  record was pushed, takes the draft as its own and replaces the assets that the
  record names; the gate then refuses the pull request until its head changes.
- `Edits` with `InProject = FALSE`: outside of a project nothing locks, and both
  properties fail.

Three observations without a property. `select_draft` refuses a draft whose base
moved, so after a backport beside a staged candidate the same version can be
staged again only when somebody has deleted its draft; and a publication that was cancelled in the queue
comes back only if somebody repeats it. And `find_cloud_instance_by_name` ends with an
error for an instance that does not exist and never returns `None`, so the
questions for a new name in `instance/create.rs:309-325` and
`project/init.rs:1036-1050` end with that error.

## 4. The proofs

Checked by TLAPS for every value of the constants:

- `ExclusionProofs`, about what is locked. `LockInvHolds` (any number of
  processes, inodes and polls).
  `LockInv` strengthens exclusion with: a file is open exactly between opening and
  closing (`FilesOpen`); what the kernel guarantees (`KernelExclusion`); drop
  unlinks only under an exclusive lock (`UnlinksExclusively`); all locks in force
  are on the inode the path names (`LocksNamed`). Exclusion alone is not
  inductive: that two exclusive holders cannot be on different inodes needs
  `LocksNamed`, and that an unlink keeps `LocksNamed` needs the unlinker to be
  alone. From it follow `GuardsExclude`, `DropsOnlyItsOwnFile` (an action property)
  and `ImplementsPromise`, the refinement of `LockPromise` step by step.
  Then the release workflows: `ReleasesHold` and `PublishedReleasesStay` (an action
  property), for any finite set of lines, any phases and any number of merges, labels, runs,
  retries and deaths. A run carries what it read long before it acts, and others
  merge, tag and publish in between; so `ReleasesInductive` asks of it only what
  lasts: the identity and the record are of a head that exists (`Sourced`,
  `RunsCarry`) and, for a preview, that each number below its own is that of a
  published preview of another snapshot (`Numbered`). Whoever is changing a draft
  holds `release-mutation` (`WritingFits`), and what is about to be published is
  still the draft that its record describes and, if stable, a merge of what was
  tested (`PublishingFits`); so what comes out has all that `OutFits` says of a
  release.
- `InstanceDataProofs`, about what holds the data of an instance. `DataSurvivesRestores`,
  for any set of instances and any restores: `AloneFits` has what each step of a restore
  has left in the work directories as long as its instance has not met another, and that
  while its data are set aside no other restore gets further than its check, which
  finds the work directory in use.
  `UpgradeInvHolds`, `OwedWritesSurvive` and `UpgradesKeepTheirWord`, for any number of
  writes: an upgrade works on whole data, then on a whole backup; its dump, taken from
  the one, is in the other; and nothing is written while the server is down. What was
  acknowledged between the dump and the stop (`late`) is in the data until they become
  the backup, and in the backup after that. A revert that takes a backup with files
  missing is the one exception, and the last thing to happen (`torn`).
  `UpgradesInPlaceHold`, for any releases and projects and any number of commands,
  failures and edits: `InPlaceStep` has what an upgrade in place has prepared, what
  serves and in which format the data are at each step (a restart that did not come
  leaves a compatible version serving), that a preparation off the record is one whose
  rollback failed, and `CommandKnows` that what was chosen fits the projects that were asked. `BackupsHold`, for any number of
  backups and listings that run at once: `RecordFits`, `ParentFits` and `FilesFit`
  say at each step of a backup what its record names and which files it has
  written. That the chain of parents ends at a full backup is a statement about
  walks; instead of an induction it is a minimal counterexample, the backup of
  lowest generation that could not be restored, and an automatic chain is counted
  by its incremental backups.
- `CommandsProofs`. `WritersDoWorkAlone`, for any number of commands and hooks, beside
  anyone but an unlink that destroys the instance.
  `LocksInv` says at which places of its plan each kind of command holds the
  instance lock, and in which mode, if it saw the stash (`HoldsAt`); that a hook's
  parent is at work; and that guards of two commands are compatible. It is needed
  because a command's guard is taken several steps before its work, and because
  watch weakens its lock in between. `PlanSteps` is the lemma about the plans: what
  comes at each place, and what next.
  Then the commands that put a file in place by renaming it:
  `EditsLeaveSoundFiles` and `EditsReplaceWhatTheyRead`: the project's lock leaves
  one edit at a time, and `EditKnows` relates what that edit has read to the
  migration and to its copies. `DumpsStayWhole`: no two dumps write one inode, and on
  a database on which no two of them met, the temporary name is that of the dump's
  own inode and the final name is not (`FilesInductive`); the background write that
  may still be under way, and may be cut off, is what makes `DumpsAreWhole` alone not
  inductive.
  `NothingIsReplaced` (an action property): the database that a restore reads into
  was found empty and stays so unless a client writes to it (`RestoresInductive`); and
  where the rename is not exclusive, a file that appeared after the look is that of a
  dump beside it.
- `CloudProofs`. `ReportsHold`, for any number of instances, callers, operations and
  lost answers. A command reports what it learned from the last operation it followed,
  and the property speaks of the instance, so `CallFits` carries what relates the two:
  the operations of an instance are carried out one by one (`Serial`), what the
  command has going on is what it follows (`Watches`), and each operation of its own,
  ended or under way, leaves what was asked for before and brings what it asks for
  (`Keeps`: a rollback too, since what it takes back to had it already). Another
  caller's operation is exactly what ends that knowledge (`Others`).
  `AccountsHold` and `SuccessfulLoginsLast` (an action
  property), for any number of profiles, projects, keys and commands at a time: what
  one command read may be changed by another; `Knows` is the part that stays true:
  above all that a key that is about to be saved does not expire, and that what a
  logout removes is unused or was consented to.
- `ProjectProofs`. `BranchesKeepApart`: when the user leaves the branch, at most one
  more run migrates the schema of another one. The code looks at the branch before
  it connects, so what has to be added is that after the first such run none is
  between the look and the read (`BranchChecked`). `SyncTellsTheTruth`: a sync that
  reports success is in sync, for which `SyncKnows` has what it knows at each step if
  nothing was changed beside it. `ProposalsHold`, for any proposals of the server: the
  savepoints and the approvals are two stacks that `back` cuts to one height, but a
  rejection is on the first alone. So `SavepointFits` asks for an approval at the same
  height only where no rejection is in force, which is enough because a savepoint
  without one has none below it; `Begun` is what a proposal looks like whose statements
  are being executed.
  `BranchesHold` and `BranchesKeepFiles` (an action property), for any branches,
  migrations, commands and failures, as long as commands are run in the project and
  for its branch. `CommandFits` says, by the steps that a command
  has left, what it has made of the branches and the files; `WorkFits` that until a
  rebase drops its source all work is in a branch other than the temporary one
  (`Held`), because whatever fails before then drops the temporary branch; and
  `RecordsFit` how far the two records of the current branch are while nothing has
  failed. `CommonFits` and `RebasedFits` are the lemmas about the common part of two
  histories and about what a rebase makes of them, `LastSteps` the one that only two
  steps can end a rebase or a merge.
- `MigrationsProofs`. `MigrateKeepsItsWord` (an action property) and
  `MigrationsHold`, for any schemas, databases, histories and directories, any number
  of commands and edits, and whatever statement fails. A command is a queue of
  statements, so what is to be said of it is said of the queue that is left: `Fits`
  relates it to the database, to the rewrite and to the transaction of its session.
  Every rewrite and transaction that the queue opens it closes (`SessionFits`); a
  backup comes before what changes the database (`BackupFits`); under
  `--single-transaction` the session is before, inside or after the one transaction
  (`SingleFits`); and dev mode has still to apply the newest revision, or stands there,
  or has found a schema of its own after it (`DevFits`). `LocalFits` takes `Fits` through
  a step of one command. The rest is sequences: lemmas about the tail of a queue
  (`TailPaired`, `TailLands`) and about queues that are joined (`JoinBalanced`,
  `JoinSettles`), from which `ApplyFits`, `NormalFits` and `RebaseFits` show that the
  queues fit that `migration apply` and dev mode begin with. `PathsLead` says of any
  path through the fixups, and so of whichever the search finds, that its statements
  are balanced and lead to its goal; `RecursionExists`, by a minimal counterexample,
  that the functions which join the statements and go back through the search have
  values at all.
  `RevisionsKept` is what `MigrationsInv` lacks: the queue of a squash writes the
  squashed revision before it removes an old one, and nothing comes after (`Tidy`,
  `InOrder`). `AncestorsReadable` is the lemma that a directory whose revisions follow
  each other has all the ancestors of its newest.
- `PackagesProofs`: `PackagesStayWhole`, for any number of processes, packages and
  instances. As long as no two commands collided on a package, no two are unpacking
  one (`Apart`), and what each finds depends on its own steps alone (`Fits`): the
  temporary directory has what it has unpacked, what it is about to give to an instance
  is whole, and nothing that an uninstall has left to remove is in use.
  `InstancesHold`, for any number of clients, commands and cuts, any directories and
  any finite set of names. `InstancesInductive` adds that two clients at work on one
  name are excused (`Alone`) and never share a project (`DirsApart`); what the data
  and the credentials of a name are while nobody works on it (`Settled`) and at each
  step of whoever does (`Stands`); that a removal misses none of the projects it is
  going to forget, though they were listed before the data went (`ProjectFits`); and
  that, while no allocation raced, the map has the port of all data, each port once
  (`Registered`), on disk or in the hands of the one command that writes it
  (`PortFits`). `FreePort` says that the search for a port succeeds, and finds one
  that the map does not have.
  `SelectionsHold`, for any finite set of versions and any filters: `ChosenFits` has
  each selection as a last of what its query matched. That the order of versions is
  total on what can match (`EarlierOrders`), that a finite set has a last version
  (`LatestIsLast`, by a minimal counterexample on its size) and that an inexact
  filter which matches a version matches those that come after it in its major
  version (`LaterMatches`) is what the property needs.
- `MachineProofs`. `CLIHolds`, for any installers and builds. A file is a name for an
  inode, and the property speaks of names; so `CLIInductive` adds which names may share
  an inode (`NamesApart`: only the two names of the tool and the backups), that the
  files to be kept are whole unless two installs raced (`KeptWhole`), what a process
  knows of its inode and of its source at each step (`ActingFits`), that the one who
  copies while no other does is who wrote the copy (`CopyFits`), and what an upgrade
  that met no other command knows of what it chose and of what it replaces
  (`AloneFits`). `InstallerMoves` is the lemma about a step of one process on what the
  others know, `NamesMove` and `InodesMove` being what it may do to the files.
  `OneServer`, for any number of users, launches and signals.
  `ServerInv` says little of how a server came to hold its lock and its pid file;
  `JobFits` says it of every process at each point of starting, running and stopping,
  and `Tended` that a server lives under its runner unless that one died (`orphans`).
  `StopsStop` (an action property) follows: a stop that reports success has ended what
  it found, `OnUnit` being the commands that are stopping the unit of the service manager.

The proofs have one lemma for what a step of one process leaves to the others
(`TaskMoves`, `CommandMoves`, `JobMoves`, `EditMoves`, `DumpMoves`, `SyncMoves`,
`ClientMoves`, `InstallerMoves`, `BackupMoves`, `ListMoves`, `OwnStep`,
`CallerStep`), one for the initial states
and one for a step, with a case for each action.

Assumptions: those named in the modules about the constants (a special value is
none of the ordinary ones: `Nobody`, `Absent`, `None`, `Empty`, and no schema is "none"; users and runners are different
processes; the cloud offers a stable version, and no size is zero; builds and lines are
numbered from 1, as 0 stands for none; a name made by `Uuid::new_v4` is nobody's); a
finite number of names of instances, for a free port to exist, and of versions, for a
last one to exist; `InProject` for edits, since outside of a project `migration edit` takes
no lock, and both properties fail there (section 3).

## 5. Only model-checked

Every liveness property: liveness under fairness and ENABLED are out of the prover's
reach (`RequestsAnswered`, `CommandsProceed`, `ChangesHandled`, `AbortEnds`,
`SyncFollowsExtension`, `ReadyIsTrue`, `SyncConverges`, `StopReturns`). So is
induction over data as far as it goes through recursive definitions: what
`CatalogIsReference` (a fold over manifests) and `HistoriesLeadOn` (that a search finds a
path of fixups) say rests on what those compute. Where a property needs induction and no
recursive definition, or only that a recursion has a value of some kind, a minimal
counterexample takes its place, as in `BackupsHold`, `SelectionsHold` and
`RecursionExists`.

Components that share no state can be proved about in one module, as `FileLock` and
`Release` are in `ExclusionProofs`, `Edits` and `Dumps` in `CommandsProofs`, `Watch` and
`Branches` in `ProjectProofs`, and `CLI` and `Control` in `MachineProofs`.

## 6. Not modelled

- Presentation: the REPL, printing, tables, prompts, completions, options and the
  derive macros behind them. They keep no state that outlives a command.
- Parsing: EdgeQL statements, source maps, shell profiles, the docker command's
  output.
- The network protocol and the pool of connections, which a library owns.
- What `project/config` turns a difference of configuration files into, statement
  by statement: `ProjectSync` has configurations as values.
- Windows, where the tool delegates to a second one under WSL, and launchd, whose
  control is like systemd's.
- `CURRENT_LOCKS` in `locking.rs`: the locks a process hands out again to itself.
- Of the release tooling: building, signing, smoke tests, attestations and the
  packages of distributions, which are I/O or make what `Release` calls assets;
  who may set a label, which is part of `AddLabel`; drafts deleted by hand.
