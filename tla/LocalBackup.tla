---------------------------- MODULE LocalBackup ----------------------------
(***************************************************************************)
(* gel-cli-instance/src/local/localbackup.rs and the `instance backup` and *)
(* `instance list-backups` commands around it: the directory               *)
(* <instance>.backups of one local instance, the backups being taken into  *)
(* it and the listings that clean it up.  All of them hold the instance    *)
(* lock shared, so they run side by side.                                  *)
(*                                                                         *)
(* Backups are numbered in the order of their ids, for a UUID v7 grows     *)
(* with time; 0 stands for no backup.                                      *)
(***************************************************************************)
EXTENDS Naturals, FiniteSets

CONSTANTS
    Listers,        \* processes running `instance list-backups`
    MaxBackups,     \* backups taken in all
    MaxRunning,     \* backups running at the same time
    MaxGeneration,  \* MAX_INCREMENTAL_GENERATION
    Wishes          \* strategies asked for

ASSUME SizesAssumption == MaxBackups \in Nat \ {0} /\ MaxRunning \in Nat /\ MaxGeneration \in Nat
ASSUME WishesAssumption == Wishes \subseteq {"Full", "Incremental", "Auto"}

Ids == 1..MaxBackups

VARIABLES
    stage,      \* where each backup is in InstanceBackup::backup
    wish,       \* RequestedBackupStrategy
    parent,     \* incremental_parent, or 0
    dir,        \* the backup's directory: .<id>.tmp, <id>, or absent
    meta,       \* what its backup.json holds
    kind,       \* metadata.backup_strategy
    base,       \* metadata.incremental.parent_backup_id, or 0
    gen,        \* metadata.incremental.incremental_generation, 0 when full
    contents,   \* its data/ directory
    tick,       \* the liveness task that rewrites backup.json
    stale,      \* last_updated_at is more than BACKUP_TIMEOUT ago
    child,      \* <id>.child in the parent's directory
    latest,     \* id in the file `latest`, 0 when absent
    latestTmp,  \* id in the file `.latest.tmp`, 0 when absent
    scan,       \* each listing: entries to look at, entries to remove, entry
                \* whose directory is open for removal
    struck      \* history: a listing removed files of a live or published backup

files == <<dir, meta, contents>>
record == <<kind, base, gen>>
pointers == <<latest, latestTmp>>
backupVars == <<stage, wish, parent, record, tick, stale, child, pointers>>
backups == <<files, backupVars, scan, struck>>

Ended == {"done", "failed", "crashed"}
Stages == {"idle", "waiting", "stranded", "choosing", "pinning", "making",
           "describing", "opened", "copying", "copied", "sealing", "sealed",
           "publishing", "announcing", "clearing", "pointing", "renaming",
           "unpointing", "repointing", "rerenaming", "noting"} \cup Ended
Places == {"none", "tmp", "final"}
Entries == Ids \X {"tmp", "final"}
NoEntry == <<0, "tmp">>
NotListing == [todo |-> {}, doomed |-> {}, victim |-> NoEntry, on |-> FALSE]

BackupTypeOK ==
    /\ stage \in [Ids -> Stages]
    /\ wish \in [Ids -> {"Full", "Incremental", "Auto"}]
    /\ parent \in [Ids -> 0..MaxBackups]
    /\ dir \in [Ids -> Places]
    /\ meta \in [Ids -> {"absent", "blank", "running", "completed"}]
    /\ kind \in [Ids -> {"Full", "Incremental"}]
    /\ base \in [Ids -> 0..MaxBackups]
    /\ gen \in [Ids -> 0..MaxBackups]
    /\ contents \in [Ids -> {"none", "part", "whole", "damaged"}]
    /\ tick \in [Ids -> {"off", "idle", "writing"}]
    /\ \A b \in Ids : tick[b] # "off" => stage[b] \in {"copying", "copied"}
    /\ stale \in [Ids -> BOOLEAN]
    /\ child \in [Ids -> {"none", "in-progress", "finalizing", "completed"}]
    /\ latest \in 0..MaxBackups
    /\ latestTmp \in 0..MaxBackups
    /\ scan \in [Listers -> [todo : SUBSET Entries, doomed : SUBSET Entries,
                             victim : Entries \cup {NoEntry}, on : BOOLEAN]]
    /\ struck \in BOOLEAN

BackupInit ==
    /\ stage = [b \in Ids |-> "idle"]
    /\ wish = [b \in Ids |-> "Auto"]
    /\ parent = [b \in Ids |-> 0]
    /\ dir = [b \in Ids |-> "none"]
    /\ meta = [b \in Ids |-> "absent"]
    /\ kind = [b \in Ids |-> "Full"]
    /\ base = [b \in Ids |-> 0]
    /\ gen = [b \in Ids |-> 0]
    /\ contents = [b \in Ids |-> "none"]
    /\ tick = [b \in Ids |-> "off"]
    /\ stale = [b \in Ids |-> FALSE]
    /\ child = [b \in Ids |-> "none"]
    /\ latest = 0
    /\ latestTmp = 0
    /\ scan = [l \in Listers |-> NotListing]
    /\ struck = FALSE

To(b, s) == stage' = [stage EXCEPT ![b] = s]
Live(b) == stage[b] \notin Ended \cup {"idle"}

(* BackupMetadata::from_file on the path of an entry *)
Readable(b, place) ==
    /\ dir[b] = place
    /\ meta[b] \in {"running", "completed"}
    /\ meta[b] = "running" => ~stale[b]

Published == {b \in Ids : dir[b] = "final"}

(* BackupRecord::latest: the file if it names an existing backup, else the  *)
(* greatest id among the completed backups. *)
Latest ==
    LET completed == {b \in Published : meta[b] = "completed"}
    IN  IF latest \in Published THEN latest
        ELSE IF completed = {} THEN 0
        ELSE CHOOSE b \in completed : \A c \in completed : c <= b

----------------------------------------------------------------------------
(* `instance backup` *)

(* The command spawns a task that connects to the instance, and waits for   *)
(* it at a barrier. *)
Start(b, w) ==
    /\ stage[b] = "idle"
    /\ \A c \in 1..(b - 1) : stage[c] # "idle"
    /\ Cardinality({c \in Ids : Live(c)}) < MaxRunning
    /\ To(b, "waiting")
    /\ wish' = [wish EXCEPT ![b] = w]
    /\ UNCHANGED <<parent, files, record, tick, stale, child, pointers, scan, struck>>

Connected(b) ==
    /\ stage[b] = "waiting"
    /\ To(b, "choosing")
    /\ UNCHANGED <<wish, parent, files, record, tick, stale, child, pointers, scan, struck>>

(* Connection::connect fails: the task returns before the barrier, where    *)
(* the command goes on waiting. *)
ConnectFails(b) ==
    /\ stage[b] = "waiting"
    /\ To(b, "stranded")
    /\ UNCHANGED <<wish, parent, files, record, tick, stale, child, pointers, scan, struck>>

(* An automatic backup may be incremental on b. *)
Extends(b) == meta[b] = "completed" /\ gen[b] <= MaxGeneration

(* The choice of incremental_parent.  The full backup under an incremental  *)
(* one may be older than MAX_INCREMENTAL_AGE. *)
Choose(b) ==
    /\ stage[b] = "choosing"
    /\ \/ /\ \/ wish[b] = "Incremental" /\ Latest = 0
             \/ wish[b] # "Full" /\ Latest # 0 /\ ~Readable(Latest, "final")
          /\ To(b, "failed")
          /\ UNCHANGED <<parent, kind>>
       \/ /\ \/ wish[b] = "Full"
             \/ wish[b] = "Auto" /\ Latest = 0
             \/ wish[b] = "Auto" /\ Latest # 0 /\ Readable(Latest, "final") /\ gen[Latest] > 0
          /\ To(b, "making")
          /\ UNCHANGED <<parent, kind>>
       \/ /\ wish[b] # "Full" /\ Latest # 0 /\ Readable(Latest, "final")
          /\ wish[b] = "Auto" => Extends(Latest)
          /\ To(b, "pinning")
          /\ parent' = [parent EXCEPT ![b] = Latest]
          /\ kind' = [kind EXCEPT ![b] = "Incremental"]
    /\ UNCHANGED <<wish, files, base, gen, tick, stale, child, pointers, scan, struck>>

(* Writes of the child record: "in-progress" before the copy, "finalizing"  *)
(* and "completed" after it.  They need the parent's directory. *)
WriteChild(b, from, status, to) ==
    /\ stage[b] = from
    /\ \/ /\ parent[b] # 0 /\ dir[parent[b]] = "final"
          /\ child' = [child EXCEPT ![b] = status]
          /\ To(b, to)
       \/ /\ parent[b] # 0 /\ dir[parent[b]] # "final"
          /\ To(b, "failed")
          /\ UNCHANGED child
       \/ /\ parent[b] = 0
          /\ To(b, to)
          /\ UNCHANGED child
    /\ UNCHANGED <<wish, parent, files, record, tick, stale, pointers, scan, struck>>

MakeDir(b) ==
    /\ stage[b] = "making"
    /\ To(b, "describing")
    /\ dir' = [dir EXCEPT ![b] = "tmp"]
    /\ UNCHANGED <<wish, parent, meta, contents, record, tick, stale, child, pointers, scan, struck>>

(* std::fs::write of backup.json: open with truncation, then write.  The    *)
(* file may be unlinked in between; the write then goes nowhere. *)
OpenMeta(b, from, to) ==
    /\ stage[b] = from
    /\ \/ dir[b] = "tmp" /\ To(b, to) /\ meta' = [meta EXCEPT ![b] = "blank"]
       \/ dir[b] # "tmp" /\ To(b, "failed") /\ UNCHANGED meta
    /\ UNCHANGED <<wish, parent, dir, contents, record, tick, stale, child, pointers, scan, struck>>

Written(b, content) ==
    meta' = IF meta[b] = "blank" THEN [meta EXCEPT ![b] = content] ELSE meta

(* The first backup.json is written, the liveness task spawned and          *)
(* pg_basebackup started, which creates the directories it lacks. *)
DescribeMeta(b) ==
    /\ stage[b] = "opened"
    /\ To(b, "copying")
    /\ Written(b, "running")
    /\ stale' = [stale EXCEPT ![b] = FALSE]
    /\ tick' = [tick EXCEPT ![b] = "idle"]
    /\ dir' = [dir EXCEPT ![b] = "tmp"]
    /\ contents' = [contents EXCEPT ![b] = "part"]
    /\ UNCHANGED <<wish, parent, record, child, pointers, scan, struck>>

(* The liveness task rewrites backup.json, ignoring errors, until it is     *)
(* aborted once the copy is there. *)
TickOpen(b) ==
    /\ tick[b] = "idle"
    /\ stage[b] # "copied"
    /\ dir[b] = "tmp"
    /\ tick' = [tick EXCEPT ![b] = "writing"]
    /\ meta' = [meta EXCEPT ![b] = "blank"]
    /\ UNCHANGED <<stage, wish, parent, dir, contents, record, stale, child, pointers, scan, struck>>

TickWrite(b) ==
    /\ tick[b] = "writing"
    /\ tick' = [tick EXCEPT ![b] = "idle"]
    /\ Written(b, "running")
    /\ stale' = [stale EXCEPT ![b] = FALSE]
    /\ UNCHANGED <<stage, wish, parent, dir, contents, record, child, pointers, scan, struck>>

(* pg_basebackup, incremental on the parent or falling back to a full one.  *)
(* Files of it that a listing removed stay lost.                            *)
Copy(b) ==
    /\ stage[b] = "copying"
    /\ To(b, "copied")
    /\ contents' = IF contents[b] = "part" THEN [contents EXCEPT ![b] = "whole"] ELSE contents
    /\ \/ /\ parent[b] # 0
          /\ base' = [base EXCEPT ![b] = parent[b]]
          /\ gen' = [gen EXCEPT ![b] = gen[parent[b]] + 1]
          /\ UNCHANGED kind
       \/ /\ kind' = [kind EXCEPT ![b] = "Full"]
          /\ UNCHANGED <<base, gen>>
    /\ UNCHANGED <<wish, parent, dir, meta, tick, stale, child, pointers, scan, struck>>

(* No socket, or pg_basebackup fails: the scope guard aborts the liveness   *)
(* task and does its best to remove the directory. *)
CopyFails(b) ==
    /\ stage[b] = "copying"
    /\ To(b, "failed")
    /\ tick' = [tick EXCEPT ![b] = "off"]
    /\ \/ UNCHANGED files
       \/ /\ dir' = [dir EXCEPT ![b] = "none"]
          /\ meta' = [meta EXCEPT ![b] = "absent"]
          /\ contents' = [contents EXCEPT ![b] = "none"]
    /\ UNCHANGED <<wish, parent, record, stale, child, pointers, scan, struck>>

(* Slip: the liveness task is left running. *)
SettleLeavingTask(b) ==
    /\ stage[b] = "copied"
    /\ To(b, "sealing")
    /\ UNCHANGED <<wish, parent, files, record, tick, stale, child, pointers, scan, struck>>

(* The scope guard is disarmed, the liveness task aborted and awaited. *)
Settle(b) ==
    /\ stage[b] = "copied"
    /\ tick[b] # "writing"
    /\ To(b, "sealing")
    /\ tick' = [tick EXCEPT ![b] = "off"]
    /\ UNCHANGED <<wish, parent, files, record, stale, child, pointers, scan, struck>>

SealMeta(b) ==
    /\ stage[b] = "sealed"
    /\ To(b, "publishing")
    /\ Written(b, "completed")
    /\ stale' = [stale EXCEPT ![b] = FALSE]
    /\ UNCHANGED <<wish, parent, dir, contents, record, tick, child, pointers, scan, struck>>

(* rename(.<id>.tmp, <id>) *)
Publish(b) ==
    /\ stage[b] = "publishing"
    /\ \/ dir[b] = "tmp" /\ To(b, "announcing") /\ dir' = [dir EXCEPT ![b] = "final"]
       \/ dir[b] # "tmp" /\ To(b, "failed") /\ UNCHANGED dir
    /\ UNCHANGED <<wish, parent, meta, contents, record, tick, stale, child, pointers, scan, struck>>

(* remove_file and write of .latest.tmp, which all backups share.  The few  *)
(* bytes of the id count as one write. *)
ClearLatestTmp(b) ==
    /\ stage[b] = "clearing"
    /\ To(b, "pointing")
    /\ latestTmp' = 0
    /\ UNCHANGED <<wish, parent, files, record, tick, stale, child, latest, scan, struck>>

WriteLatestTmp(b, from, to) ==
    /\ stage[b] = from
    /\ To(b, to)
    /\ latestTmp' = b
    /\ UNCHANGED <<wish, parent, files, record, tick, stale, child, latest, scan, struck>>

(* rename(.latest.tmp, latest), which fails when another backup has renamed *)
(* the file away. *)
RenameLatest(b, from, otherwise) ==
    /\ stage[b] = from
    /\ \/ /\ latestTmp # 0
          /\ To(b, "noting")
          /\ latest' = latestTmp
          /\ latestTmp' = 0
       \/ /\ latestTmp = 0
          /\ To(b, otherwise)
          /\ UNCHANGED pointers
    /\ UNCHANGED <<wish, parent, files, record, tick, stale, child, scan, struck>>

RemoveLatest(b) ==
    /\ stage[b] = "unpointing"
    /\ To(b, IF latest = 0 THEN "failed" ELSE "repointing")
    /\ latest' = 0
    /\ UNCHANGED <<wish, parent, files, record, tick, stale, child, latestTmp, scan, struck>>

(* The process is killed. *)
Crash(b) ==
    /\ Live(b)
    /\ To(b, "crashed")
    /\ tick' = [tick EXCEPT ![b] = "off"]
    /\ UNCHANGED <<wish, parent, files, record, stale, child, pointers, scan, struck>>

(* BACKUP_TIMEOUT passes without a rewrite: the backup is over, or the host *)
(* slept. *)
Age(b) ==
    /\ meta[b] \in {"running", "completed"}
    /\ stale' = [stale EXCEPT ![b] = TRUE]
    /\ UNCHANGED <<stage, wish, parent, files, record, tick, child, pointers, scan, struck>>

(* The steps of a backup once its command is past the barrier. *)
Proceed(b) ==
    \/ Choose(b)
    \/ WriteChild(b, "pinning", "in-progress", "making")
    \/ MakeDir(b)
    \/ OpenMeta(b, "describing", "opened")
    \/ DescribeMeta(b)
    \/ Copy(b)
    \/ CopyFails(b)
    \/ Settle(b)
    \/ OpenMeta(b, "sealing", "sealed")
    \/ SealMeta(b)
    \/ Publish(b)
    \/ WriteChild(b, "announcing", "finalizing", "clearing")
    \/ ClearLatestTmp(b)
    \/ WriteLatestTmp(b, "pointing", "renaming")
    \/ RenameLatest(b, "renaming", "unpointing")
    \/ RemoveLatest(b)
    \/ WriteLatestTmp(b, "repointing", "rerenaming")
    \/ RenameLatest(b, "rerenaming", "failed")
    \/ WriteChild(b, "noting", "completed", "done")

----------------------------------------------------------------------------
(* `instance list-backups` *)

ListStart(l) ==
    /\ ~scan[l].on
    /\ scan' = [scan EXCEPT ![l] =
                    [NotListing EXCEPT !.on = TRUE,
                                       !.todo = {e \in Entries : dir[e[1]] = e[2]}]]
    /\ UNCHANGED <<files, backupVars, struck>>

(* An entry whose metadata cannot be read is to be removed. *)
ListEntry(l) ==
    \E e \in scan[l].todo :
        /\ scan' = [scan EXCEPT
                        ![l].todo = @ \ {e},
                        ![l].doomed = IF Readable(e[1], e[2]) THEN @ ELSE @ \cup {e}]
        /\ UNCHANGED <<files, backupVars, struck>>

(* remove_dir_all opens the directory by its path ... *)
RemoveEntry(l) ==
    /\ scan[l].todo = {}
    /\ scan[l].victim = NoEntry
    /\ \E e \in scan[l].doomed :
          scan' = [scan EXCEPT ![l].doomed = @ \ {e},
                               ![l].victim = IF dir[e[1]] = e[2] THEN e ELSE NoEntry]
    /\ UNCHANGED <<files, backupVars, struck>>

(* ... removes the files in the open directory, whatever its name is now ... *)
RemoveFiles(l) ==
    LET b == scan[l].victim[1]
    IN  /\ scan[l].victim # NoEntry
        /\ meta[b] # "absent" \/ contents[b] \in {"part", "whole"}
        /\ meta' = [meta EXCEPT ![b] = "absent"]
        /\ contents' = [contents EXCEPT ![b] = IF @ = "none" THEN @ ELSE "damaged"]
        /\ struck' = (struck \/ Live(b) \/ dir[b] = "final")
        /\ UNCHANGED <<dir, backupVars, scan>>

(* ... and the directory by its path, if it has become empty. *)
RemoveDir(l) ==
    LET e == scan[l].victim
        b == e[1]
    IN  /\ e # NoEntry
        /\ contents[b] \notin {"part", "whole"}
        /\ \/ /\ dir[b] = e[2] /\ meta[b] = "absent"
              /\ dir' = [dir EXCEPT ![b] = "none"]
              /\ contents' = [contents EXCEPT ![b] = "none"]
           \/ /\ dir[b] # e[2] \/ meta[b] # "absent"
              /\ UNCHANGED <<dir, contents>>
        /\ struck' = (struck \/ Live(b) \/ dir[b] = "final")
        /\ scan' = [scan EXCEPT ![l].victim = NoEntry]
        /\ UNCHANGED <<meta, backupVars>>

ListEnd(l) ==
    /\ scan[l].on /\ scan[l].todo = {} /\ scan[l].doomed = {} /\ scan[l].victim = NoEntry
    /\ scan' = [scan EXCEPT ![l] = NotListing]
    /\ UNCHANGED <<files, backupVars, struck>>

BackupNext ==
    \/ \E b \in Ids :
          \/ \E w \in Wishes : Start(b, w)
          \/ Connected(b)
          \/ ConnectFails(b)
          \/ Proceed(b)
          \/ TickOpen(b)
          \/ TickWrite(b)
          \/ Crash(b)
          \/ Age(b)
    \/ \E l \in Listers :
          ListStart(l) \/ ListEntry(l) \/ RemoveEntry(l) \/ RemoveFiles(l)
          \/ RemoveDir(l) \/ ListEnd(l)

BackupSpec == BackupInit /\ [][BackupNext]_backups

(* A backup command is scheduled, and its connection attempt has an outcome. *)
FairSpec ==
    BackupSpec /\ \A b \in Ids : /\ WF_backups(Connected(b) \/ ConnectFails(b) \/ Proceed(b))
                           /\ WF_backups(TickWrite(b))

----------------------------------------------------------------------------
(* Properties *)

Sound(b) == dir[b] = "final" /\ meta[b] = "completed" /\ contents[b] = "whole"

(* What `instance restore` needs of the backups it is pointed at: a chain   *)
(* of published, undamaged backups of its own kind down to a full one.      *)
Restorable(b) ==
    \E n \in 0..MaxBackups : \E chain \in [0..n -> Ids] :
        /\ chain[0] = b /\ \A m \in 1..n : chain[m] = base[chain[m - 1]]
        /\ \A m \in 0..n : Sound(chain[m]) /\ (kind[chain[m]] = "Full" <=> m = n)

(* A backup gets its final name only when it is complete, and stays         *)
(* restorable through its chain of parents, whatever crashes and overlaps,   *)
(* until a listing hits a live or published backup. *)
PublishedIsRestorable == struck \/ \A b \in Published : Restorable(b)

(* "Abort the task so we don't accidentally race": a published backup.json  *)
(* says "completed", and a full data directory stands beside it; and "write *)
(* a child record so the parent cannot be deleted": every incremental       *)
(* backup, running or published, is recorded in its parent; and a listing   *)
(* condemns no published backup.  Once a backup is published, --latest and  *)
(* the next incremental backup find one, even between the removal and the   *)
(* rewriting of `latest`; and automatic chains end: MAX_INCREMENTAL_GENERA- *)
(* TION is the last generation on which another incremental one may rest.   *)
(* What is published can be restored. *)
BackupInv ==
    /\ BackupTypeOK /\ PublishedIsRestorable
    /\ struck \/ \A b \in Published : meta[b] = "completed" /\ contents[b] = "whole"
    /\ \A b \in Ids : base[b] # 0 => child[b] # "none"
    /\ struck \/ \A l \in Listers : \A e \in scan[l].doomed : e[2] # "final"
    /\ struck \/ Published = {} \/ Latest \in Published
    /\ \A b \in Published :
          /\ gen[b] > 0 <=> kind[b] = "Incremental"
          /\ kind[b] = "Incremental" => gen[b] = gen[base[b]] + 1
          /\ wish[b] = "Auto" => gen[b] <= MaxGeneration + 1

(* "Update the metadata file every minute so we can detect dead backup      *)
(* tasks": what a listing removes belongs to no live or published backup. *)
OnlyDeadBackupsRemoved == ~struck

(* "Waiting for instance to be ready": the command gets past the wait, or   *)
(* ends. *)
BackupEnds == \A b \in Ids : stage[b] = "waiting" ~> stage[b] \in Ended

============================================================================
