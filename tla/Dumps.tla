------------------------------- MODULE Dumps -------------------------------
(***************************************************************************)
(* `dump` and `restore` of a database, and of all of them, into and out of *)
(* files.  Dumps hold a read lock on the instance, and so run beside each  *)
(* other, also on one file.  A file is known by its inode, because a dump  *)
(* writes on into a file that others rename or unlink.  The writes of      *)
(* tokio::fs::File go on in the background: an error shows when the next   *)
(* write is made.                                                          *)
(***************************************************************************)
EXTENDS Naturals, FiniteSets

CONSTANTS
    Dumpers,
    Databases,
    Blocks,          \* packets of a dump, the header included
    None,
    MaxDumps, MaxRestores, MaxDeaths

ASSUME DumpsAssumption == Blocks \in Nat \ {0}

VARIABLES
    content,   \* each database: 1, 0 if it is empty, None if it does not exist
    inodes,    \* files: the packets written, and whether one was cut
    final,     \* inode of <database>.dump, 0 if there is none
    temp,      \* inode of .~<database>.dump.tmp
    dump,      \* the commands that dump
    restoring, \* the one that restores, under the exclusive lock
    crossed,   \* databases of which two dumps met in one file (history)
    unseen,    \* inodes whose last write failed, or was cut off after the rename (history)
    dumps, restores, deaths

dumping == <<content, inodes, final, temp, dump, restoring, crossed, unseen, dumps, restores, deaths>>
counts == <<dumps, restores, deaths>>

Resting == [pc |-> "idle", db |-> None, todo |-> {}, inode |-> 0, over |-> FALSE, all |-> FALSE,
            busy |-> FALSE]
Still == [pc |-> "idle", db |-> None, todo |-> {}, existing |-> {}, all |-> FALSE, read |-> 0,
          raced |-> FALSE]

DumpsInit ==
    /\ content = [d \in Databases |-> 1] /\ inodes = <<>>
    /\ final = [d \in Databases |-> 0] /\ temp = final
    /\ dump = [p \in Dumpers |-> Resting] /\ restoring = Still
    /\ crossed = {} /\ unseen = {} /\ dumps = 0 /\ restores = 0 /\ deaths = 0

At(p, pc) == dump[p].pc = pc
Whole(d, i) == inodes[i].db = d /\ inodes[i].packets = Blocks /\ ~inodes[i].cut /\ i \notin unseen

(* dump *)

\* LockManager::lock_read_instance; dump_all lists the databases, replaces files and skips
\* databases that are gone when their turn comes
Dump(p, dbs, all, overwrite) ==
    /\ At(p, "idle") /\ restoring = Still /\ dumps < MaxDumps /\ dumps' = dumps + 1
    /\ dump' = [dump EXCEPT ![p] = [Resting EXCEPT !.pc = "next", !.todo = dbs, !.all = all, !.over = overwrite]]
    /\ UNCHANGED <<content, inodes, final, temp, restoring, crossed, unseen, restores, deaths>>
DumpDatabase(p, d, overwrite) == content[d] # None /\ Dump(p, {d}, FALSE, overwrite)
DumpAll(p) == Dump(p, {d \in Databases : content[d] # None}, TRUE, TRUE)

NextDatabase(p) ==
    /\ At(p, "next")
    /\ \/ /\ dump[p].todo = {} /\ dump' = [dump EXCEPT ![p] = Resting]
       \/ \E d \in dump[p].todo :
             dump' = [dump EXCEPT ![p].todo = @ \ {d}, ![p].db = d,
                                  ![p].pc = IF content[d] = None THEN "next" ELSE "open"]
    /\ UNCHANGED <<content, inodes, final, temp, restoring, crossed, unseen, counts>>

New == Cardinality(DOMAIN inodes) + 1
WriteInPlace(p) ==
    LET d == dump[p].db
    IN /\ At(p, "open") /\ (final[d] = 0 \/ dump[p].over)
       /\ inodes' = [i \in 1..New |-> IF i < New THEN inodes[i]
                                      ELSE [db |-> d, packets |-> 0, cut |-> FALSE]]
       /\ final' = [final EXCEPT ![d] = New] /\ temp' = [temp EXCEPT ![d] = New]
       /\ dump' = [dump EXCEPT ![p].pc = "blocks", ![p].inode = New]
       /\ UNCHANGED <<content, restoring, crossed, unseen, counts>>
\* Guard::open
Open(p) ==
    LET d == dump[p].db
        others == {q \in Dumpers \ {p} : dump[q].inode # 0 /\ dump[q].db = d}
    IN /\ At(p, "open") /\ (final[d] = 0 \/ dump[p].over)
       /\ inodes' = [i \in 1..New |-> IF i < New THEN inodes[i]
                                      ELSE [db |-> d, packets |-> 0, cut |-> FALSE]]
       /\ temp' = [temp EXCEPT ![d] = New]
       /\ crossed' = IF others # {} THEN crossed \cup {d} ELSE crossed
       /\ dump' = [dump EXCEPT ![p].pc = "blocks", ![p].inode = New]
       /\ UNCHANGED <<content, final, restoring, unseen, counts>>
FileExists(p) ==
    /\ At(p, "open") /\ final[dump[p].db] # 0 /\ ~dump[p].over
    /\ dump' = [dump EXCEPT ![p] = Resting]
    /\ UNCHANGED <<content, inodes, final, temp, restoring, crossed, unseen, counts>>

Inode(p) == inodes[dump[p].inode]
\* write_all starts a write when the one before has ended well
WritePacket(p) ==
    /\ At(p, "blocks") /\ ~dump[p].busy /\ Inode(p).packets < Blocks
    /\ dump' = [dump EXCEPT ![p].busy = TRUE]
    /\ UNCHANGED <<content, inodes, final, temp, restoring, crossed, unseen, counts>>
Written(p) ==
    /\ dump[p].busy /\ dump' = [dump EXCEPT ![p].busy = FALSE]
    /\ inodes' = [inodes EXCEPT ![dump[p].inode].packets = @ + 1]
    /\ UNCHANGED <<content, final, temp, restoring, crossed, unseen, counts>>
\* The disk is full: the next write tells, if there is one
WriteFails(p) ==
    /\ dump[p].busy /\ deaths < MaxDeaths /\ deaths' = deaths + 1
    /\ inodes' = [inodes EXCEPT ![dump[p].inode].cut = TRUE]
    /\ IF Inode(p).packets + 1 = Blocks
       THEN /\ unseen' = unseen \cup {dump[p].inode}
            /\ dump' = [dump EXCEPT ![p].busy = FALSE, ![p].pc = IF @ = "blocks" THEN "commit" ELSE @]
       ELSE unseen' = unseen /\ dump' = [dump EXCEPT ![p] = Resting]
    /\ UNCHANGED <<content, final, temp, restoring, crossed, dumps, restores>>
\* The stream of the server ends; nothing flushes the last write
LastPacket(p) ==
    /\ At(p, "blocks") /\ Inode(p).packets + (IF dump[p].busy THEN 1 ELSE 0) = Blocks
    /\ dump' = [dump EXCEPT ![p].pc = "commit"]
    /\ UNCHANGED <<content, inodes, final, temp, restoring, crossed, unseen, counts>>

Placed(p) ==
    LET d == dump[p].db
    IN IF temp[d] = 0
       THEN dump' = [dump EXCEPT ![p] = Resting] /\ UNCHANGED <<final, temp>>
       ELSE /\ final' = [final EXCEPT ![d] = temp[d]] /\ temp' = [temp EXCEPT ![d] = 0]
            /\ dump' = [dump EXCEPT ![p].pc = "settle"]
CommitOver(p) ==
    /\ At(p, "commit") /\ Placed(p)
    /\ UNCHANGED <<content, inodes, restoring, crossed, unseen, counts>>
\* Guard::commit: rename, or rename_exclusive; where the file system has no such thing, that
\* looks for a file and renames in a step of its own
Commit(p) ==
    /\ At(p, "commit")
    /\ \/ /\ final[dump[p].db] = 0 \/ dump[p].over
          /\ Placed(p)
       \/ /\ final[dump[p].db] = 0 /\ ~dump[p].over
          /\ dump' = [dump EXCEPT ![p].pc = "renaming"] /\ UNCHANGED <<final, temp>>
       \/ /\ final[dump[p].db] # 0 /\ ~dump[p].over
          /\ dump' = [dump EXCEPT ![p] = Resting] /\ UNCHANGED <<final, temp>>
    /\ UNCHANGED <<content, inodes, restoring, crossed, unseen, counts>>
RenameAfterLook(p) ==
    /\ At(p, "renaming") /\ Placed(p)
    /\ UNCHANGED <<content, inodes, restoring, crossed, unseen, counts>>
\* The last write ends before the process does
Settle(p) ==
    /\ At(p, "settle") /\ ~dump[p].busy
    /\ dump' = [dump EXCEPT ![p].pc = "next", ![p].db = None, ![p].inode = 0]
    /\ UNCHANGED <<content, inodes, final, temp, restoring, crossed, unseen, counts>>
Die(p) ==
    /\ dump[p] # Resting /\ deaths < MaxDeaths /\ deaths' = deaths + 1
    /\ dump' = [dump EXCEPT ![p] = Resting]
    /\ inodes' = IF dump[p].busy THEN [inodes EXCEPT ![dump[p].inode].cut = TRUE] ELSE inodes
    /\ unseen' = IF dump[p].busy /\ At(p, "settle") THEN unseen \cup {dump[p].inode} ELSE unseen
    /\ UNCHANGED <<content, final, temp, restoring, crossed, dumps, restores>>

(* restore *)

\* restore_all runs init.edgeql and lists the databases first
Restore(dbs, all) ==
    /\ restoring = Still /\ \A p \in Dumpers : At(p, "idle")
    /\ restores < MaxRestores /\ restores' = restores + 1
    /\ restoring' = [Still EXCEPT !.pc = "next", !.todo = dbs, !.all = all,
                                  !.existing = {d \in Databases : content[d] # None}]
    /\ UNCHANGED <<content, inodes, final, temp, dump, crossed, unseen, dumps, deaths>>
RestoreDatabase(d) == content[d] # None /\ final[d] # 0 /\ Restore({d}, FALSE)
RestoreAll == Restore({d \in Databases : final[d] # 0}, TRUE)

\* CREATE DATABASE; a database that is gone cannot be connected to
NextFile ==
    /\ restoring.pc = "next"
    /\ \/ restoring.todo = {} /\ restoring' = Still /\ UNCHANGED content
       \/ \E d \in restoring.todo :
             LET made == restoring.all /\ d \notin restoring.existing
             IN IF (made /\ content[d] # None) \/ (~made /\ content[d] = None)
                THEN restoring' = Still /\ UNCHANGED content
                ELSE /\ content' = IF made THEN [content EXCEPT ![d] = 0] ELSE content
                     /\ restoring' = [restoring EXCEPT !.todo = @ \ {d}, !.db = d, !.pc = "check"]
    /\ UNCHANGED <<inodes, final, temp, dump, crossed, unseen, counts>>
CheckNothing ==
    /\ restoring.pc = "check"
    /\ restoring' = [restoring EXCEPT !.pc = "packets", !.read = 0, !.raced = FALSE]
    /\ UNCHANGED <<content, inodes, final, temp, dump, crossed, unseen, counts>>
\* is_non_empty_db
CheckEmpty ==
    /\ restoring.pc = "check"
    /\ restoring' = IF content[restoring.db] = 0 THEN [restoring EXCEPT !.pc = "packets", !.read = 0, !.raced = FALSE] ELSE Still
    /\ UNCHANGED <<content, inodes, final, temp, dump, crossed, unseen, counts>>
File == inodes[final[restoring.db]]
\* packet_generator
NextPacket ==
    /\ restoring.pc = "packets" /\ restoring.read < File.packets
    /\ restoring' = [restoring EXCEPT !.read = @ + 1]
    /\ UNCHANGED <<content, inodes, final, temp, dump, crossed, unseen, counts>>
\* "Dump is empty", or the end of the file within a packet: the server takes nothing
BadFile ==
    /\ restoring.pc = "packets" /\ restoring.read = File.packets
    /\ File.cut \/ File.packets = 0
    /\ restoring' = Still
    /\ UNCHANGED <<content, inodes, final, temp, dump, crossed, unseen, counts>>
\* What clients have put into the database meanwhile makes the server refuse the dump, or not
Refused ==
    /\ restoring.pc = "packets" /\ content[restoring.db] # 0 /\ restoring' = Still
    /\ UNCHANGED <<content, inodes, final, temp, dump, crossed, unseen, counts>>
\* The end of the stream: the server commits what it was sent
EndOfFile ==
    /\ restoring.pc = "packets" /\ restoring.read = File.packets /\ File.packets > 0 /\ ~File.cut
    /\ content[restoring.db] # None
    /\ content' = [content EXCEPT ![restoring.db] = 1]
    /\ restoring' = [restoring EXCEPT !.pc = "next"]
    /\ UNCHANGED <<inodes, final, temp, dump, crossed, unseen, counts>>
RestoreDies ==
    /\ restoring # Still /\ deaths < MaxDeaths /\ deaths' = deaths + 1 /\ restoring' = Still
    /\ UNCHANGED <<content, inodes, final, temp, dump, crossed, unseen, dumps, restores>>

(* Clients of the server take no lock *)

Change(d, v) ==
    /\ content[d] # v /\ (v # 0 => content[d] # None)
    /\ content' = [content EXCEPT ![d] = v]
    /\ restoring' = IF restoring.db = d /\ restoring.pc = "packets"
                    THEN [restoring EXCEPT !.raced = TRUE] ELSE restoring
    /\ UNCHANGED <<inodes, final, temp, dump, crossed, unseen, counts>>

DumpsNext ==
    \/ \E p \in Dumpers :
          \/ \E d \in Databases, overwrite \in BOOLEAN : DumpDatabase(p, d, overwrite)
          \/ DumpAll(p) \/ NextDatabase(p) \/ Open(p) \/ FileExists(p)
          \/ WritePacket(p) \/ Written(p) \/ WriteFails(p) \/ LastPacket(p)
          \/ Commit(p) \/ RenameAfterLook(p) \/ Settle(p) \/ Die(p)
    \/ \E d \in Databases : RestoreDatabase(d) \/ \E v \in {None, 0, 1} : Change(d, v)
    \/ RestoreAll \/ NextFile \/ CheckEmpty \/ NextPacket \/ BadFile \/ Refused \/ EndOfFile \/ RestoreDies

DumpsSpec == DumpsInit /\ [][DumpsNext]_dumping

(* Properties *)

\* A file under its final name is a whole dump of the database it is named for, also
\* while it is replaced and after any failure, from the moment that the last write of its
\* dump is done; left out are the files that two dumps wrote at once (`crossed`),
\* and those whose last write failed, or was cut off by a kill after the rename, because
\* nothing waits for that write (`unseen`).  So a restore takes a part of a dump for all of
\* it from no other file (Guard, dump_db, packet_generator).
DumpsAreWhole ==
    \A d \in Databases \ crossed :
        final[d] # 0 => \/ final[d] \in unseen \/ Whole(d, final[d])
                        \/ \E p \in Dumpers : At(p, "settle") /\ dump[p].inode = final[d]

\* A dump without --overwrite-existing replaces no file, not even one that was made since
\* it looked, but that of a dump beside it where the file system cannot rename without
\* replacing; and a restore sends a dump to the end only into a database that was empty
\* when it looked and, unless clients change it after that, is still (commit,
\* is_non_empty_db).
NothingReplaced ==
    [][/\ \A p \in Dumpers :
             LET d == dump[p].db
             IN ~dump[p].over /\ ~At(p, "settle") /\ dump'[p].pc = "settle" /\ final[d] # 0 =>
                    At(p, "renaming") /\ d \in crossed
       /\ restoring.pc = "packets" /\ restoring'.pc = "next" =>
             content[restoring.db] = 0 \/ restoring.raced]_dumping

=============================================================================
