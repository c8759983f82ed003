------------------------------ MODULE Branches ------------------------------
(***************************************************************************)
(* `branch`: the branches of one instance with their migration histories,  *)
(* the two records of the current branch (the project's stash and the      *)
(* credentials of the instance), and the files of migrations/ that rebase  *)
(* and merge rewrite.  A migration is a body; its id hashes the bodies     *)
(* from the root to it, so an id is a sequence and histories are sequences.*)
(* Commands hold the lock of the instance: one runs at a time.             *)
(***************************************************************************)
EXTENDS Naturals, FiniteSets, SequencesExt

CONSTANTS
    Names,       \* branches that users name
    First,       \* the branch that the instance begins with
    Temps,       \* names that Uuid::new_v4 makes
    Bodies,      \* bodies of migrations
    MaxCommands, \* bound: branch commands
    MaxFaults    \* bound: queries and writes that fail, crashes

ASSUME BranchesAssumption == First \in Names /\ Temps # {} /\ Names \cap Temps = {}

VARIABLES
    branches,    \* history of each branch that exists
    files,       \* ids in migrations/; the number in a file name is Len(id)
    stash, creds,\* the branch that the project and the credentials name
    cmd,         \* the command that runs
    work,        \* bodies that a branch had and nobody dropped (history)
    lone,        \* the only branch was renamed (history)
    astray,      \* -I, or --branch with another branch than the current (history)
    commands, failures

branching == <<branches, files, stash, creds, cmd, work, lone, astray, commands, failures>>
history == <<lone, astray>>
record == <<stash, creds>>

Existing == DOMAIN branches
Ancestors(h) == {SubSeq(h, 1, i) : i \in 1..Len(h)}
Readable == \E h \in files \cup {<<>>} : files = Ancestors(h)
Chain == CHOOSE h \in files \cup {<<>>} : files = Ancestors(h)
With(b, h) == [x \in Existing \cup {b} |-> IF x = b THEN h ELSE branches[x]]
Without(b) == [x \in Existing \ {b} |-> branches[x]]
StillThere(bs, fs) == {s \in work : \/ \E b \in DOMAIN bs : Contains(bs[b], s)
                              \/ \E f \in fs : Contains(f, s)}

Idle == [op |-> "none", todo |-> <<>>, cur |-> First, to |-> First, via |-> First,
         project |-> TRUE, was |-> <<>>, new |-> <<>>, synced |-> TRUE]

BranchesInit ==
    /\ branches = [b \in {First} |-> <<>>] /\ files = {}
    /\ stash = First /\ creds = First
    /\ cmd = Idle /\ work = {} /\ lone = FALSE /\ astray = FALSE
    /\ commands = 0 /\ failures = 0

(* What developers do between branch commands *)

\* `migration create`: the file; the database must be at the last one
CreateMigration(s) ==
    /\ cmd.op = "none" /\ stash \in Existing /\ s \notin work
    /\ Readable /\ Chain = branches[stash]
    /\ files' = files \cup {Append(Chain, s)}
    /\ UNCHANGED <<branches, record, cmd, work, history, commands, failures>>

\* `migrate` on the current branch, to the last file or with --to-revision
Migrate ==
    /\ cmd.op = "none" /\ stash \in Existing /\ Readable
    /\ \E h \in files : /\ IsStrictPrefix(branches[stash], h)
                        /\ branches' = With(stash, h) /\ work' = work \cup ToSet(h)
    /\ UNCHANGED <<files, record, cmd, history, commands, failures>>

\* version control brings the files of the current branch
CheckoutFiles ==
    /\ cmd.op = "none" /\ stash \in Existing /\ files # Ancestors(branches[stash])
    /\ files' = Ancestors(branches[stash]) /\ work' = StillThere(branches, {})
    /\ UNCHANGED <<branches, record, cmd, history, commands, failures>>

(* Context::new: with -I the project is not looked for *)

Current(project) == IF project THEN stash ELSE creds

\* `via` is what the connection was made to: the current branch, or --branch
BeginCommand(op, todo, to, via, project) ==
    /\ commands < MaxCommands /\ commands' = commands + 1 /\ cmd.op = "none"
    /\ cmd' = [op |-> op, todo |-> todo, cur |-> Current(project), to |-> to,
               via |-> via, project |-> project,
               was |-> IF stash \in Existing THEN branches[stash] ELSE <<>>,
               new |-> <<>>,
               synced |-> stash \in Existing /\ files = Ancestors(branches[stash])]

\* create_branch; the branch gets the schema of `from`, or nothing
Create(b, from, empty) ==
    /\ b \notin Existing /\ from \in Existing
    /\ BeginCommand("create", <<>>, b, from, TRUE)
    /\ branches' = With(b, IF empty THEN <<>> ELSE branches[from])
    /\ UNCHANGED <<files, record, work, history, failures>>

\* drop::main refuses only the branch that its own record calls current
Drop(b, project) ==
    /\ Current(project) \in Existing /\ b \in Existing /\ b # Current(project)
    /\ BeginCommand("drop", <<>>, b, Current(project), project)
    /\ branches' = Without(b) /\ work' = StillThere(branches', {})
    /\ astray' = (astray \/ ~project)
    /\ UNCHANGED <<files, record, lone, failures>>

\* do_wipe: RESET SCHEMA TO initial
Wipe(b) ==
    /\ b \in Existing /\ BeginCommand("wipe", <<>>, b, b, TRUE)
    /\ branches' = With(b, <<>>) /\ work' = StillThere(branches', {})
    /\ UNCHANGED <<files, record, history, failures>>

\* update_current_branch: with -I there is no stash to write
Recording(project) == IF project THEN <<"stash", "creds">> ELSE <<"creds">>

\* switch::run; a current branch that is gone does not keep from leaving it
Switch(to, project) ==
    /\ to # Current(project) \/ Current(project) \notin Existing
    /\ to \in Existing \/ Current(project) \in Existing
    /\ BeginCommand("switch", (IF to \in Existing THEN <<>> ELSE <<"create">>) \o Recording(project),
             to, Current(project), project)
    /\ astray' = (astray \/ ~project)
    /\ UNCHANGED <<branches, files, record, work, lone, failures>>

\* rename::run: the branch of the connection counts as current, too
RenameSteps(b, via, project) ==
    IF b \in {Current(project), via}
    THEN (IF Existing = {b} THEN <<"makeTemp", "rename", "dropTemp">> ELSE <<"rename">>) \o
         Recording(project)
    ELSE <<"rename">>
Rename(b, to, via, project) ==
    /\ b \in Existing /\ to \notin Existing /\ via \in Existing
    /\ BeginCommand("rename", RenameSteps(b, via, project), to, b, project)
    /\ lone' = (lone \/ Existing = {b})
    /\ astray' = (astray \/ ~project \/ (via = b /\ b # stash))
    /\ UNCHANGED <<branches, files, record, work, failures>>

(* Rebase and merge *)

\* get_diverging_migrations: how long the common part is, by the last migration
\* of the target that the source has
CommonLength(source, target) ==
    LET common == {i \in 1..Len(target) : IsPrefix(SubSeq(target, 1, i), source)}
    IN IF common = {} THEN 0 ELSE CHOOSE i \in common : \A j \in common : j <= i
UpToDate(source, target) ==
    source # <<>> /\ target # <<>> /\ CommonLength(source, target) = Len(target)

\* the first migration after the common ones is taken for a common one
RebasedAfterFirst(source, target) ==
    target \o SubSeq(source, CommonLength(source, target) + 2, Len(source))

\* flatten and fix_migration_ids: base, target, and the source with new parents
Rebased(source, target) ==
    target \o SubSeq(source, CommonLength(source, target) + 1, Len(source))

\* the source goes before its migrations are in the directory
RebaseDropFirst(to, via, apply) ==
    /\ Temps \cap Existing = {} /\ stash \in Existing /\ via \in Existing
    /\ to \in Existing \ {stash}
    /\ BeginCommand(IF apply THEN "rebase" ELSE "rebaseOnly", <<"clone", "compare", "dropSource">> \o
                       <<"remove", "copy">> \o (IF apply THEN <<"apply">> ELSE <<>>) \o
                       <<"renameTemp">>, to, via, TRUE)
    /\ astray' = (astray \/ via # stash)
    /\ UNCHANGED <<branches, files, record, work, lone, failures>>

\* rebase::main in a project; `via` is the connection called source_connection
Rebase(to, via, apply) ==
    /\ Temps \cap Existing = {} /\ stash \in Existing /\ via \in Existing
    /\ to \in Existing \ {stash}
    /\ BeginCommand(IF apply THEN "rebase" ELSE "rebaseOnly",
             IF apply
             THEN <<"clone", "compare", "remove", "copy", "apply", "dropSource", "renameTemp">>
             ELSE <<"clone", "compare", "remove", "copy", "dropSource", "renameTemp">>,
             to, via, TRUE)
    /\ astray' = (astray \/ via # stash)
    /\ UNCHANGED <<branches, files, record, work, lone, failures>>

\* get_merge_migrations: fast-forward only
FastForward(base, target) == IsStrictPrefix(base, target)
Merge(from, apply) ==
    /\ stash \in Existing /\ from \in Existing \ {stash}
    /\ FastForward(branches[stash], branches[from])
    /\ BeginCommand(IF apply THEN "merge" ELSE "mergeOnly",
                    IF apply THEN <<"copyMerged", "applyMerged">> ELSE <<"copyMerged">>,
                    from, stash, TRUE)
    /\ UNCHANGED <<branches, files, record, work, history, failures>>

(* Steps of the commands *)

Temp == CHOOSE t \in Temps : TRUE
AtStep(step) == cmd.todo # <<>> /\ Head(cmd.todo) = step
Pop == cmd' = [cmd EXCEPT !.todo = Tail(@)]
SameHistory == UNCHANGED <<work, history, commands, failures>>

CreateOnSwitch ==
    /\ AtStep("create") /\ Pop \* --from, the current branch by default, or --empty
    /\ \E h \in {<<>>} \cup {branches[b] : b \in Existing} : branches' = With(cmd.to, h)
    /\ SameHistory /\ UNCHANGED <<files, record>>

\* update_current_branch: the stash through a temporary file, then the credentials
WriteStash ==
    /\ AtStep("stash") /\ Pop /\ stash' = cmd.to
    /\ SameHistory /\ UNCHANGED <<branches, files, creds>>
WriteCredentials ==
    /\ AtStep("creds") /\ Pop /\ creds' = cmd.to
    /\ SameHistory /\ UNCHANGED <<branches, files, stash>>

\* get_connection_to_modify and the statement
MakeTemp ==
    /\ AtStep("makeTemp") /\ Pop /\ branches' = With(Temp, <<>>)
    /\ SameHistory /\ UNCHANGED <<files, record>>
Renamed(from, to) == [x \in (Existing \ {from}) \cup {to} |->
                      IF x = to THEN branches[from] ELSE branches[x]]
RenameBranch ==
    /\ AtStep("rename") /\ Pop /\ branches' = Renamed(cmd.via, cmd.to)
    /\ SameHistory /\ UNCHANGED <<files, record>>

Clone ==
    /\ AtStep("clone") /\ Pop /\ branches' = With(Temp, branches[cmd.to])
    /\ SameHistory /\ UNCHANGED <<files, record>>
Compare ==
    /\ AtStep("compare") /\ ~UpToDate(branches[cmd.via], branches[Temp])
    /\ cmd' = [cmd EXCEPT !.todo = Tail(@), !.new = Rebased(branches[cmd.via], branches[Temp])]
    /\ SameHistory /\ UNCHANGED <<branches, files, record>>

\* do_rebase: the new files wait in a temporary directory
RemoveFiles ==
    /\ AtStep("remove") /\ files' = {} /\ Pop
    /\ SameHistory /\ UNCHANGED <<branches, record>>
CopyFiles ==
    /\ AtStep("copy") /\ Pop /\ files' = Ancestors(cmd.new)
    /\ SameHistory /\ UNCHANGED <<branches, record>>

\* write_rebased_migration_files: the files whose ids are those of the source
ApplyRebased ==
    /\ AtStep("apply") /\ Readable /\ IsPrefix(branches[Temp], Chain) /\ Pop
    /\ branches' = With(Temp, Chain)
    /\ SameHistory /\ UNCHANGED <<files, record>>
DropSource ==
    /\ AtStep("dropSource") /\ Pop /\ branches' = Without(cmd.cur)
    /\ SameHistory /\ UNCHANGED <<files, record>>
RenameTemp ==
    /\ AtStep("renameTemp") /\ Pop /\ branches' = Renamed(Temp, cmd.cur)
    /\ SameHistory /\ UNCHANGED <<files, record>>

\* write_merge_migrations, apply_merge_migration_files
CopyMerged ==
    /\ AtStep("copyMerged") /\ Pop /\ files' = files \cup Ancestors(branches[cmd.to])
    /\ SameHistory /\ UNCHANGED <<branches, record>>
ApplyMerged ==
    /\ AtStep("applyMerged") /\ Readable /\ IsPrefix(branches[cmd.to], Chain) /\ Pop
    /\ branches' = With(stash, branches[cmd.to])
    /\ SameHistory /\ UNCHANGED <<files, record>>

Broken ==
    \/ AtStep("compare") /\ UpToDate(branches[cmd.via], branches[Temp])
    \/ AtStep("apply") /\ ~(Readable /\ IsPrefix(branches[Temp], Chain))
    \/ AtStep("applyMerged") /\ ~(Readable /\ IsPrefix(branches[cmd.to], Chain))
    \/ AtStep("dropTemp") \* clean connects to the name that was renamed

\* an error after the clone drops it, if the first connection still lives; a
\* crash, or an error elsewhere, leaves everything as it is
Cleaned(crash) ==
    IF cmd.op \in {"rebase", "rebaseOnly"} /\ Temp \in Existing /\ cmd.via \in Existing /\ ~crash
    THEN Without(Temp) ELSE branches
Fail(crash) ==
    /\ cmd.todo # <<>>
    /\ \/ Broken /\ ~crash /\ UNCHANGED failures
       \/ ~Broken /\ failures < MaxFaults /\ failures' = failures + 1
    /\ branches' = Cleaned(crash) /\ cmd' = Idle
    /\ UNCHANGED <<files, record, work, history, commands>>

\* After `rebase --no-apply` the source is gone, and what only it had is in migrations/
\* and in no branch: it is work again when somebody migrates
EndCommand ==
    /\ cmd.op # "none" /\ cmd.todo = <<>> /\ cmd' = Idle
    /\ work' = IF cmd.op = "rebaseOnly" THEN StillThere(branches, {}) ELSE work
    /\ UNCHANGED <<branches, files, record, history, commands, failures>>

Command ==
    \/ \E b \in Names :
          \/ \E from \in Existing, empty \in BOOLEAN : Create(b, from, empty)
          \/ \E project \in BOOLEAN : Drop(b, project) \/ Switch(b, project)
          \/ \E to \in Names, via \in Existing, project \in BOOLEAN :
                Rename(b, to, via, project)
          \/ Wipe(b)
          \/ \E apply \in BOOLEAN :
                Merge(b, apply) \/ \E via \in Existing : Rebase(b, via, apply)

Step ==
    \/ CreateOnSwitch \/ WriteStash \/ WriteCredentials \/ MakeTemp \/ RenameBranch
    \/ Clone \/ Compare \/ RemoveFiles \/ CopyFiles \/ ApplyRebased \/ DropSource \/ RenameTemp
    \/ CopyMerged \/ ApplyMerged \/ EndCommand
    \/ \E crash \in BOOLEAN : Fail(crash)

BranchesNext == Command \/ Step \/ CheckoutFiles \/ Migrate \/ \E s \in Bodies : CreateMigration(s)

BranchesSpec == BranchesInit /\ [][BranchesNext]_branching

(* Properties *)

Usual == cmd.op = "none" /\ failures = 0 /\ ~lone /\ ~astray

\* The project and the credentials name one branch and it exists, and no
\* temporary branch is left, as long as no command failed, the commands were run
\* in the project, and the branch renamed was not the only one: then clean()
\* connects to the old name and the new one is never recorded.
CurrentExists ==
    Usual => stash = creds /\ stash \in Existing /\ Existing \cap Temps = {}

\* Types; and no applied migration is lost: at every step of a rebase that clones,
\* drops and renames branches and rewrites the directory, and whatever step fails, a
\* migration that a branch had and nobody dropped is in some branch or in migrations/
\* (do_rebase, rebase::main and its cleanup), as long as every command was run in the
\* project and for its branch (-I and --branch can name another: `astray`); and the
\* current branch exists.  Not promised: what is in migrations/ only, because it was not
\* applied yet (after `migration create`) or a finished `rebase --no-apply` left it there.
BranchesInv ==
    /\ Existing \subseteq Names \cup Temps /\ {stash, creds} \subseteq Names
    /\ ~astray => work = StillThere(branches, files)
    /\ CurrentExists

\* A rebase and a merge without --no-apply, the merge in a directory that holds the
\* history of the current branch, end with the current branch at the history of the
\* directory: that of the other branch, and every migration that the current one
\* had, as long as every command was run in the project and for its branch
\* (get_diverging_migrations, flatten, fix_migration_ids).
BranchFollowsFiles ==
    [][/\ cmd.todo # <<>> /\ cmd'.op = cmd.op /\ cmd'.todo = <<>>
       /\ ~astray /\ (cmd.op = "rebase" \/ (cmd.op = "merge" /\ cmd.synced))
       => LET h == branches'[stash]
          IN /\ files' = Ancestors(h) /\ IsPrefix(branches[cmd.to], h)
             /\ ToSet(cmd.was) \subseteq ToSet(h)]_branching

\* TLC refutes it: do_rebase removes every file and writes back the histories of the
\* databases, so a migration that no branch has applied is lost.
RemovesOnlyCopies ==
    [][AtStep("remove") /\ files' = {} => \A f \in files : \A s \in ToSet(f) :
          Contains(cmd.new, s) \/ \E b \in Existing : Contains(branches[b], s)]_branching

=============================================================================
