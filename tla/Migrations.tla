----------------------------- MODULE Migrations -----------------------------
(***************************************************************************)
(* `migrate`, `migrate --dev-mode`, `migration create`, `squash` and       *)
(* `extract`: the revision files of one schema directory and the histories *)
(* of the databases it is applied to.  A revision is named by a hash of    *)
(* its text and its parent, so an id is the sequence of the schemas along  *)
(* its history: a prefix is an ancestor, Front(id) the parent, <<>> is     *)
(* `initial`.  A command is a queue of statements that may fail one by one.*)
(***************************************************************************)
EXTENDS Naturals, FiniteSetsExt, SequencesExt

CONSTANTS
    Schemas,     \* contents that the .gel files may have
    Empty,       \* the schema of an empty database
    Databases, Main, \* Main: the database of the one who creates and squashes
    SkipHooks,   \* --skip-hooks
    SkipBackup,  \* skip_auto_backup, or backups are disabled
    MaxLen,      \* bound: revisions in the directory
    MaxCommands, \* bound: commands run
    MaxEdits,    \* bound: edits of the schema files
    MaxFailures  \* bound: statements that fail, crashes

ASSUME MigrationsAssumption ==
    Main \in Databases /\ Empty \notin Schemas /\ "none" \notin Schemas

VARIABLES
    src,       \* the schema files
    files,     \* ids in migrations/; the number in a file name is Len(id)
    old,       \* ids in migrations/*.edgeql.old
    fixups,    \* fixups/: [id, target]
    intended,  \* the newest revision that a command wrote (history)
    db,        \* last migration of each database, as its session sees it
    rewriting, \* what ABORT MIGRATION REWRITE returns to, or NoId
    started,   \* what ROLLBACK returns to, or NoId
    cmd,       \* the command that works on each database
    covered,   \* squash was told that others have its revision (history)
    begun, edits, failures

dir == <<files, old, fixups, intended>>
server == <<db, rewriting, started>>
counters == <<begun, edits, failures>>
migrating == <<src, dir, server, cmd, covered, counters>>

By(s) == [to |-> s, dev |-> FALSE]
Dev(s) == [to |-> s, dev |-> TRUE]
NoId == <<By("none")>>
SchemaOf(id) == IF id = <<>> THEN Empty ELSE Last(id).to
Ancestors(id) == {SubSeq(id, 1, i) : i \in 1..Len(id)}
\* linearize_db_migrations after the filter on generated_by: dev mode is a suffix
WithoutDev(id) == SubSeq(id, 1, Cardinality({i \in DOMAIN id : ~id[i].dev}))
InDevMode(id) == WithoutDev(id) # id

\* _read_all, sort_revisions: one file per parent, no gap
Readable == /\ \A f \in files : Front(f) \in files \cup {<<>>}
            /\ \A f, g \in files : Front(f) = Front(g) => f = g
Newest(fs) == CHOOSE f \in fs \cup {<<>>} : \A g \in fs : Len(g) <= Len(f)
Latest == Newest(files)

\* slice: start exclusive, end inclusive
Slice(from, to) == [i \in 1..(Len(to) - Len(from)) |-> SubSeq(to, 1, Len(from) + i)]

(* find_path and backtrack *)

Edges == {[id |-> f.id, to |-> f.target] : f \in fixups}
         \cup {[id |-> f, to |-> f] : f \in files}
ParentsOf(n) == {Front(e.id) : e \in {x \in Edges : n \in {x.id, x.to}}}

\* the levels of the search; a node is entered again at every level it has
Layers(target) ==
    LET level[k \in 0..Cardinality(Edges)] ==
          IF k = 0 THEN {target} ELSE UNION {ParentsOf(n) : n \in level[k - 1]}
    IN level
Levels(from, target) ==
    {k \in DOMAIN Layers(target) : from \in Layers(target)[k]}

\* markup keeps the last level; early: nodes of the last level taken before `from`
Markup(n, target, level, early) ==
    IF \E m \in early : n \in ParentsOf(m) THEN level + 1
    ELSE Max({k \in 0..level : n \in Layers(target)[k]} \cup {0})
Marked(n, target, level, early, idx) ==
    /\ \E k \in 0..level : n \in Layers(target)[k]
    /\ Markup(n, target, level, early) = idx

Element(e, normal) == [id |-> e.id, to |-> IF normal THEN e.id ELSE e.to]
NextElements(cur, target, level, early, idx) ==
    LET out == {e \in Edges : Front(e.id) = cur}
    IN {Element(e, TRUE) : e \in {x \in out : Marked(x.id, target, level, early, idx)}}
       \cup {Element(e, FALSE) :
                e \in {x \in out : /\ x.to # x.id
                                   /\ ~Marked(x.id, target, level, early, idx)
                                   /\ Marked(x.to, target, level, early, idx)}}

\* what backtrack can return over the orders of read_dir and of the hash maps;
\* a shorter sequence is the error "failed to backtrack BFS"
Backtracks(from, target, level, early) ==
    LET back[i \in 0..level] ==
          IF i = 0 THEN {<<>>}
          ELSE UNION {LET cur == IF p = <<>> THEN from ELSE Last(p).to
                          next == NextElements(cur, target, level, early, level - i)
                      IN IF next = {} \/ Len(p) < i - 1 THEN {p}
                         ELSE {Append(p, e) : e \in next} : p \in back[i - 1]}
    IN back[level]

FindPath(from, target) ==
    IF Levels(from, target) = {} THEN {}
    ELSE LET level == Min(Levels(from, target))
         IN UNION {Backtracks(from, target, level, early) :
                      early \in SUBSET (Layers(target)[level] \ {from})}
Whole(path, from, target) == path # <<>> /\ Last(path).to = target

(* Statements and commands *)

Do(what) == <<[do |-> what, id |-> <<>>]>>
Each(ids) == [i \in DOMAIN ids |-> [do |-> "apply", id |-> ids[i]]]
Unless(skip, what) == IF skip THEN <<>> ELSE Do(what)

\* one element of the path, then the rewrite up to the target of a fixup
Operations(e) ==
    Each(<<e.id>>) \o
    (IF e.to = e.id THEN <<>>
     ELSE Do("rewrite") \o Each(Slice(<<>>, e.to)) \o Do("commitRewrite"))

\* apply_migrations
Migrate(todo, single) ==
    Unless(SkipHooks, "before") \o
    (IF single THEN Do("begin") \o todo \o Do("commit") ELSE todo) \o Do("after")

NoCommand == [op |-> "none", todo |-> <<>>, from |-> <<>>, goal |-> <<>>,
         single |-> FALSE, backed |-> FALSE]
CommandOf(op, todo, d, goal, single) ==
    [op |-> op, todo |-> todo, from |-> db[d], goal |-> goal,
     single |-> single, backed |-> FALSE]

MigrationsInit ==
    /\ src \in Schemas /\ files = {} /\ old = {} /\ fixups = {} /\ intended = <<>>
    /\ db = [d \in Databases |-> <<>>]
    /\ rewriting = [d \in Databases |-> NoId] /\ started = [d \in Databases |-> NoId]
    /\ cmd = [d \in Databases |-> NoCommand] /\ covered = [d \in Databases |-> TRUE]
    /\ begun = 0 /\ edits = 0 /\ failures = 0

\* Context::for_migration_config: read_only is FALSE for squash and extract, whose
\* lock on the project then keeps every other command out
Exclusive == {"squash", "extract"}
Admitted(c) == \A d \in Databases :
    cmd[d].op # "none" => c.op \notin Exclusive /\ cmd[d].op \notin Exclusive

Start(d, c) ==
    /\ begun < MaxCommands /\ begun' = begun + 1 /\ Admitted(c)
    /\ cmd[d].op = "none" /\ cmd' = [cmd EXCEPT ![d] = c]
    /\ UNCHANGED <<src, dir, server, covered, edits, failures>>

EditSchema(s) ==
    /\ edits < MaxEdits /\ edits' = edits + 1 /\ src' = s /\ s # src
    /\ \A d \in Databases : cmd[d].op # "none" => cmd[d].todo # <<>>
    /\ UNCHANGED <<dir, server, cmd, covered, begun, failures>>

\* apply::run_inner; an ancestor of the database as --to-revision is a no-op
Targets(d) == (files \cup {Latest}) \ Ancestors(db[d])
Apply(d, target, single) ==
    /\ Readable /\ target \in Targets(d) /\ target # <<>>
    /\ \E todo \in
          IF db[d] \in files \cup {<<>>}
          THEN {Each(Slice(db[d], target))}
          ELSE {FlattenSeq([i \in DOMAIN p |-> Operations(p[i])]) :
                   p \in {q \in FindPath(db[d], target) : Whole(q, db[d], target)}} :
        Start(d, CommandOf("apply", Unless(SkipBackup, "backup") \o
                            Migrate(todo, single), d, target, single))

\* dev mode migrations that the directory does not know are no reason to rebase
NormalIfDev(d) == db[d] \in files \cup {<<>>} \/ InDevMode(db[d])

\* dev_mode::select_mode and dev_mode::migrate
Normal(d) == db[d] \in files \cup {<<>>} \/ Latest \in Ancestors(db[d]) \cup {<<>>}
Skipped(d) == IF db[d] \in files \cup {<<>>} THEN Slice(db[d], Latest) ELSE <<>>
\* a rebase relies on the backup of the first diff
DevMigrateBackedByDiff(d) ==
    /\ Readable
    /\ Start(d, CommandOf("dev",
         IF Normal(d)
         THEN (IF Skipped(d) = <<>> THEN <<>>
               ELSE Unless(SkipBackup, "backup") \o Migrate(Each(Skipped(d)), FALSE))
              \o Do("diff")
         ELSE Do("diff") \o Do("rewrite") \o
              Each(Slice(<<>>, Latest)) \o Do("diff") \o Do("commitRewrite"),
         d, Latest, FALSE))

DevMigrate(d) ==
    /\ Readable
    /\ Start(d, CommandOf("dev",
         IF Normal(d)
         THEN (IF Skipped(d) = <<>> THEN <<>>
               ELSE Unless(SkipBackup, "backup") \o
                    Migrate(Each(Skipped(d)), FALSE)) \o Do("diff")
         ELSE Do("diff") \o Unless(SkipBackup, "backupUnlessDone") \o Do("rewrite") \o
              Each(Slice(<<>>, Latest)) \o Do("diff") \o Do("commitRewrite"),
         d, Latest, FALSE))

\* create::run_inner: in the presence of dev mode the parent is not the database's
Create ==
    /\ Readable /\ Len(Latest) < MaxLen /\ src # SchemaOf(Latest)
    /\ InDevMode(db[Main]) \/ db[Main] = Latest
    /\ Start(Main, CommandOf("create", Do("write"), Main,
                           Append(Latest, By(src)), FALSE))

\* squash::run: want_fixup is asked only if the schema differs
Squash(withFixup) ==
    /\ Readable /\ db[Main] = Latest /\ Latest # <<>>
    /\ Len(Latest) > 1 \/ src # SchemaOf(Latest)
    /\ withFixup \/ src # SchemaOf(Latest)
    /\ Start(Main, CommandOf("squash",
         Do("oldFixups") \o Do("oldRevisions") \o
         Unless(~withFixup, "writeFixup") \o Do("writeSquashed") \o Do("removeOld"),
         Main, <<By(src)>>, FALSE))

\* extract::extract --force: what differs is written, what is longer is removed,
\* a file of the same number and another id keeps its own name and stays
Extracted(h) == {f \in files : Len(f) <= Len(h)} \cup Ancestors(h)
Extract ==
    /\ Readable /\ WithoutDev(db[Main]) # Latest
    /\ Start(Main, CommandOf("extract", Do("copy"), Main,
                           WithoutDev(db[Main]), FALSE))

(* Execution *)

NextOf(d) == cmd[d].todo[1]
Now(d, what) == cmd[d].todo # <<>> /\ NextOf(d).do = what
Popped(d) == [cmd EXCEPT ![d].todo = Tail(@)]
Pop(d) == cmd' = Popped(d)
Committed(d) == IF started[d] # NoId THEN started[d]
                ELSE IF rewriting[d] # NoId THEN rewriting[d] ELSE db[d]

\* AutoBackup::run
Backup(d) ==
    /\ Now(d, "backup") \/ Now(d, "backupUnlessDone")
    /\ cmd' = [Popped(d) EXCEPT ![d].backed = TRUE]
    /\ UNCHANGED <<src, dir, server, covered, counters>>

\* hooks::on_action; the hooks `after` run under --skip-hooks too
Hook(d) ==
    /\ Now(d, "before") \/ Now(d, "after")
    /\ Pop(d) /\ UNCHANGED <<src, dir, server, covered, counters>>

Transaction(d) ==
    /\ \/ Now(d, "begin") /\ started' = [started EXCEPT ![d] = db[d]]
       \/ Now(d, "commit") /\ started' = [started EXCEPT ![d] = NoId]
    /\ Pop(d) /\ UNCHANGED <<src, dir, db, rewriting, covered, counters>>

\* apply_migration reads the file again; the server checks the parent
Applicable(d) == /\ NextOf(d).id \in files \cup {f.id : f \in fixups}
                 /\ db[d] = Front(NextOf(d).id)
ApplyMigration(d) ==
    /\ Now(d, "apply") /\ Applicable(d)
    /\ db' = [db EXCEPT ![d] = NextOf(d).id]
    /\ Pop(d) /\ UNCHANGED <<src, dir, rewriting, started, covered, counters>>

StartRewrite(d) ==
    /\ Now(d, "rewrite")
    /\ rewriting' = [rewriting EXCEPT ![d] = db[d]] /\ db' = [db EXCEPT ![d] = <<>>]
    /\ Pop(d) /\ UNCHANGED <<src, dir, started, covered, counters>>

\* the server refuses a history that leads to another schema
SameSchema(d) == SchemaOf(db[d]) = SchemaOf(rewriting[d])
CommitRewrite(d) ==
    /\ Now(d, "commitRewrite") /\ SameSchema(d)
    /\ rewriting' = [rewriting EXCEPT ![d] = NoId]
    /\ Pop(d) /\ UNCHANGED <<src, dir, db, started, covered, counters>>

\* migrate_to_schema: outside a rewrite it makes the backup that is due
MigrateToSchema(d) ==
    /\ Now(d, "diff")
    /\ IF src = SchemaOf(db[d]) THEN Pop(d) /\ UNCHANGED db
       ELSE /\ db' = [db EXCEPT ![d] = Append(@, Dev(src))]
            /\ cmd' = [Popped(d) EXCEPT ![d].backed =
                         @ \/ (rewriting[d] = NoId /\ ~SkipBackup)]
    /\ UNCHANGED <<src, dir, rewriting, started, covered, counters>>

\* write_migration: a temporary file, then a rename
Write ==
    /\ Now(Main, "write") /\ Pop(Main)
    /\ files' = files \cup {cmd[Main].goal} /\ intended' = cmd[Main].goal
    /\ UNCHANGED <<src, old, fixups, server, covered, counters>>

\* the revisions that lead to revs by fixups alone
Leading(revs) ==
    LET level[k \in 0..Cardinality(fixups)] ==
          IF k = 0 THEN revs
          ELSE level[k - 1] \cup {Front(f.id) : f \in {g \in fixups : g.target \in level[k - 1]}}
    IN level[Cardinality(fixups)]

\* TwoStageRemove::rename_fixups
RenameFixups ==
    /\ Now(Main, "oldFixups") /\ Pop(Main)
    /\ fixups' = {f \in fixups : f.target \in Leading({cmd[Main].goal, cmd[Main].from})}
    /\ covered' = [d \in Databases |->
          db[d] \in Leading({cmd[Main].from}) \cup {<<>>}]
    /\ UNCHANGED <<src, files, old, intended, server, counters>>

\* revisions are removed before the squashed one is written
RemoveRevision(f) ==
    /\ Now(Main, "oldRevisions") /\ f \in files
    /\ files' = files \ {f} /\ UNCHANGED old
    /\ IF files = {f} THEN Pop(Main) ELSE UNCHANGED cmd
    /\ UNCHANGED <<src, fixups, intended, server, covered, counters>>

\* TwoStageRemove::rename_revisions: one file after the other
RenameRevision(f) ==
    /\ Now(Main, "oldRevisions") /\ f \in files
    /\ files' = files \ {f} /\ old' = old \cup {f}
    /\ IF files = {f} THEN Pop(Main) ELSE UNCHANGED cmd
    /\ UNCHANGED <<src, fixups, intended, server, covered, counters>>

\* the fixup leads from the parent of the squashed revision
FixupOfParent(c) == [id |-> Append(Front(c.from), Last(c.goal)), target |-> c.goal]
FixupOf(c) == [id |-> Append(c.from, Last(c.goal)), target |-> c.goal]
WriteFixup ==
    /\ Now(Main, "writeFixup") /\ Pop(Main)
    /\ fixups' = fixups \cup {FixupOf(cmd[Main])}
    /\ UNCHANGED <<src, files, old, intended, server, covered, counters>>

WriteSquashed ==
    /\ Now(Main, "writeSquashed") /\ Pop(Main)
    /\ files' = files \cup {cmd[Main].goal} /\ intended' = cmd[Main].goal
    /\ covered' = [d \in Databases |->
          covered[d] /\ (FixupOf(cmd[Main]) \in fixups \/ db[d] = <<>>)]
    /\ UNCHANGED <<src, old, fixups, server, counters>>

\* TwoStageRemove::commit
RemoveOld ==
    /\ Now(Main, "removeOld") /\ Pop(Main)
    /\ old' = old \ Ancestors(cmd[Main].from)
    /\ UNCHANGED <<src, files, fixups, intended, server, covered, counters>>

Copy ==
    /\ Now(Main, "copy") /\ Pop(Main)
    /\ files' = Extracted(cmd[Main].goal) /\ intended' = cmd[Main].goal
    /\ covered' = [d \in Databases |->
          db[d] \in Ancestors(intended') \cup {<<>>}]
    /\ UNCHANGED <<src, old, fixups, server, counters>>

\* ROLLBACK and ABORT MIGRATION REWRITE, by async_try! or with the connection
RollBack(d) ==
    /\ db' = [db EXCEPT ![d] = Committed(d)]
    /\ started' = [started EXCEPT ![d] = NoId]
    /\ rewriting' = [rewriting EXCEPT ![d] = NoId]

Broken(d) == \/ Now(d, "apply") /\ ~Applicable(d)
             \/ Now(d, "commitRewrite") /\ ~SameSchema(d)

\* the first statement that fails ends the command; a crash does the same
Fail(d) ==
    /\ cmd[d].todo # <<>>
    /\ \/ Broken(d) /\ UNCHANGED failures
       \/ ~Broken(d) /\ failures < MaxFailures /\ failures' = failures + 1
    /\ RollBack(d) /\ cmd' = [cmd EXCEPT ![d] = NoCommand]
    /\ covered' = IF cmd[d].op = "squash" /\ ~Now(d, "removeOld")
                  THEN [x \in Databases |-> FALSE] ELSE covered
    /\ UNCHANGED <<src, dir, begun, edits>>

Finish(d) ==
    /\ cmd[d].op # "none" /\ cmd[d].todo = <<>>
    /\ cmd' = [cmd EXCEPT ![d] = NoCommand]
    /\ covered' = [covered EXCEPT ![d] = @ \/ db[d] \in files]
    /\ UNCHANGED <<src, dir, server, counters>>

DatabaseStep(d) ==
    \/ \E single \in BOOLEAN, target \in files : Apply(d, target, single)
    \/ DevMigrate(d)
    \/ Backup(d) \/ Hook(d) \/ Transaction(d) \/ ApplyMigration(d)
    \/ StartRewrite(d) \/ CommitRewrite(d) \/ MigrateToSchema(d)
    \/ Fail(d) \/ Finish(d)

DirectoryStep ==
    \/ Create \/ Extract \/ Write \/ Copy
    \/ \E withFixup \in BOOLEAN : Squash(withFixup)
    \/ RenameFixups \/ WriteFixup \/ WriteSquashed \/ RemoveOld
    \/ \E f \in files : RenameRevision(f)

MigrationsNext == \/ \E d \in Databases : DatabaseStep(d)
        \/ DirectoryStep
        \/ \E s \in Schemas : EditSchema(s)

MigrationsSpec == MigrationsInit /\ [][MigrationsNext]_migrating

(* Properties *)

Settled(d) == /\ cmd[d].op = "none" /\ cmd[Main].op = "none"
              /\ Readable /\ ~InDevMode(db[d])
\* a squash brought back a revision that an earlier one had replaced
Returned == \E f \in fixups : f.target \in Leading({Front(f.id)})
Stranded(d) == \E f \in fixups : db[d] = f.id
Upgradable(d) ==
    \/ db[d] \in files \cup {<<>>}
    \/ /\ FindPath(db[d], Latest) # {}
       /\ \A p \in FindPath(db[d], Latest) : Whole(p, db[d], Latest)

\* No command leaves a transaction or a rewrite open in its session (async_try! in
\* apply_migrations and rebase_to_schema).
SessionsClosed ==
    \A d \in Databases :
       /\ cmd[d].op = "none" => rewriting[d] = NoId /\ started[d] = NoId
       /\ \A i \in 1..Len(db[d]) : db[d][i].to \in Schemas

\* Types; and whatever point a squash stops at, every revision it meant to replace is
\* still in migrations/, under its name or as .edgeql.old, until the squashed one is
\* (TwoStageRemove); the sessions are closed between commands.
MigrationsInv ==
    /\ src \in Schemas /\ covered \in [Databases -> BOOLEAN]
    /\ SessionsClosed
    /\ Ancestors(intended) \subseteq files \cup old

\* A database that stood at the squashed revision, or at one that fixups lead to
\* it from, finds its way to the newest revision whatever was squashed since
\* (rename_fixups, find_path, backtrack), unless a fixup was applied and the
\* rewrite that follows it failed, or fixups form a loop: the search enters a node
\* of the loop again and backtrack then takes the way for a bug.
HistoriesLeadOn ==
    \A d \in Databases :
       Settled(d) /\ covered[d] /\ ~Stranded(d) /\ ~Returned => Upgradable(d)

\* The same without the exception: "The normal migration process will update
\* your migration history" (print_final_message of squash).
FixupCanBeRetried ==
    \A d \in Databases : Settled(d) /\ covered[d] => Upgradable(d)

\* extract ends with the history of the database in the directory: the prompt
\* promises to "overwrite the file with the database version of migration".
ExtractSyncs ==
    [][Copy => files' = Ancestors(cmd[Main].goal)]_migrating

\* No command changes a database before the backup, unless told to skip it:
\* the backup is made at one of four places that depend on the mode and on
\* whether the schema differs (run_inner, dev_mode::migrate, migrate_to_schema).
BackedUpFirst ==
    [][\A d \in Databases :
         db'[d] # db[d] /\ cmd[d].op \in {"apply", "dev"} /\ ~SkipBackup
            => cmd'[d].backed \/ cmd'[d].op = "none"]_migrating

\* Under --single-transaction a command that fails, at whatever statement, leaves
\* the database where it was or, after the commit, where it was to go.
AllOrNothing ==
    [][\A d \in Databases :
         cmd[d].single /\ cmd'[d].op = "none" => db'[d] \in {cmd[d].from, cmd[d].goal}]_migrating

\* "`migration create` followed by `migrate --dev-mode` will then finalize a
\* migration by turning existing dev mode migrations into a regular file":
\* no dev mode migration is left if the schema is that of the newest revision.
DevModeSettles ==
    [][\A d \in Databases :
         /\ cmd[d].op = "dev" /\ cmd[d].todo # <<>> /\ cmd'[d].todo = <<>>
         /\ cmd'[d].op = "dev" /\ cmd[d].goal \notin Ancestors(cmd[d].from)
         /\ SchemaOf(db'[d]) = SchemaOf(cmd[d].goal)
         => db'[d] = cmd[d].goal]_migrating

\* What `migrate` promises: no database is changed before the backup or halfway, and
\* dev mode migrations end as the file that `migration create` made of them.
MigrateKeepsWord == BackedUpFirst /\ AllOrNothing /\ DevModeSettles

=============================================================================
