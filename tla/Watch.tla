------------------------------- MODULE Watch -------------------------------
(***************************************************************************)
(* `watch`: a task that collects the events of the file system and sends   *)
(* execution orders, and one executor per matcher: scripts, the migrator   *)
(* (--migrate) and the configuration (--sync).  They are tasks of one      *)
(* thread, so a step here is what a task does between two awaits.          *)
(***************************************************************************)
EXTENDS Naturals, FiniteSets

CONSTANTS
    Paths,       \* files that some matcher watches
    Matches,     \* Matches[p]: the executors whose globs match p
    Extensions,  \* the schema file that can enable an extension
    MaxEdits,    \* bound: edits of files
    MaxTroubles  \* bound: connections and migrations that fail, and changes of the git branch

Executors == {"script", "migrate", "sync"}

ASSUME MatchesAssumption ==
    /\ Matches \in [Paths -> SUBSET Executors]
    /\ Extensions \in Paths /\ "migrate" \in Matches[Extensions]

VARIABLES
    phase,      \* of the main task: registering, watching, leaving
    inbox,      \* paths in the channel the notify handler fills
    batch,      \* changed_paths of wait_for_changes; its timer runs iff nonempty
    orders,     \* execution orders in the channel of each executor
    pc,         \* where each executor is
    dirty,      \* changes an executor has not read yet (history)
    pending,    \* SyncTrigger.pending
    line,       \* the `using extension` line: commented out or enabled
    snap,       \* the extension is in the schema that the migrator read
    database,   \* the extension is in the schema of the database
    applied,    \* the configuration was applied with the extension
    tracked,    \* the migrator knows the branch that watch started on
    git,        \* what `git branch --show-current` says now
    strays,     \* schemas read since the branch was left (history)
    aborted,    \* Ctrl-C, SIGINT or the death of the parent was reported
    edits, faults, checkouts

vars == <<phase, inbox, batch, orders, pc, dirty, pending, line, snap, database,
          applied, tracked, git, strays, aborted, edits, faults, checkouts>>

fileState == <<inbox, batch, dirty, line, edits>>
state == <<pending, snap, database, applied>>
outside == <<tracked, git, strays, aborted, faults, checkouts>>

Ended == \A e \in Executors : pc[e] = "done"

\* start_executors: the configuration and the migrator run at once, scripts wait
Init ==
    /\ phase = "registering"
    /\ inbox = {} /\ batch = {} /\ dirty = [e \in Executors |-> {}]
    /\ orders = [e \in Executors |-> 0]
    /\ pc = [e \in Executors |-> IF e = "script" THEN "idle" ELSE "start"]
    /\ pending = FALSE /\ line = "commented" /\ snap = FALSE
    /\ database = FALSE /\ applied = FALSE
    /\ tracked \in BOOLEAN /\ git = "same" /\ strays = 0 /\ aborted = FALSE
    /\ edits = 0 /\ faults = 0 /\ checkouts = 0

Trouble == faults + checkouts < MaxTroubles
Goto(e, at) == pc' = [pc EXCEPT ![e] = at]

(* The file system and the collecting task *)

\* WatchHandler::handle_event: a path is sent once its directory is watched
Changed(p) ==
    IF phase = "watching"
    THEN /\ inbox' = inbox \cup {p}
         /\ dirty' = [e \in Executors |->
                        IF e \in Matches[p] THEN dirty[e] \cup {p} ELSE dirty[e]]
    ELSE UNCHANGED <<inbox, dirty>>

Edit(p) ==
    /\ edits < MaxEdits /\ ~Ended
    /\ edits' = edits + 1 /\ Changed(p)
    /\ UNCHANGED <<phase, batch, orders, pc, line, state, outside>>

\* FsWatcher::new and watch(): no await between them and the first wait()
Register ==
    /\ phase = "registering" /\ phase' = "watching"
    /\ UNCHANGED <<fileState, orders, pc, state, outside>>

\* wait_for_changes: a received path joins the set and starts the timer again
Collect ==
    /\ phase = "watching"
    /\ \E p \in inbox : inbox' = inbox \ {p} /\ batch' = batch \cup {p}
    /\ UNCHANGED <<phase, dirty, line, edits, orders, pc, state, outside>>

\* A mutant: the loop over the matchers ends at the first one that matches
NotifiedFirst(paths) == [e \in Executors |->
    orders[e] + (IF e = CHOOSE f \in Executors : \E p \in paths : f \in Matches[p]
                 THEN 1 ELSE 0)]

\* The orders of a batch: one per executor with a matching path
Notified(paths) == [e \in Executors |->
    orders[e] + (IF \E p \in paths : e \in Matches[p] THEN 1 ELSE 0)]

\* the timer of wait_for_changes runs out: watch_and_match sends the orders
Dispatch ==
    /\ phase = "watching" /\ batch # {}
    /\ orders' = Notified(batch) /\ batch' = {}
    /\ UNCHANGED <<phase, inbox, dirty, line, edits, pc, state, outside>>

\* Ctrl-C, SIGINT or the task that watches the parent
Abort ==
    /\ phase = "watching" /\ ~aborted /\ aborted' = TRUE
    /\ UNCHANGED <<phase, fileState, orders, pc, state, tracked, git, strays, faults,
                   checkouts>>

\* Event::Abort: the loop ends, the watcher is dropped and so are the senders
Leave ==
    /\ phase = "watching" /\ aborted /\ phase' = "leaving"
    /\ UNCHANGED <<fileState, orders, pc, state, outside>>

\* With the watcher gone no Interrupt is registered: a signal ends the process
ExitAtOnce ==
    /\ phase = "leaving" /\ ~Ended /\ pc' = [e \in Executors |-> "done"]
    /\ UNCHANGED <<phase, fileState, orders, state, outside>>

Checkout(to) ==
    /\ Trouble /\ git # to /\ tracked /\ ~Ended
    /\ git' = to /\ checkouts' = checkouts + 1
    /\ strays' = IF git = "other" THEN strays ELSE 0
    /\ UNCHANGED <<phase, fileState, orders, pc, state, tracked, aborted, faults>>

(* Orders *)

\* A mutant: start_executors keeps the SyncTrigger it made
ClosedButSync(e) == phase = "leaving" /\ e # "sync"

\* The channel of the configuration lives as long as the migrator's SyncTrigger
Closed(e) == phase = "leaving" /\ (e = "sync" => pc["migrate"] = "done")

\* ExecutionOrder::recv: all orders merge into one; those of a closed channel drop
Receive(e) ==
    /\ pc[e] = "idle" /\ (orders[e] > 0 \/ Closed(e))
    /\ Goto(e, IF Closed(e) THEN "done" ELSE "start")
    /\ orders' = [orders EXCEPT ![e] = 0]
    /\ UNCHANGED <<phase, fileState, state, outside>>

Reads(e) == dirty' = [dirty EXCEPT ![e] = {}]

(* Scripts *)

RunScript ==
    /\ pc["script"] = "start" /\ Goto("script", "running") /\ Reads("script")
    /\ UNCHANGED <<phase, inbox, batch, line, edits, orders, state, outside>>

\* run_script returns: a failing script is reported and that is all
ScriptEnds ==
    /\ pc["script"] = "running" /\ Goto("script", "idle")
    /\ UNCHANGED <<phase, fileState, orders, state, outside>>

(* The migrator *)

Exits == pc' = [e \in Executors |-> "done"]

\* A mutant: the branch is looked at only when watch starts
CheckBranchOnce == Goto("migrate", "connect")

\* Migrator::run: another branch ends the process, a detached HEAD is waited out.
\* (The migrator is spawned last: it first runs when the watcher is registered.)
CheckBranchLoop ==
    IF tracked /\ git = "other" THEN Exits
    ELSE (tracked => git = "same") /\ Goto("migrate", "connect")

CheckBranch ==
    /\ pc["migrate"] = "start" /\ phase # "registering" /\ CheckBranchLoop
    /\ UNCHANGED <<phase, fileState, orders, state, outside>>

Connect ==
    /\ pc["migrate"] = "connect" /\ Goto("migrate", "read")
    /\ UNCHANGED <<phase, fileState, orders, state, outside>>

ConnectFails ==
    /\ pc["migrate"] = "connect" /\ Trouble
    /\ faults' = faults + 1 /\ Goto("migrate", "idle")
    /\ UNCHANGED <<phase, fileState, orders, state, tracked, git, strays, aborted, checkouts>>

\* dev_mode::migrate reads the schema directory ...
ReadSchema ==
    /\ pc["migrate"] = "read" /\ Goto("migrate", "apply") /\ Reads("migrate")
    /\ snap' = (line = "enabled")
    /\ strays' = IF git = "other" THEN strays + 1 ELSE strays
    /\ UNCHANGED <<phase, inbox, batch, line, edits, orders, pending, database, applied,
                   tracked, git, aborted, faults, checkouts>>

\* ... and commits what it read
CommitSchema ==
    /\ pc["migrate"] = "apply" /\ Goto("migrate", "trigger") /\ database' = snap
    /\ UNCHANGED <<phase, fileState, orders, pending, snap, applied, outside>>

\* migration_apply_dev_mode prints the error of a migration and returns Ok
SchemaRejected ==
    /\ pc["migrate"] = "apply" /\ Trouble
    /\ faults' = faults + 1 /\ Goto("migrate", "trigger")
    /\ UNCHANGED <<phase, fileState, orders, state, tracked, git, strays, aborted, checkouts>>

\* SyncTrigger::maybe_trigger: swap the flag and send an empty order
MaybeTrigger ==
    /\ pc["migrate"] = "trigger" /\ Goto("migrate", "idle")
    /\ pending' = FALSE
    /\ orders' = [orders EXCEPT !["sync"] = @ + (IF pending THEN 1 ELSE 0)]
    /\ UNCHANGED <<phase, fileState, snap, database, applied, outside>>

(* The configuration *)

ReadConfig ==
    /\ pc["sync"] = "start" /\ Goto("sync", "configure") /\ Reads("sync")
    /\ UNCHANGED <<phase, inbox, batch, line, edits, orders, state, outside>>

\* config::apply: validate, connect, configure
Configure ==
    /\ pc["sync"] = "configure" /\ database
    /\ applied' = TRUE /\ Goto("sync", "idle")
    /\ UNCHANGED <<phase, fileState, orders, pending, snap, database, outside>>

\* A mutant: the file is written where the migrator's glob does not see it
EnableUnseen ==
    /\ line' = "enabled" /\ pending' = TRUE /\ UNCHANGED <<inbox, dirty>>

\* maybe_enable_missing_extension: uncomment `using extension`, retry later
EnableMissing ==
    /\ line' = "enabled" /\ pending' = TRUE /\ Changed(Extensions)

MissingExtension ==
    /\ pc["sync"] = "configure" /\ ~database /\ Goto("sync", "idle")
    /\ IF line = "commented" THEN EnableMissing
       ELSE UNCHANGED <<line, pending, inbox, dirty>>
    /\ UNCHANGED <<phase, batch, edits, orders, snap, database, applied, outside>>

ConfigureFails ==
    /\ pc["sync"] = "configure" /\ Trouble
    /\ faults' = faults + 1 /\ Goto("sync", "idle")
    /\ UNCHANGED <<phase, fileState, orders, state, tracked, git, strays, aborted, checkouts>>

Collector == Register \/ Collect \/ Dispatch \/ Leave
Script == Receive("script") \/ RunScript \/ ScriptEnds
Migrator ==
    \/ Receive("migrate") \/ CheckBranch \/ Connect \/ ConnectFails
    \/ ReadSchema \/ CommitSchema \/ SchemaRejected \/ MaybeTrigger
Sync ==
    \/ Receive("sync") \/ ReadConfig \/ Configure \/ MissingExtension \/ ConfigureFails

Next ==
    \/ Collector \/ Script \/ Migrator \/ Sync
    \/ \E p \in Paths : Edit(p)
    \/ Abort \/ ExitAtOnce
    \/ \E to \in {"same", "other", "detached"} : Checkout(to)

(* Tokio runs every task that is ready; the database answers and scripts end. *)
Fairness ==
    /\ WF_vars(Collector) /\ WF_vars(Script) /\ WF_vars(Migrator) /\ WF_vars(Sync)

Spec == Init /\ [][Next]_vars /\ Fairness

-----------------------------------------------------------------------------

TypeOK ==
    /\ phase \in {"registering", "watching", "leaving"}
    /\ inbox \subseteq Paths /\ batch \subseteq Paths
    /\ orders \in [Executors -> Nat]
    /\ pc \in [Executors -> {"start", "idle", "running", "connect", "read", "apply",
                             "trigger", "configure", "done"}]
    /\ dirty \in [Executors -> SUBSET Paths]
    /\ line \in {"commented", "enabled"} /\ git \in {"same", "other", "detached"}
    /\ {pending, snap, database, applied, tracked, aborted} \subseteq BOOLEAN
    /\ strays \in Nat

\* The branch is checked before a connection is made and the schema is read after it
\* (Migrator::run, migration_apply_dev_mode): after the user left the branch, at most
\* the run that was already past the check migrates the schema of the other branch.
AtMostOneStray == tracked => strays <= 1

\* The types, and the bound on runs that migrate the schema of another branch.
WatchInv == TypeOK /\ AtMostOneStray

Over == aborted \/ Ended \/ (tracked /\ git # "same")

\* No change of a watched file is lost between the notify handler, the debounced set and
\* the merged orders (wait_for_changes, watch_and_match, ExecutionOrder::recv): each
\* executor whose globs match it starts a run that reads the file after the change.
\* (A migrator run that cannot connect is not tried again before the next change.)
ChangesHandled ==
    \A p \in Paths : \A e \in Matches[p] :
        (p \in dirty[e]) ~>
            (p \notin dirty[e] \/ Over \/ (e = "migrate" /\ faults > 0))

\* An abort ends the main task and every executor, whatever they were doing; only a
\* migrator that waits for a detached HEAD to come back keeps the process.
AbortEnds == aborted ~> (Ended \/ (tracked /\ git = "detached"))

\* A configuration that needed an extension is applied once the migrator has migrated
\* the schema that enables it (SyncTrigger), provided no run of the migrator was
\* already past its reading when the extension was enabled, and nothing failed.
SyncFollowsExtension ==
    (pending /\ pc["migrate"] \notin {"apply", "trigger"})
        ~> (applied \/ Over \/ faults > 0)
=============================================================================
