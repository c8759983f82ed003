---------------------------- MODULE UpgradeCheck ----------------------------
(***************************************************************************)
(* `migration upgrade-check --watch`: the newer server is run on the side, *)
(* the schema and then every migration is tried on it, and again whenever  *)
(* the schema directory changes.                                           *)
(***************************************************************************)
EXTENDS Naturals, Sequences

CONSTANTS MaxChanges, MaxErrors

VARIABLES
    good,     \* whether the server takes what is in the schema, and in the migrations
    seen,     \* the same of what the check has read
    check,    \* where the command is
    first,    \* it is the check of do_check, not one of watch_loop
    ok,       \* the variable of watch_loop
    told,     \* what the last line on the terminal says
    watched,  \* the schema directory is watched
    events,   \* something is in the channel of the watcher, or in its batch
    retry,    \* retry_timeout is set
    changes, errors

checking == <<good, seen, check, first, ok, told, watched, events, retry, changes, errors>>
Parts == {"schema", "migrations"}

CheckInit ==
    /\ good \in [Parts -> BOOLEAN] /\ seen = good /\ check = "starting" /\ first = TRUE
    /\ ok = FALSE /\ told = "nothing" /\ watched = FALSE /\ events = FALSE /\ retry = FALSE
    /\ changes = 0 /\ errors = 0

\* A file is saved, whatever the command is doing
Change(part) ==
    /\ changes < MaxChanges /\ changes' = changes + 1 /\ check # "ended"
    /\ good' = [good EXCEPT ![part] = ~@]
    /\ events' = (events \/ watched)
    /\ UNCHANGED <<seen, check, first, ok, told, watched, retry, errors>>

\* background_for: the server says READY=1
Ready ==
    /\ check = "starting" /\ check' = "watch"
    /\ UNCHANGED <<good, seen, first, ok, told, watched, events, retry, changes, errors>>
Watch ==
    /\ check = "watch" /\ watched' = TRUE /\ check' = "schema"
    /\ UNCHANGED <<good, seen, first, ok, told, events, retry, changes, errors>>

\* single_check prints what is wrong, its callers that all is well when that is new
Settled(isOk) ==
    /\ check' = "waiting" /\ first' = FALSE /\ ok' = isOk
    /\ told' = IF ~isOk THEN "not ready" ELSE IF ok THEN told ELSE "ready"

\* gen_start_migration, and read_all with the re-reading of apply_migration
Read(part) ==
    /\ check = part /\ check' = "try " \o part
    /\ seen' = [seen EXCEPT ![part] = good[part]]
    /\ UNCHANGED <<good, first, ok, told, watched, events, retry, changes, errors>>
\* START MIGRATION; ABORT MIGRATION
TrySchema ==
    /\ check = "try schema"
    /\ IF seen["schema"] THEN check' = "migrations" /\ UNCHANGED <<first, ok, told>>
       ELSE Settled(FALSE)
    /\ UNCHANGED <<good, seen, watched, events, retry, changes, errors>>
\* START MIGRATION REWRITE, apply_migration of each, ABORT MIGRATION REWRITE
TryMigrations ==
    /\ check = "try migrations" /\ Settled(seen["migrations"])
    /\ UNCHANGED <<good, seen, watched, events, retry, changes, errors>>

CheckFailsForGood ==
    /\ check \in {"schema", "try schema", "migrations", "try migrations"}
    /\ errors < MaxErrors /\ errors' = errors + 1
    /\ IF first THEN check' = "ended" /\ UNCHANGED <<ok, told, retry>>
       ELSE check' = "waiting" /\ ok' = FALSE /\ told' = "not ready" /\ UNCHANGED retry
    /\ UNCHANGED <<good, seen, first, watched, events, changes>>
\* A file that cannot be read, or an error that is not about the schema
CheckFails ==
    /\ check \in {"schema", "try schema", "migrations", "try migrations"}
    /\ errors < MaxErrors /\ errors' = errors + 1
    /\ IF first THEN check' = "ended" /\ UNCHANGED <<ok, told, retry>>
       ELSE check' = "waiting" /\ ok' = FALSE /\ told' = "not ready" /\ retry' = TRUE
    /\ UNCHANGED <<good, seen, first, watched, events, changes>>

\* watcher.wait: changes that have settled, or the ten seconds are over
Again ==
    /\ check = "waiting" /\ (events \/ retry)
    /\ check' = "schema" /\ retry' = FALSE
    \* the timer drops what wait_for_changes has collected so far, not what is in the channel
    /\ events' \in IF retry THEN {events, FALSE} ELSE {FALSE}
    /\ UNCHANGED <<good, seen, first, ok, told, watched, changes, errors>>
\* Event::Abort, an interrupt, or the server ends: background_for is over
Stop ==
    /\ check # "ended" /\ check' = "ended"
    /\ UNCHANGED <<good, seen, first, ok, told, watched, events, retry, changes, errors>>

CheckSteps ==
    \/ Ready \/ Watch \/ (\E part \in Parts : Read(part)) \/ TrySchema \/ TryMigrations
    \/ CheckFails \/ Again
CheckNext == CheckSteps \/ Stop \/ \E part \in Parts : Change(part)

\* The executor of the runtime, the server and the timer go on; users and errors need not
CheckFairness == WF_checking(CheckSteps)
CheckSpec == CheckInit /\ [][CheckNext]_checking /\ CheckFairness

(* Property *)

\* When the files no longer change, what the terminal said last becomes and stays the truth
\* about them, though they changed during a check, during the start of the watcher or while
\* an error waited for its retry, until the command ends (do_check, watch_loop).
ReadyIsTrue ==
    <>[](check = "ended" \/ (told = "ready" <=> good["schema"] /\ good["migrations"]))

=============================================================================
