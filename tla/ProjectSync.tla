---------------------------- MODULE ProjectSync ----------------------------
(***************************************************************************)
(* `gel sync`: connect to the instance of the project, starting it if the  *)
(* user wants, apply the migrations, make one if the schema has changed,   *)
(* and apply the configuration.  The command ends whenever the user has to *)
(* look, and is run again.  Its locks are shared, though it writes: two of *)
(* them run beside each other.                                             *)
(***************************************************************************)
EXTENDS Naturals, Sequences

CONSTANTS
    Syncers,     \* processes that run sync
    Nobody,
    Unsafe,      \* versions of the schema that a migration is not made for unasked
    MaxVersions, \* bound: changes of the schema
    MaxEvents    \* bound: changes of the configuration, and commands that fail

ASSUME SyncAssumption == Unsafe \subseteq 1 .. MaxVersions /\ Nobody \notin Syncers

VARIABLES
    version,   \* of the schema files
    usingLine, \* `using extension` in extensions.gel: absent, commented or enabled
    chain,     \* the migrations directory: the schema each migration leads to
    forked,    \* two migrations have one parent
    migrated,  \* number of migrations in the database
    config,    \* the local configuration: missing, none, plain, or for the extension
    inForce,   \* the one in force
    server,    \* down, service, or a process in the foreground of `owner`
    owner,
    sync,      \* what each process does
    disturbed, \* processes beside which something changed (history)
    configs, failed

syncing == <<version, usingLine, chain, forked, migrated, config, inForce, server, owner, sync,
             disturbed, configs, failed>>
project == <<version, usingLine, chain, forked, migrated, config, inForce, configs>>

Eventful == configs + failed < MaxEvents
Schema == [version |-> version, extension |-> usingLine = "enabled"]
Target(n) == IF n = 0 THEN [version |-> 0, extension |-> FALSE] ELSE chain[n]
\* outcome: the command is to be run again, after a migration is made by hand if it is "manual"
Rest(outcome) == [pc |-> "idle", len |-> 0, goal |-> Target(0), outcome |-> outcome]

SyncInit ==
    /\ version = 0 /\ usingLine \in {"absent", "commented"} /\ chain = <<>> /\ forked = FALSE
    /\ migrated = 0 /\ config = "missing" /\ inForce = "none" /\ server = "down" /\ owner = Nobody
    /\ sync = [p \in Syncers |-> Rest("again")] /\ disturbed = {} /\ configs = 0 /\ failed = 0

Is(p, pc) == sync[p].pc = pc
Now(p, pc) == sync' = [sync EXCEPT ![p].pc = pc]

\* The server in the foreground ends with the command
End(p, outcome) ==
    /\ sync' = [sync EXCEPT ![p] = Rest(outcome)]
    /\ IF owner = p THEN server' = "down" /\ owner' = Nobody ELSE UNCHANGED <<server, owner>>
Went(p, pc) == Now(p, pc) /\ UNCHANGED <<server, owner>>

\* Whoever was told to make the migration himself does so first
Begin(p) ==
    /\ Is(p, "idle") /\ (sync[p].outcome = "manual" => Schema = Target(Len(chain)))
    /\ sync' = [sync EXCEPT ![p] = [Rest("again") EXCEPT !.pc = "connect"]]
    /\ disturbed' = disturbed \ {p}
    /\ UNCHANGED <<project, server, owner, failed>>

Reach(p) ==
    /\ Is(p, "connect") /\ Now(p, IF server = "down" THEN "ask" ELSE "apply")
    /\ UNCHANGED <<project, server, owner, disturbed, failed>>
\* "Cannot connect to instance": Action::Service
StartService(p) ==
    /\ Is(p, "ask") /\ Now(p, "connect")
    /\ server' = IF server = "down" THEN "service" ELSE server
    /\ UNCHANGED <<project, owner, disturbed, failed>>
\* Action::Run: run_and_sync
RunForeground(p) ==
    /\ Is(p, "ask")
    /\ IF server = "down" THEN Now(p, "apply") /\ server' = "foreground" /\ owner' = p
       ELSE End(p, "again")
    /\ UNCHANGED <<project, disturbed, failed>>
\* Action::Retry, and a service that does not start
Retry(p) == Is(p, "ask") /\ Now(p, "connect") /\ UNCHANGED <<project, server, owner, disturbed, failed>>
\* The server fails or is stopped, with the connections to it; any error ends the command
SyncFails(p) ==
    /\ sync[p].pc \notin {"idle", "ask", "connect"}
    /\ \/ server = "down" /\ UNCHANGED failed
       \/ Eventful /\ failed' = failed + 1
    /\ End(p, "again")
    /\ UNCHANGED <<project, disturbed>>

Disturbs(p) == disturbed' = disturbed \cup (Syncers \ {p})

ApplyFirstOnly(p) ==
    /\ Is(p, "apply") /\ server # "down" /\ Went(p, "read")
    /\ migrated' = IF migrated = 0 THEN Len(chain) ELSE migrated
    /\ UNCHANGED <<version, usingLine, chain, forked, config, inForce, disturbed, configs, failed>>
\* apply::run_inner, to the last migration
Apply(p) ==
    /\ Is(p, "apply") /\ server # "down"
    /\ IF forked THEN End(p, "again") /\ UNCHANGED <<migrated, disturbed>>
       ELSE /\ Went(p, "read") /\ migrated' = Len(chain)
            /\ IF migrated' = migrated THEN UNCHANGED disturbed ELSE Disturbs(p)
    /\ UNCHANGED <<version, usingLine, chain, forked, config, inForce, configs, failed>>
\* create::run_inner, not interactive: read_all ...
ReadAll(p) ==
    /\ Is(p, "read")
    /\ IF forked THEN End(p, "again")
       ELSE sync' = [sync EXCEPT ![p].pc = "plan", ![p].len = Len(chain)] /\ UNCHANGED <<server, owner>>
    /\ UNCHANGED <<project, disturbed, failed>>
PlanAnyhow(p) ==
    /\ Is(p, "plan") /\ server # "down"
    /\ CASE migrated # sync[p].len -> End(p, "again")
         [] Schema = Target(migrated) -> Went(p, "config")
         [] Schema # Target(migrated) /\ version \in Unsafe -> Went(p, "config")
         [] OTHER -> /\ sync' = [sync EXCEPT ![p].pc = "write", ![p].goal = Schema]
                     /\ UNCHANGED <<server, owner>>
    /\ UNCHANGED <<project, disturbed, failed>>
\* ... START MIGRATION TO the schema: code 4 says that nothing has changed
Plan(p) ==
    /\ Is(p, "plan") /\ server # "down"
    /\ CASE migrated # sync[p].len -> End(p, "again")
         [] Schema = Target(migrated) -> Went(p, "config")
         [] Schema # Target(migrated) /\ version \in Unsafe -> End(p, "manual")
         [] OTHER -> /\ sync' = [sync EXCEPT ![p].pc = "write", ![p].goal = Schema]
                     /\ UNCHANGED <<server, owner>>
    /\ UNCHANGED <<project, disturbed, failed>>
\* write_migration: the name has the number and the id in it
Write(p) ==
    /\ Is(p, "write") /\ End(p, "again") /\ Disturbs(p)
    /\ chain' = IF Len(chain) = sync[p].len THEN Append(chain, sync[p].goal) ELSE chain
    /\ forked' = (forked \/ (Len(chain) > sync[p].len /\ chain[sync[p].len + 1] # sync[p].goal))
    /\ UNCHANGED <<version, usingLine, migrated, config, inForce, configs, failed>>

\* config::apply; maybe_enable_missing_extension
ApplyConfig(p) ==
    /\ Is(p, "config") /\ server # "down"
    /\ \/ /\ config \in {"missing", "none"} /\ End(p, "synced")
          /\ config' = "none" /\ UNCHANGED <<inForce, usingLine, disturbed>>
       \/ /\ config = "plain" \/ (config = "extension" /\ Target(migrated).extension)
          /\ End(p, "synced") /\ inForce' = config /\ Disturbs(p) /\ UNCHANGED <<config, usingLine>>
       \/ /\ config = "extension" /\ ~Target(migrated).extension
          /\ IF usingLine = "commented" THEN usingLine' = "enabled" /\ End(p, "again") /\ Disturbs(p)
             ELSE UNCHANGED <<usingLine, disturbed>> /\ End(p, "again")
          /\ UNCHANGED <<config, inForce>>
    /\ UNCHANGED <<version, chain, forked, migrated, configs, failed>>

(* The user *)

EditSchema ==
    /\ version < MaxVersions /\ version' = version + 1 /\ disturbed' = Syncers
    /\ UNCHANGED <<usingLine, chain, forked, migrated, config, inForce, configs, server, owner, sync, failed>>
EditConfig(to) ==
    /\ Eventful /\ configs' = configs + 1 /\ config' = to /\ disturbed' = Syncers
    /\ UNCHANGED <<version, usingLine, chain, forked, migrated, inForce, server, owner, sync, failed>>
\* `migration create` with answers, under the exclusive lock
CreateByHand ==
    /\ \A p \in Syncers : Is(p, "idle")
    /\ version \in Unsafe /\ ~forked /\ migrated = Len(chain) /\ Schema # Target(migrated)
    /\ chain' = Append(chain, Schema)
    /\ UNCHANGED <<version, usingLine, forked, migrated, config, inForce, configs, server, owner, sync,
                   disturbed, failed>>

Work(p) == \/ Reach(p) \/ SyncFails(p) \/ Apply(p) \/ ReadAll(p) \/ Plan(p) \/ Write(p) \/ ApplyConfig(p)
SyncNext ==
    \/ \E p \in Syncers : Begin(p) \/ Work(p) \/ StartService(p) \/ RunForeground(p) \/ Retry(p)
    \/ EditSchema \/ CreateByHand \/ \E to \in {"plain", "extension"} : EditConfig(to)

\* The process goes on, and the user runs sync again and again, sometimes starts the
\* service, and makes the migrations that need answers
SyncFairness ==
    /\ \A p \in Syncers : WF_syncing(Begin(p) \/ Work(p))
    /\ SF_syncing(\E p \in Syncers : StartService(p))
    /\ WF_syncing(CreateByHand)
SyncSpec == SyncInit /\ [][SyncNext]_syncing /\ SyncFairness

(* Properties *)

InSync ==
    /\ migrated = Len(chain) /\ Target(migrated) = Schema
    /\ config \in {"missing", "none"} \/ inForce = config

\* "Project is now in sync" is true of the project, if nobody changed it while the command
\* ran: not of a schema for which no migration could be made, nor of a database to which
\* migrations of the directory were not applied (sync, run_and_sync).
SyncIsTrue ==
    \A p \in Syncers : sync[p].outcome = "synced" /\ p \notin disturbed => InSync

\* A project whose user goes on running sync gets in sync: every exit that asks for another
\* run has come nearer to it, also when the extension had to be enabled first.  Only two
\* commands that make different migrations at once (their locks are shared), or an extension
\* whose line is not in the schema, leave something to the user (sync,
\* maybe_enable_missing_extension).
SyncConverges == <>[](InSync \/ forked \/ (config = "extension" /\ usingLine = "absent"))

=============================================================================
