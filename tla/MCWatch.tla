------------------------------ MODULE MCWatch ------------------------------
(* Three things that keep a project and its database together: `watch`,     *)
(* `sync` run again and again, and the watching `migration upgrade-check`.  *)
(* A behaviour is of one of them, and the other two stay at one state. *)
EXTENDS Watch, UpgradeCheck, ProjectSync

VARIABLE matter

MCMatches == [schema |-> {"script", "migrate"}, local |-> {"sync"}]
MCPaths == DOMAIN MCMatches

MCInit ==
    /\ matter \in {"watch", "sync", "check"} /\ Init /\ SyncInit /\ CheckInit
    /\ matter # "watch" => ~tracked
    /\ matter # "sync" => usingLine = "absent"
    /\ matter # "check" => good = [part \in Parts |-> FALSE]

MCNext ==
    /\ UNCHANGED matter
    /\ \/ matter = "watch" /\ Next /\ UNCHANGED <<syncing, checking>>
       \/ matter = "sync" /\ SyncNext /\ UNCHANGED <<vars, checking>>
       \/ matter = "check" /\ CheckNext /\ UNCHANGED <<vars, syncing>>

Watching == matter = "watch"
Syncing == matter = "sync"

\* Fairness, SyncFairness and CheckFairness, each of the behaviours that are about it
MCFairness ==
    /\ WF_vars(Watching /\ Collector) /\ WF_vars(Watching /\ Script)
    /\ WF_vars(Watching /\ Migrator) /\ WF_vars(Watching /\ Sync)
    /\ \A p \in Syncers : WF_syncing(Syncing /\ (Begin(p) \/ Work(p)))
    /\ SF_syncing(Syncing /\ \E p \in Syncers : StartService(p))
    /\ WF_syncing(Syncing /\ CreateByHand)
    /\ WF_checking(matter = "check" /\ CheckSteps)

MCSpec == MCInit /\ [][MCNext]_<<matter, vars, syncing, checking>> /\ MCFairness
=============================================================================
