---------------------------- MODULE ProjectProofs ----------------------------
(***************************************************************************)
(* Proofs about what keeps a project and its database together: Watch, for *)
(* any files and any number of edits, faults and changes of the branch;    *)
(* ProjectSync, for any number of commands and changes; Proposals, for any *)
(* proposals of the server and any dialogue about them; and Branches, for  *)
(* any branches, migrations and commands, and whatever step fails.         *)
(***************************************************************************)
EXTENDS Watch, ProjectSync, Proposals, Branches, FiniteSetTheorems, SequenceTheorems,
        WellFoundedInduction, TLAPS

-----------------------------------------------------------------------------
(* Watch *)

\* A run that is past the check of the branch has not met another one before
BranchChecked ==
    /\ tracked \/ git = "same"
    /\ git = "other" /\ strays # 0 => pc["migrate"] \notin {"connect", "read"}

WatchInductive == WatchInv /\ BranchChecked

(* The initial states satisfy the invariant. *)
LEMMA WatchStart == Init => WatchInductive
<1> SUFFICES ASSUME Init PROVE WatchInductive
  OBVIOUS
<1>1. pc \in [Executors -> {"start", "idle", "running", "connect", "read", "apply", "trigger",
                            "configure", "done"}]
  BY DEF Init
<1>2. {pending, snap, database, applied, tracked, aborted} \subseteq BOOLEAN
  BY DEF Init
<1>3. dirty \in [Executors -> SUBSET Paths] /\ orders \in [Executors -> Nat]
  BY DEF Init
<1> QED BY <1>1, <1>2, <1>3 DEF Init, WatchInductive, WatchInv, TypeOK, AtMostOneStray, BranchChecked

(* Every step keeps the invariant. *)
LEMMA WatchStep == WatchInductive /\ [Next]_vars => WatchInductive'
<1> SUFFICES ASSUME WatchInductive, [Next]_vars PROVE WatchInductive'
  OBVIOUS
<1> USE DEF WatchInductive, WatchInv, TypeOK, AtMostOneStray, BranchChecked
<1>0. Executors = {"script", "migrate", "sync"}
  BY DEF Executors
<1>1. ASSUME NEW p \in Paths, Changed(p)
      PROVE  inbox' \subseteq Paths /\ dirty' \in [Executors -> SUBSET Paths]
  BY <1>1 DEF Changed
<1>2. CASE \E p \in Paths : Edit(p)
  BY <1>1, <1>2 DEF Edit, outside, state
<1>3. CASE Collector
  <2>1. CASE Register \/ Leave
    BY <1>0, <2>1 DEF Register, Leave, fileState, outside, state
  <2>2. CASE Collect
    BY <1>0, <2>2 DEF Collect, outside, state
  <2>3. CASE Dispatch
    <3>1. Notified(batch) \in [Executors -> Nat]
      BY DEF Notified
    <3> QED BY <1>0, <2>3, <3>1 DEF Dispatch, outside, state
  <2> QED BY <1>3, <2>1, <2>2, <2>3 DEF Collector
<1>4. CASE Abort
  BY <1>4 DEF Abort, fileState, state
<1>11. CASE ExitAtOnce
  <2>1. pc' \in [Executors -> {"done"}] /\ pc'["migrate"] = "done"
    BY <1>0, <1>11 DEF ExitAtOnce
  <2> QED BY <1>11, <2>1 DEF ExitAtOnce, fileState, outside, state
<1>5. CASE \E to \in {"same", "other", "detached"} : Checkout(to)
  BY <1>0, <1>5 DEF Checkout, fileState, outside, state
<1>6. ASSUME NEW e \in Executors, Receive(e) PROVE WatchInductive'
  BY <1>0, <1>6 DEF Receive, Goto, fileState, outside, state
<1>7. CASE Script
  BY <1>0, <1>6, <1>7 DEF Script, RunScript, ScriptEnds, Reads, Goto, fileState, outside, state
<1>8. CASE Migrator
  <2>1. CASE CheckBranch
    BY <1>0, <2>1 DEF CheckBranch, CheckBranchLoop, Exits, Goto, fileState, outside, state
  <2>2. CASE Connect \/ ConnectFails
    BY <1>0, <2>2 DEF Connect, ConnectFails, Goto, fileState, outside, state
  <2>3. CASE ReadSchema
    BY <1>0, <2>3 DEF ReadSchema, Reads, Goto, fileState, outside, state
  <2>4. CASE CommitSchema \/ SchemaRejected
    BY <1>0, <2>4 DEF CommitSchema, SchemaRejected, Goto, fileState, outside, state
  <2>5. CASE MaybeTrigger
    <3>1. orders' \in [Executors -> Nat]
      BY <1>0, <2>5 DEF MaybeTrigger
    <3>2. pc' = [pc EXCEPT !["migrate"] = "idle"] /\ pending' = FALSE
      BY <2>5 DEF MaybeTrigger, Goto
    <3> QED BY <1>0, <2>5, <3>1, <3>2 DEF MaybeTrigger, fileState, outside
  <2> QED BY <1>0, <1>6, <1>8, <2>1, <2>2, <2>3, <2>4, <2>5 DEF Migrator
<1>9. CASE Sync
  <2>1. CASE ReadConfig
    BY <1>0, <2>1 DEF ReadConfig, Reads, Goto, outside, state
  <2>3. CASE Configure
    BY <1>0, <2>3 DEF Configure, Goto, fileState, outside
  <2>4. CASE ConfigureFails
    BY <1>0, <2>4 DEF ConfigureFails, Goto, fileState, state
  <2>2. CASE MissingExtension
    BY <1>0, <1>1, <2>2, MatchesAssumption
    DEF MissingExtension, EnableMissing, Goto, fileState, outside, state
  <2> QED BY <1>0, <1>6, <1>9, <2>1, <2>2, <2>3, <2>4 DEF Sync
<1>10. CASE UNCHANGED vars
  BY <1>10 DEF vars
<1> QED BY <1>2, <1>3, <1>4, <1>5, <1>7, <1>8, <1>9, <1>10, <1>11 DEF Next

(***************************************************************************)
(* However often the user changes the branch while `watch` runs, at most   *)
(* the one run of the migrator that was past its check migrates the schema *)
(* of a branch that is not the one watch was started on.                   *)
(***************************************************************************)
THEOREM BranchesKeepApart == Spec => []WatchInv
<1>1. WatchInductive => WatchInv
  BY DEF WatchInductive
<1> QED BY WatchStart, WatchStep, <1>1, PTL DEF Spec

-----------------------------------------------------------------------------
(* Project synchronisation *)

SchemaRecord == [version : Nat, extension : BOOLEAN]
SyncRecord ==
    [pc : {"idle", "connect", "ask", "apply", "read", "plan", "write", "config"}, len : Nat,
     goal : SchemaRecord, outcome : {"again", "manual", "synced"}]
SyncTyped ==
    version \in Nat /\ chain \in Seq(SchemaRecord) /\ sync \in [Syncers -> SyncRecord]

\* The database is at the last migration, and that leads to the schema
Migrated == migrated = Len(chain)
Reached == Schema = Target(migrated)

\* What a command r knows at each of its steps, if nothing has changed beside it
SyncKnows(r, last, reached, inSync) ==
    /\ r.pc # "idle" => r.outcome = "again"
    /\ r.pc \in {"read", "plan", "config"} => last
    /\ r.pc = "config" => reached
    /\ r.outcome = "synced" => inSync
Knows(p) == SyncKnows(sync[p], Migrated, Reached, InSync)

SyncInductive == SyncTyped /\ \A p \in Syncers : p \in disturbed \/ Knows(p)

LEMMA SyncStart == SyncInit => SyncInductive
<1> SUFFICES ASSUME SyncInit PROVE SyncInductive
  OBVIOUS
<1>1. Rest("again") \in SyncRecord /\ Rest("again").pc = "idle" /\ Rest("again").outcome = "again"
  BY DEF Rest, Target, SyncRecord, SchemaRecord
<1>2. chain \in Seq(SchemaRecord) /\ version \in Nat
  BY DEF SyncInit
<1> QED BY <1>1, <1>2 DEF SyncInit, SyncInductive, SyncTyped, SyncKnows, Knows, Migrated, Reached

\* Nothing that the other commands know has changed
Steady ==
    /\ UNCHANGED <<version, usingLine, chain, migrated>>
    /\ config' \in {"missing", "none"} \/ UNCHANGED <<config, inForce>>

(* One command takes a step, beside which nothing changes or everybody else *)
(* is disturbed. *)
LEMMA SyncMoves ==
    ASSUME SyncInductive, NEW p \in Syncers, NEW r \in SyncRecord,
           sync' = [sync EXCEPT ![p] = r], version' \in Nat, chain' \in Seq(SchemaRecord),
           disturbed \ {p} \subseteq disturbed', Steady \/ Syncers \ {p} \subseteq disturbed',
           p \in disturbed' \/ SyncKnows(r, Migrated', Reached', InSync')
    PROVE  SyncInductive'
<1>1. SyncTyped'
  BY DEF SyncInductive, SyncTyped
<1>2. ASSUME NEW q \in Syncers, q \notin disturbed' PROVE Knows(q)'
  <2>1. CASE q = p
    <3>1. sync'[q] = r
      BY <2>1 DEF SyncInductive, SyncTyped
    <3> QED BY <1>2, <2>1, <3>1 DEF SyncKnows, Knows, Migrated, Reached
  <2>2. CASE q # p
    <3>1. sync'[q] = sync[q] /\ Steady /\ Knows(q)
      BY <1>2, <2>2 DEF SyncInductive, SyncTyped
    <3>2. Schema' = Schema /\ Target(migrated)' = Target(migrated) /\ (InSync => InSync')
      BY <3>1 DEF Steady, Schema, Target, InSync
    <3> QED BY <3>1, <3>2 DEF SyncKnows, Knows, Migrated, Reached, Steady
  <2> QED BY <2>1, <2>2
<1> QED BY <1>1, <1>2 DEF SyncInductive
(* Every step keeps the invariant. *)
LEMMA SyncStep == SyncInductive /\ [SyncNext]_syncing => SyncInductive'
<1> SUFFICES ASSUME SyncInductive, [SyncNext]_syncing PROVE SyncInductive'
  OBVIOUS
<1> DEFINE To(p, r) == sync' = [sync EXCEPT ![p] = r]
           Kept == UNCHANGED <<version, usingLine, chain, migrated, config, inForce>>
<1>0. /\ version \in Nat /\ chain \in Seq(SchemaRecord) /\ sync \in [Syncers -> SyncRecord]
      /\ Len(chain) \in Nat /\ Schema \in SchemaRecord
      /\ \A p \in Syncers : sync[p] \in SyncRecord
  BY DEF SyncInductive, SyncTyped, Schema, SchemaRecord
<1>1. ASSUME NEW o \in {"again", "manual", "synced"}
      PROVE  /\ Rest(o) \in SyncRecord /\ Rest(o).pc = "idle" /\ Rest(o).outcome = o
  BY DEF Rest, Target, SyncRecord, SchemaRecord
<1>2. ASSUME NEW p \in Syncers, Begin(p) PROVE SyncInductive'
  <2> DEFINE r == [Rest("again") EXCEPT !.pc = "connect"]
  <2>1. r \in SyncRecord /\ r.pc = "connect" /\ r.outcome = "again"
    BY <1>1 DEF SyncRecord
  <2>2. To(p, r) /\ disturbed \ {p} \subseteq disturbed' /\ Kept
    BY <1>2 DEF Begin, project
  <2> HIDE DEF r
  <2>3. SyncKnows(r, Migrated', Reached', InSync')
    BY <2>1 DEF SyncKnows, Knows, Migrated, Reached
  <2> QED BY <1>0, <2>1, <2>2, <2>3, SyncMoves DEF Steady
<1>3. ASSUME NEW p \in Syncers, NEW o \in {"again", "manual"}, To(p, Rest(o)),
             version' = version, chain' \in Seq(SchemaRecord), disturbed \subseteq disturbed',
             Kept \/ Syncers \ {p} \subseteq disturbed'
      PROVE  SyncInductive'
  <2> DEFINE r == Rest(o)
  <2>1. r \in SyncRecord /\ r.pc = "idle" /\ r.outcome # "synced"
    BY <1>1
  <2> HIDE DEF r
  <2>2. SyncKnows(r, Migrated', Reached', InSync')
    BY <2>1 DEF SyncKnows, Knows, Migrated, Reached
  <2>3. To(p, r)
    BY <1>3 DEF r
  <2> QED BY <1>0, <1>3, <2>1, <2>2, <2>3, SyncMoves DEF Steady
<1>4. ASSUME NEW p \in Syncers, NEW at, at \in {"connect", "ask", "apply", "write"},
             NEW goal \in SchemaRecord,
             To(p, [sync[p] EXCEPT !.pc = at, !.goal = goal]), sync[p].pc # "idle",
             disturbed' = disturbed, Kept
      PROVE  SyncInductive'
  <2> DEFINE r == [sync[p] EXCEPT !.pc = at, !.goal = goal]
  <2>1. r \in SyncRecord /\ r.pc = at /\ r.outcome = sync[p].outcome
    BY <1>0, <1>4 DEF SyncRecord
  <2> HIDE DEF r
  <2>2. p \in disturbed' \/ SyncKnows(r, Migrated', Reached', InSync')
    BY <1>4, <2>1 DEF SyncKnows, Knows, Migrated, Reached, SyncInductive
  <2>3. To(p, r)
    BY <1>4 DEF r
  <2> QED BY <1>0, <1>4, <2>1, <2>2, <2>3, SyncMoves DEF Steady
<1>5. ASSUME NEW p \in Syncers, NEW at, at \in {"connect", "ask", "apply"}, Now(p, at),
             sync[p].pc # "idle", disturbed' = disturbed, Kept
      PROVE  SyncInductive'
  <2>1. [sync[p] EXCEPT !.pc = at, !.goal = sync[p].goal] = [sync[p] EXCEPT !.pc = at]
    BY <1>0 DEF SyncRecord
  <2>2. sync[p].goal \in SchemaRecord
    BY <1>0 DEF SyncRecord
  <2>3. To(p, [sync[p] EXCEPT !.pc = at])
    BY <1>5 DEF Now
  <2> QED BY <1>4, <1>5, <2>1, <2>2, <2>3
<1>6. ASSUME NEW p \in Syncers, Reach(p) \/ StartService(p) \/ Retry(p) \/ RunForeground(p)
      PROVE  SyncInductive'
  <2>1. sync[p].pc # "idle" /\ disturbed' = disturbed /\ Kept
    BY <1>6 DEF Reach, StartService, Retry, RunForeground, Is, project
  <2>2. CASE Reach(p) \/ StartService(p) \/ Retry(p)
    BY <1>5, <2>1, <2>2 DEF Reach, StartService, Retry
  <2>3. CASE RunForeground(p)
    BY <1>0, <1>3, <1>5, <2>1, <2>3 DEF RunForeground, End
  <2> QED BY <1>6, <2>2, <2>3
<1>7. ASSUME NEW p \in Syncers, SyncFails(p) PROVE SyncInductive'
  BY <1>0, <1>3, <1>7 DEF SyncFails, End, project
<1>8. ASSUME NEW p \in Syncers, Apply(p) PROVE SyncInductive'
  <2>1. CASE forked
    BY <1>0, <1>3, <1>8, <2>1 DEF Apply, End
  <2>2. CASE ~forked
    <3> DEFINE r == [sync[p] EXCEPT !.pc = "read"]
    <3>1. To(p, r) /\ migrated' = Len(chain) /\ UNCHANGED <<version, usingLine, chain, config, inForce>>
      BY <1>8, <2>2 DEF Apply, Went, Now
    <3>2. r \in SyncRecord /\ r.pc = "read" /\ r.outcome = sync[p].outcome /\ sync[p].pc = "apply"
      BY <1>0, <1>8 DEF SyncRecord, Apply, Is
    <3>3. disturbed \ {p} \subseteq disturbed' /\ disturbed \subseteq disturbed'
      BY <1>8, <2>2 DEF Apply, Disturbs
    <3>4. Steady \/ Syncers \ {p} \subseteq disturbed'
      BY <1>8, <2>2, <3>1 DEF Apply, Disturbs, Steady
    <3> HIDE DEF r
    <3>5. p \in disturbed' \/ SyncKnows(r, Migrated', Reached', InSync')
      BY <3>1, <3>2, <3>3 DEF SyncKnows, Knows, Migrated, Reached, SyncInductive
    <3> QED BY <1>0, <3>1, <3>2, <3>3, <3>4, <3>5, SyncMoves
  <2> QED BY <2>1, <2>2
<1>9. ASSUME NEW p \in Syncers, ReadAll(p) PROVE SyncInductive'
  <2>0. Kept /\ disturbed' = disturbed
    BY <1>9 DEF ReadAll, project
  <2>1. CASE forked
    BY <1>0, <1>3, <1>9, <2>0, <2>1 DEF ReadAll, End
  <2>2. CASE ~forked
    <3> DEFINE r == [sync[p] EXCEPT !.pc = "plan", !.len = Len(chain)]
    <3>1. To(p, r)
      BY <1>9, <2>2 DEF ReadAll
    <3>2. r \in SyncRecord /\ r.pc = "plan" /\ r.outcome = sync[p].outcome /\ sync[p].pc = "read"
      BY <1>0, <1>9 DEF SyncRecord, ReadAll, Is
    <3> HIDE DEF r
    <3>3. p \in disturbed' \/ SyncKnows(r, Migrated', Reached', InSync')
      BY <2>0, <3>2 DEF SyncKnows, Knows, Migrated, Reached, SyncInductive
    <3> QED BY <1>0, <2>0, <3>1, <3>2, <3>3, SyncMoves DEF Steady
  <2> QED BY <2>1, <2>2
<1>10. ASSUME NEW p \in Syncers, Plan(p) PROVE SyncInductive'
  <2>0. Kept /\ disturbed' = disturbed /\ sync[p].pc = "plan"
    BY <1>10 DEF Plan, project, Is
  <2>1. \/ End(p, "again") \/ End(p, "manual")
        \/ Schema = Target(migrated) /\ Went(p, "config")
        \/ sync' = [sync EXCEPT ![p].pc = "write", ![p].goal = Schema]
    BY <1>10 DEF Plan
  <2>2. CASE End(p, "again") \/ End(p, "manual")
    BY <1>0, <1>3, <2>0, <2>2 DEF End
  <2>3. CASE Schema = Target(migrated) /\ Went(p, "config")
    <3> DEFINE r == [sync[p] EXCEPT !.pc = "config"]
    <3>1. To(p, r)
      BY <2>3 DEF Went, Now
    <3>2. r \in SyncRecord /\ r.pc = "config" /\ r.outcome = sync[p].outcome
      BY <1>0 DEF SyncRecord
    <3> HIDE DEF r
    <3>3. Schema' = Target(migrated)'
      BY <2>0, <2>3 DEF Schema, Target
    <3>4. p \in disturbed' \/ SyncKnows(r, Migrated', Reached', InSync')
      BY <2>0, <3>2, <3>3 DEF SyncKnows, Knows, Migrated, Reached, SyncInductive
    <3> QED BY <1>0, <2>0, <3>1, <3>2, <3>4, SyncMoves DEF Steady
  <2>4. CASE sync' = [sync EXCEPT ![p].pc = "write", ![p].goal = Schema]
    BY <1>0, <1>4, <2>0, <2>4
  <2> QED BY <2>1, <2>2, <2>3, <2>4
<1>11. ASSUME NEW p \in Syncers, Write(p) PROVE SyncInductive'
  <2>1. chain' \in Seq(SchemaRecord)
    BY <1>0, <1>11 DEF Write, SyncRecord
  <2> QED BY <1>0, <1>3, <1>11, <2>1 DEF Write, End, Disturbs
<1>12. ASSUME NEW p \in Syncers, ApplyConfig(p) PROVE SyncInductive'
  <2>0. UNCHANGED <<version, chain, migrated>> /\ sync[p].pc = "config" /\ disturbed \subseteq disturbed'
    BY <1>12 DEF ApplyConfig, Is, Disturbs
  <2>1. \/ /\ To(p, Rest("synced")) /\ usingLine' = usingLine
           /\ config' = "none" \/ inForce' = config'
           /\ config' \in {"missing", "none"} \/ Syncers \ {p} \subseteq disturbed'
        \/ /\ To(p, Rest("again"))
           /\ Kept \/ Syncers \ {p} \subseteq disturbed'
    BY <1>12 DEF ApplyConfig, End, Disturbs
  <2>2. CASE /\ To(p, Rest("synced")) /\ usingLine' = usingLine
             /\ config' = "none" \/ inForce' = config'
             /\ config' \in {"missing", "none"} \/ Syncers \ {p} \subseteq disturbed'
    <3> DEFINE r == Rest("synced")
    <3>1. r \in SyncRecord /\ r.pc = "idle" /\ To(p, r)
      BY <1>1, <2>2
    <3> HIDE DEF r
    <3>2. Schema' = Schema /\ Target(migrated)' = Target(migrated)
      BY <2>0, <2>2 DEF Schema, Target
    <3>3. p \in disturbed' \/ InSync'
      BY <2>0, <2>2, <3>2 DEF InSync, SyncKnows, Knows, Migrated, Reached, SyncInductive
    <3>4. p \in disturbed' \/ SyncKnows(r, Migrated', Reached', InSync')
      BY <3>1, <3>3 DEF SyncKnows, Knows, Migrated, Reached
    <3> QED BY <1>0, <2>0, <2>2, <3>1, <3>4, SyncMoves DEF Steady
  <2>3. CASE To(p, Rest("again")) /\ (Kept \/ Syncers \ {p} \subseteq disturbed')
    BY <1>0, <1>3, <2>0, <2>3
  <2> QED BY <2>1, <2>2, <2>3
<1>13. ASSUME NEW to, EditSchema \/ EditConfig(to) PROVE SyncInductive'
  BY <1>0, <1>13 DEF EditSchema, EditConfig, SyncInductive, SyncTyped
<1>14. CASE CreateByHand
  <2>1. chain' \in Seq(SchemaRecord) /\ UNCHANGED <<version, sync, disturbed>>
    BY <1>0, <1>14 DEF CreateByHand
  <2>2. ASSUME NEW p \in Syncers, p \notin disturbed PROVE Knows(p)'
    <3>1. sync[p].pc = "idle" /\ ~InSync /\ Knows(p)
      BY <1>14, <2>2 DEF CreateByHand, Is, InSync, SyncInductive
    <3> QED BY <2>1, <3>1 DEF SyncKnows, Knows, Migrated, Reached
  <2> QED BY <1>0, <2>1, <2>2 DEF SyncInductive, SyncTyped
<1>15. CASE UNCHANGED syncing
  <2>1. UNCHANGED <<version, chain, sync, disturbed, Schema, Target(migrated), InSync>>
    BY <1>15 DEF syncing, Schema, Target, InSync
  <2> QED BY <1>15, <2>1 DEF syncing, SyncInductive, SyncTyped, SyncKnows, Knows, Migrated, Reached
<1> QED BY <1>2, <1>6, <1>7, <1>8, <1>9, <1>10, <1>11, <1>12, <1>13, <1>14, <1>15 DEF SyncNext, Work

(***************************************************************************)
(* "Project is now in sync" is true whenever a command has said so and     *)
(* nothing has changed beside it: the migrations of the directory are in   *)
(* the database, they lead to the schema, and the configuration is in      *)
(* force, whatever other commands that hold the same shared locks did.     *)
(***************************************************************************)
THEOREM SyncTellsTheTruth == SyncSpec => []SyncIsTrue
<1>1. SyncInductive => SyncIsTrue
  BY DEF SyncInductive, SyncKnows, Knows, Migrated, Reached, SyncIsTrue
<1> QED BY SyncStart, SyncStep, <1>1, PTL DEF SyncSpec

-----------------------------------------------------------------------------
(* Proposals *)

Prompts == {At(p).prompt : p \in All}
Told == {x \in All \X Nat : x[2] \in 1..At(x[1]).size}
Migration == [confirmed : SUBSET Told, rejected : SUBSET All, granted : SUBSET Prompts]

ProposalsTyped ==
    /\ how \in {"interactive", "safe", "unsafe", "first"}
    /\ stage \in {"start", "describe", "ask", "input", "statements", "decide", "apply", "finish",
                  "failed", "done"}
    /\ current \in Migration /\ savepoints \in Seq(Migration) /\ save_point \in Nat
    /\ operations \in Seq(SUBSET Prompts) /\ operations # <<>>

\* The statements c are those of whole proposals
Whole(c) == \A q \in All : \A n, m \in 1..At(q).size : <<q, n>> \in c => <<q, m>> \in c

\* or are but for p, of which they are the first k
WholeBut(c, p) ==
    \A q \in All \ {p} : \A n, m \in 1..At(q).size : <<q, n>> \in c => <<q, m>> \in c
FirstOnes(c, p, k) == \A n \in 1..At(p).size : <<p, n>> \in c <=> n <= k
Begun(c, p) == WholeBut(c, p) /\ \E k \in 0..(At(p).size - 1) : FirstOnes(c, p, k)

Granted(m) == m.rejected = {} => \A x \in m.confirmed : At(x[1]).prompt \in m.granted

\* A savepoint without a rejection has its own entry among the operations
SavepointFits(m, j, ops) ==
    /\ Whole(m.confirmed) /\ Granted(m)
    /\ m.rejected = {} => j <= Len(ops) /\ ops[j] \subseteq m.granted

DialogueFits ==
    how = "interactive" /\ stage \notin {"start", "failed"} =>
        /\ Len(savepoints) = save_point + 1 /\ Len(operations) <= save_point + 1
        /\ \A j \in 1..Len(savepoints) : SavepointFits(savepoints[j], j, operations)
        /\ current.rejected = savepoints[save_point + 1].rejected
        /\ savepoints[save_point + 1].granted \subseteq current.granted

StageFits ==
    /\ stage \in {"ask", "input", "statements"} => how = "interactive"
    /\ stage \in {"decide", "apply"} => how # "interactive"
    /\ stage \in {"ask", "input", "statements", "decide", "apply"} => Offers(current) # {}
    /\ stage \notin {"statements", "failed"} => Whole(current.confirmed)
    /\ stage = "statements" =>
          /\ Begun(current.confirmed, Offered)
          /\ current.rejected = {} => At(Offered).prompt \in current.granted
    /\ how = "interactive" => Granted(current)
    /\ stage = "start" => current = [confirmed |-> {}, rejected |-> {}, granted |-> {}]
          /\ operations = <<{}>> /\ save_point = 0

ProposalsInductive == ProposalsTyped /\ DialogueFits /\ StageFits

(* The sequences of savepoints and of operations. *)
LEMMA Grown ==
    ASSUME NEW S, NEW s \in Seq(S), NEW n \in Nat, n <= Len(s), NEW m \in S
    PROVE  /\ Append(SubSeq(s, 1, n), m) \in Seq(S) /\ Len(Append(SubSeq(s, 1, n), m)) = n + 1
           /\ Append(SubSeq(s, 1, n), m)[n + 1] = m
           /\ \A j \in 1..n : Append(SubSeq(s, 1, n), m)[j] = s[j]
<1>1. \A i \in 1..n : s[i] \in S
  BY ElementOfSeq, LenProperties
<1>2. /\ SubSeq(s, 1, n) \in Seq(S) /\ Len(SubSeq(s, 1, n)) = n
      /\ \A i \in 1..n : SubSeq(s, 1, n)[i] = s[i]
  BY <1>1, SubSeqProperties
<1> QED BY <1>2, AppendProperties

LEMMA Shortened ==
    ASSUME NEW S, NEW s \in Seq(S), NEW n \in Nat, n <= Len(s)
    PROVE  /\ SubSeq(s, 1, n) \in Seq(S) /\ Len(SubSeq(s, 1, n)) = n
           /\ \A i \in 1..n : SubSeq(s, 1, n)[i] = s[i]
<1>1. \A i \in 1..n : s[i] \in S
  BY ElementOfSeq, LenProperties
<1> QED BY <1>1, SubSeqProperties

(* The initial states satisfy the invariant. *)
LEMMA ProposalsStart == ProposalsInit => ProposalsInductive
<1> SUFFICES ASSUME ProposalsInit PROVE ProposalsInductive
  OBVIOUS
<1>1. ProposalsTyped
  BY DEF ProposalsInit, ProposalsTyped, Migration
<1>2. DialogueFits
  BY DEF ProposalsInit, DialogueFits
<1>3. StageFits
  BY DEF ProposalsInit, StageFits, Whole, Granted
<1> QED BY <1>1, <1>2, <1>3 DEF ProposalsInductive

(* The server's offer is one of the proposals. *)
LEMMA OfferedIs ==
    ASSUME Offers(current) # {}
    PROVE  /\ Offered \in All /\ Offered \in Offers(current)
           /\ At(Offered).prompt \in Prompts
           /\ Offered \notin current.rejected
BY DEF Offered, Offers, Prompts

(* What the server says of its proposals. *)
LEMMA SizesAreNumbers == \A p \in All : At(p).size \in Nat \ {0}
BY ItemsAssumption DEF All, At

LEMMA StatementsAre ==
    ASSUME NEW p \in All
    PROVE  /\ Statements(p) \subseteq Told
           /\ \A q \in All, n \in Nat : <<q, n>> \in Statements(p) <=> q = p /\ n \in 1..At(p).size
BY SizesAreNumbers DEF Statements, Told

(* A step that leaves the answers and the savepoints alone. *)
LEMMA DialogueStays ==
    ASSUME ProposalsInductive, stage \notin {"start", "failed"}, stage' # "start",
           UNCHANGED <<how, savepoints, save_point, operations>>,
           current'.rejected = current.rejected, current.granted \subseteq current'.granted
    PROVE  DialogueFits'
BY DEF ProposalsInductive, DialogueFits

(* Steps that change nothing but the stage. *)
LEMMA Turns ==
    ASSUME ProposalsInductive, stage \notin {"start", "statements", "failed"}, NEW s, Turn(s),
           s \in {"describe", "ask", "input", "decide", "apply", "finish", "failed"},
           s \in {"ask", "input", "decide", "apply"} => Offers(current) # {},
           s \in {"ask", "input"} => how = "interactive", s \in {"decide", "apply"} => how # "interactive"
    PROVE  ProposalsInductive'
<1>1. UNCHANGED <<how, savepoints, save_point, operations, current>> /\ stage' = s
  BY DEF Turn, Stage
<1>2. ProposalsTyped'
  BY <1>1 DEF ProposalsInductive, ProposalsTyped
<1>3. DialogueFits'
  BY <1>1, DialogueStays
<1>4. StageFits'
  BY <1>1 DEF ProposalsInductive, StageFits, Offers, Open, Resolved
<1> QED BY <1>2, <1>3, <1>4 DEF ProposalsInductive

(* Proposals are added whole, or rejected. *)
LEMMA WholeAdded ==
    ASSUME NEW c \in SUBSET Told, Whole(c), NEW P \in SUBSET All
    PROVE  /\ c \cup UNION {Statements(p) : p \in P} \in SUBSET Told
           /\ Whole(c \cup UNION {Statements(p) : p \in P})
<1> DEFINE d == c \cup UNION {Statements(p) : p \in P}
<1>1. d \in SUBSET Told
  BY StatementsAre
<1>2. Whole(d)
  <2> SUFFICES ASSUME NEW q \in All, NEW n \in 1..At(q).size, NEW m \in 1..At(q).size, <<q, n>> \in d
               PROVE  <<q, m>> \in d
    BY DEF Whole
  <2>1. CASE <<q, n>> \in c
    BY <2>1 DEF Whole
  <2>2. ASSUME NEW p \in P, <<q, n>> \in Statements(p)
        PROVE  <<q, m>> \in d
    BY <2>2, StatementsAre
  <2> QED BY <2>1, <2>2
<1> QED BY <1>1, <1>2

LEMMA WholeOne ==
    ASSUME NEW c \in SUBSET Told, Whole(c), NEW p \in All
    PROVE  c \cup Statements(p) \in SUBSET Told /\ Whole(c \cup Statements(p))
<1>1. c \cup UNION {Statements(q) : q \in {p}} = c \cup Statements(p)
  OBVIOUS
<1> QED BY <1>1, WholeAdded

(* The first step, and what decides what comes next. *)
LEMMA Starts ==
    ASSUME ProposalsInductive, NEW valid \in BOOLEAN, NEW upToDate \in BOOLEAN,
           StartProposals(valid, upToDate)
    PROVE  ProposalsInductive'
<1>1. stage = "start" /\ how' = how /\ operations' = operations /\ save_point' = save_point
  BY DEF StartProposals, Abandon, Turn, Populate, Stage
<1>2. /\ current = [confirmed |-> {}, rejected |-> {}, granted |-> {}]
      /\ operations = <<{}>> /\ save_point = 0
  BY <1>1 DEF ProposalsInductive, StageFits
<1>3. CASE Abandon
  BY <1>1, <1>3
     DEF Abandon, Turn, Stage, ProposalsInductive, ProposalsTyped, DialogueFits, StageFits
<1>4. CASE how = "first" /\ Populate
  <2>1. stage' = "finish" /\ savepoints' = savepoints
    BY <1>4 DEF Populate, Stage
  <2> DEFINE P == {q \in All : q[2] = 1}
             c == UNION {Statements(p) : p \in P}
  <2>2. c \in SUBSET Told /\ Whole(c)
    <3>1. Whole({}) /\ P \in SUBSET All
      BY DEF Whole
    <3>2. {} \cup c \in SUBSET Told /\ Whole({} \cup c)
      <4> HIDE DEF P
      <4> QED BY <3>1, WholeAdded
    <3>3. {} \cup c = c
      OBVIOUS
    <3> HIDE DEF c
    <3> QED BY <3>2, <3>3
  <2>3. current' = [current EXCEPT !.confirmed = c]
    BY <1>4 DEF Populate
  <2> HIDE DEF c, P
  <2>4. current' \in Migration /\ current'.confirmed = c
    BY <1>2, <2>2, <2>3 DEF Migration
  <2> QED
    BY <1>1, <1>4, <2>1, <2>2, <2>4
       DEF ProposalsInductive, ProposalsTyped, DialogueFits, StageFits
<1>5. CASE /\ how # "first" /\ stage' = "describe" /\ current' = current
           /\ savepoints' = IF how = "interactive" THEN <<current>> ELSE <<>>
  <2>1. ProposalsTyped'
    BY <1>1, <1>5 DEF ProposalsInductive, ProposalsTyped
  <2>2. DialogueFits'
    BY <1>1, <1>2, <1>5 DEF DialogueFits, SavepointFits, Whole, Granted
  <2>3. StageFits'
    BY <1>1, <1>2, <1>5 DEF StageFits, Whole, Granted
  <2> QED BY <2>1, <2>2, <2>3 DEF ProposalsInductive
<1> QED BY <1>3, <1>4, <1>5 DEF StartProposals

LEMMA Describes ==
    ASSUME ProposalsInductive, Describe
    PROVE  ProposalsInductive'
<1> DEFINE s == CASE Complete(current) -> "finish"
                  [] ~Complete(current) /\ Offers(current) = {} -> "failed"
                  [] OTHER -> IF how = "interactive"
                              THEN IF AlreadyApproved(Offered) THEN "input" ELSE "ask"
                              ELSE "decide"
<1>1. stage = "describe" /\ Turn(s)
  BY DEF Describe
<1>2. /\ s \in {"describe", "ask", "input", "decide", "apply", "finish", "failed"}
      /\ s \in {"ask", "input", "decide", "apply"} => Offers(current) # {}
      /\ s \in {"ask", "input"} => how = "interactive"
      /\ s \in {"decide", "apply"} => how # "interactive"
  OBVIOUS
<1> HIDE DEF s
<1> QED BY <1>1, <1>2, Turns

(* A step ends with the migration m, which a new savepoint holds. *)
LEMMA Saves ==
    ASSUME ProposalsInductive, how = "interactive", stage \notin {"start", "failed"},
           how' = how, stage' = "describe",
           NEW m \in Migration, current' = m, save_point' = save_point + 1, SavePoint(m),
           operations' \in Seq(SUBSET Prompts), Len(operations) <= Len(operations'),
           Len(operations') <= save_point + 2,
           \A j \in 1..Len(operations) : operations'[j] = operations[j],
           SavepointFits(m, save_point + 2, operations')
    PROVE  ProposalsInductive'
<1>1. /\ savepoints \in Seq(Migration) /\ save_point \in Nat /\ operations \in Seq(SUBSET Prompts)
      /\ Len(operations) \in Nat /\ Len(operations) # 0
  BY LenProperties, EmptySeq DEF ProposalsInductive, ProposalsTyped
<1>2. /\ Len(savepoints) = save_point + 1 /\ Len(operations) <= save_point + 1
      /\ \A j \in 1..Len(savepoints) : SavepointFits(savepoints[j], j, operations)
  BY DEF ProposalsInductive, DialogueFits
<1>3. savepoints' = Append(SubSeq(savepoints, 1, save_point + 1), m)
  BY DEF SavePoint
<1>4. /\ savepoints' \in Seq(Migration) /\ Len(savepoints') = save_point + 2
      /\ savepoints'[save_point + 2] = m
      /\ \A j \in 1..(save_point + 1) : savepoints'[j] = savepoints[j]
  BY <1>1, <1>2, <1>3, Grown
<1>5. ProposalsTyped'
  BY <1>1, <1>4, EmptySeq, LenProperties DEF ProposalsInductive, ProposalsTyped
<1>6. \A j \in 1..Len(savepoints') : SavepointFits(savepoints'[j], j, operations')
  <2> SUFFICES ASSUME NEW j \in 1..Len(savepoints')
               PROVE  SavepointFits(savepoints'[j], j, operations')
    OBVIOUS
  <2>1. CASE j = save_point + 2
    BY <1>4, <2>1
  <2>2. CASE j # save_point + 2
    <3>1. j \in 1..(save_point + 1)
      BY <1>1, <1>4, <2>2
    <3>2. SavepointFits(savepoints[j], j, operations) /\ savepoints'[j] = savepoints[j]
      BY <1>2, <1>4, <3>1
    <3>3. Len(operations') \in Nat
      BY LenProperties
    <3> QED BY <1>1, <3>1, <3>2, <3>3 DEF SavepointFits
  <2> QED BY <2>1, <2>2
<1>7. DialogueFits'
  BY <1>1, <1>4, <1>6, LenProperties DEF DialogueFits
<1>8. StageFits'
  BY DEF StageFits, SavepointFits
<1> QED BY <1>5, <1>7, <1>8 DEF ProposalsInductive

(* The answers: no, back, an input, and what fails. *)
LEMMA Refuses ==
    ASSUME ProposalsInductive, No
    PROVE  ProposalsInductive'
<1> DEFINE m == Reject(current, Offered)
<1>1. /\ stage = "ask" /\ how = "interactive" /\ stage' = "describe" /\ how' = how
      /\ current' = m /\ save_point' = save_point + 1 /\ SavePoint(m) /\ operations' = operations
  BY DEF No, ProposalsInductive, StageFits
<1>2. current \in Migration /\ Whole(current.confirmed) /\ Offers(current) # {}
  BY <1>1 DEF ProposalsInductive, ProposalsTyped, StageFits
<1>3. m \in Migration /\ m.confirmed = current.confirmed /\ m.rejected # {}
  BY <1>2, OfferedIs DEF Reject, Migration
<1> HIDE DEF m
<1>4. SavepointFits(m, save_point + 2, operations')
  BY <1>2, <1>3 DEF SavepointFits, Granted
<1>5. /\ operations' \in Seq(SUBSET Prompts) /\ Len(operations) <= Len(operations')
      /\ Len(operations') <= save_point + 2
      /\ \A j \in 1..Len(operations) : operations'[j] = operations[j]
  BY <1>1, LenProperties DEF ProposalsInductive, ProposalsTyped, DialogueFits
<1> QED BY <1>1, <1>3, <1>4, <1>5, Saves

(* Back to the savepoint n. *)
LEMMA Rolls ==
    ASSUME ProposalsInductive, how = "interactive", stage \notin {"start", "failed"},
           how' = how, stage' = "describe", NEW n \in 0..save_point, save_point' = n, Rollback(n),
           operations' \in Seq(SUBSET Prompts), operations' # <<>>,
           Len(operations') <= n + 1, n + 1 <= Len(operations) => Len(operations') = n + 1,
           Len(operations') <= Len(operations),
           Len(operations) <= n + 1 => Len(operations') = Len(operations),
           \A j \in 1..Len(operations') : operations'[j] = operations[j]
    PROVE  ProposalsInductive'
<1>1. /\ savepoints \in Seq(Migration) /\ save_point \in Nat /\ operations \in Seq(SUBSET Prompts)
      /\ Len(operations) \in Nat /\ Len(operations') \in Nat /\ n \in Nat
  BY LenProperties DEF ProposalsInductive, ProposalsTyped
<1>2. /\ Len(savepoints) = save_point + 1 /\ Len(operations) <= save_point + 1
      /\ \A j \in 1..Len(savepoints) : SavepointFits(savepoints[j], j, operations)
  BY DEF ProposalsInductive, DialogueFits
<1>3. savepoints' = SubSeq(savepoints, 1, n + 1) /\ current' = savepoints[n + 1]
  BY DEF Rollback
<1>4. /\ savepoints' \in Seq(Migration) /\ Len(savepoints') = n + 1
      /\ \A j \in 1..(n + 1) : savepoints'[j] = savepoints[j]
  BY <1>1, <1>2, <1>3, Shortened
<1>5. current' \in Migration /\ current' = savepoints'[n + 1]
  BY <1>1, <1>2, <1>3, <1>4, ElementOfSeq
<1>6. ProposalsTyped'
  BY <1>1, <1>4, <1>5 DEF ProposalsInductive, ProposalsTyped
<1>7. \A j \in 1..Len(savepoints') : SavepointFits(savepoints'[j], j, operations')
  <2> SUFFICES ASSUME NEW j \in 1..(n + 1)
               PROVE  SavepointFits(savepoints[j], j, operations')
    BY <1>1, <1>4
  <2>1. SavepointFits(savepoints[j], j, operations)
    BY <1>1, <1>2
  <2>2. j <= Len(operations) => j <= Len(operations') /\ operations'[j] = operations[j]
    BY <1>1
  <2> QED BY <2>1, <2>2 DEF SavepointFits
<1>8. DialogueFits'
  BY <1>1, <1>4, <1>5, <1>7 DEF DialogueFits
<1>9. StageFits'
  <2>1. SavepointFits(current', n + 1, operations')
    BY <1>1, <1>4, <1>5, <1>7
  <2> QED BY <2>1 DEF StageFits, SavepointFits
<1> QED BY <1>6, <1>8, <1>9 DEF ProposalsInductive

LEMMA TakesBack ==
    ASSUME ProposalsInductive, Back
    PROVE  ProposalsInductive'
<1>1. /\ save_point \in Nat /\ operations \in Seq(SUBSET Prompts)
      /\ Len(operations) \in Nat /\ Len(operations) # 0
  BY LenProperties, EmptySeq DEF ProposalsInductive, ProposalsTyped
<1>2. /\ stage = "ask" /\ how = "interactive" /\ stage' = "describe" /\ how' = how
      /\ save_point > 0 /\ save_point' = save_point - 1 /\ Rollback(save_point')
  BY DEF Back, ProposalsInductive, StageFits
<1> DEFINE n == save_point - 1
           k == Min({n + 1, Len(operations)})
<1>3. n \in 0..save_point /\ operations' = SubSeq(operations, 1, k)
  BY <1>1, <1>2 DEF Back
<1>4. k \in {n + 1, Len(operations)} /\ k <= n + 1 /\ k <= Len(operations)
  <2>1. \E x \in {n + 1, Len(operations)} : \A y \in {n + 1, Len(operations)} : x =< y
    BY <1>1
  <2>2. k \in {n + 1, Len(operations)} /\ \A y \in {n + 1, Len(operations)} : k =< y
    BY <2>1 DEF Min
  <2> QED BY <1>1, <2>2
<1> HIDE DEF k
<1>5. k \in Nat /\ k # 0
  BY <1>1, <1>2, <1>4
<1>6. /\ operations' \in Seq(SUBSET Prompts) /\ Len(operations') = k
      /\ \A j \in 1..k : operations'[j] = operations[j]
  BY <1>1, <1>3, <1>4, <1>5, Shortened
<1>7. operations' # <<>>
  BY <1>5, <1>6
<1>8. save_point' = n /\ Rollback(n)
  BY <1>2
<1> HIDE DEF n
<1> QED BY <1>1, <1>2, <1>3, <1>4, <1>5, <1>6, <1>7, <1>8, Rolls

LEMMA Inputs ==
    ASSUME ProposalsInductive, Input
    PROVE  ProposalsInductive'
<1>1. /\ stage = "input" /\ stage' = "statements" /\ how = "interactive"
      /\ UNCHANGED <<how, savepoints, save_point, operations>>
  BY DEF Input, Stage, ProposalsInductive, StageFits
<1> DEFINE prompt == At(Offered).prompt
<1>2. /\ current \in Migration /\ Whole(current.confirmed) /\ Offers(current) # {} /\ Granted(current)
  BY <1>1 DEF ProposalsInductive, ProposalsTyped, StageFits
<1>3. Offered \in All /\ prompt \in Prompts /\ Offered \in Offers(current)
  BY <1>2, OfferedIs
<1>4. current' = IF AlreadyApproved(Offered) THEN current
                 ELSE [current EXCEPT !.granted = @ \cup {prompt}]
  BY DEF Input
<1>5. /\ current' \in Migration /\ current'.confirmed = current.confirmed
      /\ current'.rejected = current.rejected /\ current.granted \subseteq current'.granted
      /\ ~AlreadyApproved(Offered) => prompt \in current'.granted
  BY <1>2, <1>3, <1>4 DEF Migration
<1>6. Offers(current') = Offers(current) /\ Offered' = Offered
  <2>1. Offers(current') = Offers(current)
    BY <1>5 DEF Offers, Open, Resolved
  <2> QED BY <2>1 DEF Offered
<1>7. ProposalsTyped'
  BY <1>1, <1>5 DEF ProposalsInductive, ProposalsTyped
<1>8. DialogueFits'
  BY <1>1, <1>5, DialogueStays
<1>9. current.rejected = {} => prompt \in current'.granted
  <2> SUFFICES ASSUME current.rejected = {}, AlreadyApproved(Offered) PROVE prompt \in current.granted
    BY <1>5
  <2>1. /\ save_point \in Nat /\ Len(operations) \in Nat /\ Len(operations) <= save_point + 1
        /\ Len(savepoints) = save_point + 1
        /\ SavepointFits(savepoints[save_point + 1], save_point + 1, operations)
        /\ savepoints[save_point + 1].rejected = {}
        /\ savepoints[save_point + 1].granted \subseteq current.granted
    BY <1>1, LenProperties DEF ProposalsInductive, ProposalsTyped, DialogueFits
  <2>2. Len(operations) = save_point + 1 /\ operations[save_point + 1] \subseteq current.granted
    BY <2>1 DEF SavepointFits
  <2> QED BY <2>2 DEF AlreadyApproved, Last
<1>10. Begun(current.confirmed, Offered)
  <2>1. \A n \in 1..At(Offered).size : <<Offered, n>> \notin current.confirmed
    <3> SUFFICES ASSUME NEW n \in 1..At(Offered).size, <<Offered, n>> \in current.confirmed PROVE FALSE
      OBVIOUS
    <3>1. \A m \in 1..At(Offered).size : <<Offered, m>> \in current.confirmed
      BY <1>2, <1>3 DEF Whole
    <3>2. Statements(Offered) \subseteq current.confirmed
      BY <3>1 DEF Statements
    <3>3. PICK i \in DOMAIN Items : \E t \in DOMAIN Items[i] : Offered = <<i, t>>
      BY <1>3 DEF All
    <3>4. Resolved(current, i)
      BY <3>2, <3>3 DEF Resolved
    <3> QED BY <1>3, <3>3, <3>4 DEF Offers, Open
  <2>2. FirstOnes(current.confirmed, Offered, 0) /\ 0 \in 0..(At(Offered).size - 1)
    BY <1>3, <2>1, SizesAreNumbers DEF FirstOnes
  <2> QED BY <1>2, <2>2 DEF Begun, Whole, WholeBut
<1> HIDE DEF prompt
<1>11. Granted(current')
  BY <1>2, <1>5 DEF Granted
<1>12. StageFits'
  <2>1. prompt' = prompt
    BY <1>6 DEF prompt, At
  <2> QED BY <1>1, <1>2, <1>5, <1>6, <1>9, <1>10, <1>11, <2>1 DEF StageFits, prompt
<1> QED BY <1>7, <1>8, <1>12 DEF ProposalsInductive

(* The first statements of a proposal are those that have been executed. *)
LEMMA ExecutedAre ==
    ASSUME NEW p \in All, NEW c, NEW k \in 0..(At(p).size - 1), FirstOnes(c, p, k)
    PROVE  Cardinality(Statements(p) \cap c) = k
<1> DEFINE S == Statements(p) \cap c
           f == [n \in 1..k |-> <<p, n>>]
<1>1. At(p).size \in Nat /\ k \in Nat /\ k < At(p).size
  BY SizesAreNumbers
<1>2. \A x : x \in S <=> \E n \in 1..k : x = <<p, n>>
  BY <1>1 DEF Statements, FirstOnes
<1>3. f \in Bijection(1..k, S)
  <2>1. \A n \in 1..k : f[n] = <<p, n>> /\ f[n] \in S
    BY <1>2
  <2>2. f \in [1..k -> S]
    BY <2>1
  <2>3. \A n, m \in 1..k : f[n] = f[m] => n = m
    BY <2>1
  <2>4. \A x \in S : \E n \in 1..k : f[n] = x
    BY <1>2, <2>1
  <2> HIDE DEF f, S
  <2> QED BY <2>2, <2>3, <2>4 DEF Bijection, Injection, Surjection, IsInjective
<1>4. IsFiniteSet(1..k) /\ Cardinality(1..k) = k
  BY <1>1, FS_Interval
<1> HIDE DEF S, f
<1>5. Cardinality(S) = Cardinality(1..k)
  BY <1>3, <1>4, FS_Bijection DEF ExistsBijection
<1> QED BY <1>4, <1>5 DEF S

(* The statements of a proposal are executed one by one; with the last it is whole. *)
LEMMA Executes ==
    ASSUME ProposalsInductive, Statement
    PROVE  ProposalsInductive'
<1>1. stage = "statements" /\ how = "interactive" /\ how' = how
  BY DEF Statement, ProposalsInductive, StageFits
<1>2. /\ current \in Migration /\ Offers(current) # {} /\ Granted(current)
      /\ Begun(current.confirmed, Offered)
      /\ current.rejected = {} => At(Offered).prompt \in current.granted
  BY <1>1 DEF ProposalsInductive, ProposalsTyped, StageFits
<1>3. Offered \in All /\ At(Offered).prompt \in Prompts /\ Offered \in Offers(current)
  BY <1>2, OfferedIs
<1> DEFINE p == Offered
           c == current.confirmed
           prompt == At(p).prompt
           d == c \cup {<<p, Executed + 1>>}
<1>4. PICK k \in 0..(At(p).size - 1) : FirstOnes(c, p, k)
  BY <1>2 DEF Begun
<1>5. Executed = k /\ At(p).size \in Nat /\ k \in Nat /\ k + 1 \in 1..At(p).size
  BY <1>3, <1>4, ExecutedAre, SizesAreNumbers DEF Executed
<1>6. current' = [current EXCEPT !.confirmed = d]
  BY DEF Statement
<1>7. /\ current'.rejected = current.rejected /\ current'.granted = current.granted
      /\ current' \in Migration /\ current'.confirmed = d /\ d = c \cup {<<p, k + 1>>}
  BY <1>2, <1>3, <1>5, <1>6 DEF Migration, Told
<1>8. Granted(current')
  BY <1>2, <1>7 DEF Granted
<1>9. FirstOnes(d, p, k + 1) /\ WholeBut(d, p)
  BY <1>2, <1>3, <1>4, <1>5, <1>7 DEF FirstOnes, WholeBut, Begun
<1>10. CASE k + 1 < At(p).size
  <2>1. stage' = stage /\ UNCHANGED <<how, save_point, savepoints, operations>>
    BY <1>5, <1>10 DEF Statement
  <2>2. Open(current') = Open(current)
    <3> SUFFICES ASSUME NEW i \in DOMAIN Items, NEW t \in DOMAIN Items[i]
                 PROVE  Statements(<<i, t>>) \subseteq d <=> Statements(<<i, t>>) \subseteq c
      BY <1>7 DEF Open, Resolved
    <3>1. <<i, t>> \in All
      BY DEF All
    <3>2. CASE <<i, t>> = p
      <4>1. <<p, At(p).size>> \in Statements(p) /\ At(p).size \in 1..At(p).size
        BY <1>5 DEF Statements
      <4>2. <<p, At(p).size>> \notin d /\ <<p, At(p).size>> \notin c
        BY <1>4, <1>5, <1>9, <1>10, <4>1 DEF FirstOnes
      <4> QED BY <3>2, <4>1, <4>2
    <3>3. CASE <<i, t>> # p
      BY <1>7, <3>3 DEF Statements
    <3> QED BY <3>2, <3>3
  <2>3. Offers(current') = Offers(current) /\ Offered' = Offered
    <3>1. Offers(current') = Offers(current)
      BY <1>7, <2>2 DEF Offers
    <3> QED BY <3>1 DEF Offered
  <2>4. ProposalsTyped'
    BY <1>7, <2>1 DEF ProposalsInductive, ProposalsTyped
  <2>5. DialogueFits'
    BY <1>1, <1>7, <2>1, DialogueStays
  <2>6. Begun(d, p)
    <3>1. k + 1 \in 0..(At(p).size - 1)
      BY <1>5, <1>10
    <3> HIDE DEF d, p
    <3> QED BY <1>9, <3>1 DEF Begun
  <2>7. StageFits'
    <3>1. At(Offered)' = At(Offered)
      BY <2>3 DEF At
    <3> HIDE DEF d, c, prompt
    <3> QED BY <1>1, <1>2, <1>7, <1>8, <2>1, <2>3, <2>6, <3>1 DEF StageFits
  <2> QED BY <2>4, <2>5, <2>7 DEF ProposalsInductive
<1>11. CASE ~(k + 1 < At(p).size)
  <2> DEFINE last == Last(operations) \cup {prompt}
  <2>1. /\ stage' = "describe" /\ operations' = Append(operations, last)
        /\ save_point' = save_point + 1 /\ SavePoint(current')
    BY <1>5, <1>11 DEF Statement
  <2>2. /\ operations \in Seq(SUBSET Prompts) /\ save_point \in Nat
        /\ Len(operations) \in Nat /\ Len(operations) # 0
        /\ Len(operations) <= save_point + 1 /\ Len(savepoints) = save_point + 1
        /\ SavepointFits(savepoints[save_point + 1], save_point + 1, operations)
        /\ current.rejected = savepoints[save_point + 1].rejected
        /\ savepoints[save_point + 1].granted \subseteq current.granted
    BY <1>1, LenProperties, EmptySeq DEF ProposalsInductive, ProposalsTyped, DialogueFits
  <2>3. last \in SUBSET Prompts
    BY <1>3, <2>2, ElementOfSeq DEF Last
  <2> HIDE DEF last
  <2>4. /\ operations' \in Seq(SUBSET Prompts) /\ Len(operations') = Len(operations) + 1
        /\ \A j \in 1..Len(operations) : operations'[j] = operations[j]
        /\ operations'[Len(operations) + 1] = last
    BY <2>1, <2>2, <2>3, AppendProperties
  <2>5. Whole(d)
    BY <1>3, <1>5, <1>9, <1>11 DEF Whole, WholeBut, FirstOnes
  <2>6. SavepointFits(current', save_point + 2, operations')
    <3>1. current.rejected = {} =>
              /\ Len(operations) = save_point + 1
              /\ Last(operations) \subseteq current.granted
      BY <2>2 DEF SavepointFits, Last
    <3>2. current.rejected = {} => operations'[save_point + 2] \subseteq current.granted
      BY <1>2, <2>2, <2>4, <3>1 DEF last
    <3> QED BY <1>7, <1>8, <2>2, <2>4, <2>5, <3>1, <3>2 DEF SavepointFits
  <2>7. Len(operations) <= Len(operations') /\ Len(operations') <= save_point + 2
    BY <2>2, <2>4
  <2>8. ~(stage \in {"start", "failed"})
    BY <1>1
  <2> HIDE DEF p, c, d, prompt
  <2> QED BY <1>1, <1>7, <2>1, <2>4, <2>6, <2>7, <2>8, Saves
<1> QED BY <1>10, <1>11

LEMMA StatementsFail ==
    ASSUME ProposalsInductive, NEW consistent \in BOOLEAN, StatementFails(consistent)
    PROVE  ProposalsInductive'
<1>1. stage = "statements" /\ how = "interactive"
  BY DEF StatementFails, ProposalsInductive, StageFits
<1>2. CASE Turn("failed")
  <2>1. UNCHANGED <<how, savepoints, save_point, operations, current>> /\ stage' = "failed"
    BY <1>2 DEF Turn, Stage
  <2> QED BY <1>1, <2>1 DEF ProposalsInductive, ProposalsTyped, DialogueFits, StageFits
<1>3. CASE stage' = "describe" /\ Rollback(save_point) /\ UNCHANGED <<how, save_point, operations>>
  <2>1. /\ save_point \in Nat /\ operations \in Seq(SUBSET Prompts) /\ operations # <<>>
        /\ Len(operations) \in Nat /\ Len(operations) <= save_point + 1
    BY <1>1, LenProperties DEF ProposalsInductive, ProposalsTyped, DialogueFits
  <2>2. save_point \in 0..save_point
    BY <2>1
  <2> QED BY <1>1, <1>3, <2>1, <2>2, Rolls
<1> QED BY <1>2, <1>3 DEF StatementFails

(* Without questions *)
LEMMA Applies ==
    ASSUME ProposalsInductive,
           ApplyProposal \/ (\E query \in BOOLEAN : ApplyFails(query))
    PROVE  ProposalsInductive'
<1>1. /\ stage = "apply" /\ how # "interactive" /\ how' = how
      /\ UNCHANGED <<savepoints, save_point, operations>>
  BY DEF ApplyProposal, ApplyFails, Turn, Stage, ProposalsInductive, StageFits
<1>2. current \in Migration /\ Offers(current) # {} /\ Whole(current.confirmed) /\ Offered \in All
  BY <1>1, OfferedIs DEF ProposalsInductive, ProposalsTyped, StageFits
<1>3. stage' \in {"describe", "failed"} /\ current' \in Migration /\ Whole(current'.confirmed)
  <2>1. CASE ApplyProposal
    <3> DEFINE c == current.confirmed \cup Statements(Offered)
    <3>1. current' = [current EXCEPT !.confirmed = c] /\ stage' = "describe"
      BY <2>1 DEF ApplyProposal, Stage
    <3>2. c \in SUBSET Told /\ Whole(c)
      BY <1>2, WholeOne DEF Migration
    <3> HIDE DEF c
    <3> QED BY <1>2, <3>1, <3>2 DEF Migration
  <2>2. CASE stage' = "describe" /\ current' = Reject(current, Offered)
    BY <1>2, <2>2 DEF Reject, Migration
  <2>3. CASE Turn("failed")
    BY <1>2, <2>3 DEF Turn, Stage
  <2> QED BY <2>1, <2>2, <2>3 DEF ApplyFails, Stage
<1> QED BY <1>1, <1>3 DEF ProposalsInductive, ProposalsTyped, DialogueFits, StageFits

(* The migration is written, or the command gives up. *)
LEMMA Ends ==
    ASSUME ProposalsInductive, NEW allow_empty \in BOOLEAN, FinishProposals(allow_empty)
    PROVE  ProposalsInductive'
<1>1. CASE Abandon
  BY <1>1, Turns DEF Abandon, FinishProposals
<1>2. CASE stage' = "done" /\ UNCHANGED <<how, current, savepoints, save_point, operations>>
  <2>1. DialogueFits'
    BY <1>2, DialogueStays DEF FinishProposals
  <2> QED BY <1>2, <2>1 DEF FinishProposals, ProposalsInductive, ProposalsTyped, StageFits
<1> QED BY <1>1, <1>2 DEF FinishProposals

(* Each step keeps the invariant. *)
LEMMA ProposalsStep == ProposalsInductive /\ [ProposalsNext]_proposals => ProposalsInductive'
<1> SUFFICES ASSUME ProposalsInductive, [ProposalsNext]_proposals PROVE ProposalsInductive'
  OBVIOUS
<1>1. CASE UNCHANGED proposals
  BY <1>1 DEF proposals, ProposalsInductive, ProposalsTyped, DialogueFits, StageFits, Offered
<1>2. CASE \E valid, upToDate \in BOOLEAN : StartProposals(valid, upToDate)
  BY <1>2, Starts
<1>3. CASE Describe
  BY <1>3, Describes
<1>4. CASE Yes \/ Split \/ Quit \/ RefuseInput
  <2>1. PICK s \in {"input", "finish", "failed", "ask"} : Turn(s)
    BY <1>4 DEF Yes, Split, Quit, RefuseInput
  <2>2. stage \in {"ask", "input"}
    BY <1>4 DEF Yes, Split, Quit, RefuseInput
  <2>3. how = "interactive" /\ Offers(current) # {}
    BY <2>2 DEF ProposalsInductive, StageFits
  <2> QED BY <2>1, <2>2, <2>3, Turns
<1>5. CASE No \/ Back
  BY <1>5, Refuses, TakesBack
<1>6. CASE Input \/ Statement \/ \E consistent \in BOOLEAN : StatementFails(consistent)
  BY <1>6, Inputs, Executes, StatementsFail
<1>7. CASE Decide
  <2>1. PICK s \in {"apply", "failed"} : Turn(s)
    BY <1>7 DEF Decide
  <2>2. stage = "decide" /\ how # "interactive" /\ Offers(current) # {}
    BY <1>7 DEF Decide, ProposalsInductive, StageFits
  <2> QED BY <2>1, <2>2, Turns
<1>8. CASE ApplyProposal \/ \E query \in BOOLEAN : ApplyFails(query)
  BY <1>8, Applies
<1>9. CASE \E allow_empty \in BOOLEAN : FinishProposals(allow_empty)
  BY <1>9, Ends
<1> QED BY <1>1, <1>2, <1>3, <1>4, <1>5, <1>6, <1>7, <1>8, <1>9 DEF ProposalsNext

(* The inductive invariant contains what is promised. *)
LEMMA ProposalsSuffice == ProposalsInductive => ProposalsInv
<1> SUFFICES ASSUME ProposalsInductive PROVE ProposalsInv
  OBVIOUS
<1>1. ASSUME stage \notin {"statements", "failed"}
      PROVE  \E whole \in SUBSET All : current.confirmed = UNION {Statements(p) : p \in whole}
  <2>1. Whole(current.confirmed) /\ current.confirmed \subseteq Told
    BY <1>1 DEF ProposalsInductive, ProposalsTyped, StageFits, Migration
  <2> DEFINE whole == {p \in All : Statements(p) \subseteq current.confirmed}
  <2>2. ASSUME NEW x \in current.confirmed
        PROVE  \E p \in whole : x \in Statements(p)
    <3>1. /\ x = <<x[1], x[2]>> /\ x[1] \in All /\ x[2] \in 1..At(x[1]).size
      BY <2>1, <2>2 DEF Told
    <3>2. \A m \in 1..At(x[1]).size : <<x[1], m>> \in current.confirmed
      BY <2>1, <2>2, <3>1 DEF Whole
    <3> QED BY <3>1, <3>2 DEF Statements
  <2>3. current.confirmed = UNION {Statements(p) : p \in whole}
    BY <2>2
  <2> QED BY <2>3
<1>2. ASSUME how = "interactive", current.rejected = {}
      PROVE  \A x \in current.confirmed : At(x[1]).prompt \in current.granted
  BY <1>2 DEF ProposalsInductive, StageFits, Granted
<1> QED BY <1>1, <1>2 DEF ProposalsInv

(* Whatever the server proposes, the user answers or takes back, and whatever *)
(* fails: the migration consists of whole proposals, and as long as no         *)
(* rejection is in force each of them was approved, under its prompt, by an    *)
(* answer that stands (process_proposal, apply_proposal).                      *)
THEOREM ProposalsHold == ProposalsSpec => []ProposalsInv
<1>1. ProposalsSpec => []ProposalsInductive
  BY ProposalsStart, ProposalsStep, PTL DEF ProposalsSpec
<1> QED BY <1>1, ProposalsSuffice, PTL

-----------------------------------------------------------------------------
(* Branches *)

Rebases == {"rebase", "rebaseOnly"}
Merges == {"merge", "mergeOnly"}
BranchOps == {"none", "create", "drop", "wipe", "switch", "rename"} \cup Merges \cup Rebases
BranchSteps ==
    {"create", "stash", "creds", "makeTemp", "rename", "dropTemp", "clone", "compare", "remove",
     "copy", "apply", "dropSource", "renameTemp", "copyMerged", "applyMerged"}
BranchCommands ==
    [op : BranchOps, todo : Seq(BranchSteps), cur : Names, to : Names, via : Names \cup {Temp},
     project : BOOLEAN, was : Seq(Bodies), new : Seq(Bodies), synced : BOOLEAN]

BranchesTyped ==
    /\ Existing \subseteq Names \cup {Temp} /\ branches \in [Existing -> Seq(Bodies)]
    /\ files \subseteq Seq(Bodies) /\ stash \in Names /\ creds \in Names /\ work \subseteq Bodies
    /\ lone \in BOOLEAN /\ astray \in BOOLEAN /\ failures \in Nat /\ cmd \in BranchCommands

\* The steps that remain, by the first of them
Creating(inside) == IF inside THEN <<"create", "stash", "creds">> ELSE <<"create", "creds">>
MakingTemp(inside) ==
    IF inside THEN <<"makeTemp", "rename", "dropTemp", "stash", "creds">>
    ELSE <<"makeTemp", "rename", "dropTemp", "creds">>
RenamingLone(inside) ==
    IF inside THEN <<"rename", "dropTemp", "stash", "creds">> ELSE <<"rename", "dropTemp", "creds">>
DroppingTemp(inside) ==
    IF inside THEN <<"dropTemp", "stash", "creds">> ELSE <<"dropTemp", "creds">>
Renaming(inside) == IF inside THEN <<"rename", "stash", "creds">> ELSE <<"rename", "creds">>
Applying(op) ==
    IF op = "rebase" THEN <<"apply", "dropSource", "renameTemp">> ELSE <<"dropSource", "renameTemp">>
CopyingFiles(op) ==
    IF op = "rebase" THEN <<"copy", "apply", "dropSource", "renameTemp">>
    ELSE <<"copy", "dropSource", "renameTemp">>
Removing(op) ==
    IF op = "rebase" THEN <<"remove", "copy", "apply", "dropSource", "renameTemp">>
    ELSE <<"remove", "copy", "dropSource", "renameTemp">>
Comparing(op) ==
    IF op = "rebase" THEN <<"compare", "remove", "copy", "apply", "dropSource", "renameTemp">>
    ELSE <<"compare", "remove", "copy", "dropSource", "renameTemp">>
Cloning(op) ==
    IF op = "rebase"
    THEN <<"clone", "compare", "remove", "copy", "apply", "dropSource", "renameTemp">>
    ELSE <<"clone", "compare", "remove", "copy", "dropSource", "renameTemp">>

\* What one step leaves of the steps
LEMMA StepsOf ==
    /\ \A p \in BOOLEAN :
          /\ Head(Creating(p)) = "create" /\ Tail(Creating(p)) = Recording(p)
          /\ Head(MakingTemp(p)) = "makeTemp" /\ Tail(MakingTemp(p)) = RenamingLone(p)
          /\ Head(RenamingLone(p)) = "rename" /\ Tail(RenamingLone(p)) = DroppingTemp(p)
          /\ Head(DroppingTemp(p)) = "dropTemp"
          /\ Head(Renaming(p)) = "rename" /\ Tail(Renaming(p)) = Recording(p)
          /\ {Creating(p), MakingTemp(p), RenamingLone(p), DroppingTemp(p), Renaming(p),
              Recording(p)} \subseteq Seq(BranchSteps) \ {<<>>}
    /\ Head(Recording(TRUE)) = "stash" /\ Tail(Recording(TRUE)) = <<"creds">>
    /\ Recording(FALSE) = <<"creds">>
    /\ Head(<<"creds">>) = "creds" /\ Tail(<<"creds">>) = <<>>
    /\ Head(<<"rename">>) = "rename" /\ Tail(<<"rename">>) = <<>>
    /\ \A op \in Rebases :
          /\ Head(Cloning(op)) = "clone" /\ Tail(Cloning(op)) = Comparing(op)
          /\ Head(Comparing(op)) = "compare" /\ Tail(Comparing(op)) = Removing(op)
          /\ Head(Removing(op)) = "remove" /\ Tail(Removing(op)) = CopyingFiles(op)
          /\ Head(CopyingFiles(op)) = "copy" /\ Tail(CopyingFiles(op)) = Applying(op)
          /\ {Cloning(op), Comparing(op), Removing(op), CopyingFiles(op), Applying(op)}
             \subseteq Seq(BranchSteps) \ {<<>>}
    /\ Head(Applying("rebase")) = "apply"
    /\ Tail(Applying("rebase")) = <<"dropSource", "renameTemp">>
    /\ Applying("rebaseOnly") = <<"dropSource", "renameTemp">>
    /\ Head(<<"dropSource", "renameTemp">>) = "dropSource"
    /\ Tail(<<"dropSource", "renameTemp">>) = <<"renameTemp">>
    /\ Head(<<"renameTemp">>) = "renameTemp" /\ Tail(<<"renameTemp">>) = <<>>
    /\ Head(<<"copyMerged", "applyMerged">>) = "copyMerged"
    /\ Tail(<<"copyMerged", "applyMerged">>) = <<"applyMerged">>
    /\ Head(<<"applyMerged">>) = "applyMerged" /\ Tail(<<"applyMerged">>) = <<>>
    /\ Head(<<"copyMerged">>) = "copyMerged" /\ Tail(<<"copyMerged">>) = <<>>
    /\ {<<"creds">>, <<"rename">>, <<"renameTemp">>, <<"dropSource", "renameTemp">>,
        <<"copyMerged", "applyMerged">>, <<"applyMerged">>, <<"copyMerged">>}
       \subseteq Seq(BranchSteps) \ {<<>>}
<1>1. ASSUME NEW p \in BOOLEAN
      PROVE  /\ Head(Creating(p)) = "create" /\ Tail(Creating(p)) = Recording(p)
             /\ Head(MakingTemp(p)) = "makeTemp" /\ Tail(MakingTemp(p)) = RenamingLone(p)
             /\ Head(RenamingLone(p)) = "rename" /\ Tail(RenamingLone(p)) = DroppingTemp(p)
             /\ Head(DroppingTemp(p)) = "dropTemp"
             /\ Head(Renaming(p)) = "rename" /\ Tail(Renaming(p)) = Recording(p)
             /\ {Creating(p), MakingTemp(p), RenamingLone(p), DroppingTemp(p), Renaming(p),
                 Recording(p)} \subseteq Seq(BranchSteps) \ {<<>>}
  <2>1. CASE p = TRUE
    <3>1. Head(Creating(p)) = "create" /\ Tail(Creating(p)) = Recording(p)
      BY <2>1 DEF Creating, Recording
    <3>2. Head(MakingTemp(p)) = "makeTemp" /\ Tail(MakingTemp(p)) = RenamingLone(p)
      BY <2>1 DEF MakingTemp, RenamingLone
    <3>3. /\ Head(RenamingLone(p)) = "rename" /\ Tail(RenamingLone(p)) = DroppingTemp(p)
          /\ Head(DroppingTemp(p)) = "dropTemp"
      BY <2>1 DEF DroppingTemp, RenamingLone
    <3>4. Head(Renaming(p)) = "rename" /\ Tail(Renaming(p)) = Recording(p)
      BY <2>1 DEF Renaming, Recording
    <3>5. {Creating(p), MakingTemp(p), RenamingLone(p), DroppingTemp(p), Renaming(p), Recording(p)}
          \subseteq Seq(BranchSteps) \ {<<>>}
      BY <2>1 DEF Creating, MakingTemp, RenamingLone, DroppingTemp, Renaming, Recording, BranchSteps
    <3> QED BY <3>1, <3>2, <3>3, <3>4, <3>5
  <2>2. CASE p = FALSE
    <3>1. Head(Creating(p)) = "create" /\ Tail(Creating(p)) = Recording(p)
      BY <2>2 DEF Creating, Recording
    <3>2. Head(MakingTemp(p)) = "makeTemp" /\ Tail(MakingTemp(p)) = RenamingLone(p)
      BY <2>2 DEF MakingTemp, RenamingLone
    <3>3. /\ Head(RenamingLone(p)) = "rename" /\ Tail(RenamingLone(p)) = DroppingTemp(p)
          /\ Head(DroppingTemp(p)) = "dropTemp"
      BY <2>2 DEF DroppingTemp, RenamingLone
    <3>4. Head(Renaming(p)) = "rename" /\ Tail(Renaming(p)) = Recording(p)
      BY <2>2 DEF Renaming, Recording
    <3>5. {Creating(p), MakingTemp(p), RenamingLone(p), DroppingTemp(p), Renaming(p), Recording(p)}
          \subseteq Seq(BranchSteps) \ {<<>>}
      BY <2>2 DEF Creating, MakingTemp, RenamingLone, DroppingTemp, Renaming, Recording, BranchSteps
    <3> QED BY <3>1, <3>2, <3>3, <3>4, <3>5
  <2> QED BY <2>1, <2>2
<1>2. /\ Head(Recording(TRUE)) = "stash" /\ Tail(Recording(TRUE)) = <<"creds">>
      /\ Recording(FALSE) = <<"creds">>
      /\ Head(<<"creds">>) = "creds" /\ Tail(<<"creds">>) = <<>>
      /\ Head(<<"rename">>) = "rename" /\ Tail(<<"rename">>) = <<>>
  BY DEF Recording
<1>3. ASSUME NEW op \in Rebases
      PROVE  /\ Head(Cloning(op)) = "clone" /\ Tail(Cloning(op)) = Comparing(op)
             /\ Head(Comparing(op)) = "compare" /\ Tail(Comparing(op)) = Removing(op)
             /\ Head(Removing(op)) = "remove" /\ Tail(Removing(op)) = CopyingFiles(op)
             /\ Head(CopyingFiles(op)) = "copy" /\ Tail(CopyingFiles(op)) = Applying(op)
             /\ {Cloning(op), Comparing(op), Removing(op), CopyingFiles(op), Applying(op)}
                \subseteq Seq(BranchSteps) \ {<<>>}
  <2>1. CASE op = "rebase"
    <3>1. Head(Cloning(op)) = "clone" /\ Tail(Cloning(op)) = Comparing(op)
      BY <2>1 DEF Cloning, Comparing
    <3>2. Head(Comparing(op)) = "compare" /\ Tail(Comparing(op)) = Removing(op)
      BY <2>1 DEF Comparing, Removing
    <3>3. Head(Removing(op)) = "remove" /\ Tail(Removing(op)) = CopyingFiles(op)
      BY <2>1 DEF Removing, CopyingFiles
    <3>4. Head(CopyingFiles(op)) = "copy" /\ Tail(CopyingFiles(op)) = Applying(op)
      BY <2>1 DEF CopyingFiles, Applying
    <3>5. {Cloning(op), Comparing(op), Removing(op), CopyingFiles(op), Applying(op)}
          \subseteq Seq(BranchSteps) \ {<<>>}
      BY <2>1 DEF Cloning, Comparing, Removing, CopyingFiles, Applying, BranchSteps
    <3> QED BY <3>1, <3>2, <3>3, <3>4, <3>5
  <2>2. CASE op = "rebaseOnly"
    <3>1. Head(Cloning(op)) = "clone" /\ Tail(Cloning(op)) = Comparing(op)
      BY <2>2 DEF Cloning, Comparing
    <3>2. Head(Comparing(op)) = "compare" /\ Tail(Comparing(op)) = Removing(op)
      BY <2>2 DEF Comparing, Removing
    <3>3. Head(Removing(op)) = "remove" /\ Tail(Removing(op)) = CopyingFiles(op)
      BY <2>2 DEF Removing, CopyingFiles
    <3>4. Head(CopyingFiles(op)) = "copy" /\ Tail(CopyingFiles(op)) = Applying(op)
      BY <2>2 DEF CopyingFiles, Applying
    <3>5. {Cloning(op), Comparing(op), Removing(op), CopyingFiles(op), Applying(op)}
          \subseteq Seq(BranchSteps) \ {<<>>}
      BY <2>2 DEF Cloning, Comparing, Removing, CopyingFiles, Applying, BranchSteps
    <3> QED BY <3>1, <3>2, <3>3, <3>4, <3>5
  <2> QED BY <2>1, <2>2 DEF Rebases
<1>4. /\ Head(Applying("rebase")) = "apply"
      /\ Tail(Applying("rebase")) = <<"dropSource", "renameTemp">>
      /\ Applying("rebaseOnly") = <<"dropSource", "renameTemp">>
  BY DEF Applying
<1>5. /\ Head(<<"dropSource", "renameTemp">>) = "dropSource"
      /\ Tail(<<"dropSource", "renameTemp">>) = <<"renameTemp">>
      /\ Head(<<"renameTemp">>) = "renameTemp" /\ Tail(<<"renameTemp">>) = <<>>
  OBVIOUS
<1>6. /\ Head(<<"copyMerged", "applyMerged">>) = "copyMerged"
      /\ Tail(<<"copyMerged", "applyMerged">>) = <<"applyMerged">>
      /\ Head(<<"applyMerged">>) = "applyMerged" /\ Tail(<<"applyMerged">>) = <<>>
      /\ Head(<<"copyMerged">>) = "copyMerged" /\ Tail(<<"copyMerged">>) = <<>>
  OBVIOUS
<1>7. {<<"creds">>, <<"rename">>, <<"renameTemp">>, <<"dropSource", "renameTemp">>,
       <<"copyMerged", "applyMerged">>, <<"applyMerged">>, <<"copyMerged">>}
      \subseteq Seq(BranchSteps) \ {<<>>}
  BY DEF BranchSteps
<1> QED BY <1>1, <1>2, <1>3, <1>4, <1>5, <1>6, <1>7

\* The ids of a history: the history itself is the longest
LEMMA AncestorsOf ==
    ASSUME NEW S, NEW h \in Seq(S)
    PROVE  /\ Ancestors(h) \subseteq Seq(S) /\ \A g \in Ancestors(h) : Len(g) \in 1..Len(h)
           /\ h # <<>> => h \in Ancestors(h)
           /\ \A g \in Ancestors(h) : Len(g) = Len(h) => g = h
<1>1. \A i \in 1..Len(h) : SubSeq(h, 1, i) \in Seq(S) /\ Len(SubSeq(h, 1, i)) = i
  OBVIOUS
<1>2. SubSeq(h, 1, Len(h)) = h
  <2>1. PICK s : s = SubSeq(h, 1, Len(h))
    OBVIOUS
  <2>2. s \in Seq(S) /\ Len(s) = Len(h) /\ \A i \in 1..Len(s) : s[i] = h[i]
    BY <2>1
  <2>3. s = h
    BY <2>2, SeqEqual
  <2> QED BY <2>1, <2>3
<1>3. h # <<>> => Len(h) \in 1..Len(h)
  OBVIOUS
<1> QED BY <1>1, <1>2, <1>3 DEF Ancestors

LEMMA SameAncestors ==
    ASSUME NEW S, NEW g \in Seq(S), NEW h \in Seq(S), Ancestors(g) = Ancestors(h)
    PROVE  g = h
<1>1. CASE g = <<>> \/ h = <<>>
  <2>1. \A f \in Seq(S) : f = <<>> <=> Ancestors(f) = {}
    BY AncestorsOf DEF Ancestors
  <2> QED BY <1>1, <2>1
<1>2. CASE g # <<>> /\ h # <<>>
  <2>1. g \in Ancestors(h) /\ h \in Ancestors(g)
    BY <1>2, AncestorsOf
  <2>2. Len(g) \in 1..Len(h) /\ Len(h) \in 1..Len(g)
    BY <2>1, AncestorsOf
  <2>3. Len(g) = Len(h)
    BY <2>2
  <2> QED BY <2>1, <2>3, AncestorsOf
<1> QED BY <1>1, <1>2

LEMMA PrefixIs ==
    ASSUME NEW S, NEW s \in Seq(S), NEW t \in Seq(S), IsPrefix(s, t)
    PROVE  Len(s) <= Len(t) /\ \A i \in 1..Len(s) : s[i] = t[i]
<1>1. Len(s) <= Len(t) /\ SubSeq(s, 1, Len(s)) = SubSeq(t, 1, Len(s))
  BY DEF IsPrefix
<1>2. \A i \in 1..Len(s) : SubSeq(s, 1, Len(s))[i] = s[i] /\ SubSeq(t, 1, Len(s))[i] = t[i]
  BY <1>1
<1> QED BY <1>1, <1>2

LEMMA PrefixFrom ==
    ASSUME NEW S, NEW s \in Seq(S), NEW t \in Seq(S), Len(s) <= Len(t),
           \A i \in 1..Len(s) : s[i] = t[i]
    PROVE  IsPrefix(s, t)
<1>1. PICK u, v : u = SubSeq(s, 1, Len(s)) /\ v = SubSeq(t, 1, Len(s))
  OBVIOUS
<1>2. u \in Seq(S) /\ v \in Seq(S) /\ Len(u) = Len(s) /\ Len(v) = Len(s)
  BY <1>1
<1>3. \A i \in 1..Len(u) : u[i] = v[i]
  BY <1>1, <1>2
<1>4. u = v
  BY <1>2, <1>3, SeqEqual
<1> QED BY <1>1, <1>4 DEF IsPrefix

\* What a longer history contains
LEMMA PrefixKeeps ==
    ASSUME NEW S, NEW s \in Seq(S), NEW t \in Seq(S), IsPrefix(s, t)
    PROVE  ToSet(s) \subseteq ToSet(t) /\ Ancestors(s) \subseteq Ancestors(t)
<1>1. Len(s) <= Len(t) /\ \A i \in 1..Len(s) : s[i] = t[i]
  BY PrefixIs
<1>2. ToSet(s) \subseteq ToSet(t)
  <2>1. DOMAIN s = 1..Len(s) /\ DOMAIN t = 1..Len(t) /\ Len(s) \in Nat /\ Len(t) \in Nat
    OBVIOUS
  <2> QED BY <1>1, <2>1 DEF ToSet
<1>3. ASSUME NEW i \in 1..Len(s) PROVE SubSeq(s, 1, i) = SubSeq(t, 1, i) /\ i \in 1..Len(t)
  <2>1. PICK u, v : u = SubSeq(s, 1, i) /\ v = SubSeq(t, 1, i)
    OBVIOUS
  <2>2. i \in 1..Len(t)
    BY <1>1
  <2>3. u \in Seq(S) /\ v \in Seq(S) /\ Len(u) = i /\ Len(v) = i
    BY <2>1, <2>2
  <2>4. \A j \in 1..Len(u) : u[j] = v[j]
    <3>1. ASSUME NEW j \in 1..Len(u) PROVE u[j] = v[j]
      <4>1. u[j] = s[j] /\ v[j] = t[j] /\ j \in 1..Len(s)
        BY <2>1, <2>2, <2>3
      <4> QED BY <1>1, <4>1
    <3> QED BY <3>1
  <2>5. u = v
    BY <2>3, <2>4, SeqEqual
  <2> QED BY <2>1, <2>2, <2>5
<1> QED BY <1>2, <1>3 DEF Ancestors

LEMMA ContainsIs == ASSUME NEW S, NEW h \in Seq(S), NEW s PROVE Contains(h, s) <=> s \in ToSet(h)
<1>1. DOMAIN h = 1..Len(h)
  OBVIOUS
<1> QED BY <1>1 DEF Contains, ToSet

LEMMA AncestorHas ==
    ASSUME NEW S, NEW h \in Seq(S), NEW f \in Ancestors(h), NEW s, Contains(f, s) PROVE Contains(h, s)
<1>1. PICK i \in 1..Len(h) : f = SubSeq(h, 1, i)
  BY DEF Ancestors
<1>2. Len(f) = i /\ \A j \in 1..i : f[j] = h[j]
  BY <1>1
<1>3. Len(h) \in Nat
  OBVIOUS
<1> QED BY <1>2, <1>3 DEF Contains

\* The common part is a prefix of both histories
LEMMA CommonFits ==
    ASSUME NEW source \in Seq(Bodies), NEW target \in Seq(Bodies)
    PROVE  /\ CommonLength(source, target) \in 0..Len(target)
           /\ CommonLength(source, target) <= Len(source)
           /\ \A i \in 1..CommonLength(source, target) : source[i] = target[i]
<1> DEFINE common == {i \in 1..Len(target) : IsPrefix(SubSeq(target, 1, i), source)}
           c == CommonLength(source, target)
<1>1. CASE common = {}
  BY <1>1 DEF CommonLength
<1>2. CASE common # {}
  <2> DEFINE Short == {Len(target) - i : i \in common}
  <2>1. Short \subseteq Nat /\ Short # {}
    BY <1>2
  <2>2. PICK n \in Short : \A m \in Short : ~(<<m, n>> \in OpToRel(<, Nat))
    <3> HIDE DEF Short
    <3> QED BY <2>1, WFMin, NatLessThanWellFounded
  <2>3. \A m \in Short : ~(m < n)
    <3> HIDE DEF Short
    <3> QED BY <2>1, <2>2 DEF OpToRel
  <2>4. PICK k \in common : n = Len(target) - k
    BY <2>2
  <2>5. \A j \in common : j <= k
    <3>1. ASSUME NEW j \in common PROVE j <= k
      <4>1. Len(target) - j \in Short
        OBVIOUS
      <4>2. ~(Len(target) - j < n)
        BY <2>3, <4>1
      <4>3. j \in Nat /\ k \in Nat /\ Len(target) \in Nat
        OBVIOUS
      <4> QED BY <2>4, <4>2, <4>3
    <3> QED BY <3>1
  <2>6. c \in common
    <3>1. c = CHOOSE i \in common : \A j \in common : j <= i
      BY <1>2 DEF CommonLength
    <3> HIDE DEF common, c
    <3> QED BY <2>5, <3>1
  <2>7. c \in 1..Len(target) /\ IsPrefix(SubSeq(target, 1, c), source)
    BY <2>6
  <2> HIDE DEF c, common
  <2>8. PICK s : s = SubSeq(target, 1, c)
    OBVIOUS
  <2>9. s \in Seq(Bodies) /\ Len(s) = c /\ \A i \in 1..c : s[i] = target[i]
    BY <2>7, <2>8
  <2>10. IsPrefix(s, source)
    BY <2>7, <2>8
  <2>11. c <= Len(source) /\ \A i \in 1..c : s[i] = source[i]
    BY <2>9, <2>10, PrefixIs
  <2> QED BY <2>7, <2>9, <2>11 DEF c
<1> QED BY <1>1, <1>2

\* A rebase keeps the target and every migration of the source (flatten, fix_migration_ids)
LEMMA RebasedFits ==
    ASSUME NEW source \in Seq(Bodies), NEW target \in Seq(Bodies)
    PROVE  /\ Rebased(source, target) \in Seq(Bodies) /\ IsPrefix(target, Rebased(source, target))
           /\ ToSet(source) \subseteq ToSet(Rebased(source, target))
           /\ ToSet(target) \subseteq ToSet(Rebased(source, target))
<1>1. PICK c : c = CommonLength(source, target)
  OBVIOUS
<1>2. /\ c \in 0..Len(target) /\ c <= Len(source) /\ \A i \in 1..c : source[i] = target[i]
  BY <1>1, CommonFits
<1>3. PICK tail : tail = SubSeq(source, c + 1, Len(source))
  OBVIOUS
<1>4. /\ tail \in Seq(Bodies) /\ Len(tail) = Len(source) - c
      /\ \A i \in 1..Len(tail) : tail[i] = source[c + i]
  BY <1>2, <1>3
<1>5. PICK new : new = target \o tail
  OBVIOUS
<1>6. /\ new \in Seq(Bodies) /\ Len(new) = Len(target) + Len(tail)
      /\ \A i \in 1..Len(target) : new[i] = target[i]
      /\ \A i \in 1..Len(tail) : new[Len(target) + i] = tail[i]
  <2>1. tail \in Seq(Bodies)
    BY <1>4
  <2> QED BY <1>5, <2>1, ConcatProperties
<1>7. IsPrefix(target, new)
  <2>1. Len(target) <= Len(new)
    BY <1>4, <1>6
  <2>2. \A i \in 1..Len(target) : target[i] = new[i]
    BY <1>6
  <2> QED BY <1>6, <2>1, <2>2, PrefixFrom
<1>8. ToSet(target) \subseteq ToSet(new)
  BY <1>6, <1>7, PrefixKeeps
<1>9. ASSUME NEW i \in 1..Len(source) PROVE source[i] \in ToSet(new)
  <2>1. DOMAIN new = 1..Len(new) /\ Len(new) \in Nat
    BY <1>6
  <2>2. CASE i <= c
    <3>1. i \in 1..Len(target) /\ i \in 1..c
      BY <1>2, <2>2
    <3>2. new[i] = source[i] /\ i \in 1..Len(new)
      BY <1>2, <1>4, <1>6, <3>1
    <3> QED BY <2>1, <3>2 DEF ToSet
  <2>3. CASE i > c
    <3>1. i - c \in 1..Len(tail) /\ c + (i - c) = i
      BY <1>2, <1>4, <2>3
    <3>2. new[Len(target) + (i - c)] = tail[i - c] /\ tail[i - c] = source[i]
      BY <1>4, <1>6, <3>1
    <3>3. Len(target) + (i - c) \in 1..Len(new)
      BY <1>4, <1>6, <3>1
    <3> QED BY <2>1, <3>2, <3>3 DEF ToSet
  <2> QED BY <1>2, <2>2, <2>3
<1>10. ToSet(source) \subseteq ToSet(new)
  <2>1. DOMAIN source = 1..Len(source)
    OBVIOUS
  <2> QED BY <1>9, <2>1 DEF ToSet
<1>11. Rebased(source, target) = new
  BY <1>1, <1>3, <1>5 DEF Rebased
<1> QED BY <1>6, <1>7, <1>8, <1>10, <1>11

(* What a running command has done, by the steps that it has left *)

\* What a rebase wrote has the history of the target and, unless the connection was to
\* another branch, every migration of the source
NewFits ==
    /\ IsPrefix(branches[cmd.to], cmd.new)
    /\ ~astray => ToSet(cmd.was) \subseteq ToSet(cmd.new)
SourceStands == {cmd.cur, cmd.via} \subseteq Existing /\ cmd.was = branches[cmd.cur]
Cloned == Temp \in Existing /\ branches[Temp] = branches[cmd.to]
Written ==
    /\ Temp \in Existing /\ NewFits /\ files = Ancestors(cmd.new)
    /\ cmd.op = "rebase" => branches[Temp] = cmd.new

RebaseFits ==
    /\ cmd.cur = stash /\ cmd.to \in Existing /\ cmd.to # cmd.cur /\ cmd.via \in Names
    /\ ~astray => cmd.via = stash
    /\ \/ cmd.todo = Cloning(cmd.op) /\ SourceStands /\ Temp \notin Existing
       \/ cmd.todo = Comparing(cmd.op) /\ SourceStands /\ Cloned
       \/ cmd.todo = Removing(cmd.op) /\ SourceStands /\ Cloned /\ NewFits
       \/ cmd.todo = CopyingFiles(cmd.op) /\ SourceStands /\ Cloned /\ NewFits
       \/ /\ cmd.todo = Applying("rebase") /\ cmd.op = "rebase"
          /\ SourceStands /\ Cloned /\ NewFits /\ files = Ancestors(cmd.new)
       \/ cmd.todo = <<"dropSource", "renameTemp">> /\ SourceStands /\ Written
       \/ cmd.todo = <<"renameTemp">> /\ cmd.cur \notin Existing /\ Written
       \/ cmd.todo = <<>> /\ cmd.cur \in Existing /\ Temp \notin Existing

SwitchFits ==
    \/ cmd.todo = Creating(cmd.project) /\ cmd.to \notin Existing
    \/ cmd.todo = Recording(cmd.project) /\ cmd.to \in Existing
    \/ cmd.todo = <<"creds">> /\ cmd.to \in Existing /\ (cmd.project => stash = cmd.to)
    \/ cmd.todo = <<>> /\ cmd.to \in Existing /\ creds = cmd.to /\ (cmd.project => stash = cmd.to)

RenameFits ==
    /\ cmd.via \in Names
    /\ \/ cmd.todo = MakingTemp(cmd.project) /\ lone /\ Existing = {cmd.via} /\ cmd.to # cmd.via
       \/ cmd.todo = RenamingLone(cmd.project) /\ lone /\ cmd.via \in Existing /\ cmd.to \notin Existing
       \/ cmd.todo = DroppingTemp(cmd.project) /\ lone
       \/ cmd.todo = Renaming(cmd.project) /\ cmd.via \in Existing /\ cmd.to \notin Existing
       \/ cmd.todo = Recording(cmd.project) /\ cmd.to \in Existing
       \/ cmd.todo = <<"creds">> /\ cmd.to \in Existing /\ (cmd.project => stash = cmd.to)
       \/ cmd.todo = <<"rename">> /\ cmd.via \in Existing /\ cmd.to \notin Existing
       \/ cmd.todo = <<>>

MergeStands ==
    /\ stash \in Existing /\ cmd.to \in Existing /\ cmd.to # stash
    /\ cmd.was = branches[stash] /\ IsPrefix(cmd.was, branches[cmd.to])
MergeFits ==
    \/ /\ cmd.todo = <<"copyMerged", "applyMerged">> /\ MergeStands
       /\ cmd.synced => files = Ancestors(cmd.was)
    \/ /\ cmd.todo = <<"applyMerged">> /\ MergeStands
       /\ cmd.synced => files = Ancestors(branches[cmd.to])
    \/ cmd.op = "mergeOnly" /\ cmd.todo = <<"copyMerged">> /\ MergeStands
    \/ cmd.todo = <<>>

AtOnce == {"none", "create", "drop", "wipe"}
CommandFits ==
    /\ cmd.op \in AtOnce => cmd.todo = <<>>
    /\ cmd.op = "switch" => SwitchFits
    /\ cmd.op = "rename" => RenameFits
    /\ cmd.op \in Merges => MergeFits
    /\ cmd.op \in Rebases => RebaseFits

\* A body that is in a branch other than the temporary one
Held(s) == \E b \in Existing \ {Temp} : Contains(branches[b], s)
Found(s) == (\E b \in Existing : Contains(branches[b], s)) \/ \E f \in files : Contains(f, s)
\* No work is in the temporary branch or in the files alone
Secured ==
    IF cmd.op \in Rebases THEN cmd.todo # <<"renameTemp">> /\ (cmd.todo = <<>> => cmd.op = "rebase")
    ELSE Temp \notin Existing
WorkFits ==
    ~astray => /\ \A s \in work : Found(s)
               /\ Secured => \A s \in work : Held(s)

OneBranch == stash = creds /\ stash \in Existing /\ Temp \notin Existing
RecordsFit ==
    failures = 0 /\ ~lone /\ ~astray =>
        /\ cmd.op \in AtOnce \cup Merges => OneBranch
        /\ cmd.op = "switch" => cmd.project /\ Temp \notin Existing
        /\ cmd.op = "rename" =>
              \/ cmd.todo = Renaming(TRUE) /\ cmd.project /\ OneBranch
              \/ cmd.todo = Recording(TRUE) /\ cmd.project /\ Temp \notin Existing
              \/ cmd.todo = <<"creds">> /\ cmd.project /\ Temp \notin Existing
              \/ cmd.todo = <<"rename">> /\ OneBranch /\ stash # cmd.via
              \/ cmd.todo = <<>> /\ OneBranch
        /\ cmd.op \in Rebases => creds = stash

BranchesInductive == BranchesTyped /\ CommandFits /\ WorkFits /\ RecordsFit

LEMMA TempIs == Temp \in Temps /\ Temp \notin Names
<1> QED BY BranchesAssumption DEF Temp

LEMMA BranchesStart == BranchesInit => BranchesInductive
<1> SUFFICES ASSUME BranchesInit PROVE BranchesInductive
  OBVIOUS
<1>1. /\ branches = [b \in {First} |-> <<>>] /\ files = {} /\ stash = First /\ creds = First
      /\ cmd = Idle /\ work = {} /\ lone = FALSE /\ astray = FALSE /\ failures = 0
  BY DEF BranchesInit
<1>2. First \in Names /\ Temp \notin {First}
  BY BranchesAssumption, TempIs
<1>3. Existing = {First} /\ branches \in [Existing -> Seq(Bodies)]
  BY <1>1 DEF Existing
<1>4. /\ cmd \in BranchCommands /\ cmd.op = "none" /\ cmd.todo = <<>>
  BY <1>1, <1>2 DEF Idle, BranchCommands, BranchOps
<1>5. BranchesTyped
  BY <1>1, <1>2, <1>3, <1>4 DEF BranchesTyped
<1>6. CommandFits
  BY <1>4 DEF CommandFits, AtOnce, Merges, Rebases
<1>7. WorkFits
  BY <1>1 DEF WorkFits
<1>8. RecordsFit
  BY <1>1, <1>2, <1>3, <1>4 DEF RecordsFit, AtOnce, Merges, Rebases, OneBranch
<1> QED BY <1>5, <1>6, <1>7, <1>8 DEF BranchesInductive

(* What the statements make of the branches *)

LEMMA WithIs ==
    ASSUME branches \in [Existing -> Seq(Bodies)], NEW b, NEW h \in Seq(Bodies), branches' = With(b, h)
    PROVE  /\ Existing' = Existing \cup {b} /\ branches' \in [Existing' -> Seq(Bodies)]
           /\ branches'[b] = h /\ \A x \in Existing \ {b} : branches'[x] = branches[x]
<1> QED BY DEF With, Existing

LEMMA WithoutIs ==
    ASSUME branches \in [Existing -> Seq(Bodies)], NEW b, branches' = Without(b)
    PROVE  /\ Existing' = Existing \ {b} /\ branches' \in [Existing' -> Seq(Bodies)]
           /\ \A x \in Existing' : branches'[x] = branches[x]
<1> QED BY DEF Without, Existing

LEMMA RenamedIs ==
    ASSUME branches \in [Existing -> Seq(Bodies)], NEW b \in Existing, NEW to, to # b,
           branches' = Renamed(b, to)
    PROVE  /\ Existing' = (Existing \ {b}) \cup {to} /\ branches' \in [Existing' -> Seq(Bodies)]
           /\ branches'[to] = branches[b] /\ \A x \in Existing' \ {to} : branches'[x] = branches[x]
<1> QED BY DEF Renamed, Existing

\* A step of a command takes it from what is left to do
LEMMA PopIs ==
    ASSUME cmd \in BranchCommands, NEW s, AtStep(s), Pop
    PROVE  /\ cmd' \in BranchCommands /\ Head(cmd.todo) = s /\ cmd.todo # <<>>
           /\ cmd'.todo = Tail(cmd.todo)
           /\ cmd'.op = cmd.op /\ cmd'.cur = cmd.cur /\ cmd'.to = cmd.to /\ cmd'.via = cmd.via
           /\ cmd'.project = cmd.project /\ cmd'.was = cmd.was /\ cmd'.new = cmd.new
           /\ cmd'.synced = cmd.synced
<1>1. cmd.todo # <<>> /\ Head(cmd.todo) = s /\ cmd.todo \in Seq(BranchSteps)
  BY DEF AtStep, BranchCommands
<1>2. PICK t : t = Tail(cmd.todo)
  OBVIOUS
<1>3. t \in Seq(BranchSteps)
  BY <1>1, <1>2
<1>4. cmd' = [cmd EXCEPT !.todo = t]
  BY <1>2 DEF Pop
<1> QED BY <1>1, <1>2, <1>3, <1>4 DEF BranchCommands

\* How a command begins
LEMMA BeginIs ==
    ASSUME BranchesTyped, NEW op \in BranchOps, NEW todo \in Seq(BranchSteps), NEW to \in Names,
           NEW via \in Names \cup {Temp}, NEW inside \in BOOLEAN, BeginCommand(op, todo, to, via, inside)
    PROVE  /\ cmd.op = "none" /\ cmd' \in BranchCommands
           /\ cmd'.op = op /\ cmd'.todo = todo /\ cmd'.to = to /\ cmd'.via = via
           /\ cmd'.cur = Current(inside) /\ cmd'.project = inside
           /\ stash \in Existing => cmd'.was = branches[stash]
           /\ cmd'.synced => stash \in Existing /\ files = Ancestors(branches[stash])
<1>1. PICK was : was = IF stash \in Existing THEN branches[stash] ELSE <<>>
  OBVIOUS
<1>2. was \in Seq(Bodies)
  BY <1>1 DEF BranchesTyped
<1>3. PICK synced : synced = (stash \in Existing /\ files = Ancestors(branches[stash]))
  OBVIOUS
<1>4. synced \in BOOLEAN
  BY <1>3
<1>5. Current(inside) \in Names
  BY DEF Current, BranchesTyped
<1>6. PICK cur : cur = Current(inside)
  OBVIOUS
<1>7. /\ cmd.op = "none"
      /\ cmd' = [op |-> op, todo |-> todo, cur |-> cur, to |-> to, via |-> via,
                 project |-> inside, was |-> was, new |-> <<>>, synced |-> synced]
  BY <1>1, <1>3, <1>6 DEF BeginCommand
<1>8. cmd' \in BranchCommands
  BY <1>2, <1>4, <1>5, <1>6, <1>7 DEF BranchCommands
<1> QED BY <1>1, <1>3, <1>6, <1>7, <1>8

(* What developers do, and the commands that are over at once *)

\* Work stays where it is while branches and files only grow
LEMMA Grows ==
    ASSUME WorkFits, astray => astray', work' \subseteq work, files \subseteq files',
           \A x \in Existing : x \in Existing' /\ branches'[x] = branches[x], Secured' => Secured
    PROVE  WorkFits'
<1> SUFFICES ASSUME ~astray' PROVE /\ \A s \in work' : Found(s)'
                                   /\ Secured' => \A s \in work' : Held(s)'
  BY DEF WorkFits
<1>1. ~astray
  OBVIOUS
<1>2. ASSUME NEW s \in work' PROVE Found(s)'
  <2>1. Found(s)
    BY <1>1, <1>2 DEF WorkFits
  <2> QED BY <2>1 DEF Found
<1>3. ASSUME Secured', NEW s \in work' PROVE Held(s)'
  <2>1. Held(s)
    BY <1>1, <1>3 DEF WorkFits
  <2> QED BY <2>1 DEF Held
<1> QED BY <1>2, <1>3

\* A command that may lose work drops it from what is to be kept
LEMMA Resets ==
    ASSUME work' \subseteq {s \in work : \E b \in Existing' : Contains(branches'[b], s)},
           cmd'.op \notin Rebases
    PROVE  WorkFits'
<1>1. \A s \in work' : \E b \in Existing' : Contains(branches'[b], s)
  OBVIOUS
<1>2. Secured' => Temp \notin Existing'
  BY DEF Secured
<1>3. \A s \in work' : Found(s)'
  BY <1>1 DEF Found
<1>4. Secured' => \A s \in work' : Held(s)'
  BY <1>1, <1>2 DEF Held
<1> QED BY <1>3, <1>4 DEF WorkFits

LEMMA StillThereIs == \A bs : StillThere(bs, {}) = {s \in work : \E b \in DOMAIN bs : Contains(bs[b], s)}
<1> QED BY DEF StillThere

\* A directory that can be read holds one history
LEMMA ChainIs ==
    ASSUME files \subseteq Seq(Bodies), Readable
    PROVE  Chain \in Seq(Bodies) /\ files = Ancestors(Chain)
<1>1. \E h \in files \cup {<<>>} : files = Ancestors(h)
  BY DEF Readable
<1>2. Chain \in files \cup {<<>>} /\ files = Ancestors(Chain)
  BY <1>1 DEF Chain
<1>3. <<>> \in Seq(Bodies)
  OBVIOUS
<1> QED BY <1>2, <1>3

LEMMA CreateMigrationKept ==
    ASSUME BranchesInductive, NEW s \in Bodies, CreateMigration(s) PROVE BranchesInductive'
<1>1. /\ cmd.op = "none" /\ Readable /\ files' = files \cup {Append(Chain, s)}
      /\ UNCHANGED <<branches, stash, creds, cmd, work, lone, astray, failures>>
  BY DEF CreateMigration, record, history
<1>2. /\ BranchesTyped /\ CommandFits /\ WorkFits /\ RecordsFit
  BY DEF BranchesInductive
<1>3. Existing' = Existing
  BY <1>1 DEF Existing
<1>4. BranchesTyped'
  <2>1. files \subseteq Seq(Bodies)
    BY <1>2 DEF BranchesTyped
  <2>2. PICK h \in Seq(Bodies) : h = Chain
    BY <1>1, <2>1, ChainIs
  <2>3. files' \subseteq Seq(Bodies)
    BY <1>1, <2>1, <2>2
  <2> QED BY <1>1, <1>2, <1>3, <2>3 DEF BranchesTyped
<1>5. CommandFits'
  BY <1>1, <1>2 DEF CommandFits, AtOnce, Merges, Rebases
<1>6. WorkFits'
  <2>1. Secured' => Secured
    BY <1>1, <1>3 DEF Secured
  <2> QED BY <1>1, <1>2, <1>3, <2>1, Grows
<1>7. RecordsFit'
  BY <1>1, <1>2, <1>3 DEF RecordsFit, AtOnce, Merges, Rebases, OneBranch
<1> QED BY <1>4, <1>5, <1>6, <1>7 DEF BranchesInductive

LEMMA MigrateKept == ASSUME BranchesInductive, Migrate PROVE BranchesInductive'
<1>1. /\ cmd.op = "none" /\ stash \in Existing
      /\ UNCHANGED <<files, stash, creds, cmd, lone, astray, failures>>
  BY DEF Migrate, record, history
<1>2. /\ BranchesTyped /\ CommandFits /\ WorkFits /\ RecordsFit
  BY DEF BranchesInductive
<1>3. PICK new \in files : /\ IsStrictPrefix(branches[stash], new)
                          /\ branches' = With(stash, new) /\ work' = work \cup ToSet(new)
  BY DEF Migrate
<1>4. PICK old : old = branches[stash]
  OBVIOUS
<1>5. new \in Seq(Bodies) /\ old \in Seq(Bodies) /\ IsPrefix(old, new)
  BY <1>1, <1>2, <1>3, <1>4 DEF BranchesTyped, IsStrictPrefix
<1>6. /\ Existing' = Existing /\ branches' \in [Existing' -> Seq(Bodies)] /\ branches'[stash] = new
      /\ \A x \in Existing \ {stash} : branches'[x] = branches[x]
  <2>1. branches \in [Existing -> Seq(Bodies)]
    BY <1>2 DEF BranchesTyped
  <2> QED BY <1>1, <1>3, <1>5, <2>1, WithIs
<1>7. BranchesTyped'
  <2>1. ToSet(new) \subseteq Bodies
    <3>1. \A i \in DOMAIN new : new[i] \in Bodies
      BY <1>5
    <3> QED BY <3>1 DEF ToSet
  <2> QED BY <1>1, <1>2, <1>3, <1>6, <2>1 DEF BranchesTyped
<1>8. CommandFits'
  BY <1>1, <1>2 DEF CommandFits, AtOnce, Merges, Rebases
<1>9. stash # Temp
  BY <1>2, TempIs DEF BranchesTyped
<1>10. \A t : (Contains(new, t) <=> t \in ToSet(new)) /\ (Contains(old, t) => Contains(new, t))
  BY <1>5, PrefixKeeps, ContainsIs
<1>11. WorkFits'
  <2> SUFFICES ASSUME ~astray' PROVE /\ \A t \in work' : Found(t)'
                                     /\ Secured' => \A t \in work' : Held(t)'
    BY DEF WorkFits
  <2>1. \A t : \A b \in Existing :
           Contains(branches[b], t) => b \in Existing' /\ Contains(branches'[b], t)
    BY <1>4, <1>6, <1>10
  <2>2. \A t : (Found(t) => Found(t)') /\ (Held(t) => Held(t)')
    BY <1>1, <2>1 DEF Found, Held
  <2>3. \A t \in ToSet(new) : Found(t)' /\ Held(t)'
    BY <1>1, <1>6, <1>9, <1>10 DEF Found, Held
  <2>4. Secured' = Secured /\ ~astray
    BY <1>1, <1>6 DEF Secured
  <2> QED BY <1>2, <1>3, <2>2, <2>3, <2>4 DEF WorkFits
<1>12. RecordsFit'
  BY <1>1, <1>2, <1>6 DEF RecordsFit, AtOnce, Merges, Rebases, OneBranch
<1> QED BY <1>7, <1>8, <1>11, <1>12 DEF BranchesInductive

LEMMA CheckoutKept == ASSUME BranchesInductive, CheckoutFiles PROVE BranchesInductive'
<1>1. /\ cmd.op = "none" /\ stash \in Existing
      /\ files' = Ancestors(branches[stash]) /\ work' = StillThere(branches, {})
      /\ UNCHANGED <<branches, stash, creds, cmd, lone, astray, failures>>
  BY DEF CheckoutFiles, record, history
<1>2. /\ BranchesTyped /\ CommandFits /\ WorkFits /\ RecordsFit
  BY DEF BranchesInductive
<1>3. Existing' = Existing
  BY <1>1 DEF Existing
<1>4. files' \subseteq Seq(Bodies)
  <2>1. PICK h \in Seq(Bodies) : h = branches[stash]
    BY <1>1, <1>2 DEF BranchesTyped
  <2> QED BY <1>1, <2>1, AncestorsOf
<1>5. work' = {s \in work : \E b \in Existing : Contains(branches[b], s)}
  BY <1>1, StillThereIs DEF Existing
<1>6. BranchesTyped'
  BY <1>1, <1>2, <1>3, <1>4, <1>5 DEF BranchesTyped
<1>7. CommandFits'
  BY <1>1, <1>2 DEF CommandFits, AtOnce, Merges, Rebases
<1>8. WorkFits'
  <2>1. cmd'.op \notin Rebases
    BY <1>1 DEF Rebases
  <2>2. work' \subseteq {s \in work : \E b \in Existing' : Contains(branches'[b], s)}
    BY <1>1, <1>3, <1>5
  <2> QED BY <2>1, <2>2, Resets
<1>9. RecordsFit'
  BY <1>1, <1>2, <1>3 DEF RecordsFit, AtOnce, Merges, Rebases, OneBranch
<1> QED BY <1>6, <1>7, <1>8, <1>9 DEF BranchesInductive

LEMMA CreateKept ==
    ASSUME BranchesInductive, NEW b \in Names, NEW from \in Existing, NEW empty \in BOOLEAN,
           Create(b, from, empty)
    PROVE  BranchesInductive'
<1>1. /\ b \notin Existing /\ BeginCommand("create", <<>>, b, from, TRUE)
      /\ branches' = With(b, IF empty THEN <<>> ELSE branches[from])
      /\ UNCHANGED <<files, stash, creds, work, lone, astray, failures>>
  BY DEF Create, record, history
<1>2. /\ BranchesTyped /\ CommandFits /\ WorkFits /\ RecordsFit
  BY DEF BranchesInductive
<1>3. PICK h : h = IF empty THEN <<>> ELSE branches[from]
  OBVIOUS
<1>4. h \in Seq(Bodies) /\ from \in Names \cup {Temp}
  BY <1>2, <1>3 DEF BranchesTyped
<1>5. /\ cmd.op = "none" /\ cmd' \in BranchCommands /\ cmd'.op = "create" /\ cmd'.todo = <<>>
  <2>1. "create" \in BranchOps /\ <<>> \in Seq(BranchSteps)
    BY DEF BranchOps
  <2> QED BY <1>1, <1>2, <1>4, <2>1, BeginIs
<1>6. /\ Existing' = Existing \cup {b} /\ branches' \in [Existing' -> Seq(Bodies)]
      /\ \A x \in Existing \ {b} : branches'[x] = branches[x]
  <2>1. branches \in [Existing -> Seq(Bodies)]
    BY <1>2 DEF BranchesTyped
  <2>2. branches' = With(b, h)
    BY <1>1, <1>3
  <2> QED BY <1>4, <2>1, <2>2, WithIs
<1>7. BranchesTyped'
  BY <1>1, <1>2, <1>5, <1>6 DEF BranchesTyped
<1>8. CommandFits'
  BY <1>5 DEF CommandFits, AtOnce, Merges, Rebases
<1>9. b # Temp
  BY TempIs
<1>10. WorkFits'
  <2>1. Secured' => Secured
    BY <1>5, <1>6, <1>9 DEF Secured, Rebases
  <2> QED BY <1>1, <1>2, <1>6, <2>1, Grows
<1>11. RecordsFit'
  BY <1>1, <1>2, <1>5, <1>6, <1>9 DEF RecordsFit, AtOnce, Merges, Rebases, OneBranch
<1> QED BY <1>7, <1>8, <1>10, <1>11 DEF BranchesInductive

LEMMA DropKept ==
    ASSUME BranchesInductive, NEW b \in Names, NEW inside \in BOOLEAN, Drop(b, inside)
    PROVE  BranchesInductive'
<1>1. /\ Current(inside) \in Existing /\ b \in Existing /\ b # Current(inside)
      /\ BeginCommand("drop", <<>>, b, Current(inside), inside)
      /\ branches' = Without(b) /\ work' = StillThere(branches', {})
      /\ astray' = (astray \/ ~inside) /\ UNCHANGED <<files, stash, creds, lone, failures>>
  BY DEF Drop, record
<1>2. /\ BranchesTyped /\ CommandFits /\ WorkFits /\ RecordsFit
  BY DEF BranchesInductive
<1>3. /\ cmd.op = "none" /\ cmd' \in BranchCommands /\ cmd'.op = "drop" /\ cmd'.todo = <<>>
  <2>1. "drop" \in BranchOps /\ <<>> \in Seq(BranchSteps)
    BY DEF BranchOps
  <2>2. PICK op, todo, via : op = "drop" /\ todo = <<>> /\ via = Current(inside)
    OBVIOUS
  <2>3. /\ BranchesTyped /\ op \in BranchOps /\ todo \in Seq(BranchSteps) /\ b \in Names
        /\ via \in Names \cup {Temp} /\ inside \in BOOLEAN /\ BeginCommand(op, todo, b, via, inside)
    BY <1>1, <1>2, <2>1, <2>2 DEF BranchesTyped
  <2>4. cmd.op = "none" /\ cmd' \in BranchCommands /\ cmd'.op = op /\ cmd'.todo = todo
    BY <2>3, BeginIs
  <2> QED BY <2>2, <2>4
<1>4. /\ Existing' = Existing \ {b} /\ branches' \in [Existing' -> Seq(Bodies)]
      /\ \A x \in Existing' : branches'[x] = branches[x]
  BY <1>1, <1>2, WithoutIs DEF BranchesTyped
<1>5. work' = {s \in work : \E x \in Existing' : Contains(branches'[x], s)}
  BY <1>1, StillThereIs DEF Existing
<1>6. BranchesTyped'
  BY <1>1, <1>2, <1>3, <1>4, <1>5 DEF BranchesTyped
<1>7. CommandFits'
  BY <1>3 DEF CommandFits, AtOnce, Merges, Rebases
<1>8. WorkFits'
  BY <1>3, <1>5, Resets DEF Rebases
<1>9. RecordsFit'
  <2>1. ~astray' => ~astray /\ inside = TRUE
    BY <1>1
  <2>2. ~astray' => b # stash
    BY <1>1, <2>1 DEF Current
  <2> QED BY <1>1, <1>2, <1>3, <1>4, <2>1, <2>2 DEF RecordsFit, AtOnce, Merges, Rebases, OneBranch
<1> QED BY <1>6, <1>7, <1>8, <1>9 DEF BranchesInductive

LEMMA WipeKept ==
    ASSUME BranchesInductive, NEW b \in Names, Wipe(b) PROVE BranchesInductive'
<1>1. /\ b \in Existing /\ BeginCommand("wipe", <<>>, b, b, TRUE)
      /\ branches' = With(b, <<>>) /\ work' = StillThere(branches', {})
      /\ UNCHANGED <<files, stash, creds, lone, astray, failures>>
  BY DEF Wipe, record, history
<1>2. /\ BranchesTyped /\ CommandFits /\ WorkFits /\ RecordsFit
  BY DEF BranchesInductive
<1>3. /\ cmd.op = "none" /\ cmd' \in BranchCommands /\ cmd'.op = "wipe" /\ cmd'.todo = <<>>
  <2>1. "wipe" \in BranchOps /\ <<>> \in Seq(BranchSteps)
    BY DEF BranchOps
  <2> QED BY <1>1, <1>2, <2>1, BeginIs
<1>4. /\ Existing' = Existing /\ branches' \in [Existing' -> Seq(Bodies)]
  <2>1. branches \in [Existing -> Seq(Bodies)] /\ <<>> \in Seq(Bodies)
    BY <1>2 DEF BranchesTyped
  <2>2. Existing' = Existing \cup {b} /\ branches' \in [Existing' -> Seq(Bodies)]
    BY <1>1, <2>1, WithIs
  <2> QED BY <1>1, <2>2
<1>5. work' = {s \in work : \E x \in Existing' : Contains(branches'[x], s)}
  BY <1>1, StillThereIs DEF Existing
<1>6. BranchesTyped'
  BY <1>1, <1>2, <1>3, <1>4, <1>5 DEF BranchesTyped
<1>7. CommandFits'
  BY <1>3 DEF CommandFits, AtOnce, Merges, Rebases
<1>8. WorkFits'
  BY <1>3, <1>5, Resets DEF Rebases
<1>9. RecordsFit'
  BY <1>1, <1>2, <1>3, <1>4 DEF RecordsFit, AtOnce, Merges, Rebases, OneBranch
<1> QED BY <1>6, <1>7, <1>8, <1>9 DEF BranchesInductive

\* Two sequences make the sequence that has the elements of one and then the other's
LEMMA JoinIs ==
    ASSUME NEW S, NEW a \in Seq(S), NEW b \in Seq(S), NEW d \in Seq(S), Len(d) = Len(a) + Len(b),
           \A i \in 1..Len(d) : d[i] = IF i <= Len(a) THEN a[i] ELSE b[i - Len(a)]
    PROVE  a \o b = d
<1>1. PICK c : c = a \o b
  OBVIOUS
<1>2. /\ c \in Seq(S) /\ Len(c) = Len(a) + Len(b)
      /\ \A i \in 1..Len(a) + Len(b) : c[i] = IF i <= Len(a) THEN a[i] ELSE b[i - Len(a)]
  BY <1>1, ConcatProperties
<1>3. c = d
  BY <1>2, SeqEqual
<1> QED BY <1>1, <1>3

\* The steps that commands are put together from
LEMMA Joined ==
    /\ <<"create">> \o <<"stash", "creds">> = <<"create", "stash", "creds">>
    /\ <<"create">> \o <<"creds">> = <<"create", "creds">>
    /\ <<"rename">> \o <<"stash", "creds">> = <<"rename", "stash", "creds">>
    /\ <<"rename">> \o <<"creds">> = <<"rename", "creds">>
    /\ <<"makeTemp", "rename", "dropTemp">> \o <<"stash", "creds">> =
       <<"makeTemp", "rename", "dropTemp", "stash", "creds">>
    /\ <<"makeTemp", "rename", "dropTemp">> \o <<"creds">> =
       <<"makeTemp", "rename", "dropTemp", "creds">>
<1>1. <<"create">> \o <<"stash", "creds">> = <<"create", "stash", "creds">>
  <2>1. PICK a, b, d : a = <<"create">> /\ b = <<"stash", "creds">> /\
                       d = <<"create", "stash", "creds">>
    OBVIOUS
  <2>2. a \in Seq(BranchSteps) /\ b \in Seq(BranchSteps) /\ d \in Seq(BranchSteps)
    BY <2>1 DEF BranchSteps
  <2>3. Len(a) = 1 /\ Len(b) = 2 /\ Len(d) = 3
    BY <2>1
  <2>4. \A i \in 1..Len(d) : d[i] = IF i <= Len(a) THEN a[i] ELSE b[i - Len(a)]
    BY <2>1, <2>3
  <2>5. Len(d) = Len(a) + Len(b)
    BY <2>3
  <2>6. a \o b = d
    BY <2>2, <2>4, <2>5, JoinIs, Zenon
  <2> QED BY <2>1, <2>6
<1>2. <<"create">> \o <<"creds">> = <<"create", "creds">>
  <2>1. PICK a, b, d : a = <<"create">> /\ b = <<"creds">> /\
                       d = <<"create", "creds">>
    OBVIOUS
  <2>2. a \in Seq(BranchSteps) /\ b \in Seq(BranchSteps) /\ d \in Seq(BranchSteps)
    BY <2>1 DEF BranchSteps
  <2>3. Len(a) = 1 /\ Len(b) = 1 /\ Len(d) = 2
    BY <2>1
  <2>4. \A i \in 1..Len(d) : d[i] = IF i <= Len(a) THEN a[i] ELSE b[i - Len(a)]
    BY <2>1, <2>3
  <2>5. Len(d) = Len(a) + Len(b)
    BY <2>3
  <2>6. a \o b = d
    BY <2>2, <2>4, <2>5, JoinIs, Zenon
  <2> QED BY <2>1, <2>6
<1>3. <<"rename">> \o <<"stash", "creds">> = <<"rename", "stash", "creds">>
  <2>1. PICK a, b, d : a = <<"rename">> /\ b = <<"stash", "creds">> /\
                       d = <<"rename", "stash", "creds">>
    OBVIOUS
  <2>2. a \in Seq(BranchSteps) /\ b \in Seq(BranchSteps) /\ d \in Seq(BranchSteps)
    BY <2>1 DEF BranchSteps
  <2>3. Len(a) = 1 /\ Len(b) = 2 /\ Len(d) = 3
    BY <2>1
  <2>4. \A i \in 1..Len(d) : d[i] = IF i <= Len(a) THEN a[i] ELSE b[i - Len(a)]
    BY <2>1, <2>3
  <2>5. Len(d) = Len(a) + Len(b)
    BY <2>3
  <2>6. a \o b = d
    BY <2>2, <2>4, <2>5, JoinIs, Zenon
  <2> QED BY <2>1, <2>6
<1>4. <<"rename">> \o <<"creds">> = <<"rename", "creds">>
  <2>1. PICK a, b, d : a = <<"rename">> /\ b = <<"creds">> /\
                       d = <<"rename", "creds">>
    OBVIOUS
  <2>2. a \in Seq(BranchSteps) /\ b \in Seq(BranchSteps) /\ d \in Seq(BranchSteps)
    BY <2>1 DEF BranchSteps
  <2>3. Len(a) = 1 /\ Len(b) = 1 /\ Len(d) = 2
    BY <2>1
  <2>4. \A i \in 1..Len(d) : d[i] = IF i <= Len(a) THEN a[i] ELSE b[i - Len(a)]
    BY <2>1, <2>3
  <2>5. Len(d) = Len(a) + Len(b)
    BY <2>3
  <2>6. a \o b = d
    BY <2>2, <2>4, <2>5, JoinIs, Zenon
  <2> QED BY <2>1, <2>6
<1>5. <<"makeTemp", "rename", "dropTemp">> \o <<"stash", "creds">> =
      <<"makeTemp", "rename", "dropTemp", "stash", "creds">>
  <2>1. PICK a, b, d : a = <<"makeTemp", "rename", "dropTemp">> /\ b = <<"stash", "creds">> /\
                       d = <<"makeTemp", "rename", "dropTemp", "stash", "creds">>
    OBVIOUS
  <2>2. a \in Seq(BranchSteps) /\ b \in Seq(BranchSteps) /\ d \in Seq(BranchSteps)
    BY <2>1 DEF BranchSteps
  <2>3. Len(a) = 3 /\ Len(b) = 2 /\ Len(d) = 5
    BY <2>1
  <2>4. \A i \in 1..Len(d) : d[i] = IF i <= Len(a) THEN a[i] ELSE b[i - Len(a)]
    BY <2>1, <2>3
  <2>5. Len(d) = Len(a) + Len(b)
    BY <2>3
  <2>6. a \o b = d
    BY <2>2, <2>4, <2>5, JoinIs, Zenon
  <2> QED BY <2>1, <2>6
<1>6. <<"makeTemp", "rename", "dropTemp">> \o <<"creds">> =
      <<"makeTemp", "rename", "dropTemp", "creds">>
  <2>1. PICK a, b, d : a = <<"makeTemp", "rename", "dropTemp">> /\ b = <<"creds">> /\
                       d = <<"makeTemp", "rename", "dropTemp", "creds">>
    OBVIOUS
  <2>2. a \in Seq(BranchSteps) /\ b \in Seq(BranchSteps) /\ d \in Seq(BranchSteps)
    BY <2>1 DEF BranchSteps
  <2>3. Len(a) = 3 /\ Len(b) = 1 /\ Len(d) = 4
    BY <2>1
  <2>4. \A i \in 1..Len(d) : d[i] = IF i <= Len(a) THEN a[i] ELSE b[i - Len(a)]
    BY <2>1, <2>3
  <2>5. Len(d) = Len(a) + Len(b)
    BY <2>3
  <2>6. a \o b = d
    BY <2>2, <2>4, <2>5, JoinIs, Zenon
  <2> QED BY <2>1, <2>6
<1> QED BY <1>1, <1>2, <1>3, <1>4, <1>5, <1>6

\* How the steps of switch and rename are put together
LEMMA SwitchStepsAre ==
    \A inside \in BOOLEAN :
        /\ <<"create">> \o Recording(inside) = Creating(inside)
        /\ <<>> \o Recording(inside) = Recording(inside)
        /\ <<"makeTemp", "rename", "dropTemp">> \o Recording(inside) = MakingTemp(inside)
        /\ <<"rename">> \o Recording(inside) = Renaming(inside)
<1>1. \A inside \in BOOLEAN : <<>> \o Recording(inside) = Recording(inside)
  <2>1. \A inside \in BOOLEAN : Recording(inside) \in Seq(BranchSteps)
    BY StepsOf
  <2> QED BY <2>1, ConcatEmptySeq
<1>2. \A inside \in BOOLEAN : inside = TRUE \/ inside = FALSE
  OBVIOUS
<1>3. \A inside \in BOOLEAN :
        /\ <<"create">> \o Recording(inside) = Creating(inside)
        /\ <<"makeTemp", "rename", "dropTemp">> \o Recording(inside) = MakingTemp(inside)
        /\ <<"rename">> \o Recording(inside) = Renaming(inside)
  BY <1>2, Joined DEF Recording, Creating, MakingTemp, Renaming
<1> QED BY <1>1, <1>3

(* How commands of several steps begin *)

LEMMA SwitchKept ==
    ASSUME BranchesInductive, NEW to \in Names, NEW inside \in BOOLEAN, Switch(to, inside)
    PROVE  BranchesInductive'
<1>1. PICK todo : todo = (IF to \in Existing THEN <<>> ELSE <<"create">>) \o Recording(inside)
  OBVIOUS
<1>2. PICK via : via = Current(inside)
  OBVIOUS
<1>3. /\ BeginCommand("switch", todo, to, via, inside) /\ astray' = (astray \/ ~inside)
      /\ UNCHANGED <<branches, files, stash, creds, work, lone, failures>>
  BY <1>1, <1>2 DEF Switch, record
<1>4. /\ BranchesTyped /\ CommandFits /\ WorkFits /\ RecordsFit
  BY DEF BranchesInductive
<1>5. todo = IF to \in Existing THEN Recording(inside) ELSE Creating(inside)
  BY <1>1, SwitchStepsAre
<1>6. /\ cmd.op = "none" /\ cmd' \in BranchCommands /\ cmd'.op = "switch" /\ cmd'.todo = todo
      /\ cmd'.to = to /\ cmd'.project = inside
  <2>1. "switch" \in BranchOps
    BY DEF BranchOps
  <2>2. todo \in Seq(BranchSteps)
    BY <1>5, StepsOf
  <2>3. via \in Names \cup {Temp}
    BY <1>2, <1>4 DEF Current, BranchesTyped
  <2> QED BY <1>3, <1>4, <2>1, <2>2, <2>3, BeginIs
<1>7. Existing' = Existing
  BY <1>3 DEF Existing
<1>8. BranchesTyped'
  BY <1>3, <1>4, <1>6, <1>7 DEF BranchesTyped
<1>9. CommandFits'
  <2>1. SwitchFits'
    BY <1>5, <1>6, <1>7 DEF SwitchFits
  <2> QED BY <1>6, <2>1 DEF CommandFits, AtOnce, Merges, Rebases
<1>10. WorkFits'
  <2>1. Secured' => Secured
    BY <1>6, <1>7 DEF Secured, Rebases
  <2> QED BY <1>3, <1>4, <1>7, <2>1, Grows
<1>11. RecordsFit'
  BY <1>3, <1>4, <1>6, <1>7 DEF RecordsFit, AtOnce, Merges, Rebases, OneBranch
<1> QED BY <1>8, <1>9, <1>10, <1>11 DEF BranchesInductive

LEMMA RenameKept ==
    ASSUME BranchesInductive, NEW b \in Names, NEW to \in Names, NEW via \in Existing,
           NEW inside \in BOOLEAN, Rename(b, to, via, inside)
    PROVE  BranchesInductive'
<1>1. PICK todo : todo = RenameSteps(b, via, inside)
  OBVIOUS
<1>2. /\ b \in Existing /\ to \notin Existing
      /\ BeginCommand("rename", todo, to, b, inside) /\ lone' = (lone \/ Existing = {b})
      /\ astray' = (astray \/ ~inside \/ (via = b /\ b # stash))
      /\ UNCHANGED <<branches, files, stash, creds, work, failures>>
  BY <1>1 DEF Rename, record
<1>3. /\ BranchesTyped /\ CommandFits /\ WorkFits /\ RecordsFit
  BY DEF BranchesInductive
<1>4. todo = IF b \in {Current(inside), via}
             THEN IF Existing = {b} THEN MakingTemp(inside) ELSE Renaming(inside)
             ELSE <<"rename">>
  BY <1>1, SwitchStepsAre DEF RenameSteps
<1>5. /\ cmd.op = "none" /\ cmd' \in BranchCommands /\ cmd'.op = "rename" /\ cmd'.todo = todo
      /\ cmd'.to = to /\ cmd'.via = b /\ cmd'.project = inside
  <2>1. "rename" \in BranchOps
    BY DEF BranchOps
  <2>2. todo \in Seq(BranchSteps)
    BY <1>4, StepsOf
  <2> QED BY <1>2, <1>3, <2>1, <2>2, BeginIs
<1>6. Existing' = Existing
  BY <1>2 DEF Existing
<1>7. BranchesTyped'
  <2>1. lone' \in BOOLEAN /\ astray' \in BOOLEAN
    BY <1>2
  <2> QED BY <1>2, <1>3, <1>5, <1>6, <2>1 DEF BranchesTyped
<1>8. CommandFits'
  <2>1. RenameFits'
    <3>1. CASE todo = MakingTemp(inside) /\ Existing = {b}
      BY <1>2, <1>5, <1>6, <3>1 DEF RenameFits
    <3>2. CASE todo \in {Renaming(inside), <<"rename">>}
      BY <1>2, <1>5, <1>6, <3>2 DEF RenameFits
    <3> QED BY <1>4, <3>1, <3>2
  <2> QED BY <1>5, <2>1 DEF CommandFits, AtOnce, Merges, Rebases
<1>9. WorkFits'
  <2>1. Secured' => Secured
    BY <1>5, <1>6 DEF Secured, Rebases
  <2> QED BY <1>2, <1>3, <1>6, <2>1, Grows
<1>10. RecordsFit'
  <2> SUFFICES ASSUME failures' = 0, ~lone', ~astray'
               PROVE  \/ todo = Renaming(TRUE) /\ inside /\ OneBranch
                      \/ todo = <<"rename">> /\ OneBranch /\ stash # b
    <3>1. OneBranch' <=> OneBranch
      BY <1>2, <1>6 DEF OneBranch
    <3> QED BY <1>2, <1>5, <1>6, <3>1 DEF RecordsFit, AtOnce, Merges, Rebases
  <2>1. failures = 0 /\ ~lone /\ ~astray /\ inside = TRUE /\ Existing # {b} /\ (via = b => b = stash)
    BY <1>2
  <2>2. OneBranch
    BY <1>3, <1>5, <2>1 DEF RecordsFit, AtOnce
  <2>3. Current(inside) = stash
    BY <2>1 DEF Current
  <2> QED BY <1>4, <2>1, <2>2, <2>3
<1> QED BY <1>7, <1>8, <1>9, <1>10 DEF BranchesInductive

LEMMA RebaseKept ==
    ASSUME BranchesInductive, NEW to \in Names, NEW via \in Existing, NEW apply \in BOOLEAN,
           Rebase(to, via, apply)
    PROVE  BranchesInductive'
<1>1. PICK op : op = IF apply THEN "rebase" ELSE "rebaseOnly"
  OBVIOUS
<1>2. op \in Rebases /\ op \in BranchOps
  BY <1>1 DEF Rebases, BranchOps
<1>3. Cloning(op) = IF apply
      THEN <<"clone", "compare", "remove", "copy", "apply", "dropSource", "renameTemp">>
      ELSE <<"clone", "compare", "remove", "copy", "dropSource", "renameTemp">>
  BY <1>1 DEF Cloning
<1>4. /\ Temps \cap Existing = {} /\ stash \in Existing /\ to \in Existing \ {stash}
      /\ BeginCommand(op, Cloning(op), to, via, TRUE) /\ astray' = (astray \/ via # stash)
      /\ UNCHANGED <<branches, files, stash, creds, work, lone, failures>>
  BY <1>1, <1>3 DEF Rebase, record
<1>5. /\ BranchesTyped /\ CommandFits /\ WorkFits /\ RecordsFit
  BY DEF BranchesInductive
<1>6. Temp \notin Existing /\ via \in Names
  BY <1>4, <1>5, TempIs DEF BranchesTyped
<1>7. /\ cmd.op = "none" /\ cmd' \in BranchCommands /\ cmd'.op = op /\ cmd'.todo = Cloning(op)
      /\ cmd'.to = to /\ cmd'.via = via /\ cmd'.cur = stash /\ cmd'.was = branches[stash]
  <2>1. Cloning(op) \in Seq(BranchSteps)
    BY <1>2, StepsOf
  <2>2. Current(TRUE) = stash
    BY DEF Current
  <2> QED BY <1>2, <1>4, <1>5, <1>6, <2>1, <2>2, BeginIs
<1>8. Existing' = Existing
  BY <1>4 DEF Existing
<1>9. BranchesTyped'
  BY <1>4, <1>5, <1>7, <1>8 DEF BranchesTyped
<1>10. CommandFits'
  <2>1. SourceStands'
    BY <1>4, <1>7, <1>8 DEF SourceStands
  <2>2. RebaseFits'
    BY <1>4, <1>6, <1>7, <1>8, <2>1 DEF RebaseFits
  <2> QED BY <1>2, <1>7, <2>2 DEF CommandFits, AtOnce, Merges, Rebases
<1>11. WorkFits'
  <2>1. Secured' => Secured
    BY <1>6, <1>7 DEF Secured, Rebases
  <2> QED BY <1>4, <1>5, <1>8, <2>1, Grows
<1>12. RecordsFit'
  BY <1>2, <1>4, <1>5, <1>7, <1>8 DEF RecordsFit, AtOnce, Merges, Rebases, OneBranch
<1> QED BY <1>9, <1>10, <1>11, <1>12 DEF BranchesInductive

LEMMA MergeKept ==
    ASSUME BranchesInductive, NEW from \in Names, NEW apply \in BOOLEAN, Merge(from, apply)
    PROVE  BranchesInductive'
<1>0. PICK op, todo : /\ op = IF apply THEN "merge" ELSE "mergeOnly"
                      /\ todo = IF apply THEN <<"copyMerged", "applyMerged">> ELSE <<"copyMerged">>
  OBVIOUS
<1>1. /\ stash \in Existing /\ from \in Existing \ {stash}
      /\ FastForward(branches[stash], branches[from])
      /\ BeginCommand(op, todo, from, stash, TRUE)
      /\ UNCHANGED <<branches, files, stash, creds, work, lone, astray, failures>>
  BY <1>0 DEF Merge, record, history
<1>2. /\ BranchesTyped /\ CommandFits /\ WorkFits /\ RecordsFit
  BY DEF BranchesInductive
<1>3. /\ cmd.op = "none" /\ cmd' \in BranchCommands /\ cmd'.op = op /\ cmd'.todo = todo
      /\ cmd'.to = from /\ cmd'.was = branches[stash]
      /\ cmd'.synced => files = Ancestors(branches[stash])
  <2>1. op \in BranchOps
    BY <1>0 DEF BranchOps, Merges
  <2>2. todo \in Seq(BranchSteps)
    BY <1>0, StepsOf
  <2>3. stash \in Names \cup {Temp}
    BY <1>2 DEF BranchesTyped
  <2> QED BY <1>1, <1>2, <2>1, <2>2, <2>3, BeginIs
<1>4. Existing' = Existing
  BY <1>1 DEF Existing
<1>5. BranchesTyped'
  BY <1>1, <1>2, <1>3, <1>4 DEF BranchesTyped
<1>6. CommandFits'
  <2>1. MergeStands'
    BY <1>1, <1>3, <1>4 DEF MergeStands, FastForward, IsStrictPrefix
  <2>2. cmd'.synced => files' = Ancestors(cmd'.was)
    BY <1>1, <1>3
  <2>3. MergeFits'
    BY <1>0, <1>3, <2>1, <2>2 DEF MergeFits
  <2> QED BY <1>0, <1>3, <2>3 DEF CommandFits, AtOnce, Merges, Rebases
<1>7. WorkFits'
  <2>1. Secured' => Secured
    BY <1>0, <1>3, <1>4 DEF Secured, Rebases
  <2> QED BY <1>1, <1>2, <1>4, <2>1, Grows
<1>8. RecordsFit'
  BY <1>0, <1>1, <1>2, <1>3, <1>4 DEF RecordsFit, AtOnce, Merges, Rebases, OneBranch
<1> QED BY <1>5, <1>6, <1>7, <1>8 DEF BranchesInductive

(* Which command is at a step, and what it found *)

LEMMA SwitchAt ==
    ASSUME BranchesTyped, SwitchFits, NEW s, AtStep(s)
    PROVE  /\ s \in {"create", "stash", "creds"}
           /\ s = "create" => cmd.todo = Creating(cmd.project) /\ cmd.to \notin Existing
           /\ s = "stash" =>
                 cmd.project = TRUE /\ cmd.todo = Recording(TRUE) /\ cmd.to \in Existing
           /\ s = "creds" =>
                 /\ cmd.todo = <<"creds">> /\ cmd.to \in Existing
                 /\ cmd.project => stash = cmd.to
<1>1. s = Head(cmd.todo) /\ cmd.todo # <<>> /\ cmd.project \in BOOLEAN
  BY DEF AtStep, BranchesTyped, BranchCommands
<1>2. CASE cmd.todo = Creating(cmd.project) /\ cmd.to \notin Existing
  BY <1>1, <1>2, StepsOf
<1>3. CASE cmd.todo = Recording(cmd.project) /\ cmd.to \in Existing
  <2>1. CASE cmd.project = TRUE
    BY <1>1, <1>3, <2>1, StepsOf
  <2>2. CASE cmd.project = FALSE
    BY <1>1, <1>3, <2>2, StepsOf
  <2> QED BY <1>1, <2>1, <2>2
<1>4. CASE cmd.todo = <<"creds">> /\ cmd.to \in Existing /\ (cmd.project => stash = cmd.to)
  BY <1>1, <1>4, StepsOf
<1> QED BY <1>1, <1>2, <1>3, <1>4 DEF SwitchFits

LEMMA RenameAt ==
    ASSUME BranchesTyped, RenameFits, NEW s, AtStep(s)
    PROVE  /\ cmd.via \in Names
           /\ s \in {"makeTemp", "rename", "dropTemp", "stash", "creds"}
           /\ s = "makeTemp" =>
                 /\ cmd.todo = MakingTemp(cmd.project)
                 /\ lone /\ Existing = {cmd.via} /\ cmd.to # cmd.via
           /\ s = "rename" =>
                 /\ cmd.via \in Existing /\ cmd.to \notin Existing
                 /\ \/ cmd.todo = RenamingLone(cmd.project) /\ lone
                    \/ cmd.todo \in {Renaming(cmd.project), <<"rename">>}
           /\ s = "dropTemp" => lone
           /\ s = "stash" =>
                 cmd.project = TRUE /\ cmd.todo = Recording(TRUE) /\ cmd.to \in Existing
           /\ s = "creds" =>
                 /\ cmd.todo = <<"creds">> /\ cmd.to \in Existing
                 /\ cmd.project => stash = cmd.to
<1>1. s = Head(cmd.todo) /\ cmd.todo # <<>> /\ cmd.project \in BOOLEAN /\ cmd.via \in Names
  BY DEF AtStep, BranchesTyped, BranchCommands, RenameFits
<1>2. CASE cmd.todo = MakingTemp(cmd.project) /\ lone /\ Existing = {cmd.via} /\ cmd.to # cmd.via
  BY <1>1, <1>2, StepsOf
<1>3. CASE cmd.todo = RenamingLone(cmd.project) /\ lone /\ cmd.via \in Existing /\ cmd.to \notin Existing
  BY <1>1, <1>3, StepsOf
<1>4. CASE cmd.todo = DroppingTemp(cmd.project) /\ lone
  BY <1>1, <1>4, StepsOf
<1>5. CASE cmd.todo \in {Renaming(cmd.project), <<"rename">>} /\ cmd.via \in Existing /\ cmd.to \notin Existing
  BY <1>1, <1>5, StepsOf
<1>6. CASE cmd.todo = Recording(cmd.project) /\ cmd.to \in Existing
  <2>1. CASE cmd.project = TRUE
    BY <1>1, <1>6, <2>1, StepsOf
  <2>2. CASE cmd.project = FALSE
    BY <1>1, <1>6, <2>2, StepsOf
  <2> QED BY <1>1, <2>1, <2>2
<1>7. CASE cmd.todo = <<"creds">> /\ cmd.to \in Existing /\ (cmd.project => stash = cmd.to)
  BY <1>1, <1>7, StepsOf
<1> QED BY <1>1, <1>2, <1>3, <1>4, <1>5, <1>6, <1>7 DEF RenameFits

LEMMA MergeAt ==
    ASSUME BranchesTyped, MergeFits, NEW s, AtStep(s)
    PROVE  /\ s \in {"copyMerged", "applyMerged"} /\ MergeStands
           /\ s = "copyMerged" =>
                 \/ /\ cmd.todo = <<"copyMerged", "applyMerged">>
                    /\ cmd.synced => files = Ancestors(cmd.was)
                 \/ cmd.op = "mergeOnly" /\ cmd.todo = <<"copyMerged">>
           /\ s = "applyMerged" =>
                 /\ cmd.todo = <<"applyMerged">>
                 /\ cmd.synced => files = Ancestors(branches[cmd.to])
<1>1. s = Head(cmd.todo) /\ cmd.todo # <<>>
  BY DEF AtStep
<1>2. CASE cmd.todo = <<"copyMerged", "applyMerged">>
  BY <1>1, <1>2, StepsOf DEF MergeFits
<1>3. CASE cmd.todo = <<"applyMerged">>
  BY <1>1, <1>3, StepsOf DEF MergeFits
<1>4. CASE cmd.todo = <<"copyMerged">>
  BY <1>1, <1>4, StepsOf DEF MergeFits
<1> QED BY <1>1, <1>2, <1>3, <1>4 DEF MergeFits

LEMMA RebaseAt ==
    ASSUME BranchesTyped, RebaseFits, cmd.op \in Rebases, NEW s, AtStep(s)
    PROVE  /\ cmd.cur = stash /\ cmd.to \in Existing /\ cmd.to # cmd.cur /\ cmd.via \in Names
           /\ ~astray => cmd.via = stash
           /\ s \in {"clone", "compare", "remove", "copy", "apply", "dropSource", "renameTemp"}
           /\ s # "renameTemp" => SourceStands
           /\ s \in {"compare", "remove", "copy", "apply"} => Cloned
           /\ s \in {"remove", "copy", "apply"} => NewFits
           /\ s \in {"dropSource", "renameTemp"} => Written
           /\ s = "clone" => cmd.todo = Cloning(cmd.op) /\ Temp \notin Existing
           /\ s = "compare" => cmd.todo = Comparing(cmd.op)
           /\ s = "remove" => cmd.todo = Removing(cmd.op)
           /\ s = "copy" => cmd.todo = CopyingFiles(cmd.op)
           /\ s = "apply" =>
                 /\ cmd.todo = Applying("rebase") /\ cmd.op = "rebase"
                 /\ files = Ancestors(cmd.new)
           /\ s = "dropSource" => cmd.todo = <<"dropSource", "renameTemp">>
           /\ s = "renameTemp" => cmd.todo = <<"renameTemp">> /\ cmd.cur \notin Existing
<1>1. s = Head(cmd.todo) /\ cmd.todo # <<>>
  BY DEF AtStep
<1>2. cmd.cur = stash /\ cmd.to \in Existing /\ cmd.to # cmd.cur /\ cmd.via \in Names
      /\ (~astray => cmd.via = stash)
  BY DEF RebaseFits
<1>3. CASE cmd.todo = Cloning(cmd.op) /\ SourceStands /\ Temp \notin Existing
  BY <1>1, <1>2, <1>3, StepsOf
<1>4. CASE cmd.todo = Comparing(cmd.op) /\ SourceStands /\ Cloned
  BY <1>1, <1>2, <1>4, StepsOf
<1>5. CASE cmd.todo = Removing(cmd.op) /\ SourceStands /\ Cloned /\ NewFits
  BY <1>1, <1>2, <1>5, StepsOf
<1>6. CASE cmd.todo = CopyingFiles(cmd.op) /\ SourceStands /\ Cloned /\ NewFits
  BY <1>1, <1>2, <1>6, StepsOf
<1>7. CASE /\ cmd.todo = Applying("rebase") /\ cmd.op = "rebase"
           /\ SourceStands /\ Cloned /\ NewFits /\ files = Ancestors(cmd.new)
  BY <1>1, <1>2, <1>7, StepsOf
<1>8. CASE cmd.todo = <<"dropSource", "renameTemp">> /\ SourceStands /\ Written
  BY <1>1, <1>2, <1>8, StepsOf
<1>9. CASE cmd.todo = <<"renameTemp">> /\ cmd.cur \notin Existing /\ Written
  BY <1>1, <1>2, <1>9, StepsOf
<1> QED BY <1>1, <1>3, <1>4, <1>5, <1>6, <1>7, <1>8, <1>9 DEF RebaseFits

LEMMA StepOf ==
    ASSUME BranchesTyped, CommandFits, NEW s, AtStep(s)
    PROVE  /\ s \in {"create"} => cmd.op = "switch" /\ SwitchFits
           /\ s \in {"stash", "creds"} =>
                 (cmd.op = "switch" /\ SwitchFits) \/ (cmd.op = "rename" /\ RenameFits)
           /\ s \in {"makeTemp", "rename", "dropTemp"} => cmd.op = "rename" /\ RenameFits
           /\ s \in {"copyMerged", "applyMerged"} => cmd.op \in Merges /\ MergeFits
           /\ s \in {"clone", "compare", "remove", "copy", "apply", "dropSource", "renameTemp"} =>
                 cmd.op \in Rebases /\ RebaseFits
<1>1. cmd.op \in BranchOps /\ cmd.todo # <<>>
  BY DEF AtStep, BranchesTyped, BranchCommands
<1>2. cmd.op \notin AtOnce
  BY <1>1 DEF CommandFits
<1>3. CASE cmd.op = "switch"
  <2>1. s \in {"create", "stash", "creds"}
    BY <1>3, SwitchAt DEF CommandFits
  <2> QED BY <1>3, <2>1 DEF CommandFits
<1>4. CASE cmd.op = "rename"
  <2>1. s \in {"makeTemp", "rename", "dropTemp", "stash", "creds"}
    BY <1>4, RenameAt DEF CommandFits
  <2> QED BY <1>4, <2>1 DEF CommandFits
<1>5. CASE cmd.op \in Merges
  <2>1. s \in {"copyMerged", "applyMerged"}
    BY <1>5, MergeAt DEF CommandFits
  <2> QED BY <1>5, <2>1 DEF CommandFits
<1>6. CASE cmd.op \in Rebases
  <2>1. s \in {"clone", "compare", "remove", "copy", "apply", "dropSource", "renameTemp"}
    BY <1>6, RebaseAt DEF CommandFits
  <2> QED BY <1>6, <2>1 DEF CommandFits
<1> QED BY <1>1, <1>2, <1>3, <1>4, <1>5, <1>6 DEF BranchOps, AtOnce

(* Steps of switch and rename *)

LEMMA CreateOnSwitchKept == ASSUME BranchesInductive, CreateOnSwitch PROVE BranchesInductive'
<1>1. /\ AtStep("create") /\ Pop /\ UNCHANGED <<files, stash, creds, work, lone, astray, failures>>
      /\ \E h \in {<<>>} \cup {branches[b] : b \in Existing} : branches' = With(cmd.to, h)
  BY DEF CreateOnSwitch, SameHistory, record, history
<1>2. /\ BranchesTyped /\ CommandFits /\ WorkFits /\ RecordsFit /\ cmd \in BranchCommands
  BY DEF BranchesInductive, BranchesTyped
<1>3. cmd.op = "switch" /\ cmd.todo = Creating(cmd.project) /\ cmd.to \notin Existing
  <2>1. cmd.op = "switch" /\ SwitchFits
    BY <1>1, <1>2, StepOf
  <2> QED BY <1>1, <1>2, <2>1, SwitchAt
<1>4. /\ cmd' \in BranchCommands /\ cmd'.op = "switch" /\ cmd'.todo = Recording(cmd'.project)
      /\ cmd'.to = cmd.to /\ cmd'.project = cmd.project /\ cmd'.project \in BOOLEAN
  <2>1. cmd.project \in BOOLEAN
    BY <1>2 DEF BranchCommands
  <2> QED BY <1>1, <1>2, <1>3, <2>1, PopIs, StepsOf
<1>5. PICK h \in {<<>>} \cup {branches[b] : b \in Existing} : branches' = With(cmd.to, h)
  BY <1>1
<1>6. cmd.to \in Names /\ cmd.to # Temp
  BY <1>2, TempIs DEF BranchCommands
<1>7. /\ Existing' = Existing \cup {cmd.to} /\ branches' \in [Existing' -> Seq(Bodies)]
      /\ \A x \in Existing \ {cmd.to} : branches'[x] = branches[x]
  <2>1. branches \in [Existing -> Seq(Bodies)] /\ <<>> \in Seq(Bodies)
    BY <1>2 DEF BranchesTyped
  <2>2. h \in Seq(Bodies)
    BY <1>5, <2>1
  <2> QED BY <1>5, <2>1, <2>2, WithIs
<1>8. BranchesTyped'
  BY <1>1, <1>2, <1>4, <1>6, <1>7 DEF BranchesTyped
<1>9. CommandFits'
  <2>1. SwitchFits'
    BY <1>4, <1>7 DEF SwitchFits
  <2> QED BY <1>4, <2>1 DEF CommandFits, AtOnce, Merges, Rebases
<1>10. WorkFits'
  <2>1. Secured' => Secured
    BY <1>3, <1>4, <1>6, <1>7 DEF Secured, Rebases
  <2> QED BY <1>1, <1>2, <1>3, <1>7, <2>1, Grows
<1>11. RecordsFit'
  BY <1>1, <1>2, <1>3, <1>4, <1>6, <1>7 DEF RecordsFit, AtOnce, Merges, Rebases
<1> QED BY <1>8, <1>9, <1>10, <1>11 DEF BranchesInductive

LEMMA WriteStashKept == ASSUME BranchesInductive, WriteStash PROVE BranchesInductive'
<1>1. /\ AtStep("stash") /\ Pop /\ stash' = cmd.to
      /\ UNCHANGED <<branches, files, creds, work, lone, astray, failures>>
  BY DEF WriteStash, SameHistory, history
<1>2. /\ BranchesTyped /\ CommandFits /\ WorkFits /\ RecordsFit /\ cmd \in BranchCommands
  BY DEF BranchesInductive, BranchesTyped
<1>3. /\ cmd.project = TRUE /\ cmd.todo = Recording(TRUE) /\ cmd.to \in Existing
      /\ \/ cmd.op = "switch"
         \/ cmd.op = "rename" /\ cmd.via \in Names
  <2>1. CASE cmd.op = "switch" /\ SwitchFits
    BY <1>1, <1>2, <2>1, SwitchAt
  <2>2. CASE cmd.op = "rename" /\ RenameFits
    BY <1>1, <1>2, <2>2, RenameAt
  <2> QED BY <1>1, <1>2, <2>1, <2>2, StepOf
<1>4. /\ cmd' \in BranchCommands /\ cmd'.op = cmd.op /\ cmd'.todo = <<"creds">>
      /\ cmd'.to = cmd.to /\ cmd'.via = cmd.via /\ cmd'.project = TRUE
  <2>1. /\ cmd' \in BranchCommands /\ cmd'.op = cmd.op /\ cmd'.todo = Tail(cmd.todo)
        /\ cmd'.to = cmd.to /\ cmd'.via = cmd.via /\ cmd'.project = cmd.project
    BY <1>1, <1>2, PopIs
  <2>2. Tail(Recording(TRUE)) = <<"creds">>
    BY StepsOf
  <2> QED BY <1>3, <2>1, <2>2
<1>5. Existing' = Existing
  BY <1>1 DEF Existing
<1>6. BranchesTyped'
  <2>1. cmd.to \in Names
    BY <1>2 DEF BranchCommands
  <2> QED BY <1>1, <1>2, <1>4, <1>5, <2>1 DEF BranchesTyped
<1>7. CommandFits'
  <2>1. cmd.op = "switch" => SwitchFits'
    BY <1>1, <1>3, <1>4, <1>5 DEF SwitchFits
  <2>2. cmd.op = "rename" => RenameFits'
    BY <1>1, <1>3, <1>4, <1>5 DEF RenameFits
  <2> QED BY <1>3, <1>4, <2>1, <2>2 DEF CommandFits, AtOnce, Merges, Rebases
<1>8. WorkFits'
  <2>1. Secured' => Secured
    BY <1>3, <1>4, <1>5 DEF Secured, Rebases
  <2> QED BY <1>1, <1>2, <1>5, <2>1, Grows
<1>9. RecordsFit'
  <2> SUFFICES ASSUME failures' = 0, ~lone', ~astray' PROVE Temp \notin Existing
    BY <1>1, <1>3, <1>4, <1>5 DEF RecordsFit, AtOnce, Merges, Rebases
  <2>1. failures = 0 /\ ~lone /\ ~astray
    BY <1>1
  <2> QED BY <1>2, <1>3, <2>1 DEF RecordsFit, OneBranch
<1> QED BY <1>6, <1>7, <1>8, <1>9 DEF BranchesInductive

LEMMA WriteCredentialsKept == ASSUME BranchesInductive, WriteCredentials PROVE BranchesInductive'
<1>1. /\ AtStep("creds") /\ Pop /\ creds' = cmd.to
      /\ UNCHANGED <<branches, files, stash, work, lone, astray, failures>>
  BY DEF WriteCredentials, SameHistory, history
<1>2. /\ BranchesTyped /\ CommandFits /\ WorkFits /\ RecordsFit /\ cmd \in BranchCommands
  BY DEF BranchesInductive, BranchesTyped
<1>3. /\ cmd.todo = <<"creds">> /\ cmd.to \in Existing /\ (cmd.project => stash = cmd.to)
      /\ \/ cmd.op = "switch"
         \/ cmd.op = "rename" /\ cmd.via \in Names
  <2>1. CASE cmd.op = "switch" /\ SwitchFits
    BY <1>1, <1>2, <2>1, SwitchAt
  <2>2. CASE cmd.op = "rename" /\ RenameFits
    BY <1>1, <1>2, <2>2, RenameAt
  <2> QED BY <1>1, <1>2, <2>1, <2>2, StepOf
<1>4. /\ cmd' \in BranchCommands /\ cmd'.op = cmd.op /\ cmd'.todo = <<>>
      /\ cmd'.to = cmd.to /\ cmd'.via = cmd.via /\ cmd'.project = cmd.project
  BY <1>1, <1>2, <1>3, PopIs, StepsOf
<1>5. Existing' = Existing
  BY <1>1 DEF Existing
<1>6. BranchesTyped'
  <2>1. cmd.to \in Names
    BY <1>2 DEF BranchCommands
  <2> QED BY <1>1, <1>2, <1>4, <1>5, <2>1 DEF BranchesTyped
<1>7. CommandFits'
  <2>1. cmd.op = "switch" => SwitchFits'
    BY <1>1, <1>3, <1>4, <1>5 DEF SwitchFits
  <2>2. cmd.op = "rename" => RenameFits'
    BY <1>1, <1>3, <1>4, <1>5 DEF RenameFits
  <2> QED BY <1>3, <1>4, <2>1, <2>2 DEF CommandFits, AtOnce, Merges, Rebases
<1>8. WorkFits'
  <2>1. Secured' => Secured
    BY <1>3, <1>4, <1>5 DEF Secured, Rebases
  <2> QED BY <1>1, <1>2, <1>5, <2>1, Grows
<1>9. RecordsFit'
  <2> SUFFICES ASSUME failures' = 0, ~lone', ~astray' PROVE cmd.project /\ Temp \notin Existing
    BY <1>1, <1>3, <1>4, <1>5 DEF RecordsFit, AtOnce, Merges, Rebases, OneBranch
  <2>1. failures = 0 /\ ~lone /\ ~astray
    BY <1>1
  <2>2. cmd.todo \notin {Renaming(TRUE), Recording(TRUE), <<"rename">>, <<>>}
    BY <1>3, StepsOf
  <2> QED BY <1>2, <1>3, <2>1, <2>2 DEF RecordsFit
<1> QED BY <1>6, <1>7, <1>8, <1>9 DEF BranchesInductive

LEMMA MakeTempKept == ASSUME BranchesInductive, MakeTemp PROVE BranchesInductive'
<1>1. /\ AtStep("makeTemp") /\ Pop /\ branches' = With(Temp, <<>>)
      /\ UNCHANGED <<files, stash, creds, work, lone, astray, failures>>
  BY DEF MakeTemp, SameHistory, record, history
<1>2. /\ BranchesTyped /\ CommandFits /\ WorkFits /\ RecordsFit /\ cmd \in BranchCommands
  BY DEF BranchesInductive, BranchesTyped
<1>3. /\ cmd.op = "rename" /\ cmd.via \in Names /\ cmd.todo = MakingTemp(cmd.project)
      /\ lone /\ Existing = {cmd.via} /\ cmd.to # cmd.via
  <2>1. cmd.op = "rename" /\ RenameFits
    BY <1>1, <1>2, StepOf
  <2> QED BY <1>1, <1>2, <2>1, RenameAt
<1>4. /\ cmd' \in BranchCommands /\ cmd'.op = "rename" /\ cmd'.todo = RenamingLone(cmd'.project)
      /\ cmd'.to = cmd.to /\ cmd'.via = cmd.via
  <2>1. cmd.project \in BOOLEAN
    BY <1>2 DEF BranchCommands
  <2> QED BY <1>1, <1>2, <1>3, <2>1, PopIs, StepsOf
<1>5. /\ Existing' = {cmd.via, Temp} /\ branches' \in [Existing' -> Seq(Bodies)]
      /\ \A x \in Existing \ {Temp} : branches'[x] = branches[x]
  <2>1. branches \in [Existing -> Seq(Bodies)] /\ <<>> \in Seq(Bodies)
    BY <1>2 DEF BranchesTyped
  <2>2. /\ Existing' = Existing \cup {Temp} /\ branches' \in [Existing' -> Seq(Bodies)]
        /\ \A x \in Existing \ {Temp} : branches'[x] = branches[x]
    BY <1>1, <2>1, WithIs
  <2> QED BY <1>3, <2>2
<1>6. cmd.to # Temp /\ cmd.via # Temp
  BY <1>2, <1>3, TempIs DEF BranchCommands
<1>7. BranchesTyped'
  BY <1>1, <1>2, <1>3, <1>4, <1>5 DEF BranchesTyped
<1>8. CommandFits'
  <2>1. RenameFits'
    BY <1>1, <1>3, <1>4, <1>5, <1>6 DEF RenameFits
  <2> QED BY <1>4, <2>1 DEF CommandFits, AtOnce, Merges, Rebases
<1>9. WorkFits'
  <2>1. Secured' => Secured
    BY <1>4, <1>5 DEF Secured, Rebases
  <2> QED BY <1>1, <1>2, <1>3, <1>5, <1>6, <2>1, Grows
<1>10. RecordsFit'
  BY <1>1, <1>3 DEF RecordsFit
<1> QED BY <1>7, <1>8, <1>9, <1>10 DEF BranchesInductive

\* A renamed branch holds what it held
LEMMA RenamedHolds ==
    ASSUME BranchesTyped, WorkFits, NEW b \in Existing, NEW to, to \notin Existing,
           to # Temp, b # Temp,
           cmd.op \notin Rebases, cmd'.op = cmd.op,
           branches' = Renamed(b, to), UNCHANGED <<files, work, astray>>
    PROVE  WorkFits'
<1>1. to # b /\ branches \in [Existing -> Seq(Bodies)]
  BY DEF BranchesTyped
<1>2. /\ Existing' = (Existing \ {b}) \cup {to} /\ branches'[to] = branches[b]
      /\ \A x \in Existing' \ {to} : branches'[x] = branches[x]
  BY <1>1, RenamedIs
<1>3. \A s : Found(s) => Found(s)'
  <2>1. ASSUME NEW s, NEW x \in Existing, Contains(branches[x], s) PROVE Found(s)'
    <3>1. CASE x = b
      BY <1>2, <2>1, <3>1 DEF Found
    <3>2. CASE x # b
      <4>1. x \in Existing' /\ branches'[x] = branches[x]
        BY <1>2, <3>2
      <4> QED BY <2>1, <4>1 DEF Found
    <3> QED BY <3>1, <3>2
  <2> QED BY <2>1 DEF Found
<1>4. \A s : Held(s) => Held(s)'
  <2>1. ASSUME NEW s, NEW x \in Existing \ {Temp}, Contains(branches[x], s) PROVE Held(s)'
    <3>1. CASE x = b
      BY <1>1, <1>2, <2>1, <3>1 DEF Held
    <3>2. CASE x # b
      <4>1. x \in Existing' /\ branches'[x] = branches[x]
        BY <1>2, <3>2
      <4> QED BY <2>1, <4>1 DEF Held
    <3> QED BY <3>1, <3>2
  <2> QED BY <2>1 DEF Held
<1>5. Secured' => Secured
  BY <1>1, <1>2 DEF Secured
<1> QED BY <1>3, <1>4, <1>5 DEF WorkFits

LEMMA RenameBranchKept == ASSUME BranchesInductive, RenameBranch PROVE BranchesInductive'
<1>1. /\ AtStep("rename") /\ Pop /\ branches' = Renamed(cmd.via, cmd.to)
      /\ UNCHANGED <<files, stash, creds, work, lone, astray, failures>>
  BY DEF RenameBranch, SameHistory, record, history
<1>2. /\ BranchesTyped /\ CommandFits /\ WorkFits /\ RecordsFit /\ cmd \in BranchCommands
  BY DEF BranchesInductive, BranchesTyped
<1>3. /\ cmd.op = "rename" /\ cmd.via \in Names /\ cmd.via \in Existing /\ cmd.to \notin Existing
      /\ \/ cmd.todo = RenamingLone(cmd.project) /\ lone
         \/ cmd.todo = Renaming(cmd.project)
         \/ cmd.todo = <<"rename">>
  <2>1. cmd.op = "rename" /\ RenameFits
    BY <1>1, <1>2, StepOf
  <2> QED BY <1>1, <1>2, <2>1, RenameAt
<1>4. cmd.project \in BOOLEAN /\ cmd.to \in Names /\ cmd.to # Temp /\ cmd.via # Temp
  BY <1>2, <1>3, TempIs DEF BranchCommands
<1>5. /\ cmd' \in BranchCommands /\ cmd'.op = "rename" /\ cmd'.todo = Tail(cmd.todo)
      /\ cmd'.to = cmd.to /\ cmd'.via = cmd.via /\ cmd'.project = cmd.project
  BY <1>1, <1>2, <1>3, PopIs
<1>6. /\ cmd.todo = RenamingLone(cmd.project) => cmd'.todo = DroppingTemp(cmd.project)
      /\ cmd.todo = Renaming(cmd.project) => cmd'.todo = Recording(cmd.project)
      /\ cmd.todo = <<"rename">> => cmd'.todo = <<>>
  BY <1>4, <1>5, StepsOf
<1>7. /\ Existing' = (Existing \ {cmd.via}) \cup {cmd.to} /\ branches' \in [Existing' -> Seq(Bodies)]
  <2>1. branches \in [Existing -> Seq(Bodies)] /\ cmd.to # cmd.via
    BY <1>2, <1>3 DEF BranchesTyped
  <2> QED BY <1>1, <1>3, <2>1, RenamedIs
<1>8. BranchesTyped'
  BY <1>1, <1>2, <1>4, <1>5, <1>7 DEF BranchesTyped
<1>9. CommandFits'
  <2>1. RenameFits'
    BY <1>1, <1>3, <1>5, <1>6, <1>7 DEF RenameFits
  <2> QED BY <1>5, <2>1 DEF CommandFits, AtOnce, Merges, Rebases
<1>10. WorkFits'
  <2>1. cmd.op \notin Rebases
    BY <1>3 DEF Rebases
  <2>2. PICK b, to : b = cmd.via /\ to = cmd.to
    OBVIOUS
  <2>3. b \in Existing /\ to \notin Existing /\ b # Temp /\ to # Temp /\ branches' = Renamed(b, to)
    BY <1>1, <1>3, <1>4, <2>2
  <2>4. cmd'.op = cmd.op /\ UNCHANGED <<files, work, astray>>
    BY <1>1, <1>3, <1>5
  <2> QED BY <1>2, <2>1, <2>3, <2>4, RenamedHolds
<1>11. RecordsFit'
  <2> SUFFICES ASSUME failures' = 0, ~lone', ~astray'
               PROVE  \/ cmd'.todo = Recording(TRUE) /\ cmd'.project /\ Temp \notin Existing'
                      \/ cmd'.todo = <<>> /\ OneBranch'
    BY <1>5 DEF RecordsFit, AtOnce, Merges, Rebases
  <2>1. failures = 0 /\ ~lone /\ ~astray
    BY <1>1
  <2>2. \/ cmd.todo = Renaming(TRUE) /\ cmd.project /\ OneBranch
        \/ cmd.todo = Recording(TRUE) /\ cmd.project /\ Temp \notin Existing
        \/ cmd.todo = <<"creds">> /\ cmd.project /\ Temp \notin Existing
        \/ cmd.todo = <<"rename">> /\ OneBranch /\ stash # cmd.via
        \/ cmd.todo = <<>> /\ OneBranch
    BY <1>2, <1>3, <2>1 DEF RecordsFit
  <2>3. Head(cmd.todo) = "rename" /\ cmd.todo # <<>>
    BY <1>1 DEF AtStep
  <2>4. \/ cmd.todo = Renaming(TRUE) /\ cmd.project /\ OneBranch
        \/ cmd.todo = <<"rename">> /\ OneBranch /\ stash # cmd.via
    BY <2>2, <2>3, StepsOf
  <2>5. CASE cmd.todo = Renaming(TRUE) /\ cmd.project /\ OneBranch
    <3>1. cmd.project = TRUE
      BY <1>4, <2>5
    <3> QED BY <1>4, <1>5, <1>6, <1>7, <2>5, <3>1 DEF OneBranch
  <2>6. CASE cmd.todo = <<"rename">> /\ OneBranch /\ stash # cmd.via
    BY <1>1, <1>4, <1>6, <1>7, <2>6 DEF OneBranch
  <2> QED BY <2>4, <2>5, <2>6
<1> QED BY <1>8, <1>9, <1>10, <1>11 DEF BranchesInductive

(* Steps of rebase *)

\* While work is held by branches other than the temporary one, a step may change that one
\* and the files
LEMMA TempMoves ==
    ASSUME WorkFits, Secured, work' \subseteq work, astray => astray',
           \A x \in Existing \ {Temp} : x \in Existing' /\ branches'[x] = branches[x]
    PROVE  WorkFits'
<1> SUFFICES ASSUME ~astray' PROVE \A s \in work' : Found(s)' /\ Held(s)'
  BY DEF WorkFits
<1>1. \A s \in work' : Held(s)
  BY DEF WorkFits
<1>2. \A s \in work' : Held(s)'
  BY <1>1 DEF Held
<1>3. \A s : Held(s)' => Found(s)'
  BY DEF Held, Found
<1> QED BY <1>2, <1>3

LEMMA CloneKept == ASSUME BranchesInductive, Clone PROVE BranchesInductive'
<1>1. /\ AtStep("clone") /\ Pop /\ branches' = With(Temp, branches[cmd.to])
      /\ UNCHANGED <<files, stash, creds, work, lone, astray, failures>>
  BY DEF Clone, SameHistory, record, history
<1>2. /\ BranchesTyped /\ CommandFits /\ WorkFits /\ RecordsFit /\ cmd \in BranchCommands
  BY DEF BranchesInductive, BranchesTyped
<1>3. cmd.op \in Rebases /\ RebaseFits
  BY <1>1, <1>2, StepOf
<1>4. /\ cmd.cur = stash /\ cmd.to \in Existing /\ cmd.to # cmd.cur /\ cmd.via \in Names
      /\ ~astray => cmd.via = stash
      /\ cmd.todo = Cloning(cmd.op) /\ SourceStands /\ Temp \notin Existing
  BY <1>1, <1>2, <1>3, RebaseAt
<1>5. /\ cmd' \in BranchCommands /\ cmd'.todo = Tail(cmd.todo) /\ cmd'.op = cmd.op
      /\ cmd'.cur = cmd.cur /\ cmd'.to = cmd.to /\ cmd'.via = cmd.via
      /\ cmd'.was = cmd.was /\ cmd'.new = cmd.new
  BY <1>1, <1>2, PopIs
<1>6. cmd'.todo = Comparing(cmd'.op) /\ cmd'.todo \notin {<<"renameTemp">>, <<>>}
  <2>1. cmd'.todo = Comparing(cmd'.op)
    BY <1>3, <1>4, <1>5, StepsOf
  <2>2. PICK todo : todo = Comparing(cmd.op)
    OBVIOUS
  <2>3. Head(todo) = "compare" /\ todo # <<>>
    BY <1>3, <2>2, StepsOf
  <2>4. todo # <<"renameTemp">>
    BY <2>3, StepsOf
  <2> QED BY <1>5, <2>1, <2>2, <2>3, <2>4
<1>7. /\ Existing' = Existing \cup {Temp} /\ branches' \in [Existing' -> Seq(Bodies)]
      /\ branches'[Temp] = branches[cmd.to] /\ \A x \in Existing : branches'[x] = branches[x]
  <2>1. PICK h : h = branches[cmd.to]
    OBVIOUS
  <2>2. branches \in [Existing -> Seq(Bodies)] /\ h \in Seq(Bodies) /\ branches' = With(Temp, h)
    BY <1>1, <1>2, <1>4, <2>1 DEF BranchesTyped
  <2>3. /\ Existing' = Existing \cup {Temp} /\ branches' \in [Existing' -> Seq(Bodies)]
        /\ branches'[Temp] = h /\ \A x \in Existing \ {Temp} : branches'[x] = branches[x]
    BY <2>2, WithIs
  <2> QED BY <1>4, <2>1, <2>3
<1>8. BranchesTyped'
  BY <1>1, <1>2, <1>5, <1>7 DEF BranchesTyped
<1>9. CommandFits'
  <2>1. SourceStands' /\ Cloned'
    BY <1>4, <1>5, <1>7 DEF SourceStands, Cloned
  <2>2. RebaseFits'
    BY <1>1, <1>4, <1>5, <1>6, <1>7, <2>1 DEF RebaseFits
  <2> QED BY <1>3, <1>5, <2>2 DEF CommandFits, AtOnce, Merges, Rebases
<1>10. WorkFits'
  <2>1. cmd.todo \notin {<<"renameTemp">>, <<>>}
    BY <1>3, <1>4, StepsOf
  <2>2. Secured
    BY <1>3, <2>1 DEF Secured
  <2> QED BY <1>1, <1>2, <1>7, <2>2, TempMoves
<1>11. RecordsFit'
  BY <1>1, <1>2, <1>3, <1>5 DEF RecordsFit, AtOnce, Merges, Rebases
<1> QED BY <1>8, <1>9, <1>10, <1>11 DEF BranchesInductive

LEMMA CompareKept == ASSUME BranchesInductive, Compare PROVE BranchesInductive'
<1>1. /\ AtStep("compare")
      /\ cmd' = [cmd EXCEPT !.todo = Tail(@), !.new = Rebased(branches[cmd.via], branches[Temp])]
      /\ UNCHANGED <<branches, files, stash, creds, work, lone, astray, failures>>
  BY DEF Compare, SameHistory, record, history
<1>2. /\ BranchesTyped /\ CommandFits /\ WorkFits /\ RecordsFit /\ cmd \in BranchCommands
  BY DEF BranchesInductive, BranchesTyped
<1>3. cmd.op \in Rebases /\ RebaseFits
  BY <1>1, <1>2, StepOf
<1>4. /\ cmd.cur = stash /\ cmd.to \in Existing /\ cmd.to # cmd.cur /\ cmd.via \in Names
      /\ ~astray => cmd.via = stash
      /\ cmd.todo = Comparing(cmd.op) /\ SourceStands /\ Cloned
  BY <1>1, <1>2, <1>3, RebaseAt
<1>5. PICK source, target, new, todo :
         /\ source = branches[cmd.via] /\ target = branches[Temp]
         /\ new = Rebased(source, target) /\ todo = Tail(cmd.todo)
  OBVIOUS
<1>6. source \in Seq(Bodies) /\ target \in Seq(Bodies)
  BY <1>2, <1>4, <1>5 DEF BranchesTyped, SourceStands, Cloned
<1>7. /\ new \in Seq(Bodies) /\ IsPrefix(target, new) /\ ToSet(source) \subseteq ToSet(new)
  BY <1>5, <1>6, RebasedFits
<1>8. todo = Removing(cmd.op) /\ todo \in Seq(BranchSteps) /\ Head(todo) = "remove" /\ todo # <<>>
  <2>1. \A op \in Rebases :
           /\ Tail(Comparing(op)) = Removing(op) /\ Head(Removing(op)) = "remove"
           /\ Removing(op) \in Seq(BranchSteps) /\ Removing(op) # <<>>
    BY StepsOf
  <2>2. todo = Removing(cmd.op)
    BY <1>3, <1>4, <1>5, <2>1
  <2> QED BY <1>3, <2>1, <2>2
<1>9. cmd' = [cmd EXCEPT !.todo = todo, !.new = new]
  BY <1>1, <1>5
<1>10. /\ cmd' \in BranchCommands /\ cmd'.todo = todo /\ cmd'.op = cmd.op /\ cmd'.new = new
       /\ cmd'.cur = cmd.cur /\ cmd'.to = cmd.to /\ cmd'.via = cmd.via /\ cmd'.was = cmd.was
  BY <1>2, <1>7, <1>8, <1>9 DEF BranchCommands
<1>11. Existing' = Existing
  BY <1>1 DEF Existing
<1>12. BranchesTyped'
  BY <1>1, <1>2, <1>10, <1>11 DEF BranchesTyped
<1>13. CommandFits'
  <2>1. SourceStands' /\ Cloned'
    BY <1>1, <1>4, <1>10, <1>11 DEF SourceStands, Cloned
  <2>2. NewFits'
    <3>1. target = branches[cmd.to]
      BY <1>4, <1>5 DEF Cloned
    <3>2. ~astray => cmd.was = source
      BY <1>4, <1>5 DEF SourceStands
    <3> QED BY <1>1, <1>7, <1>10, <3>1, <3>2 DEF NewFits
  <2>3. RebaseFits'
    BY <1>1, <1>4, <1>8, <1>10, <1>11, <2>1, <2>2 DEF RebaseFits
  <2> QED BY <1>3, <1>10, <2>3 DEF CommandFits, AtOnce, Merges, Rebases
<1>14. WorkFits'
  <2>1. cmd.todo \notin {<<"renameTemp">>, <<>>}
    BY <1>3, <1>4, StepsOf
  <2>2. Secured
    BY <1>3, <2>1 DEF Secured
  <2> QED BY <1>1, <1>2, <1>11, <2>2, TempMoves
<1>15. RecordsFit'
  BY <1>1, <1>2, <1>3, <1>10 DEF RecordsFit, AtOnce, Merges, Rebases
<1> QED BY <1>12, <1>13, <1>14, <1>15 DEF BranchesInductive

LEMMA RemoveFilesKept == ASSUME BranchesInductive, RemoveFiles PROVE BranchesInductive'
<1>1. /\ AtStep("remove") /\ Pop /\ files' = {}
      /\ UNCHANGED <<branches, stash, creds, work, lone, astray, failures>>
  BY DEF RemoveFiles, SameHistory, record, history
<1>2. /\ BranchesTyped /\ CommandFits /\ WorkFits /\ RecordsFit /\ cmd \in BranchCommands
  BY DEF BranchesInductive, BranchesTyped
<1>3. cmd.op \in Rebases /\ RebaseFits
  BY <1>1, <1>2, StepOf
<1>4. /\ cmd.cur = stash /\ cmd.to \in Existing /\ cmd.to # cmd.cur /\ cmd.via \in Names
      /\ ~astray => cmd.via = stash
      /\ cmd.todo = Removing(cmd.op) /\ SourceStands /\ Cloned /\ NewFits
  BY <1>1, <1>2, <1>3, RebaseAt
<1>5. /\ cmd' \in BranchCommands /\ cmd'.todo = Tail(cmd.todo) /\ cmd'.op = cmd.op
      /\ cmd'.cur = cmd.cur /\ cmd'.to = cmd.to /\ cmd'.via = cmd.via
      /\ cmd'.was = cmd.was /\ cmd'.new = cmd.new
  BY <1>1, <1>2, PopIs
<1>6. cmd'.todo = CopyingFiles(cmd'.op)
  BY <1>3, <1>4, <1>5, StepsOf
<1>7. Existing' = Existing
  BY <1>1 DEF Existing
<1>8. BranchesTyped'
  BY <1>1, <1>2, <1>5, <1>7 DEF BranchesTyped
<1>9. CommandFits'
  <2>1. SourceStands' /\ Cloned' /\ NewFits'
    BY <1>1, <1>4, <1>5, <1>7 DEF SourceStands, Cloned, NewFits
  <2>2. RebaseFits'
    BY <1>1, <1>4, <1>5, <1>6, <1>7, <2>1 DEF RebaseFits
  <2> QED BY <1>3, <1>5, <2>2 DEF CommandFits, AtOnce, Merges, Rebases
<1>10. WorkFits'
  <2>1. cmd.todo \notin {<<"renameTemp">>, <<>>}
    BY <1>3, <1>4, StepsOf
  <2>2. Secured
    BY <1>3, <2>1 DEF Secured
  <2> QED BY <1>1, <1>2, <1>7, <2>2, TempMoves
<1>11. RecordsFit'
  BY <1>1, <1>2, <1>3, <1>5 DEF RecordsFit, AtOnce, Merges, Rebases
<1> QED BY <1>8, <1>9, <1>10, <1>11 DEF BranchesInductive

LEMMA CopyFilesKept == ASSUME BranchesInductive, CopyFiles PROVE BranchesInductive'
<1>1. /\ AtStep("copy") /\ Pop /\ files' = Ancestors(cmd.new)
      /\ UNCHANGED <<branches, stash, creds, work, lone, astray, failures>>
  BY DEF CopyFiles, SameHistory, record, history
<1>2. /\ BranchesTyped /\ CommandFits /\ WorkFits /\ RecordsFit /\ cmd \in BranchCommands
  BY DEF BranchesInductive, BranchesTyped
<1>3. cmd.op \in Rebases /\ RebaseFits
  BY <1>1, <1>2, StepOf
<1>4. /\ cmd.cur = stash /\ cmd.to \in Existing /\ cmd.to # cmd.cur /\ cmd.via \in Names
      /\ ~astray => cmd.via = stash
      /\ cmd.todo = CopyingFiles(cmd.op) /\ SourceStands /\ Cloned /\ NewFits
  BY <1>1, <1>2, <1>3, RebaseAt
<1>5. /\ cmd' \in BranchCommands /\ cmd'.todo = Tail(cmd.todo) /\ cmd'.op = cmd.op
      /\ cmd'.cur = cmd.cur /\ cmd'.to = cmd.to /\ cmd'.via = cmd.via
      /\ cmd'.was = cmd.was /\ cmd'.new = cmd.new
  BY <1>1, <1>2, PopIs
<1>6. cmd'.todo = Applying(cmd'.op)
  BY <1>3, <1>4, <1>5, StepsOf
<1>7. Existing' = Existing
  BY <1>1 DEF Existing
<1>8. BranchesTyped'
  <2>1. files' \subseteq Seq(Bodies)
    <3>1. cmd.new \in Seq(Bodies)
      BY <1>2 DEF BranchCommands
    <3> QED BY <1>1, <3>1, AncestorsOf
  <2> QED BY <1>1, <1>2, <1>5, <1>7, <2>1 DEF BranchesTyped
<1>9. CommandFits'
  <2>1. SourceStands' /\ Cloned' /\ NewFits' /\ files' = Ancestors(cmd'.new)
    BY <1>1, <1>4, <1>5, <1>7 DEF SourceStands, Cloned, NewFits
  <2>2. ASSUME cmd.op = "rebase" PROVE RebaseFits'
    <3>1. cmd'.todo = Applying("rebase") /\ cmd'.op = "rebase"
      BY <1>5, <1>6, <2>2
    <3>2. /\ cmd'.cur = stash' /\ cmd'.to \in Existing' /\ cmd'.to # cmd'.cur
          /\ cmd'.via \in Names /\ (~astray' => cmd'.via = stash')
      BY <1>1, <1>4, <1>5, <1>7
    <3> QED BY <2>1, <3>1, <3>2 DEF RebaseFits
  <2>3. ASSUME cmd.op = "rebaseOnly" PROVE RebaseFits'
    <3>1. cmd'.todo = <<"dropSource", "renameTemp">>
      BY <1>5, <1>6, <2>3, StepsOf
    <3>2. Written'
      BY <1>5, <2>1, <2>3 DEF Written, Cloned
    <3>3. /\ cmd'.cur = stash' /\ cmd'.to \in Existing' /\ cmd'.to # cmd'.cur
          /\ cmd'.via \in Names /\ (~astray' => cmd'.via = stash')
      BY <1>1, <1>4, <1>5, <1>7
    <3> QED BY <2>1, <3>1, <3>2, <3>3 DEF RebaseFits
  <2> QED BY <1>3, <1>5, <2>2, <2>3 DEF CommandFits, AtOnce, Merges, Rebases
<1>10. WorkFits'
  <2>1. cmd.todo \notin {<<"renameTemp">>, <<>>}
    BY <1>3, <1>4, StepsOf
  <2>2. Secured
    BY <1>3, <2>1 DEF Secured
  <2> QED BY <1>1, <1>2, <1>7, <2>2, TempMoves
<1>11. RecordsFit'
  BY <1>1, <1>2, <1>3, <1>5 DEF RecordsFit, AtOnce, Merges, Rebases
<1> QED BY <1>8, <1>9, <1>10, <1>11 DEF BranchesInductive

LEMMA ApplyRebasedKept == ASSUME BranchesInductive, ApplyRebased PROVE BranchesInductive'
<1>1. /\ AtStep("apply") /\ Readable /\ Pop /\ branches' = With(Temp, Chain)
      /\ UNCHANGED <<files, stash, creds, work, lone, astray, failures>>
  BY DEF ApplyRebased, SameHistory, record, history
<1>2. /\ BranchesTyped /\ CommandFits /\ WorkFits /\ RecordsFit /\ cmd \in BranchCommands
  BY DEF BranchesInductive, BranchesTyped
<1>3. cmd.op \in Rebases /\ RebaseFits
  BY <1>1, <1>2, StepOf
<1>4. /\ cmd.cur = stash /\ cmd.to \in Existing /\ cmd.to # cmd.cur /\ cmd.via \in Names
      /\ ~astray => cmd.via = stash
      /\ cmd.todo = Applying("rebase") /\ cmd.op = "rebase" /\ files = Ancestors(cmd.new)
      /\ SourceStands /\ Cloned /\ NewFits
  BY <1>1, <1>2, <1>3, RebaseAt
<1>5. /\ cmd' \in BranchCommands /\ cmd'.todo = Tail(cmd.todo) /\ cmd'.op = cmd.op
      /\ cmd'.cur = cmd.cur /\ cmd'.to = cmd.to /\ cmd'.via = cmd.via
      /\ cmd'.was = cmd.was /\ cmd'.new = cmd.new
  BY <1>1, <1>2, PopIs
<1>6. cmd'.todo = <<"dropSource", "renameTemp">>
  BY <1>4, <1>5, StepsOf
<1>7. Chain = cmd.new /\ cmd.new \in Seq(Bodies)
  <2>1. files \subseteq Seq(Bodies) /\ cmd.new \in Seq(Bodies)
    BY <1>2 DEF BranchesTyped, BranchCommands
  <2>2. Chain \in Seq(Bodies) /\ files = Ancestors(Chain)
    BY <1>1, <2>1, ChainIs
  <2> QED BY <1>4, <2>1, <2>2, SameAncestors
<1>8. /\ Existing' = Existing /\ branches' \in [Existing' -> Seq(Bodies)]
      /\ branches'[Temp] = cmd.new /\ \A x \in Existing \ {Temp} : branches'[x] = branches[x]
  <2>1. PICK h : h = cmd.new
    OBVIOUS
  <2>2. branches \in [Existing -> Seq(Bodies)] /\ h \in Seq(Bodies) /\ branches' = With(Temp, h)
    BY <1>1, <1>2, <1>7, <2>1 DEF BranchesTyped
  <2>3. /\ Existing' = Existing \cup {Temp} /\ branches' \in [Existing' -> Seq(Bodies)]
        /\ branches'[Temp] = h /\ \A x \in Existing \ {Temp} : branches'[x] = branches[x]
    BY <2>2, WithIs
  <2> QED BY <1>4, <2>1, <2>3 DEF Cloned
<1>9. BranchesTyped'
  BY <1>1, <1>2, <1>5, <1>8 DEF BranchesTyped
<1>10. CommandFits'
  <2>1. cmd.to # Temp /\ cmd.cur # Temp
    BY <1>2, TempIs DEF BranchCommands
  <2>2. SourceStands' /\ NewFits'
    BY <1>1, <1>4, <1>5, <1>8, <2>1 DEF SourceStands, NewFits
  <2>3. Written'
    BY <1>1, <1>4, <1>5, <1>8, <2>2 DEF Written, Cloned
  <2>4. /\ cmd'.cur = stash' /\ cmd'.to \in Existing' /\ cmd'.to # cmd'.cur
        /\ cmd'.via \in Names /\ (~astray' => cmd'.via = stash')
    BY <1>1, <1>4, <1>5, <1>8
  <2>5. RebaseFits'
    BY <1>6, <2>2, <2>3, <2>4 DEF RebaseFits
  <2> QED BY <1>3, <1>5, <2>5 DEF CommandFits, AtOnce, Merges, Rebases
<1>11. WorkFits'
  <2>1. cmd.todo \notin {<<"renameTemp">>, <<>>}
    BY <1>3, <1>4, StepsOf
  <2>2. Secured
    BY <1>3, <2>1 DEF Secured
  <2> QED BY <1>1, <1>2, <1>8, <2>2, TempMoves
<1>12. RecordsFit'
  BY <1>1, <1>2, <1>3, <1>5 DEF RecordsFit, AtOnce, Merges, Rebases
<1> QED BY <1>9, <1>10, <1>11, <1>12 DEF BranchesInductive

LEMMA DropSourceKept == ASSUME BranchesInductive, DropSource PROVE BranchesInductive'
<1>1. /\ AtStep("dropSource") /\ Pop /\ branches' = Without(cmd.cur)
      /\ UNCHANGED <<files, stash, creds, work, lone, astray, failures>>
  BY DEF DropSource, SameHistory, record, history
<1>2. /\ BranchesTyped /\ CommandFits /\ WorkFits /\ RecordsFit /\ cmd \in BranchCommands
  BY DEF BranchesInductive, BranchesTyped
<1>3. cmd.op \in Rebases /\ RebaseFits
  BY <1>1, <1>2, StepOf
<1>4. /\ cmd.cur = stash /\ cmd.to \in Existing /\ cmd.to # cmd.cur /\ cmd.via \in Names
      /\ ~astray => cmd.via = stash
      /\ cmd.todo = <<"dropSource", "renameTemp">> /\ SourceStands /\ Written
  BY <1>1, <1>2, <1>3, RebaseAt
<1>5. /\ cmd' \in BranchCommands /\ cmd'.todo = Tail(cmd.todo) /\ cmd'.op = cmd.op
      /\ cmd'.cur = cmd.cur /\ cmd'.to = cmd.to /\ cmd'.via = cmd.via
      /\ cmd'.was = cmd.was /\ cmd'.new = cmd.new
  BY <1>1, <1>2, PopIs
<1>6. cmd'.todo = <<"renameTemp">>
  BY <1>4, <1>5, StepsOf
<1>7. /\ Existing' = Existing \ {cmd.cur} /\ branches' \in [Existing' -> Seq(Bodies)]
      /\ \A x \in Existing' : branches'[x] = branches[x]
  BY <1>1, <1>2, WithoutIs DEF BranchesTyped
<1>8. cmd.cur # Temp /\ cmd.to # Temp /\ cmd.was \in Seq(Bodies) /\ cmd.new \in Seq(Bodies)
  BY <1>2, TempIs DEF BranchCommands
<1>9. BranchesTyped'
  BY <1>1, <1>2, <1>5, <1>7 DEF BranchesTyped
<1>10. CommandFits'
  <2>1. NewFits'
    BY <1>1, <1>4, <1>5, <1>7 DEF Written, NewFits
  <2>2. Written'
    BY <1>1, <1>4, <1>5, <1>7, <1>8, <2>1 DEF Written
  <2>3. /\ cmd'.cur = stash' /\ cmd'.to \in Existing' /\ cmd'.to # cmd'.cur
        /\ cmd'.via \in Names /\ (~astray' => cmd'.via = stash') /\ cmd'.cur \notin Existing'
    BY <1>1, <1>4, <1>5, <1>7
  <2>4. RebaseFits'
    BY <1>6, <2>2, <2>3 DEF RebaseFits
  <2> QED BY <1>3, <1>5, <2>4 DEF CommandFits, AtOnce, Merges, Rebases
<1>11. WorkFits'
  <2> SUFFICES ASSUME ~astray' PROVE \A s \in work' : Found(s)'
    BY <1>3, <1>5, <1>6 DEF WorkFits, Secured
  <2>1. Secured
    BY <1>3, <1>4, StepsOf DEF Secured
  <2>2. ~astray
    BY <1>1
  <2>3. ASSUME NEW s \in work PROVE Found(s)'
    <3>1. PICK b \in Existing \ {Temp} : Contains(branches[b], s)
      BY <1>2, <2>1, <2>2 DEF WorkFits, Held
    <3>2. CASE b # cmd.cur
      BY <1>7, <3>1, <3>2 DEF Found
    <3>3. CASE b = cmd.cur
      <4>1. s \in ToSet(cmd.was)
        BY <1>4, <1>8, <3>1, <3>3, ContainsIs DEF SourceStands
      <4>2. s \in ToSet(cmd.new)
        BY <1>4, <2>2, <4>1 DEF Written, NewFits
      <4>3. Contains(cmd.new, s)
        BY <1>8, <4>2, ContainsIs
      <4>4. cmd.new # <<>>
        BY <4>3 DEF Contains
      <4>5. cmd.new \in files'
        BY <1>1, <1>4, <1>8, <4>4, AncestorsOf DEF Written
      <4> QED BY <4>3, <4>5 DEF Found
    <3> QED BY <3>2, <3>3
  <2> QED BY <1>1, <2>3
<1>12. RecordsFit'
  BY <1>1, <1>2, <1>3, <1>5 DEF RecordsFit, AtOnce, Merges, Rebases
<1> QED BY <1>9, <1>10, <1>11, <1>12 DEF BranchesInductive

\* The last step of a rebase, and where it leaves the current branch
LEMMA RenameTempKept ==
    ASSUME BranchesInductive, RenameTemp
    PROVE  /\ BranchesInductive'
           /\ cmd.op = "rebase" /\ ~astray =>
                 /\ files' = Ancestors(branches'[stash]) /\ IsPrefix(branches[cmd.to], branches'[stash])
                 /\ ToSet(cmd.was) \subseteq ToSet(branches'[stash])
<1>1. /\ AtStep("renameTemp") /\ Pop /\ branches' = Renamed(Temp, cmd.cur)
      /\ UNCHANGED <<files, stash, creds, work, lone, astray, failures>>
  BY DEF RenameTemp, SameHistory, record, history
<1>2. /\ BranchesTyped /\ CommandFits /\ WorkFits /\ RecordsFit /\ cmd \in BranchCommands
  BY DEF BranchesInductive, BranchesTyped
<1>3. cmd.op \in Rebases /\ RebaseFits
  BY <1>1, <1>2, StepOf
<1>4. /\ cmd.cur = stash /\ cmd.to \in Existing /\ cmd.to # cmd.cur /\ cmd.via \in Names
      /\ ~astray => cmd.via = stash
      /\ cmd.todo = <<"renameTemp">> /\ cmd.cur \notin Existing /\ Written
  BY <1>1, <1>2, <1>3, RebaseAt
<1>5. /\ cmd' \in BranchCommands /\ cmd'.todo = Tail(cmd.todo) /\ cmd'.op = cmd.op
      /\ cmd'.cur = cmd.cur /\ cmd'.to = cmd.to /\ cmd'.via = cmd.via
      /\ cmd'.was = cmd.was /\ cmd'.new = cmd.new
  BY <1>1, <1>2, PopIs
<1>6. cmd'.todo = <<>>
  BY <1>4, <1>5, StepsOf
<1>7. cmd.cur # Temp /\ cmd.to # Temp /\ cmd.cur \in Names
  BY <1>2, TempIs DEF BranchCommands
<1>8. /\ Existing' = (Existing \ {Temp}) \cup {cmd.cur} /\ branches' \in [Existing' -> Seq(Bodies)]
      /\ branches'[cmd.cur] = branches[Temp]
      /\ \A x \in Existing' \ {cmd.cur} : branches'[x] = branches[x]
  <2>1. PICK b, to : b = Temp /\ to = cmd.cur
    OBVIOUS
  <2>2. branches \in [Existing -> Seq(Bodies)] /\ b \in Existing /\ to # b
        /\ branches' = Renamed(b, to)
    BY <1>1, <1>2, <1>4, <1>7, <2>1 DEF BranchesTyped, Written
  <2> QED BY <2>1, <2>2, RenamedIs
<1>9. BranchesTyped'
  BY <1>1, <1>2, <1>5, <1>7, <1>8 DEF BranchesTyped
<1>10. CommandFits'
  <2>1. /\ cmd'.cur = stash' /\ cmd'.to \in Existing' /\ cmd'.to # cmd'.cur
        /\ cmd'.via \in Names /\ (~astray' => cmd'.via = stash')
        /\ cmd'.cur \in Existing' /\ Temp \notin Existing'
    BY <1>1, <1>4, <1>5, <1>7, <1>8
  <2>2. RebaseFits'
    BY <1>6, <2>1 DEF RebaseFits
  <2> QED BY <1>3, <1>5, <2>2 DEF CommandFits, AtOnce, Merges, Rebases
<1>11. WorkFits'
  <2> SUFFICES ASSUME ~astray' PROVE /\ \A s \in work' : Found(s)'
                                     /\ Secured' => \A s \in work' : Held(s)'
    BY DEF WorkFits
  <2>1. \A s \in work : Found(s)
    BY <1>1, <1>2 DEF WorkFits
  <2>2. ASSUME NEW s, NEW b \in Existing, Contains(branches[b], s) PROVE Found(s)' /\ Held(s)'
    <3>1. CASE b = Temp
      BY <1>7, <1>8, <2>2, <3>1 DEF Found, Held
    <3>2. CASE b # Temp
      <4>1. b \in Existing' /\ branches'[b] = branches[b]
        BY <1>4, <1>8, <3>2
      <4> QED BY <2>2, <3>2, <4>1 DEF Found, Held
    <3> QED BY <3>1, <3>2
  <2>3. ASSUME NEW s, NEW f \in files, Contains(f, s) PROVE Found(s)' /\ (Secured' => Held(s)')
    <3>1. Found(s)'
      BY <1>1, <2>3 DEF Found
    <3>2. ASSUME Secured' PROVE Held(s)'
      <4>1. cmd.op = "rebase"
        BY <1>3, <1>5, <1>6, <3>2 DEF Secured
      <4>2. branches[Temp] = cmd.new /\ files = Ancestors(cmd.new) /\ Temp \in Existing
        BY <1>4, <4>1 DEF Written
      <4>3. cmd.new \in Seq(Bodies)
        BY <1>2 DEF BranchCommands
      <4>4. Contains(cmd.new, s)
        BY <2>3, <4>2, <4>3, AncestorHas
      <4> QED BY <2>2, <4>2, <4>4
    <3> QED BY <3>1, <3>2
  <2> QED BY <1>1, <2>1, <2>2, <2>3 DEF Found
<1>12. RecordsFit'
  BY <1>1, <1>2, <1>3, <1>5 DEF RecordsFit, AtOnce, Merges, Rebases
<1>13. ASSUME cmd.op = "rebase", ~astray
       PROVE  /\ files' = Ancestors(branches'[stash]) /\ IsPrefix(branches[cmd.to], branches'[stash])
              /\ ToSet(cmd.was) \subseteq ToSet(branches'[stash])
  <2>1. branches'[stash] = cmd.new
    BY <1>4, <1>8, <1>13 DEF Written
  <2>2. /\ files' = Ancestors(cmd.new) /\ IsPrefix(branches[cmd.to], cmd.new)
        /\ ToSet(cmd.was) \subseteq ToSet(cmd.new)
    BY <1>1, <1>4, <1>13 DEF Written, NewFits
  <2> QED BY <2>1, <2>2
<1> QED BY <1>9, <1>10, <1>11, <1>12, <1>13 DEF BranchesInductive

(* Steps of merge, failures and ends *)

LEMMA CopyMergedKept == ASSUME BranchesInductive, CopyMerged PROVE BranchesInductive'
<1>1. /\ AtStep("copyMerged") /\ Pop /\ files' = files \cup Ancestors(branches[cmd.to])
      /\ UNCHANGED <<branches, stash, creds, work, lone, astray, failures>>
  BY DEF CopyMerged, SameHistory, record, history
<1>2. /\ BranchesTyped /\ CommandFits /\ WorkFits /\ RecordsFit /\ cmd \in BranchCommands
  BY DEF BranchesInductive, BranchesTyped
<1>3. cmd.op \in Merges /\ MergeFits
  BY <1>1, <1>2, StepOf
<1>4. /\ MergeStands
      /\ \/ /\ cmd.todo = <<"copyMerged", "applyMerged">>
            /\ cmd.synced => files = Ancestors(cmd.was)
         \/ cmd.op = "mergeOnly" /\ cmd.todo = <<"copyMerged">>
  BY <1>1, <1>2, <1>3, MergeAt
<1>5. /\ cmd' \in BranchCommands /\ cmd'.todo = Tail(cmd.todo) /\ cmd'.op = cmd.op
      /\ cmd'.to = cmd.to /\ cmd'.was = cmd.was /\ cmd'.synced = cmd.synced
  BY <1>1, <1>2, PopIs
<1>6. \/ /\ cmd'.todo = <<"applyMerged">>
         /\ cmd.synced => files = Ancestors(cmd.was)
      \/ cmd'.todo = <<>>
  BY <1>4, <1>5, StepsOf
<1>7. Existing' = Existing
  BY <1>1 DEF Existing
<1>8. PICK h : h = branches[cmd.to]
  OBVIOUS
<1>9. h \in Seq(Bodies) /\ cmd.was \in Seq(Bodies)
  BY <1>2, <1>4, <1>8 DEF BranchesTyped, BranchCommands, MergeStands
<1>10. BranchesTyped'
  <2>1. files' \subseteq Seq(Bodies)
    <3>1. files \subseteq Seq(Bodies)
      BY <1>2 DEF BranchesTyped
    <3> QED BY <1>1, <1>8, <1>9, <3>1, AncestorsOf
  <2> QED BY <1>1, <1>2, <1>5, <1>7, <2>1 DEF BranchesTyped
<1>11. CommandFits'
  <2>1. MergeStands'
    BY <1>1, <1>4, <1>5, <1>7 DEF MergeStands
  <2>2. (cmd.synced => files = Ancestors(cmd.was)) =>
            (cmd'.synced => files' = Ancestors(branches'[cmd'.to]))
    <3>1. IsPrefix(cmd.was, h)
      BY <1>4, <1>8 DEF MergeStands
    <3>2. Ancestors(cmd.was) \subseteq Ancestors(h)
      BY <1>9, <3>1, PrefixKeeps
    <3>3. files = Ancestors(cmd.was) => files' = Ancestors(h)
      BY <1>1, <1>8, <3>2
    <3> QED BY <1>1, <1>5, <1>8, <3>3
  <2>3. MergeFits'
    BY <1>6, <2>1, <2>2 DEF MergeFits
  <2> QED BY <1>3, <1>5, <2>3 DEF CommandFits, AtOnce, Merges, Rebases
<1>12. WorkFits'
  <2>1. Secured' => Secured
    BY <1>3, <1>5, <1>7 DEF Secured, Merges, Rebases
  <2> QED BY <1>1, <1>2, <1>7, <2>1, Grows
<1>13. RecordsFit'
  BY <1>1, <1>2, <1>3, <1>5, <1>7 DEF RecordsFit, AtOnce, Merges, Rebases, OneBranch
<1> QED BY <1>10, <1>11, <1>12, <1>13 DEF BranchesInductive

\* The last step of a merge, and where it leaves the current branch
LEMMA ApplyMergedKept ==
    ASSUME BranchesInductive, ApplyMerged
    PROVE  /\ BranchesInductive'
           /\ cmd.op = "merge" /\ cmd.synced =>
                 /\ files' = Ancestors(branches'[stash]) /\ IsPrefix(branches[cmd.to], branches'[stash])
                 /\ ToSet(cmd.was) \subseteq ToSet(branches'[stash])
<1>1. /\ AtStep("applyMerged") /\ Pop /\ branches' = With(stash, branches[cmd.to])
      /\ UNCHANGED <<files, stash, creds, work, lone, astray, failures>>
  BY DEF ApplyMerged, SameHistory, record, history
<1>2. /\ BranchesTyped /\ CommandFits /\ WorkFits /\ RecordsFit /\ cmd \in BranchCommands
  BY DEF BranchesInductive, BranchesTyped
<1>3. cmd.op \in Merges /\ MergeFits
  BY <1>1, <1>2, StepOf
<1>4. /\ cmd.todo = <<"applyMerged">> /\ MergeStands
      /\ cmd.synced => files = Ancestors(branches[cmd.to])
  BY <1>1, <1>2, <1>3, MergeAt
<1>5. /\ cmd' \in BranchCommands /\ cmd'.todo = Tail(cmd.todo) /\ cmd'.op = cmd.op
  BY <1>1, <1>2, PopIs
<1>6. cmd'.todo = <<>>
  BY <1>4, <1>5, StepsOf
<1>7. PICK h, was : h = branches[cmd.to] /\ was = branches[stash]
  OBVIOUS
<1>8. h \in Seq(Bodies) /\ was \in Seq(Bodies) /\ cmd.was = was /\ IsPrefix(was, h) /\ stash \in Existing
  BY <1>2, <1>4, <1>7 DEF BranchesTyped, MergeStands
<1>9. ToSet(was) \subseteq ToSet(h)
  BY <1>8, PrefixKeeps
<1>10. IsPrefix(h, h)
  <2>1. Len(h) \in Nat
    BY <1>8
  <2> QED BY <1>8, <2>1, PrefixFrom
<1>11. /\ Existing' = Existing /\ branches' \in [Existing' -> Seq(Bodies)]
       /\ branches'[stash] = h /\ \A x \in Existing \ {stash} : branches'[x] = branches[x]
  <2>1. branches \in [Existing -> Seq(Bodies)] /\ branches' = With(stash, h)
    BY <1>1, <1>2, <1>7 DEF BranchesTyped
  <2>2. /\ Existing' = Existing \cup {stash} /\ branches' \in [Existing' -> Seq(Bodies)]
        /\ branches'[stash] = h /\ \A x \in Existing \ {stash} : branches'[x] = branches[x]
    BY <1>8, <2>1, WithIs
  <2> QED BY <1>8, <2>2
<1>12. BranchesTyped'
  BY <1>1, <1>2, <1>5, <1>11 DEF BranchesTyped
<1>13. CommandFits'
  BY <1>3, <1>5, <1>6 DEF CommandFits, MergeFits, AtOnce, Merges, Rebases
<1>14. WorkFits'
  <2>1. \A s : \A b \in Existing : Contains(branches[b], s) => Contains(branches'[b], s)
    <3>1. \A s : Contains(was, s) => Contains(h, s)
      BY <1>8, <1>9, ContainsIs
    <3> QED BY <1>7, <1>11, <3>1
  <2>2. \A s : (Found(s) => Found(s)') /\ (Held(s) => Held(s)')
    BY <1>1, <1>11, <2>1 DEF Found, Held
  <2>3. Secured' => Secured
    BY <1>3, <1>5, <1>11 DEF Secured, Merges, Rebases
  <2> QED BY <1>1, <1>2, <2>2, <2>3 DEF WorkFits
<1>15. RecordsFit'
  BY <1>1, <1>2, <1>3, <1>5, <1>11 DEF RecordsFit, AtOnce, Merges, Rebases, OneBranch
<1>16. cmd.op = "merge" /\ cmd.synced =>
                 /\ files' = Ancestors(branches'[stash]) /\ IsPrefix(branches[cmd.to], branches'[stash])
                 /\ ToSet(cmd.was) \subseteq ToSet(branches'[stash])
  BY <1>1, <1>4, <1>7, <1>8, <1>9, <1>10, <1>11
<1> QED BY <1>12, <1>13, <1>14, <1>15, <1>16 DEF BranchesInductive

LEMMA IdleIs == Idle \in BranchCommands /\ Idle.op = "none" /\ Idle.todo = <<>>
<1>1. First \in Names
  BY BranchesAssumption
<1> QED BY <1>1 DEF Idle, BranchCommands, BranchOps

\* Where the source of a rebase that has steps left still stands
LEMMA SourceAt ==
    ASSUME BranchesTyped, CommandFits, cmd.op \in Rebases, cmd.todo # <<>>
    PROVE  /\ cmd.cur = stash /\ (~astray => cmd.via = stash)
           /\ stash \in Existing => Secured
           /\ Temp \notin Existing => Secured
<1>1. PICK s : s = Head(cmd.todo)
  OBVIOUS
<1>2. AtStep(s) /\ RebaseFits
  BY <1>1 DEF AtStep, CommandFits
<1>3. /\ cmd.cur = stash /\ (~astray => cmd.via = stash)
      /\ s \in {"clone", "compare", "remove", "copy", "apply", "dropSource", "renameTemp"}
      /\ s = "renameTemp" => cmd.cur \notin Existing /\ Temp \in Existing
  BY <1>2, RebaseAt DEF Written
<1>4. s # "renameTemp" => Secured
  BY <1>1, StepsOf DEF Secured
<1> QED BY <1>3, <1>4

LEMMA FailKept ==
    ASSUME BranchesInductive, NEW crash \in BOOLEAN, Fail(crash) PROVE BranchesInductive'
<1>1. /\ cmd.todo # <<>> /\ branches' = Cleaned(crash) /\ cmd' = Idle
      /\ \/ Broken /\ ~crash /\ UNCHANGED failures
         \/ ~Broken /\ failures' = failures + 1
      /\ UNCHANGED <<files, stash, creds, work, lone, astray>>
  BY DEF Fail, record, history
<1>2. /\ BranchesTyped /\ CommandFits /\ WorkFits /\ RecordsFit /\ cmd \in BranchCommands
  BY DEF BranchesInductive, BranchesTyped
<1>3. cmd' \in BranchCommands /\ cmd'.op = "none" /\ cmd'.todo = <<>>
  BY <1>1, IdleIs
<1>4. PICK drops \in BOOLEAN :
         drops = (cmd.op \in Rebases /\ Temp \in Existing /\ cmd.via \in Existing /\ ~crash)
  OBVIOUS
<1>5. branches' = IF drops THEN Without(Temp) ELSE branches
  BY <1>1, <1>4 DEF Cleaned, Rebases
<1>6. /\ branches' \in [Existing' -> Seq(Bodies)] /\ \A x \in Existing' : branches'[x] = branches[x]
      /\ Existing' = IF drops THEN Existing \ {Temp} ELSE Existing
  <2>1. branches \in [Existing -> Seq(Bodies)]
    BY <1>2 DEF BranchesTyped
  <2>2. CASE drops
    BY <1>5, <2>1, <2>2, WithoutIs
  <2>3. CASE ~drops
    BY <1>5, <2>1, <2>3 DEF Existing
  <2> QED BY <2>2, <2>3
<1>7. BranchesTyped'
  <2>1. failures' \in Nat
    BY <1>1, <1>2 DEF BranchesTyped
  <2> QED BY <1>1, <1>2, <1>3, <1>6, <2>1 DEF BranchesTyped
<1>8. CommandFits'
  BY <1>3 DEF CommandFits, AtOnce, Merges, Rebases
<1>9. WorkFits'
  <2> SUFFICES ASSUME ~astray' PROVE /\ \A s \in work' : Found(s)'
                                     /\ Secured' => \A s \in work' : Held(s)'
    BY DEF WorkFits
  <2>1. ~astray /\ work' = work /\ files' = files
    BY <1>1
  <2>2. \A s : Held(s) => Held(s)'
    BY <1>6 DEF Held
  <2>3. \A s : Held(s)' => Found(s)'
    BY DEF Held, Found
  <2>4. CASE drops
    <3>1. stash \in Existing
      BY <1>1, <1>2, <1>4, <2>1, <2>4, SourceAt
    <3>2. Secured
      BY <1>1, <1>2, <1>4, <2>4, <3>1, SourceAt
    <3>3. \A s \in work : Held(s)
      BY <1>2, <2>1, <3>2 DEF WorkFits
    <3> QED BY <2>1, <2>2, <2>3, <3>3
  <2>5. CASE ~drops
    <3>1. \A s : Found(s) => Found(s)'
      BY <1>6, <2>1, <2>5 DEF Found
    <3>2. Secured' => Temp \notin Existing
      BY <1>3, <1>6, <2>5 DEF Secured, Rebases
    <3>3. Temp \notin Existing => Secured
      <4>1. CASE cmd.op \in Rebases
        BY <1>1, <1>2, <4>1, SourceAt
      <4>2. CASE cmd.op \notin Rebases
        BY <4>2 DEF Secured
      <4> QED BY <4>1, <4>2
    <3> QED BY <1>2, <2>1, <2>2, <3>1, <3>2, <3>3 DEF WorkFits
  <2> QED BY <2>4, <2>5
<1>10. RecordsFit'
  <2> SUFFICES ASSUME failures' = 0, ~lone', ~astray' PROVE OneBranch'
    BY <1>3 DEF RecordsFit, AtOnce, Merges, Rebases
  <2>1. Broken /\ ~crash /\ failures = 0 /\ ~lone /\ ~astray
    <3>1. failures + 1 # 0
      BY <1>2 DEF BranchesTyped
    <3> QED BY <1>1, <3>1
  <2>2. stash # Temp /\ stash \in Names
    BY <1>2, TempIs DEF BranchesTyped
  <2>3. PICK s \in {"compare", "apply", "applyMerged", "dropTemp"} : AtStep(s)
    BY <2>1 DEF Broken
  <2>4. CASE s \in {"compare", "apply"}
    <3>1. cmd.op \in Rebases /\ RebaseFits
      BY <1>2, <2>3, <2>4, StepOf
    <3>2. cmd.cur = stash /\ cmd.via = stash /\ SourceStands /\ Cloned
      BY <1>2, <2>1, <2>3, <2>4, <3>1, RebaseAt
    <3>3. stash \in Existing /\ Temp \in Existing /\ stash = creds
      BY <1>2, <2>1, <3>1, <3>2 DEF SourceStands, Cloned, RecordsFit
    <3>4. drops
      BY <1>4, <2>1, <3>1, <3>2, <3>3
    <3> QED BY <1>1, <1>6, <2>2, <3>3, <3>4 DEF OneBranch
  <2>5. CASE s = "applyMerged"
    <3>1. cmd.op \in Merges
      BY <1>2, <2>3, <2>5, StepOf
    <3>2. OneBranch /\ ~drops
      BY <1>2, <1>4, <2>1, <3>1 DEF RecordsFit, AtOnce, Merges, Rebases
    <3> QED BY <1>1, <1>6, <3>2 DEF OneBranch
  <2>6. CASE s = "dropTemp"
    <3>1. cmd.op = "rename" /\ RenameFits
      BY <1>2, <2>3, <2>6, StepOf
    <3>2. lone
      BY <1>2, <2>3, <2>6, <3>1, RenameAt
    <3> QED BY <2>1, <3>2
  <2> QED BY <2>3, <2>4, <2>5, <2>6
<1> QED BY <1>7, <1>8, <1>9, <1>10 DEF BranchesInductive

LEMMA EndCommandKept == ASSUME BranchesInductive, EndCommand PROVE BranchesInductive'
<1>1. /\ cmd.op # "none" /\ cmd.todo = <<>> /\ cmd' = Idle
      /\ work' = IF cmd.op = "rebaseOnly" THEN StillThere(branches, {}) ELSE work
      /\ UNCHANGED <<branches, files, stash, creds, lone, astray, failures>>
  BY DEF EndCommand, record, history
<1>2. /\ BranchesTyped /\ CommandFits /\ WorkFits /\ RecordsFit /\ cmd \in BranchCommands
  BY DEF BranchesInductive, BranchesTyped
<1>3. cmd' \in BranchCommands /\ cmd'.op = "none" /\ cmd'.todo = <<>>
  BY <1>1, IdleIs
<1>4. Existing' = Existing
  BY <1>1 DEF Existing
<1>5. IF cmd.op = "rebaseOnly" THEN work' = {s \in work : \E b \in Existing : Contains(branches[b], s)}
      ELSE work' = work
  BY <1>1, StillThereIs DEF Existing
<1>6. BranchesTyped'
  <2>1. work' \subseteq Bodies
    BY <1>2, <1>5 DEF BranchesTyped
  <2> QED BY <1>1, <1>2, <1>3, <1>4, <2>1 DEF BranchesTyped
<1>7. CommandFits'
  BY <1>3 DEF CommandFits, AtOnce, Merges, Rebases
<1>8. WorkFits'
  <2>1. CASE cmd.op = "rebaseOnly"
    <3>1. cmd'.op \notin Rebases
      BY <1>3 DEF Rebases
    <3>2. work' \subseteq {s \in work : \E b \in Existing' : Contains(branches'[b], s)}
      BY <1>1, <1>4, <1>5, <2>1
    <3> QED BY <3>1, <3>2, Resets
  <2>2. CASE cmd.op # "rebaseOnly"
    <3>1. Secured' => Secured
      BY <1>1, <1>3, <1>4, <2>2, StepsOf DEF Secured, Rebases
    <3> QED BY <1>1, <1>2, <1>4, <1>5, <2>2, <3>1, Grows
  <2> QED BY <2>1, <2>2
<1>9. RecordsFit'
  <2> SUFFICES ASSUME failures' = 0, ~lone', ~astray' PROVE OneBranch
    BY <1>1, <1>3, <1>4 DEF RecordsFit, AtOnce, Merges, Rebases, OneBranch
  <2>1. failures = 0 /\ ~lone /\ ~astray
    BY <1>1
  <2>2. cmd.op \in BranchOps /\ cmd.project \in BOOLEAN
    BY <1>2 DEF BranchCommands
  <2>3. CASE cmd.op \in AtOnce \cup Merges
    BY <1>2, <2>1, <2>3 DEF RecordsFit
  <2>4. CASE cmd.op = "switch"
    <3>1. SwitchFits
      BY <1>2, <2>4 DEF CommandFits
    <3>2. cmd.to \in Existing /\ creds = cmd.to /\ (cmd.project => stash = cmd.to)
      BY <1>1, <2>2, <3>1, StepsOf DEF SwitchFits
    <3>3. cmd.project /\ Temp \notin Existing
      BY <1>2, <2>1, <2>4 DEF RecordsFit
    <3> QED BY <3>2, <3>3 DEF OneBranch
  <2>5. CASE cmd.op = "rename"
    <3>1. cmd.todo \notin {Renaming(TRUE), Recording(TRUE), <<"creds">>, <<"rename">>}
      BY <1>1, StepsOf
    <3> QED BY <1>2, <2>1, <2>5, <3>1 DEF RecordsFit
  <2>6. CASE cmd.op \in Rebases
    <3>1. RebaseFits
      BY <1>2, <2>6 DEF CommandFits
    <3>2. cmd.todo \notin {Cloning(cmd.op), Comparing(cmd.op), Removing(cmd.op), CopyingFiles(cmd.op),
                           <<"dropSource", "renameTemp">>, <<"renameTemp">>}
      BY <1>1, <2>6, StepsOf
    <3>3. cmd.todo # Applying("rebase")
      BY <1>1, StepsOf DEF Rebases
    <3>4. cmd.cur = stash /\ cmd.cur \in Existing /\ Temp \notin Existing
      BY <3>1, <3>2, <3>3 DEF RebaseFits
    <3>5. creds = stash
      BY <1>2, <2>1, <2>6 DEF RecordsFit
    <3> QED BY <3>4, <3>5 DEF OneBranch
  <2> QED BY <2>2, <2>3, <2>4, <2>5, <2>6 DEF BranchOps, AtOnce
<1> QED BY <1>6, <1>7, <1>8, <1>9 DEF BranchesInductive

(* The inductive invariant *)

LEMMA BranchesStand == ASSUME BranchesInductive, UNCHANGED branching PROVE BranchesInductive'
<1>1. /\ BranchesTyped /\ CommandFits /\ WorkFits /\ RecordsFit
      /\ UNCHANGED <<branches, files, stash, creds, cmd, work, lone, astray, failures>>
  BY DEF BranchesInductive, branching
<1>2. Existing' = Existing /\ branches' = branches
  BY <1>1 DEF Existing
<1>3. BranchesTyped'
  BY <1>1, <1>2 DEF BranchesTyped
<1>4. /\ SwitchFits' = SwitchFits /\ RenameFits' = RenameFits
  BY <1>1, <1>2 DEF SwitchFits, RenameFits
<1>5. MergeFits' = MergeFits
  BY <1>1, <1>2 DEF MergeFits, MergeStands
<1>6. /\ NewFits' = NewFits /\ SourceStands' = SourceStands /\ Cloned' = Cloned
      /\ OneBranch' = OneBranch /\ Secured' = Secured
      /\ \A s : Held(s)' = Held(s) /\ Found(s)' = Found(s)
  BY <1>1, <1>2 DEF NewFits, SourceStands, Cloned, OneBranch, Secured, Held, Found
<1>7. Written' = Written
  BY <1>1, <1>2, <1>6 DEF Written
<1>8. RebaseFits' = RebaseFits
  BY <1>1, <1>2, <1>6, <1>7 DEF RebaseFits
<1>9. CommandFits'
  BY <1>1, <1>4, <1>5, <1>8 DEF CommandFits
<1>10. WorkFits'
  BY <1>1, <1>6 DEF WorkFits
<1>11. RecordsFit'
  BY <1>1, <1>2, <1>6 DEF RecordsFit
<1> QED BY <1>3, <1>9, <1>10, <1>11 DEF BranchesInductive

LEMMA CommandKept == ASSUME BranchesInductive, Command PROVE BranchesInductive'
<1>1. PICK b \in Names :
         \/ \E from \in Existing, empty \in BOOLEAN : Create(b, from, empty)
         \/ \E inside \in BOOLEAN : Drop(b, inside) \/ Switch(b, inside)
         \/ \E to \in Names, via \in Existing, inside \in BOOLEAN : Rename(b, to, via, inside)
         \/ Wipe(b)
         \/ \E apply \in BOOLEAN : Merge(b, apply) \/ \E via \in Existing : Rebase(b, via, apply)
  BY DEF Command
<1>2. CASE \E from \in Existing, empty \in BOOLEAN : Create(b, from, empty)
  BY <1>2, CreateKept
<1>3. CASE \E inside \in BOOLEAN : Drop(b, inside) \/ Switch(b, inside)
  BY <1>3, DropKept, SwitchKept
<1>4. CASE \E to \in Names, via \in Existing, inside \in BOOLEAN : Rename(b, to, via, inside)
  BY <1>4, RenameKept
<1>5. CASE Wipe(b)
  BY <1>5, WipeKept
<1>6. CASE \E apply \in BOOLEAN : Merge(b, apply)
  BY <1>6, MergeKept
<1>7. CASE \E apply \in BOOLEAN : \E via \in Existing : Rebase(b, via, apply)
  BY <1>7, RebaseKept
<1> QED BY <1>1, <1>2, <1>3, <1>4, <1>5, <1>6, <1>7

LEMMA BranchesKept == BranchesInductive /\ [BranchesNext]_branching => BranchesInductive'
<1> SUFFICES ASSUME BranchesInductive, [BranchesNext]_branching PROVE BranchesInductive'
  OBVIOUS
<1>1. CASE UNCHANGED branching
  BY <1>1, BranchesStand
<1>2. CASE Command
  BY <1>2, CommandKept
<1>3. CASE \/ CreateOnSwitch \/ WriteStash \/ WriteCredentials \/ MakeTemp \/ RenameBranch
  BY <1>3, CreateOnSwitchKept, WriteStashKept, WriteCredentialsKept, MakeTempKept, RenameBranchKept
<1>4. CASE \/ Clone \/ Compare \/ RemoveFiles \/ CopyFiles \/ ApplyRebased \/ DropSource \/ RenameTemp
  BY <1>4, CloneKept, CompareKept, RemoveFilesKept, CopyFilesKept, ApplyRebasedKept, DropSourceKept,
     RenameTempKept
<1>5. CASE CopyMerged \/ ApplyMerged \/ EndCommand
  BY <1>5, CopyMergedKept, ApplyMergedKept, EndCommandKept
<1>6. CASE \E crash \in BOOLEAN : Fail(crash)
  BY <1>6, FailKept
<1>7. CASE CheckoutFiles
  BY <1>7, CheckoutKept
<1>8. CASE Migrate
  BY <1>8, MigrateKept
<1>9. CASE \E s \in Bodies : CreateMigration(s)
  BY <1>9, CreateMigrationKept
<1> QED BY <1>1, <1>2, <1>3, <1>4, <1>5, <1>6, <1>7, <1>8, <1>9 DEF BranchesNext, Step

LEMMA BranchesFollow == BranchesInductive => BranchesInv
<1> SUFFICES ASSUME BranchesInductive PROVE BranchesInv
  OBVIOUS
<1>1. BranchesTyped /\ CommandFits /\ WorkFits /\ RecordsFit
  BY DEF BranchesInductive
<1>2. Existing \subseteq Names \cup Temps /\ {stash, creds} \subseteq Names
  BY <1>1, TempIs DEF BranchesTyped
<1>3. ~astray => work = StillThere(branches, files)
  BY <1>1 DEF WorkFits, Found, StillThere, Existing
<1>4. CurrentExists
  <2> SUFFICES ASSUME Usual PROVE stash = creds /\ stash \in Existing /\ Existing \cap Temps = {}
    BY DEF CurrentExists
  <2>1. stash = creds /\ stash \in Existing /\ Temp \notin Existing
    BY <1>1 DEF Usual, RecordsFit, AtOnce, OneBranch
  <2> QED BY <1>1, <2>1, BranchesAssumption DEF BranchesTyped
<1> QED BY <1>2, <1>3, <1>4 DEF BranchesInv

\* No step but the last of a rebase or a merge leaves it nothing to do
LEMMA LastSteps ==
    ASSUME BranchesInductive, [BranchesNext]_branching, cmd.todo # <<>>, cmd'.op = cmd.op, cmd'.todo = <<>>,
           cmd.op \in {"rebase", "merge"}
    PROVE  RenameTemp \/ ApplyMerged
<1>1. BranchesTyped /\ CommandFits /\ cmd \in BranchCommands
  BY DEF BranchesInductive, BranchesTyped
<1>2. ~UNCHANGED branching
  BY DEF branching
<1>3. ~Command /\ ~CheckoutFiles /\ ~Migrate /\ \A s \in Bodies : ~CreateMigration(s)
  <2>1. \A op, todo, to, via, inside : ~BeginCommand(op, todo, to, via, inside)
    BY DEF BeginCommand
  <2>2. ~Command
    <3>1. ASSUME NEW b, NEW from, NEW empty, Create(b, from, empty) PROVE FALSE
      BY <2>1, <3>1 DEF Create
    <3>2. ASSUME NEW b, NEW inside, Drop(b, inside) \/ Switch(b, inside) PROVE FALSE
      BY <2>1, <3>2 DEF Drop, Switch
    <3>3. ASSUME NEW b, NEW to, NEW via, NEW inside, Rename(b, to, via, inside) PROVE FALSE
      BY <2>1, <3>3 DEF Rename
    <3>4. ASSUME NEW b, NEW apply, Wipe(b) \/ Merge(b, apply) PROVE FALSE
      BY <2>1, <3>4 DEF Wipe, Merge
    <3>5. ASSUME NEW to, NEW via, NEW apply, Rebase(to, via, apply) PROVE FALSE
      BY <2>1, <3>5 DEF Rebase
    <3> QED BY <3>1, <3>2, <3>3, <3>4, <3>5, Zenon DEF Command
  <2>3. cmd.op # "none"
    BY <1>1 DEF CommandFits, AtOnce
  <2> QED BY <2>2, <2>3 DEF CheckoutFiles, Migrate, CreateMigration
<1>4. ~EndCommand /\ \A crash \in BOOLEAN : ~Fail(crash)
  BY IdleIs DEF EndCommand, Fail
<1>5. ~CreateOnSwitch /\ ~WriteStash /\ ~WriteCredentials /\ ~MakeTemp /\ ~RenameBranch
  <2>1. \A s \in {"create", "stash", "creds", "makeTemp", "rename"} : ~AtStep(s)
    BY <1>1, StepOf
  <2> QED BY <2>1 DEF CreateOnSwitch, WriteStash, WriteCredentials, MakeTemp, RenameBranch
<1>6. ASSUME NEW s \in {"clone", "compare", "remove", "copy", "apply", "dropSource"},
             AtStep(s), cmd'.todo = Tail(cmd.todo)
      PROVE  FALSE
  <2>1. cmd.op \in Rebases /\ RebaseFits
    BY <1>1, <1>6, StepOf
  <2>2. \/ cmd.todo \in {Cloning(cmd.op), Comparing(cmd.op), Removing(cmd.op), CopyingFiles(cmd.op)}
        \/ cmd.todo \in {Applying("rebase"), <<"dropSource", "renameTemp">>}
    BY <1>1, <1>6, <2>1, RebaseAt
  <2>3. Tail(cmd.todo) # <<>>
    <3>1. \A op \in Rebases :
             /\ Tail(Cloning(op)) = Comparing(op) /\ Tail(Comparing(op)) = Removing(op)
             /\ Tail(Removing(op)) = CopyingFiles(op) /\ Tail(CopyingFiles(op)) = Applying(op)
             /\ Comparing(op) # <<>> /\ Removing(op) # <<>>
             /\ CopyingFiles(op) # <<>> /\ Applying(op) # <<>>
      BY StepsOf
    <3>2. CASE cmd.todo \in {Cloning(cmd.op), Comparing(cmd.op)}
      BY <2>1, <3>1, <3>2
    <3>3. CASE cmd.todo \in {Removing(cmd.op), CopyingFiles(cmd.op)}
      BY <2>1, <3>1, <3>3
    <3>4. CASE cmd.todo \in {Applying("rebase"), <<"dropSource", "renameTemp">>}
      BY <3>4, StepsOf
    <3> QED BY <2>2, <3>2, <3>3, <3>4
  <2> QED BY <1>6, <2>3
<1>7. ~Clone /\ ~RemoveFiles /\ ~CopyFiles /\ ~ApplyRebased /\ ~DropSource
  <2>1. ASSUME NEW s, AtStep(s), Pop PROVE cmd'.todo = Tail(cmd.todo)
    BY <1>1, <2>1, PopIs
  <2> QED BY <1>6, <2>1 DEF Clone, RemoveFiles, CopyFiles, ApplyRebased, DropSource
<1>8. ~Compare
  <2>1. ASSUME Compare PROVE FALSE
    <3>1. PICK todo, new : cmd' = [cmd EXCEPT !.todo = todo, !.new = new] /\ todo = Tail(cmd.todo)
      BY <2>1 DEF Compare
    <3>2. cmd'.todo = Tail(cmd.todo)
      BY <1>1, <3>1 DEF BranchCommands
    <3> QED BY <1>6, <2>1, <3>2 DEF Compare
  <2> QED BY <2>1
<1>9. ~CopyMerged
  <2>1. ASSUME CopyMerged PROVE FALSE
    <3>1. AtStep("copyMerged") /\ Pop
      BY <2>1 DEF CopyMerged
    <3>2. cmd'.todo = Tail(cmd.todo) /\ cmd.op \in Merges /\ MergeFits
      BY <1>1, <3>1, PopIs, StepOf
    <3>3. cmd.todo = <<"copyMerged", "applyMerged">>
      BY <1>1, <3>1, <3>2, MergeAt DEF Merges
    <3> QED BY <3>2, <3>3, StepsOf
  <2> QED BY <2>1
<1> QED BY <1>2, <1>3, <1>4, <1>5, <1>7, <1>8, <1>9 DEF BranchesNext, Step

\* No migration that a branch had and nobody dropped is lost, whatever step of a rebase
\* fails, as long as the commands are run in the project and on its branch; and when no
\* command failed the project and the credentials name one branch that exists and no
\* temporary branch is left (do_rebase, rebase::main and its cleanup,
\* update_current_branch).  A migration that was not applied yet, and what a finished
\* `rebase --no-apply` left in migrations/ only, is not promised.
THEOREM BranchesHold == BranchesSpec => []BranchesInv
<1>1. BranchesInductive /\ [BranchesNext]_branching => BranchesInductive'
  BY BranchesKept
<1> QED BY <1>1, BranchesStart, BranchesFollow, PTL DEF BranchesSpec

\* A rebase without --no-apply ends with the current branch at the history of the
\* directory, which begins with that of the other branch and has every migration that
\* the current one had; so does a merge without --no-apply in a directory that held the
\* history of the current branch.  Every command is run in the project and for its branch
\* (get_diverging_migrations, flatten, fix_migration_ids).
THEOREM BranchesKeepFiles == BranchesSpec => BranchFollowsFiles
<1>1. BranchesInductive /\ [BranchesNext]_branching => BranchesInductive'
  BY BranchesKept
<1>2. ASSUME BranchesInductive, [BranchesNext]_branching
      PROVE  [/\ cmd.todo # <<>> /\ cmd'.op = cmd.op /\ cmd'.todo = <<>>
              /\ ~astray /\ (cmd.op = "rebase" \/ (cmd.op = "merge" /\ cmd.synced))
              => LET h == branches'[stash]
                 IN /\ files' = Ancestors(h) /\ IsPrefix(branches[cmd.to], h)
                    /\ ToSet(cmd.was) \subseteq ToSet(h)]_branching
  <2> SUFFICES ASSUME cmd.todo # <<>>, cmd'.op = cmd.op, cmd'.todo = <<>>, ~astray,
                      cmd.op = "rebase" \/ (cmd.op = "merge" /\ cmd.synced)
               PROVE  /\ files' = Ancestors(branches'[stash])
                      /\ IsPrefix(branches[cmd.to], branches'[stash])
                      /\ ToSet(cmd.was) \subseteq ToSet(branches'[stash])
    OBVIOUS
  <2>1. RenameTemp \/ ApplyMerged
    BY <1>2, LastSteps
  <2>2. CASE RenameTemp
    <3>1. cmd.op = "rebase"
      <4>1. AtStep("renameTemp")
        BY <2>2 DEF RenameTemp
      <4>2. cmd.op \in Rebases
        BY <1>2, <4>1, StepOf DEF BranchesInductive
      <4> QED BY <4>2 DEF Rebases
    <3> QED BY <1>2, <2>2, <3>1, RenameTempKept
  <2>3. CASE ApplyMerged
    <3>1. cmd.op = "merge"
      <4>1. AtStep("applyMerged")
        BY <2>3 DEF ApplyMerged
      <4>2. cmd.op \in Merges
        BY <1>2, <4>1, StepOf DEF BranchesInductive
      <4> QED BY <4>2 DEF Merges, Rebases
    <3> QED BY <1>2, <2>3, <3>1, ApplyMergedKept
  <2> QED BY <2>1, <2>2, <2>3
<1> QED BY <1>1, <1>2, BranchesStart, PTL DEF BranchesSpec, BranchFollowsFiles

=============================================================================
