----------------------------- MODULE Proposals -----------------------------
(***************************************************************************)
(* `migration create`: the server proposes the statements of a migration   *)
(* one group at a time, the user or a policy answers, and the answers can  *)
(* be taken back (src/src/migrations/create.rs).                           *)
(*                                                                         *)
(* The server is external: the schema differs in the Items; for each it    *)
(* has suggestions, and it proposes the first that was not rejected.  What *)
(* was confirmed and rejected belongs to the transaction, so that savepoints*)
(* bring it back.                                                          *)
(***************************************************************************)
EXTENDS Integers, Sequences, SequencesExt, FiniteSets

CONSTANT Items   \* a sequence of sequences of proposals, as the server would make them

ASSUME ItemsAssumption ==
    \A i \in DOMAIN Items : \A s \in DOMAIN Items[i] :
        Items[i][s].size \in Nat \ {0} /\ Items[i][s].input \in {"none", "fill", "other"}

VARIABLES
    how,         \* "interactive", "safe" (--non-interactive), "unsafe" (--allow-unsafe),
                 \* or the "first" migration
    stage,       \* where the command is
    current,     \* the migration of the server: statements confirmed, proposals
                 \* rejected and, for the properties, prompts the user said yes to
    savepoints,  \* the migrations that the savepoints migration_<n> hold
    save_point, operations,
    written      \* the statements of the file, or Unwritten

proposals == <<how, stage, current, savepoints, save_point, operations, written>>

Unwritten == "unwritten"
All == UNION {{<<i, s>> : s \in DOMAIN Items[i]} : i \in DOMAIN Items}
At(p) == Items[p[1]][p[2]]

(* The server *)

Statements(p) == {<<p, n>> : n \in 1..At(p).size}
Resolved(m, i) == \E s \in DOMAIN Items[i] : Statements(<<i, s>>) \subseteq m.confirmed
Open(m) == {i \in DOMAIN Items : ~Resolved(m, i)}
Offers(m) == {p \in All : p[1] \in Open(m) /\ p \notin m.rejected
                          /\ \A i \in Open(m) : p[1] <= i
                          /\ \A s \in 1..(p[2] - 1) : <<p[1], s>> \in m.rejected}
Complete(m) == Open(m) = {}
Reject(m, p) == [m EXCEPT !.rejected = @ \cup {p}]

(* The command *)

Stage(s) == stage' = s /\ UNCHANGED <<how, operations, save_point, savepoints, written>>
Turn(s) == Stage(s) /\ UNCHANGED current
Abandon == Turn("failed")

SavePoint(m) == savepoints' = Append(SubSeq(savepoints, 1, save_point'), m)
Rollback(n) == current' = savepoints[n + 1] /\ savepoints' = SubSeq(savepoints, 1, n + 1)

ProposalsInit ==
    /\ how \in {"interactive", "safe", "unsafe", "first"} /\ stage = "start"
    /\ current = [confirmed |-> {}, rejected |-> {}, granted |-> {}]
    /\ savepoints = <<>> /\ save_point = 0 /\ operations = <<{}>> /\ written = Unwritten

\* first_migration: the server answers every question itself
Populate ==
    /\ current' = [current EXCEPT !.confirmed = UNION {Statements(p) : p \in {q \in All : q[2] = 1}}]
    /\ Stage("finish")
\* execute_start_migration: a schema that is invalid, or a database that is not at
\* the newest revision of the directory, ends the command
StartProposals(valid, upToDate) ==
    /\ stage = "start"
    /\ \/ ~(valid /\ upToDate) /\ Abandon
       \/ valid /\ upToDate /\ how = "first" /\ Populate
       \/ /\ valid /\ upToDate /\ how # "first" /\ stage' = "describe"
          /\ savepoints' = IF how = "interactive" THEN <<current>> ELSE <<>>
          /\ UNCHANGED <<how, current, save_point, operations, written>>

Offered == CHOOSE p \in Offers(current) : TRUE
\* `approved as part of an earlier prompt`
AlreadyApproved(p) == At(p).prompt \in Last(operations)

Describe ==
    /\ stage = "describe"
    /\ Turn(CASE Complete(current) -> "finish"
               [] ~Complete(current) /\ Offers(current) = {} -> "failed"
               [] OTHER -> IF how = "interactive"
                           THEN IF AlreadyApproved(Offered) THEN "input" ELSE "ask"
                           ELSE "decide")

(* process_proposal *)

Yes == stage = "ask" /\ Turn("input")
No == /\ stage = "ask" /\ stage' = "describe"
      /\ current' = Reject(current, Offered)
      /\ save_point' = save_point + 1 /\ SavePoint(current')
      /\ UNCHANGED <<how, operations, written>>
\* a mutant of Back
BackKeepingOperations ==
    /\ stage = "ask" /\ save_point > 0 /\ stage' = "describe"
    /\ save_point' = save_point - 1 /\ Rollback(save_point')
    /\ UNCHANGED <<how, operations, written>>
Back == /\ stage = "ask" /\ save_point > 0 /\ stage' = "describe"
        /\ save_point' = save_point - 1 /\ Rollback(save_point')
        /\ operations' = SubSeq(operations, 1, Min({save_point' + 1, Len(operations)})) \* truncate
        /\ UNCHANGED <<how, written>>
Split == stage = "ask" /\ Turn("finish")
Quit == stage = "ask" /\ Turn("failed")

\* get_user_input: an expression for each placeholder; the end of the input is a
\* refusal, which asks again for the answer or, if there was no question, the input
Input ==
    /\ stage = "input" /\ Stage("statements")
    /\ current' = IF AlreadyApproved(Offered) THEN current
                  ELSE [current EXCEPT !.granted = @ \cup {At(Offered).prompt}]
RefuseInput ==
    /\ stage = "input" /\ At(Offered).input # "none" /\ ~AlreadyApproved(Offered)
    /\ Turn("ask")

Executed == Cardinality(Statements(Offered) \cap current.confirmed)
Statement ==
    /\ stage = "statements"
    /\ current' = [current EXCEPT !.confirmed = @ \cup {<<Offered, Executed + 1>>}]
    /\ IF Executed + 1 < At(Offered).size
       THEN stage' = stage /\ UNCHANGED <<how, save_point, savepoints, operations, written>>
       ELSE /\ stage' = "describe"
            /\ operations' = Append(operations, Last(operations) \cup {At(Offered).prompt})
            /\ save_point' = save_point + 1 /\ SavePoint(current')
            /\ UNCHANGED <<how, written>>
\* a statement that fails; a connection that broke ends the command
StatementFails(consistent) ==
    /\ stage = "statements"
    /\ IF consistent
       THEN /\ stage' = "describe" /\ Rollback(save_point)
            /\ UNCHANGED <<how, save_point, operations, written>>
       ELSE Turn("failed")

(* Without questions *)

\* non_interactive_populate and unsafe_populate: what neither decides ends it
Decide ==
    /\ stage = "decide"
    /\ LET p == At(Offered)
           willing == IF how = "safe" THEN p.safe /\ p.input = "none"
                      ELSE p.input # "other" \* make_default_expression
       IN Turn(IF willing THEN "apply" ELSE "failed")
\* apply_proposal: its statements or, rolled back to a savepoint of its own, none
ApplyProposal ==
    /\ stage = "apply" /\ Stage("describe")
    /\ current' = [current EXCEPT !.confirmed = @ \cup Statements(Offered)]
ApplyFails(query) ==
    /\ stage = "apply"
    /\ IF how = "unsafe" /\ query
       THEN Stage("describe") /\ current' = Reject(current, Offered)
       ELSE Turn("failed")

\* run_interactive, run_non_interactive, write_migration; ABORT MIGRATION follows
FinishProposals(allow_empty) ==
    /\ stage = "finish"
    /\ IF current.confirmed = {} /\ ~allow_empty
       THEN Abandon
       ELSE /\ stage' = "done" /\ written' = current.confirmed
            /\ UNCHANGED <<how, current, savepoints, save_point, operations>>

ProposalsNext ==
    \/ \E valid, upToDate \in BOOLEAN : StartProposals(valid, upToDate)
    \/ Describe
    \/ Yes \/ No \/ Back \/ Split \/ Quit \/ Input \/ RefuseInput \/ Statement
    \/ \E consistent \in BOOLEAN : StatementFails(consistent)
    \/ Decide \/ ApplyProposal \/ \E query \in BOOLEAN : ApplyFails(query)
    \/ \E allow_empty \in BOOLEAN : FinishProposals(allow_empty)

ProposalsSpec == ProposalsInit /\ [][ProposalsNext]_proposals
(* Properties *)

\* Whatever fails and whatever is taken back, the migration consists of whole
\* proposals, each of which was the user's answer: a prompt whose approval was taken
\* back with `back` is asked again (process_proposal, apply_proposal).  With a rejection
\* in force this is not so, see ApprovalsReverted.
ProposalsInv ==
    /\ stage \notin {"statements", "failed"} =>
          \E whole \in SUBSET All : current.confirmed = UNION {Statements(p) : p \in whole}
    /\ how = "interactive" /\ current.rejected = {} =>
          \A x \in current.confirmed : At(x[1]).prompt \in current.granted

\* `back` reverts "latest accepted statements": none is applied as "approved as part of
\* an earlier prompt" when its approval has been reverted.
ApprovalsReverted ==
    how = "interactive" =>
        \A x \in current.confirmed : At(x[1]).prompt \in current.granted

=============================================================================
