------------------------------ MODULE Registry ------------------------------
(***************************************************************************)
(* Loading the catalog of packages from the configured sources: manifests  *)
(* and indexes are fetched at most Limit at a time and arrive in any       *)
(* order; what they hold is composed in the order of the configuration.    *)
(***************************************************************************)
EXTENDS Naturals, FiniteSets, SequencesExt

CONSTANTS
    Sources,   \* how many sources the configuration has
    Documents, \* what a source may serve
    Limit      \* MAX_CONCURRENT_SOURCE_LOADS

VARIABLES
    served,    \* what each source serves
    phase,     \* "manifests", "indexes" or "composed"
    queue,     \* inputs that wait, in order
    flying,    \* inputs being fetched
    arrived,   \* inputs fetched, in the order of arrival
    catalog,   \* the result: "unavailable" when no source is healthy
    reports    \* SourceReport of each source

registry == <<served, phase, queue, flying, arrived, catalog, reports>>

\* What a source or an index comes to
Ok(body) == [state |-> "ok", body |-> body]
Failure(state) == [state |-> state, body |-> <<>>]
Failed(outcome) == outcome.state # "ok"

\* An input is <<source, index>>; index 0 stands for the manifest.  A legacy
\* package root is a source with one index.
Manifest(i) == <<i, 0>>
Before(a, b) == a[1] < b[1] \/ (a[1] = b[1] /\ a[2] < b[2])

RegistryInit ==
    /\ served \in [1..Sources -> Documents]
    /\ phase = "manifests" /\ queue = [i \in 1..Sources |-> Manifest(i)]
    /\ flying = {} /\ arrived = <<>> /\ catalog = Ok(<<>>) /\ reports = <<>>

(* collect_bounded_ordered *)

Fetch ==
    /\ queue # <<>> /\ Cardinality(flying) < Limit
    /\ queue' = Tail(queue) /\ flying' = flying \cup {Head(queue)}
    /\ UNCHANGED <<served, phase, arrived, catalog, reports>>

Arrive(input) ==
    /\ flying' = flying \ {input} /\ arrived' = Append(arrived, input)
    /\ UNCHANGED <<served, phase, queue, catalog, reports>>

AllHere == queue = <<>> /\ flying = {} /\ phase # "composed"

Unsorted(inputs) == inputs

\* the answers are put back into the order of the questions
Collected(inputs) == SortSeq(inputs, Before)

(* The documents *)

\* resolve_configured_source: the indexes that the manifest selects
Indexes(i) == [j \in DOMAIN served[i].body |-> <<i, j>>]

\* validate_package: skipped without a compatible installref, and if it is neither
\* a server, nor a CLI, nor an extension; a bad field rejects the whole index
Skipped(p) == p.kind = "unrelated" \/ (p.refs = "other" /\ p.tags # "bad")
Malformed(p) ==
    /\ p.kind # "unrelated"
    /\ \/ p.refs = "none"
       \/ p.refs = "fits" /\ p.fields = "bad"
       \/ p.kind = "extension" /\ p.tags = "bad"

\* ArtifactIdentity: what the CLI calls one and the same artifact
Identity(a) == <<a.kind, a.version>>

\* load_and_validate_index
Validated(input) ==
    LET index == served[input[1]].body[input[2]]
    IN IF Failed(index) THEN index
       ELSE IF \E p \in ToSet(index.body) : Malformed(p) THEN Failure("rejected")
       ELSE Ok(SelectSeq([k \in DOMAIN index.body |-> [index.body[k] EXCEPT !.from = input]],
                         LAMBDA p : ~Skipped(p)))

\* SourceAccumulator: the first failure of an index is that of the source
Accumulated(i, inputs) ==
    LET own == SelectSeq(inputs, LAMBDA input : input[1] = i)
        failed == SelectSeq(own, LAMBDA input : Failed(Validated(input)))
    IN IF Failed(served[i]) THEN served[i]
       ELSE IF failed # <<>> THEN Validated(failed[1])
       ELSE Ok(FlattenSeq([k \in DOMAIN own |-> Validated(own[k]).body]))

(* compose_source_artifacts *)

\* duplicate_relation: the place may differ, never the content (the hash stands
\* for the size and the compression, too)
EquivalentMirror(a, b) == a.hash = b.hash /\ (a.kind = "cli" \/ a.tags = b.tags)

FirstOfKind(composed, a) ==
    LET same == SelectSeq(composed.artifacts, LAMBDA b : Identity(b) = Identity(a))
    IN IF Identity(a) \in composed.contested THEN composed
       ELSE IF same = <<>> THEN [composed EXCEPT !.artifacts = Append(@, a)]
       ELSE IF EquivalentMirror(same[1], a) THEN composed
       ELSE [composed EXCEPT !.contested = @ \cup {Identity(a)}]

Composed(outcomes) ==
    LET offered == FlattenSeq([i \in DOMAIN outcomes |-> outcomes[i].body])
        all == FoldLeft(FirstOfKind, [artifacts |-> <<>>, contested |-> {}], offered)
    IN IF \A i \in DOMAIN outcomes : Failed(outcomes[i]) THEN Failure("unavailable")
       ELSE Ok(SelectSeq(all.artifacts, LAMBDA a : Identity(a) \notin all.contested))

CollectManifests ==
    /\ AllHere /\ phase = "manifests" /\ phase' = "indexes"
    /\ queue' = FlattenSeq([k \in DOMAIN arrived |-> Indexes(Collected(arrived)[k][1])])
    /\ arrived' = <<>> /\ UNCHANGED <<served, flying, catalog, reports>>

CollectIndexes ==
    /\ AllHere /\ phase = "indexes" /\ phase' = "composed"
    /\ LET outcomes == [i \in 1..Sources |-> Accumulated(i, Collected(arrived))]
       IN /\ catalog' = Composed(outcomes)
          /\ reports' = [i \in 1..Sources |-> outcomes[i].state]
    /\ UNCHANGED <<served, queue, flying, arrived>>

RegistryNext ==
    \/ Fetch \/ CollectManifests \/ CollectIndexes
    \/ \E input \in flying : Arrive(input)

(* Properties *)

\* What the configuration and the documents say, whatever the order of arrival
Healthy(i) ==
    /\ ~Failed(served[i])
    /\ \A index \in ToSet(served[i].body) :
          ~Failed(index) /\ \A p \in ToSet(index.body) : ~Malformed(p)
Offered ==
    UNION {UNION {{[p EXCEPT !.from = <<i, j>>] : p \in ToSet(served[i].body[j].body)} :
                  j \in DOMAIN served[i].body} : i \in {h \in 1..Sources : Healthy(h)}}

\* The catalog does not depend on the order in which concurrent fetches end: it
\* holds exactly the artifacts that every healthy source agrees on, each from the
\* first source and index of the configuration that has it; it takes nothing from a
\* source of which one index failed; and it is an error only when no source is
\* healthy (Catalog::load, SourceAccumulator, compose_source_artifacts).
CatalogIsReference ==
    phase = "composed" =>
        /\ Failed(catalog) <=> \A i \in 1..Sources : ~Healthy(i)
        /\ ToSet(catalog.body) = {a \in Offered :
              /\ ~Skipped(a)
              /\ \A b \in Offered : ~Skipped(b) /\ Identity(b) = Identity(a) =>
                    EquivalentMirror(a, b) /\ ~Before(b.from, a.from)}
        /\ \A i \in 1..Sources : reports[i] = "ok" <=> Healthy(i)

=============================================================================
