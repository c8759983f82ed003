------------------------------ MODULE Versions ------------------------------
(***************************************************************************)
(* Versions of the server, the filters that users and gel.toml give, and   *)
(* the queries made from both (portable/ver.rs, registry/types.rs).        *)
(***************************************************************************)
EXTENDS Naturals, Sequences, FiniteSets

CONSTANTS
    Versions, \* versions of the server that may be released
    Filters   \* filters that a user may give

VARIABLES
    released, \* versions in the catalog
    asked,    \* the filter given
    chosen    \* versions selected: first by the user, then from gel.toml

selection == <<released, asked, chosen>>

Prereleases == {"alpha", "beta", "rc"}

\* the order of MinorVersion; "minor" is a release
Kinds == <<"alpha", "beta", "rc", "dev", "minor">>
Rank(kind) == CHOOSE i \in DOMAIN Kinds : Kinds[i] = kind
MinorKinds == {"alpha", "beta", "rc", "dev", "minor"}

ASSUME VersionsAssumption ==
    IsFiniteSet(Versions) /\ Versions \subseteq [major : Nat, kind : MinorKinds, n : Nat]
ASSUME FiltersAssumption ==
    Filters \subseteq [major : Nat, kind : MinorKinds \cup {"any"}, n : Nat, exact : BOOLEAN]

Earlier(v, w) ==
    \/ v.major < w.major
    \/ v.major = w.major /\ Rank(v.kind) < Rank(w.kind)
    \/ v.major = w.major /\ v.kind = w.kind /\ v.n < w.n

(* Filter: kind "any" when only the major version is given *)

Wanted(f) == IF f.kind = "any" THEN [kind |-> "minor", n |-> 0] ELSE [kind |-> f.kind, n |-> f.n]

MatchesExact(f, v) ==
    v.major = f.major /\ [kind |-> v.kind, n |-> v.n] = Wanted(f)

\* a prerelease is not followed by the releases
MatchesOwnKind(f, v) ==
    LET q == Wanted(f)
    IN IF f.exact THEN MatchesExact(f, v) ELSE v.major = f.major /\ v.kind = q.kind /\ v.n >= q.n

\* matches_specific: releases are upgradeable, prereleases match later ones and
\* the releases, except that before 2.0 each prerelease stands alone
MatchesSpecific(f, v) ==
    LET q == Wanted(f)
    IN IF f.exact THEN MatchesExact(f, v)
       ELSE /\ v.major = f.major
            /\ \/ v.kind = q.kind /\ v.n = q.n
               \/ v.kind = "minor" /\ q.kind = "minor" /\ v.n >= q.n
               \/ v.kind = "minor" /\ q.kind # "minor" /\ v.major # 1
               \/ /\ {v.kind, q.kind} \subseteq Prereleases /\ v.major # 1
                  /\ \/ Rank(v.kind) > Rank(q.kind)
                     \/ v.kind = q.kind /\ v.n >= q.n

\* is_compatible: an instance of version v may run with w on the same data
Compatible(v, w) ==
    /\ v.major = w.major
    /\ \/ v.kind = "rc" /\ w.kind \in {"rc", "minor"}
       \/ v.kind = "minor" /\ w.kind = "minor"
       \/ v = w

(* Channels and queries *)

\* Channel::from_version and from_filter
Channel(v) ==
    IF v.kind = "dev" THEN "nightly"
    ELSE IF v.kind \in Prereleases /\ v.major > 2 THEN "testing" ELSE "stable"

\* Query::from_filter
QueryOfFilter(f) == [channel |-> Channel(f), filter |-> f]

\* Query::from_version: the version and what may replace it; the number of a
\* nightly becomes that of a release
QueryOf(v) ==
    [channel |-> IF v.kind = "dev" THEN "nightly"
                 ELSE IF v.kind \in {"alpha", "beta"} /\ v.major > 1 THEN "testing"
                 ELSE IF v.kind = "rc" /\ v.major > 2 THEN "testing" ELSE "stable",
     filter |-> [major |-> v.major, kind |-> IF v.kind = "dev" THEN "minor" ELSE v.kind,
                 n |-> v.n, exact |-> FALSE]]

\* what parsing makes of a filter that was printed: `=` needs a minor version
Reparsed(f) == [f EXCEPT !.exact = @ /\ f.kind # "any"]

\* as_config_value and Query::from_str: gel.toml keeps the filter, not the channel
Reread(q) == QueryOfFilter(Reparsed(q.filter))

\* print_version_hint suggests a filter, when this one does not name the version
Hinted(f, v) == ~MatchesExact(f, v)
Hint(f) == Reparsed([f EXCEPT !.exact = TRUE])

(* Selection of a package *)

Latest(vs) == CHOOSE v \in vs : \A w \in vs : ~Earlier(v, w)
Matching(f) == {v \in released : MatchesSpecific(f, v)}

SelectionInit == released \in SUBSET Versions /\ asked \in Filters /\ chosen = <<>>

\* select_server_package_from_packages
Choose ==
    /\ chosen = <<>> /\ Matching(asked) # {} /\ chosen' = <<Latest(Matching(asked))>>
    /\ UNCHANGED <<released, asked>>

\* `project init` wrote the query to gel.toml; on another machine it is read
ChooseAgain ==
    /\ Len(chosen) = 1 /\ Matching(Reread(QueryOf(chosen[1])).filter) # {}
    /\ chosen' = Append(chosen, Latest(Matching(Reread(QueryOf(chosen[1])).filter)))
    /\ UNCHANGED <<released, asked>>

SelectionNext == Choose \/ ChooseAgain

SelectionSpec == SelectionInit /\ [][SelectionNext]_selection

(* Properties *)

\* Whatever order the two kinds of minor versions have (MinorVersion is compared,
\* FilterMinor matches), the version selected is the newest of its major version
\* unless the filter is exact; and the query that `project init` writes to gel.toml
\* selects that version again, or a newer one that the exact filter kept out
\* (matches_specific, from_version, as_config_value).  Nightlies, which gel.toml
\* cannot name, and 1.x, whose prereleases stand alone, are left out.
SelectionIsStable ==
    /\ chosen # <<>> /\ ~asked.exact /\ chosen[1].kind # "dev" /\ chosen[1].major # 1 =>
          \A v \in released : v.major = chosen[1].major /\ v.kind # "dev" => ~Earlier(chosen[1], v)
    /\ Len(chosen) = 1 /\ chosen[1].kind # "dev" => Matching(Reread(QueryOf(chosen[1])).filter) # {}
    /\ Len(chosen) = 2 /\ chosen[1].kind # "dev" =>
          \/ chosen[2] = chosen[1]
          \/ Earlier(chosen[1], chosen[2]) /\ asked.exact

\* The filter that the hint suggests for "exact version" names the version that was
\* selected, and no other (print_version_hint).
HintNamesTheVersion ==
    chosen # <<>> /\ Hinted(asked, chosen[1]) =>
        \A v \in released : MatchesSpecific(Hint(asked), v) <=> v = chosen[1]

=============================================================================
