----------------------------- MODULE MCPackages -----------------------------
(***************************************************************************)
(* Six parts that share no state: a behaviour is one of the selection, of  *)
(* the registry, of the installed packages, of the instances, of the tool  *)
(* itself or of its releases.                                              *)
(***************************************************************************)
EXTENDS Versions, Registry, Packages, Instances, CLI, Release

VARIABLE part

V(major, kind, n) == [major |-> major, kind |-> kind, n |-> n]
MCVersions ==
    {V(1, "minor", 0), V(6, "minor", 0), V(6, "minor", 4), V(7, "alpha", 1), V(7, "rc", 1),
     V(7, "rc", 2), V(7, "minor", 0), V(7, "minor", 1), V(7, "dev", 9)}
F(major, kind, n, exact) == [major |-> major, kind |-> kind, n |-> n, exact |-> exact]
MCFilters ==
    {F(7, "any", 0, FALSE), F(7, "alpha", 1, FALSE), F(7, "rc", 1, FALSE), F(7, "rc", 1, TRUE),
     F(7, "minor", 0, FALSE), F(7, "minor", 0, TRUE), F(6, "minor", 1, FALSE),
     F(7, "dev", 9, FALSE)}

P(kind, version, refs, marks, hash) ==
    [kind |-> kind, version |-> version, refs |-> refs, fields |-> "good", tags |-> marks,
     hash |-> hash, from |-> <<0, 0>>]
Server == P("server", 1, "fits", "none", "x")
MCPackagesOffered ==
    {Server, [Server EXCEPT !.hash = "y"], [Server EXCEPT !.refs = "other", !.version = 2],
     P("extension", 1, "fits", "bad", "x")}
MCDocuments ==
    {Failure("unavailable"), Failure("rejected"), Ok(<<Failure("unavailable")>>)}
    \cup {Ok(<<Ok(<<p>>)>>) : p \in MCPackagesOffered}
    \cup {Ok(<<Ok(<<Server>>), Ok(<<P("cli", 1, "fits", "none", "y"), Server>>)>>),
          Ok(<<Ok(<<P("cli", 1, "fits", "none", "x"), Server>>), Failure("rejected")>>)}

SelectionRests == released = {} /\ asked = F(7, "any", 0, FALSE) /\ chosen = <<>>
RegistryRests ==
    /\ served = <<>> /\ phase = "manifests" /\ queue = <<>> /\ flying = {} /\ arrived = <<>>
    /\ catalog = Ok(<<>>) /\ reports = <<>>

CLIRests == CLIInit /\ host.raw = "nix" /\ host.hard /\ disk[Gel] = 1
InstancesRest == InstancesInit /\ manifest = {}

\* the releases of one line to which much happens, or of two that are prepared together
OneLine == acts = [l \in Lines |-> IF l = 7 THEN MaxActs ELSE 0] /\ pr[7].open /\ ~pr[8].open
TwoLines == acts = [l \in Lines |-> IF l = 7 THEN 1 ELSE 0] /\ ~pr[7].open /\ pr[8].open
ReleaseRests == ReleaseInit /\ \A l \in Lines : acts[l] = 0 /\ ~pr[l].open

Init ==
    \/ part = "selection" /\ SelectionInit /\ RegistryRests /\ PackagesInit /\ InstancesRest /\ CLIRests /\ ReleaseRests
    \/ part = "registry" /\ SelectionRests /\ RegistryInit /\ PackagesInit /\ InstancesRest /\ CLIRests /\ ReleaseRests
    \/ part = "packages" /\ SelectionRests /\ RegistryRests /\ PackagesInit /\ InstancesRest /\ CLIRests /\ ReleaseRests
    \/ part = "instances" /\ SelectionRests /\ RegistryRests /\ PackagesInit /\ InstancesInit /\ CLIRests /\ ReleaseRests
    \/ part = "cli" /\ SelectionRests /\ RegistryRests /\ PackagesInit /\ InstancesRest /\ CLIInit /\ ReleaseRests
    \/ part = "releases" /\ SelectionRests /\ RegistryRests /\ PackagesInit /\ InstancesRest /\ CLIRests
       /\ ReleaseInit /\ (OneLine \/ TwoLines)

\* Bound: processes are alike, and the first that is idle is the next to begin
InTurn ==
    /\ \A p, q \in Procs : p < q /\ At(p, "idle") /\ At(q, "idle") => job'[q] = job[q]
    /\ \A p, q \in Clients : p < q /\ task[p] = IdleTask /\ task[q] = IdleTask => task'[q] = task[q]
    /\ \A p, q \in Installers :
          p < q /\ acting[p].pc = "rest" /\ acting[q].pc = "rest" => acting'[q].pc = "rest"

\* Bound: the last run of the tool finds what the others have left, and meets none
LastAlone == ran < MaxRuns /\ ran' = MaxRuns => \A p \in Installers : acting[p].pc = "rest"

\* Bound: a third task on instances begins where none was cut short
CutBefore == given > 2 => cuts = 0

Next ==
    /\ UNCHANGED part
    /\ \/ part = "selection" /\ SelectionNext /\ UNCHANGED <<registry, packages, instances, cli, release>>
       \/ part = "registry" /\ RegistryNext /\ UNCHANGED <<selection, packages, instances, cli, release>>
       \/ part = "packages" /\ PackagesNext /\ UNCHANGED <<selection, registry, instances, cli, release>>
       \/ part = "instances" /\ InstancesNext /\ UNCHANGED <<selection, registry, packages, cli, release>>
       \/ part = "cli" /\ CLINext /\ UNCHANGED <<selection, registry, packages, instances, release>>
       \/ part = "releases" /\ ReleaseNext /\ UNCHANGED <<selection, registry, packages, instances, cli>>
    /\ InTurn /\ LastAlone

Spec == Init /\ [][Next]_<<part, selection, registry, packages, instances, cli, release>>
=============================================================================
