------------------------------ MODULE Packages ------------------------------
(***************************************************************************)
(* The server packages under portable/: installed from a download through  *)
(* a temporary directory, used by instances, and uninstalled when no       *)
(* instance uses them.  Commands of several processes interleave: nothing  *)
(* locks a package.                                                        *)
(***************************************************************************)
EXTENDS Naturals, FiniteSets

CONSTANTS Procs, Packages, Instances, None, MaxCommands, MaxFaults

ASSUME PackagesAssumption == None \notin Packages

VARIABLES
    dir, tmp, \* parts in portable/<version> and in portable/.~<version>.tmp
    cache,    \* the download of each package: "none", "part" or "whole"
    uses,     \* version that instance_info.json of each instance names
    job,      \* what each process does
    collided, \* two commands got in each other's way on one package (history)
    commands, faults

packages == <<dir, tmp, cache, uses, job, collided, commands, faults>>

Whole == {"dir", "bin", "share", "info"}
Nothing == {}
Idle == [op |-> "none", pc |-> "idle", pkg |-> None, inst |-> None, todo |-> {}]

PackagesInit ==
    /\ dir = [v \in Packages |-> Nothing] /\ tmp = dir
    /\ cache = [v \in Packages |-> "none"] /\ uses = [i \in Instances |-> None]
    /\ job = [p \in Procs |-> Idle] /\ collided = FALSE /\ commands = 0 /\ faults = 0

At(p, pc) == job[p].pc = pc
Goto(p, pc) == job' = [job EXCEPT ![p].pc = pc]
End(p) == job' = [job EXCEPT ![p] = Idle]
bounds == <<collided, commands, faults>>

\* What another process does with the package v: it unpacks v into its temporary directory;
\* it found or installed v and did not yet give it to an instance; it found v unused and
\* did not yet remove it
Unpacked == {"bin", "share", "info", "publish"}
Unpacking(p, v) == \E q \in Procs \ {p} : job[q].pkg = v /\ job[q].pc \in Unpacked
Taking(p, v) == \E q \in Procs \ {p} : job[q].pkg = v /\ job[q].pc \in {"unlink", "use"}
Doomed(p, v) == \E q \in Procs \ {p} : v \in job[q].todo /\ job[q].pc \in {"next", "remove"}
CollideIf(met) == collided' = (collided \/ met) /\ UNCHANGED <<commands, faults>>

Begin(p, op, v, i, pc) ==
    /\ At(p, "idle") /\ commands < MaxCommands /\ commands' = commands + 1
    /\ \A q \in Procs : i = None \/ job[q].inst # i \* the lock of the instance
    /\ job' = [job EXCEPT ![p] = [op |-> op, pc |-> pc, pkg |-> v, inst |-> i, todo |-> {}]]
    /\ UNCHANGED <<dir, tmp, cache, uses, collided, faults>>

(* install::package *)

\* `server install`, or creating or upgrading an instance
Install(p, v, i) == Begin(p, "install", v, i, "check")

\* check_metadata of what is there
Found(p) ==
    /\ At(p, "check") /\ dir[job[p].pkg] # Nothing
    /\ IF "info" \in dir[job[p].pkg] THEN Goto(p, "use") ELSE End(p)
    /\ UNCHANGED <<dir, tmp, cache, uses, bounds>>

\* File::create truncates a download that is there
Download(p) ==
    /\ At(p, "check") /\ dir[job[p].pkg] = Nothing
    /\ cache' = [cache EXCEPT ![job[p].pkg] = "part"] /\ Goto(p, "verify")
    /\ UNCHANGED <<dir, tmp, uses, bounds>>

\* the digest is that of the bytes that came, not of the file
Verified(p) ==
    /\ At(p, "verify") /\ Goto(p, "unpack")
    /\ cache' = [cache EXCEPT ![job[p].pkg] = IF @ = "none" THEN "none" ELSE "whole"]
    /\ UNCHANGED <<dir, tmp, uses, bounds>>

\* unpack_package: what an earlier attempt left is removed first
Unpack(p) ==
    /\ At(p, "unpack") /\ cache[job[p].pkg] # "none" /\ Goto(p, "bin")
    /\ tmp' = [tmp EXCEPT ![job[p].pkg] = {"dir"}]
    /\ CollideIf(Unpacking(p, job[p].pkg)) /\ UNCHANGED <<dir, cache, uses>>
UnpackPart(p, part, next) ==
    /\ At(p, part) /\ cache[job[p].pkg] # "part" /\ tmp[job[p].pkg] # Nothing /\ Goto(p, next)
    /\ tmp' = [tmp EXCEPT ![job[p].pkg] = @ \cup {part}]
    /\ UNCHANGED <<dir, cache, uses, bounds>>

\* write_json makes the directory if it is gone
WriteInfo(p) ==
    /\ At(p, "info") /\ Goto(p, "publish")
    /\ tmp' = [tmp EXCEPT ![job[p].pkg] = @ \cup {"dir", "info"}]
    /\ UNCHANGED <<dir, cache, uses, bounds>>

Publish(p) ==
    LET v == job[p].pkg
    IN /\ At(p, "publish") /\ dir[v] = Nothing /\ tmp[v] # Nothing /\ Goto(p, "unlink")
       /\ dir' = [dir EXCEPT ![v] = tmp[v]] /\ tmp' = [tmp EXCEPT ![v] = Nothing]
       /\ UNCHANGED <<cache, uses, bounds>>
UnlinkCache(p) ==
    /\ At(p, "unlink") /\ Goto(p, "use") /\ cache' = [cache EXCEPT ![job[p].pkg] = "none"]
    /\ UNCHANGED <<dir, tmp, uses, bounds>>

\* the instance_info.json of the instance that is created or upgraded
Use(p) ==
    /\ At(p, "use") /\ End(p)
    /\ uses' = [i \in Instances |-> IF i = job[p].inst THEN job[p].pkg ELSE uses[i]]
    /\ CollideIf(job[p].inst \in Instances /\ Doomed(p, job[p].pkg)) /\ UNCHANGED <<dir, tmp, cache>>

Destroy(i) ==
    /\ uses[i] # None /\ commands < MaxCommands /\ commands' = commands + 1
    /\ \A p \in Procs : job[p].inst # i
    /\ uses' = [uses EXCEPT ![i] = None]
    /\ UNCHANGED <<dir, tmp, cache, job, collided, faults>>

(* uninstall::run *)

Uninstall(p) == Begin(p, "uninstall", None, None, "list")

\* get_installed, and what the options select of it
List(p) ==
    /\ At(p, "list")
    /\ \E todo \in SUBSET {v \in Packages : "info" \in dir[v]} :
          job' = [job EXCEPT ![p].pc = "used", ![p].todo = todo]
    /\ UNCHANGED <<dir, tmp, cache, uses, bounds>>

KeepUsed(p) ==
    /\ At(p, "used")
    /\ job' = [job EXCEPT ![p].pc = "next", ![p].todo = @ \ {uses[i] : i \in Instances}]
    /\ UNCHANGED <<dir, tmp, cache, uses, bounds>>

\* the parts are removed where they are
RemoveInPlace(p) ==
    /\ At(p, "next") /\ \E v \in job[p].todo : dir[v] # Nothing
    /\ \E v \in job[p].todo :
          /\ job' = [job EXCEPT ![p].pc = "remove", ![p].pkg = v]
          /\ dir' = [dir EXCEPT ![v] = @ \ {"bin"}]
    /\ UNCHANGED <<tmp, cache, uses, bounds>>

\* the directory is moved away before it is removed
MoveAway(p) ==
    /\ At(p, "next")
    /\ \E v \in job[p].todo :
          /\ dir[v] # Nothing /\ job' = [job EXCEPT ![p].pc = "remove", ![p].pkg = v]
          /\ dir' = [dir EXCEPT ![v] = Nothing] /\ tmp' = [tmp EXCEPT ![v] = dir[v]]
          /\ CollideIf(Taking(p, v) \/ Unpacking(p, v))
    /\ UNCHANGED <<cache, uses>>
RemoveMoved(p) ==
    /\ At(p, "remove") /\ tmp' = [tmp EXCEPT ![job[p].pkg] = Nothing]
    /\ CollideIf(Unpacking(p, job[p].pkg))
    /\ job' = [job EXCEPT ![p].pc = "next", ![p].todo = @ \ {job[p].pkg}, ![p].pkg = None]
    /\ UNCHANGED <<dir, cache, uses>>
Uninstalled(p) ==
    /\ At(p, "next") /\ job[p].todo = {} /\ End(p)
    /\ UNCHANGED <<dir, tmp, cache, uses, bounds>>

\* A process fails when it cannot go on; or an error, a signal or a crash ends it
Stuck(p) ==
    \/ At(p, "unpack") /\ cache[job[p].pkg] = "none"
    \/ (At(p, "bin") \/ At(p, "share")) /\ (cache[job[p].pkg] = "part" \/ tmp[job[p].pkg] = Nothing)
    \/ At(p, "publish") /\ (dir[job[p].pkg] # Nothing \/ tmp[job[p].pkg] = Nothing)
    \/ At(p, "next") /\ job[p].todo # {} /\ \A v \in job[p].todo : dir[v] = Nothing
Die(p) ==
    /\ ~At(p, "idle")
    /\ \/ Stuck(p) /\ UNCHANGED faults
       \/ ~Stuck(p) /\ faults < MaxFaults /\ faults' = faults + 1
    /\ End(p) /\ UNCHANGED <<dir, tmp, cache, uses, collided, commands>>

PackagesNext ==
    \/ \E i \in Instances : Destroy(i)
    \/ \E p \in Procs :
          \/ \E v \in Packages, i \in Instances \cup {None} : Install(p, v, i)
          \/ Found(p) \/ Download(p) \/ Verified(p) \/ Unpack(p)
          \/ UnpackPart(p, "bin", "share") \/ UnpackPart(p, "share", "info")
          \/ WriteInfo(p) \/ Publish(p) \/ UnlinkCache(p) \/ Use(p)
          \/ Uninstall(p) \/ List(p) \/ KeepUsed(p) \/ MoveAway(p) \/ RemoveMoved(p) \/ Uninstalled(p)
          \/ Die(p)

PackagesSpec == PackagesInit /\ [][PackagesNext]_packages

(* Properties *)

\* What get_installed and `target_dir.exists()` take for an installed package is the whole
\* package, whatever step of an install or an uninstall an error or a crash ended, and the
\* server of every instance is installed, however many installs, upgrades and uninstalls
\* run at once (install::package, uninstall::run).  It holds until two commands collide on
\* one package, which no lock prevents: an install unpacked v, or an uninstall moved or
\* removed v, while another install was unpacking v into the same temporary directory; an
\* uninstall moved v away while another command had it and was about to give it to an
\* instance; or an instance got v after an uninstall had found v unused.  The code may
\* lose the package or the server then.
PackagesInv ==
    ~collided => /\ \A v \in Packages : dir[v] \in {Nothing, Whole}
                 /\ \A i \in Instances : uses[i] # None => dir[uses[i]] = Whole

\* An install publishes the package that it unpacked, even when another process
\* installs the same version.  The code does not keep it.
PublishedPackageIsWhole == \A v \in Packages : dir[v] \in {Nothing, Whole}

=============================================================================
