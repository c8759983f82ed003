--------------------------- MODULE PackagesProofs ---------------------------
(***************************************************************************)
(* Proofs about Packages, Instances and Versions: for any number of        *)
(* processes, packages, instances, project directories and clients, any    *)
(* number of commands, errors and deaths, and any versions and filters.    *)
(***************************************************************************)
EXTENDS Versions, Packages, Instances, FiniteSetTheorems, SequenceTheorems, WellFoundedInduction, TLAPS

InstallSteps == {"check", "verify", "unpack", "bin", "share", "info", "publish", "unlink", "use"}
UninstallSteps == {"list", "used", "next", "remove"}
JobRecord ==
    [op : {"none", "install", "uninstall"}, pc : {"idle"} \cup InstallSteps \cup UninstallSteps,
     pkg : Packages \cup {None}, inst : Instances \cup {None}, todo : SUBSET Packages]
Jobs ==
    {r \in JobRecord : /\ r.pc \in InstallSteps \cup {"remove"} => r.pkg \in Packages
                       /\ r.pc \notin {"next", "remove", "used"} => r.todo = {}}

\* What a command counts on at each of its steps: an install that nobody touches the
\* directory in which it unpacks, and that the package it found or installed stays; an
\* uninstall that no instance uses what it has left to remove
Fits(r, d, t, u) ==
    /\ r.pc = "bin" => t[r.pkg] = {"dir"}
    /\ r.pc = "share" => t[r.pkg] = {"dir", "bin"}
    /\ r.pc = "info" => t[r.pkg] = {"dir", "bin", "share"}
    /\ r.pc = "publish" => t[r.pkg] = Whole
    /\ r.pc \in {"unlink", "use"} => d[r.pkg] = Whole
    /\ r.pc \in {"next", "remove"} => \A i \in Instances : u[i] \notin r.todo

\* Two commands do not unpack the same package at once
Apart(r, s) == r.pc \in Unpacked /\ s.pc \in Unpacked => r.pkg # s.pkg

AllWhole(d, u) ==
    /\ \A v \in Packages : d[v] \in {Nothing, Whole}
    /\ \A i \in Instances : u[i] # None => d[u[i]] = Whole

PackagesTyped ==
    /\ dir \in [Packages -> SUBSET Whole] /\ tmp \in [Packages -> SUBSET Whole]
    /\ uses \in [Instances -> Packages \cup {None}]
    /\ job \in [Procs -> Jobs] /\ collided \in BOOLEAN

Orderly ==
    /\ AllWhole(dir, uses)
    /\ \A p \in Procs : Fits(job[p], dir, tmp, uses)
    /\ \A p, q \in Procs : p # q => Apart(job[p], job[q])

PackagesInductive == PackagesTyped /\ (~collided => Orderly)

(* A process takes a step on its own: the others are where they were, as    *)
(* long as what they count on is. *)
LEMMA JobMoves ==
    ASSUME PackagesInductive, NEW p \in Procs, NEW r \in Jobs,
           job' = [job EXCEPT ![p] = r], collided' \in BOOLEAN, collided => collided',
           dir' \in [Packages -> SUBSET Whole], tmp' \in [Packages -> SUBSET Whole],
           uses' \in [Instances -> Packages \cup {None}],
           Orderly /\ ~collided' =>
               /\ AllWhole(dir', uses') /\ Fits(r, dir', tmp', uses')
               /\ \A q \in Procs \ {p} : Fits(job[q], dir', tmp', uses') /\ Apart(r, job[q])
    PROVE  PackagesInductive'
<1>1. PackagesTyped'
  BY DEF PackagesInductive, PackagesTyped
<1>2. job'[p] = r /\ \A q \in Procs \ {p} : job'[q] = job[q]
  BY DEF PackagesInductive, PackagesTyped
<1>3. ASSUME Orderly, ~collided' PROVE Orderly'
  <2>1. \A q \in Procs : Fits(job'[q], dir', tmp', uses')
    BY <1>2, <1>3
  <2>2. ASSUME NEW q \in Procs, NEW s \in Procs, q # s PROVE Apart(job'[q], job'[s])
    <3>1. Apart(r, job[s]) => Apart(job[s], r)
      BY DEF Apart
    <3>2. CASE q = p
      BY <1>2, <1>3, <2>2, <3>2
    <3>3. CASE s = p
      <4>1. Apart(r, job[q]) => Apart(job[q], r)
        BY DEF Apart
      <4> QED BY <1>2, <1>3, <2>2, <3>3, <4>1
    <3>4. CASE q # p /\ s # p
      BY <1>2, <1>3, <2>2, <3>4 DEF Orderly
    <3> QED BY <3>2, <3>3, <3>4
  <2> QED BY <1>3, <2>1, <2>2 DEF Orderly
<1> QED BY <1>1, <1>3 DEF PackagesInductive

(* A process goes on, or ends, and touches no directory. *)
LEMMA JobGoesOn ==
    ASSUME PackagesInductive, NEW p \in Procs, NEW r \in Jobs, job' = [job EXCEPT ![p] = r],
           UNCHANGED <<dir, tmp, uses, collided>>, r.pc \notin Unpacked,
           Orderly => Fits(r, dir, tmp, uses)
    PROVE  PackagesInductive'
<1>1. /\ dir' \in [Packages -> SUBSET Whole] /\ tmp' \in [Packages -> SUBSET Whole]
      /\ uses' \in [Instances -> Packages \cup {None}] /\ collided' \in BOOLEAN
  BY DEF PackagesInductive, PackagesTyped
<1>2. ASSUME Orderly
      PROVE  /\ AllWhole(dir', uses') /\ Fits(r, dir', tmp', uses')
             /\ \A q \in Procs \ {p} : Fits(job[q], dir', tmp', uses') /\ Apart(r, job[q])
  BY <1>2 DEF Orderly, Apart
<1> QED BY <1>1, <1>2, JobMoves

(* Work on a package leaves a command that does not count on it where it is. *)
LEMMA WorkBeside ==
    ASSUME NEW r, NEW u, NEW v \in Packages, NEW d \in [Packages -> SUBSET Whole],
           NEW t \in [Packages -> SUBSET Whole], NEW x, NEW y, Fits(r, d, t, u),
           x = d[v] \/ x = Whole \/ ~(r.pkg = v /\ r.pc \in {"unlink", "use"}),
           y = t[v] \/ ~(r.pkg = v /\ r.pc \in Unpacked)
    PROVE  Fits(r, [d EXCEPT ![v] = x], [t EXCEPT ![v] = y], u)
<1> DEFINE e == [d EXCEPT ![v] = x]
           s == [t EXCEPT ![v] = y]
<1>1. /\ r.pkg # v => e[r.pkg] = d[r.pkg] /\ s[r.pkg] = t[r.pkg]
      /\ e[v] = x /\ s[v] = y
  OBVIOUS
<1> HIDE DEF e, s
<1>2. r.pc \in Unpacked => s[r.pkg] = t[r.pkg]
  BY <1>1
<1>3. r.pc \in {"unlink", "use"} => e[r.pkg] = Whole
  BY <1>1 DEF Fits
<1>4. Fits(r, e, s, u)
  BY <1>2, <1>3 DEF Fits, Unpacked
<1> QED BY <1>4 DEF e, s

(* A process works on the directories of one package.  Unless it collides   *)
(* with another, it takes nothing away that the other counts on.            *)
LEMMA WorkMoves ==
    ASSUME PackagesInductive, NEW p \in Procs, NEW r \in Jobs, job' = [job EXCEPT ![p] = r],
           collided' \in BOOLEAN, collided => collided', uses' = uses, NEW v \in Packages,
           NEW x \in SUBSET Whole, dir' = [dir EXCEPT ![v] = x],
           NEW y \in SUBSET Whole, tmp' = [tmp EXCEPT ![v] = y],
           Orderly /\ ~collided' =>
               /\ Fits(r, dir', tmp', uses)
               /\ \/ x = dir[v] \/ x = Whole
                  \/ x = Nothing /\ ~Taking(p, v) /\ \A i \in Instances : uses[i] # v
               /\ y = tmp[v] \/ ~Unpacking(p, v)
               /\ r.pc \in Unpacked => r.pkg = v /\ ~Unpacking(p, v)
    PROVE  PackagesInductive'
<1>1. /\ dir \in [Packages -> SUBSET Whole] /\ tmp \in [Packages -> SUBSET Whole]
      /\ uses \in [Instances -> Packages \cup {None}]
  BY DEF PackagesInductive, PackagesTyped
<1>2. ASSUME Orderly, ~collided' PROVE AllWhole(dir', uses')
  <2>1. dir[v] \in {Nothing, Whole} /\ x \in {Nothing, Whole}
    BY <1>2 DEF Orderly, AllWhole
  <2>2. \A w \in Packages : dir'[w] = IF w = v THEN x ELSE dir[w]
    BY <1>1
  <2>3. \A i \in Instances : uses[i] # None => uses[i] \in Packages /\ dir[uses[i]] = Whole
    BY <1>1, <1>2 DEF Orderly, AllWhole
  <2>4. \A i \in Instances : uses[i] = v => uses[i] # None
    BY PackagesAssumption
  <2>5. \A i \in Instances : uses[i] = v => x = Whole
    BY <1>2, <2>3, <2>4
  <2>6. \A i \in Instances : uses'[i] # None => dir'[uses'[i]] = Whole
    BY <2>2, <2>3, <2>5
  <2> QED BY <1>2, <2>1, <2>2, <2>6 DEF Orderly, AllWhole
<1>3. ASSUME Orderly, ~collided', NEW q \in Procs \ {p}
      PROVE  Fits(job[q], dir', tmp', uses') /\ Apart(r, job[q])
  <2>1. Fits(job[q], dir, tmp, uses)
    BY <1>3 DEF Orderly
  <2>2. y = tmp[v] \/ ~(job[q].pkg = v /\ job[q].pc \in Unpacked)
    BY <1>3 DEF Unpacking
  <2>3. x = dir[v] \/ x = Whole \/ ~(job[q].pkg = v /\ job[q].pc \in {"unlink", "use"})
    BY <1>3 DEF Taking
  <2>4. Fits(job[q], dir', tmp', uses')
    BY <1>1, <2>1, <2>2, <2>3, WorkBeside
  <2>5. Apart(r, job[q])
    BY <1>3 DEF Apart, Unpacking
  <2> QED BY <2>4, <2>5
<1>4. dir' \in [Packages -> SUBSET Whole] /\ tmp' \in [Packages -> SUBSET Whole]
  BY <1>1
<1> QED BY <1>1, <1>2, <1>3, <1>4, JobMoves

(* A command ends, whatever it did. *)
LEMMA CommandEnds ==
    ASSUME PackagesInductive, NEW p \in Procs, End(p), UNCHANGED <<dir, tmp, uses, collided>>
    PROVE  PackagesInductive'
<1>1. Idle \in Jobs /\ Idle.pc = "idle" /\ job' = [job EXCEPT ![p] = Idle]
  BY DEF Idle, Jobs, JobRecord, InstallSteps, UninstallSteps, End
<1>2. Fits(Idle, dir, tmp, uses) /\ Idle.pc \notin Unpacked
  BY <1>1 DEF Fits, Unpacked
<1> HIDE DEF Idle
<1> QED BY <1>1, <1>2, JobGoesOn

(* A command begins. *)
LEMMA CommandBegins ==
    ASSUME PackagesInductive, NEW p \in Procs, NEW op, NEW v, NEW i, NEW pc, Begin(p, op, v, i, pc),
           \/ op = "install" /\ v \in Packages /\ i \in Instances \cup {None} /\ pc = "check"
           \/ op = "uninstall" /\ v = None /\ i = None /\ pc = "list"
    PROVE  PackagesInductive'
<1> DEFINE r == [op |-> op, pc |-> pc, pkg |-> v, inst |-> i, todo |-> {}]
<1>1. job' = [job EXCEPT ![p] = r] /\ UNCHANGED <<dir, tmp, uses, collided>>
  BY DEF Begin
<1>2. r \in Jobs /\ r.pc \in {"check", "list"}
  BY DEF Jobs, JobRecord, InstallSteps, UninstallSteps
<1> HIDE DEF r
<1>3. Fits(r, dir, tmp, uses) /\ r.pc \notin Unpacked
  BY <1>2 DEF Fits, Unpacked
<1> QED BY <1>1, <1>2, <1>3, JobGoesOn

(* The initial states satisfy the invariant. *)
LEMMA PackagesStart == PackagesInit => PackagesInductive
<1> SUFFICES ASSUME PackagesInit PROVE PackagesInductive
  OBVIOUS
<1>1. Idle \in Jobs /\ Idle.pc = "idle"
  BY DEF Idle, Jobs, JobRecord, InstallSteps, UninstallSteps
<1> QED
  BY <1>1 DEF PackagesInit, PackagesInductive, PackagesTyped, Orderly, AllWhole, Fits, Apart, Nothing, Unpacked

(* Every step keeps the invariant: one step for each action, in the order   *)
(* of the commands. *)
LEMMA PackagesStep ==
    ASSUME PackagesInductive, [PackagesNext]_packages
    PROVE  PackagesInductive'
<1>1. /\ dir \in [Packages -> SUBSET Whole] /\ tmp \in [Packages -> SUBSET Whole]
      /\ uses \in [Instances -> Packages \cup {None}] /\ job \in [Procs -> Jobs] /\ collided \in BOOLEAN
  BY DEF PackagesInductive, PackagesTyped
\* An install goes on and touches no directory
<1>2. ASSUME NEW p \in Procs, job[p].pc \in InstallSteps, NEW to \in InstallSteps \ Unpacked,
             Goto(p, to), UNCHANGED <<dir, tmp, uses, collided>>,
             Orderly /\ to \in {"unlink", "use"} => dir[job[p].pkg] = Whole
      PROVE  PackagesInductive'
  <2> DEFINE r == [job[p] EXCEPT !.pc = to]
  <2>1. r \in Jobs /\ r.pkg = job[p].pkg /\ r.pc = to /\ job' = [job EXCEPT ![p] = r]
    BY <1>1, <1>2 DEF Jobs, JobRecord, InstallSteps, UninstallSteps, Goto
  <2>2. Orderly => Fits(r, dir, tmp, uses)
    BY <1>2, <2>1 DEF Fits, Unpacked, InstallSteps
  <2> HIDE DEF r
  <2> QED BY <1>2, <2>1, <2>2, JobGoesOn
\* An install works on its package
<1>3. ASSUME NEW p \in Procs, job[p].pc \in InstallSteps, NEW to \in InstallSteps,
             job' = [job EXCEPT ![p].pc = to], uses' = uses, collided' \in BOOLEAN, collided => collided',
             NEW x \in SUBSET Whole, dir' = [dir EXCEPT ![job[p].pkg] = x],
             NEW y \in SUBSET Whole, tmp' = [tmp EXCEPT ![job[p].pkg] = y],
             Orderly /\ ~collided' =>
                 /\ x = dir[job[p].pkg] \/ x = Whole
                 /\ ~Unpacking(p, job[p].pkg)
                 /\ to = "bin" => y = {"dir"}
                 /\ to = "share" => y = {"dir", "bin"}
                 /\ to = "info" => y = {"dir", "bin", "share"}
                 /\ to = "publish" => y = Whole
                 /\ to \in {"unlink", "use"} => x = Whole
      PROVE  PackagesInductive'
  <2> DEFINE v == job[p].pkg
             r == [job[p] EXCEPT !.pc = to]
  <2>1. /\ r \in Jobs /\ r.pkg = v /\ r.pc = to /\ v \in Packages
        /\ job' = [job EXCEPT ![p] = r]
    BY <1>1, <1>3 DEF Jobs, JobRecord, InstallSteps, UninstallSteps
  <2>2. dir'[v] = x /\ tmp'[v] = y
    BY <1>1, <1>3, <2>1
  <2>3. Orderly /\ ~collided' => Fits(r, dir', tmp', uses)
    BY <1>3, <2>1, <2>2 DEF Fits, InstallSteps
  <2>4. /\ uses' = uses /\ collided' \in BOOLEAN /\ (collided => collided')
        /\ dir' = [dir EXCEPT ![v] = x] /\ tmp' = [tmp EXCEPT ![v] = y]
    BY <1>3
  <2>5. Orderly /\ ~collided' => (x = dir[v] \/ x = Whole) /\ ~Unpacking(p, v)
    BY <1>3
  <2>6. x \in SUBSET Whole /\ y \in SUBSET Whole
    BY <1>3
  <2> HIDE DEF v, r
  <2> QED BY <2>1, <2>3, <2>4, <2>5, <2>6, WorkMoves
\* What an install knows at any of its steps
<1>4. ASSUME NEW p \in Procs, job[p].pc \in InstallSteps
      PROVE  /\ job[p].pkg \in Packages
             /\ dir[job[p].pkg] \in SUBSET Whole /\ tmp[job[p].pkg] \in SUBSET Whole
             /\ dir = [dir EXCEPT ![job[p].pkg] = dir[job[p].pkg]]
             /\ Orderly => Fits(job[p], dir, tmp, uses) /\ dir[job[p].pkg] \in {Nothing, Whole}
             /\ Orderly /\ job[p].pc \in Unpacked => ~Unpacking(p, job[p].pkg)
  <2>1. job[p].pkg \in Packages
    BY <1>1, <1>4 DEF Jobs
  <2>2. Orderly /\ job[p].pc \in Unpacked => ~Unpacking(p, job[p].pkg)
    BY DEF Orderly, Apart, Unpacking
  <2> QED BY <1>1, <2>1, <2>2 DEF Orderly, AllWhole
<1>5. ASSUME NEW p \in Procs, NEW v \in Packages, NEW i \in Instances \cup {None}, Install(p, v, i)
      PROVE  PackagesInductive'
  BY <1>5, CommandBegins DEF Install
<1>6. ASSUME NEW p \in Procs, Uninstall(p) PROVE PackagesInductive'
  BY <1>6, CommandBegins DEF Uninstall
<1>7. ASSUME NEW p \in Procs, Found(p) PROVE PackagesInductive'
  <2>1. job[p].pc \in InstallSteps /\ UNCHANGED <<dir, tmp, uses, collided>>
    BY <1>7 DEF Found, At, bounds, InstallSteps
  <2>2. CASE "info" \in dir[job[p].pkg]
    <3>1. Orderly => dir[job[p].pkg] = Whole
      BY <1>4, <2>1, <2>2 DEF Nothing
    <3>2. Goto(p, "use") /\ "use" \in InstallSteps \ Unpacked
      BY <1>7, <2>2 DEF Found, InstallSteps, Unpacked
    <3> QED BY <1>2, <2>1, <3>1, <3>2
  <2>3. CASE "info" \notin dir[job[p].pkg]
    BY <1>7, <2>1, <2>3, CommandEnds DEF Found
  <2> QED BY <2>2, <2>3
<1>8. ASSUME NEW p \in Procs, Download(p) PROVE PackagesInductive'
  <2>1. /\ job[p].pc \in InstallSteps /\ "verify" \in InstallSteps \ Unpacked /\ Goto(p, "verify")
        /\ UNCHANGED <<dir, tmp, uses, collided>>
    BY <1>8 DEF Download, At, bounds, InstallSteps, Unpacked
  <2> QED BY <1>2, <2>1
<1>9. ASSUME NEW p \in Procs, Verified(p) PROVE PackagesInductive'
  <2>1. /\ job[p].pc \in InstallSteps /\ "unpack" \in InstallSteps \ Unpacked /\ Goto(p, "unpack")
        /\ UNCHANGED <<dir, tmp, uses, collided>>
    BY <1>9 DEF Verified, At, bounds, InstallSteps, Unpacked
  <2> QED BY <1>2, <2>1
<1>10. ASSUME NEW p \in Procs, Unpack(p) PROVE PackagesInductive'
  <2>1. /\ job[p].pc \in InstallSteps /\ "bin" \in InstallSteps /\ job' = [job EXCEPT ![p].pc = "bin"]
        /\ tmp' = [tmp EXCEPT ![job[p].pkg] = {"dir"}] /\ {"dir"} \in SUBSET Whole
        /\ collided' = (collided \/ Unpacking(p, job[p].pkg)) /\ UNCHANGED <<dir, uses>>
    BY <1>10 DEF Unpack, At, CollideIf, InstallSteps, Whole, Goto
  <2>2. dir[job[p].pkg] \in SUBSET Whole /\ dir' = [dir EXCEPT ![job[p].pkg] = dir[job[p].pkg]]
    BY <1>4, <2>1
  <2>3. collided' \in BOOLEAN /\ (collided => collided') /\ (~collided' => ~Unpacking(p, job[p].pkg))
    BY <2>1
  <2>4. "bin" \notin {"share", "info", "publish", "unlink", "use"}
    OBVIOUS
  <2> QED BY <1>3, <2>1, <2>2, <2>3, <2>4
\* An install adds to the temporary directory in which it unpacks
<1>11. ASSUME NEW p \in Procs, job[p].pc \in InstallSteps, job[p].pc \in Unpacked,
              NEW to \in InstallSteps, Goto(p, to), UNCHANGED <<dir, uses, collided>>,
              NEW y \in SUBSET Whole, tmp' = [tmp EXCEPT ![job[p].pkg] = y],
              Orderly => /\ to \notin {"bin", "unlink", "use"}
                         /\ to = "share" => y = {"dir", "bin"}
                         /\ to = "info" => y = {"dir", "bin", "share"}
                         /\ to = "publish" => y = Whole
       PROVE  PackagesInductive'
  <2>1. /\ dir[job[p].pkg] \in SUBSET Whole
        /\ dir' = [dir EXCEPT ![job[p].pkg] = dir[job[p].pkg]]
        /\ Orderly => ~Unpacking(p, job[p].pkg)
    BY <1>4, <1>11
  <2>2. collided' \in BOOLEAN /\ (collided => collided') /\ job' = [job EXCEPT ![p].pc = to] /\ uses' = uses
    BY <1>1, <1>11 DEF Goto
  <2> QED BY <1>3, <1>11, <2>1, <2>2
<1>12. ASSUME NEW p \in Procs, UnpackPart(p, "bin", "share") PROVE PackagesInductive'
  <2> DEFINE y == tmp[job[p].pkg] \cup {"bin"}
  <2>1. job[p].pc = "bin" /\ job[p].pc \in InstallSteps /\ job[p].pc \in Unpacked /\ "share" \in InstallSteps
        /\ Goto(p, "share") /\ UNCHANGED <<dir, uses, collided>>
        /\ tmp' = [tmp EXCEPT ![job[p].pkg] = y]
    BY <1>12 DEF UnpackPart, At, bounds, InstallSteps, Unpacked
  <2>2. y \in SUBSET Whole
    BY <1>4, <2>1 DEF Whole
  <2>3. Orderly => y = {"dir", "bin"}
    BY <1>4, <2>1 DEF Fits
  <2> HIDE DEF y
  <2> QED BY <1>11, <2>1, <2>2, <2>3
<1>13. ASSUME NEW p \in Procs, UnpackPart(p, "share", "info") PROVE PackagesInductive'
  <2> DEFINE y == tmp[job[p].pkg] \cup {"share"}
  <2>1. job[p].pc = "share" /\ job[p].pc \in InstallSteps /\ job[p].pc \in Unpacked /\ "info" \in InstallSteps
        /\ Goto(p, "info") /\ UNCHANGED <<dir, uses, collided>>
        /\ tmp' = [tmp EXCEPT ![job[p].pkg] = y]
    BY <1>13 DEF UnpackPart, At, bounds, InstallSteps, Unpacked
  <2>2. y \in SUBSET Whole
    BY <1>4, <2>1 DEF Whole
  <2>3. Orderly => y = {"dir", "bin", "share"}
    BY <1>4, <2>1 DEF Fits
  <2> HIDE DEF y
  <2> QED BY <1>11, <2>1, <2>2, <2>3
<1>14. ASSUME NEW p \in Procs, WriteInfo(p) PROVE PackagesInductive'
  <2> DEFINE y == tmp[job[p].pkg] \cup {"dir", "info"}
  <2>1. job[p].pc = "info" /\ job[p].pc \in InstallSteps /\ job[p].pc \in Unpacked /\ "publish" \in InstallSteps
        /\ Goto(p, "publish") /\ UNCHANGED <<dir, uses, collided>>
        /\ tmp' = [tmp EXCEPT ![job[p].pkg] = y]
    BY <1>14 DEF WriteInfo, At, bounds, InstallSteps, Unpacked
  <2>2. y \in SUBSET Whole
    BY <1>4, <2>1 DEF Whole
  <2>3. Orderly => y = Whole
    BY <1>4, <2>1 DEF Fits, Whole
  <2> HIDE DEF y
  <2> QED BY <1>11, <2>1, <2>2, <2>3
<1>15. ASSUME NEW p \in Procs, Publish(p) PROVE PackagesInductive'
  <2> DEFINE x == tmp[job[p].pkg]
  <2>1. job[p].pc = "publish" /\ job[p].pc \in InstallSteps /\ job[p].pc \in Unpacked
        /\ "unlink" \in InstallSteps
        /\ job' = [job EXCEPT ![p].pc = "unlink"] /\ UNCHANGED <<uses, collided>>
        /\ dir' = [dir EXCEPT ![job[p].pkg] = x]
        /\ tmp' = [tmp EXCEPT ![job[p].pkg] = Nothing] /\ Nothing \in SUBSET Whole
    BY <1>15 DEF Publish, At, Goto, bounds, InstallSteps, Nothing, Unpacked
  <2>2. x \in SUBSET Whole /\ (Orderly => x = Whole /\ ~Unpacking(p, job[p].pkg))
    BY <1>4, <2>1 DEF Fits
  <2>3. "unlink" # "bin" /\ "unlink" # "share" /\ "unlink" # "info" /\ "unlink" # "publish"
    OBVIOUS
  <2>4. collided' \in BOOLEAN /\ (collided => collided')
    BY <1>1, <2>1
  <2> HIDE DEF x
  <2> QED BY <1>3, <2>1, <2>2, <2>3, <2>4
<1>16. ASSUME NEW p \in Procs, UnlinkCache(p) PROVE PackagesInductive'
  <2>1. job[p].pc = "unlink" /\ job[p].pc \in InstallSteps /\ "use" \in InstallSteps \ Unpacked
        /\ Goto(p, "use") /\ UNCHANGED <<dir, tmp, uses, collided>>
    BY <1>16 DEF UnlinkCache, At, bounds, InstallSteps, Unpacked
  <2>2. Orderly => dir[job[p].pkg] = Whole
    BY <1>4, <2>1 DEF Fits
  <2> QED BY <1>2, <2>1, <2>2
<1>17. ASSUME NEW p \in Procs, Use(p) PROVE PackagesInductive'
  <2>1. /\ job[p].pc = "use" /\ job[p].pc \in InstallSteps /\ UNCHANGED <<dir, tmp>>
        /\ uses' = [i \in Instances |-> IF i = job[p].inst THEN job[p].pkg ELSE uses[i]]
        /\ collided' = (collided \/ (job[p].inst \in Instances /\ Doomed(p, job[p].pkg)))
        /\ Idle \in Jobs /\ Idle.pc = "idle" /\ job' = [job EXCEPT ![p] = Idle]
    BY <1>17 DEF Use, At, End, CollideIf, Idle, Jobs, JobRecord, InstallSteps, UninstallSteps
  <2>2. uses' \in [Instances -> Packages \cup {None}]
    BY <1>1, <1>4, <2>1
  <2>3. ASSUME Orderly, ~collided'
        PROVE  /\ AllWhole(dir', uses') /\ Fits(Idle, dir', tmp', uses')
               /\ \A q \in Procs \ {p} : Fits(job[q], dir', tmp', uses') /\ Apart(Idle, job[q])
    <3>1. AllWhole(dir', uses')
      BY <1>1, <1>4, <2>1, <2>3 DEF Orderly, AllWhole, Fits
    <3>2. ASSUME NEW q \in Procs \ {p} PROVE Fits(job[q], dir', tmp', uses')
      <4>1. Fits(job[q], dir, tmp, uses)
        BY <2>3 DEF Orderly
      <4>2. ASSUME job[q].pc \in {"next", "remove"}, NEW i \in Instances PROVE uses'[i] \notin job[q].todo
        <5>1. uses[i] \notin job[q].todo
          BY <4>1, <4>2 DEF Fits
        <5>2. i = job[p].inst => job[p].pkg \notin job[q].todo
          BY <2>1, <2>3, <3>2, <4>2 DEF Doomed
        <5> QED BY <2>1, <5>1, <5>2
      <4> QED BY <2>1, <4>1, <4>2 DEF Fits
    <3>3. Fits(Idle, dir', tmp', uses') /\ \A q \in Procs : Apart(Idle, job[q])
      BY <2>1 DEF Fits, Apart, Unpacked
    <3> QED BY <3>1, <3>2, <3>3
  <2>4. /\ dir' \in [Packages -> SUBSET Whole] /\ tmp' \in [Packages -> SUBSET Whole]
        /\ collided' \in BOOLEAN /\ (collided => collided')
    BY <1>1, <2>1
  <2> HIDE DEF Idle
  <2> QED BY <2>1, <2>2, <2>3, <2>4, JobMoves
<1>18. ASSUME NEW i \in Instances, Destroy(i) PROVE PackagesInductive'
  <2>1. uses' = [uses EXCEPT ![i] = None] /\ UNCHANGED <<dir, tmp, job, collided>>
    BY <1>18 DEF Destroy
  <2>2. PackagesTyped'
    BY <2>1 DEF PackagesInductive, PackagesTyped
  <2>3. ASSUME Orderly PROVE Orderly'
    <3>1. \A j \in Instances : uses'[j] \in {uses[j], None}
      BY <1>1, <2>1
    <3>2. ASSUME NEW p \in Procs PROVE Fits(job'[p], dir', tmp', uses')
      <4>1. Fits(job[p], dir, tmp, uses) /\ None \notin job[p].todo
        BY <1>1, <2>3, PackagesAssumption DEF Orderly, Jobs, JobRecord
      <4> QED BY <2>1, <3>1, <4>1 DEF Fits
    <3>3. AllWhole(dir', uses')
      BY <2>1, <2>3, <3>1 DEF Orderly, AllWhole
    <3> QED BY <2>1, <2>3, <3>2, <3>3 DEF Orderly
  <2> QED BY <2>1, <2>2, <2>3 DEF PackagesInductive
<1>19. ASSUME NEW p \in Procs, List(p) PROVE PackagesInductive'
  <2>1. job[p].pc = "list" /\ UNCHANGED <<dir, tmp, uses, collided>>
    BY <1>19 DEF List, At, bounds
  <2>2. PICK todo \in SUBSET Packages :
           job' = [job EXCEPT ![p] = [job[p] EXCEPT !.pc = "used", !.todo = todo]]
    BY <1>1, <1>19 DEF List
  <2> DEFINE r == [job[p] EXCEPT !.pc = "used", !.todo = todo]
  <2>3. r \in Jobs /\ r.pc = "used"
    BY <1>1, <2>1 DEF Jobs, JobRecord, InstallSteps, UninstallSteps
  <2>4. Fits(r, dir, tmp, uses) /\ r.pc \notin Unpacked
    BY <2>3 DEF Fits, Unpacked
  <2> HIDE DEF r
  <2> QED BY <2>1, <2>2, <2>3, <2>4, JobGoesOn DEF r
<1>20. ASSUME NEW p \in Procs, KeepUsed(p) PROVE PackagesInductive'
  <2> DEFINE r == [job[p] EXCEPT !.pc = "next", !.todo = @ \ {uses[i] : i \in Instances}]
  <2>1. UNCHANGED <<dir, tmp, uses, collided>> /\ job' = [job EXCEPT ![p] = r]
    BY <1>1, <1>20 DEF KeepUsed, At, bounds
  <2>2. r \in Jobs /\ r.pc = "next" /\ \A i \in Instances : uses[i] \notin r.todo
    BY <1>1 DEF Jobs, JobRecord, InstallSteps, UninstallSteps
  <2>3. Fits(r, dir, tmp, uses) /\ r.pc \notin Unpacked
    BY <2>2 DEF Fits, Unpacked
  <2> HIDE DEF r
  <2> QED BY <2>1, <2>2, <2>3, JobGoesOn
<1>21. ASSUME NEW p \in Procs, MoveAway(p) PROVE PackagesInductive'
  <2>1. job[p].pc = "next" /\ uses' = uses
    BY <1>21 DEF MoveAway, At
  <2>2. PICK v \in job[p].todo :
           /\ job' = [job EXCEPT ![p] = [job[p] EXCEPT !.pc = "remove", !.pkg = v]]
           /\ dir' = [dir EXCEPT ![v] = Nothing] /\ tmp' = [tmp EXCEPT ![v] = dir[v]]
           /\ collided' = (collided \/ (Taking(p, v) \/ Unpacking(p, v)))
    BY <1>1, <1>21 DEF MoveAway, CollideIf
  <2>3. v \in Packages
    BY <1>1 DEF Jobs, JobRecord
  <2> DEFINE r == [job[p] EXCEPT !.pc = "remove", !.pkg = v]
  <2>4. r \in Jobs /\ r.pc = "remove" /\ r.todo = job[p].todo
    BY <1>1, <2>1, <2>3 DEF Jobs, JobRecord, InstallSteps, UninstallSteps
  <2>5. ASSUME Orderly
        PROVE  Fits(r, dir', tmp', uses) /\ \A i \in Instances : uses[i] # v
    <3>1. Fits(job[p], dir, tmp, uses)
      BY <2>5 DEF Orderly
    <3>2. \A i \in Instances : uses[i] \notin job[p].todo
      BY <2>1, <3>1 DEF Fits
    <3> QED BY <2>4, <3>2 DEF Fits
  <2>6. dir[v] \in SUBSET Whole /\ Nothing \in SUBSET Whole /\ r.pc \notin Unpacked
        /\ collided' \in BOOLEAN /\ (collided => collided')
        /\ (~collided' => ~Taking(p, v) /\ ~Unpacking(p, v))
    BY <1>1, <2>2, <2>3, <2>4 DEF Nothing, Unpacked
  <2>7. job' = [job EXCEPT ![p] = r]
    BY <2>2
  <2> HIDE DEF r
  <2> QED BY <2>1, <2>2, <2>3, <2>4, <2>5, <2>6, <2>7, WorkMoves
<1>22. ASSUME NEW p \in Procs, RemoveMoved(p) PROVE PackagesInductive'
  <2> DEFINE v == job[p].pkg
             r == [job[p] EXCEPT !.pc = "next", !.todo = @ \ {job[p].pkg}, !.pkg = None]
  <2>1. /\ job[p].pc = "remove" /\ UNCHANGED <<dir, uses>>
        /\ job' = [job EXCEPT ![p] = r] /\ tmp' = [tmp EXCEPT ![v] = Nothing]
        /\ collided' = (collided \/ Unpacking(p, v))
    BY <1>1, <1>22 DEF RemoveMoved, At, CollideIf
  <2>2. r \in Jobs /\ r.pc = "next" /\ r.todo \subseteq job[p].todo /\ v \in Packages
    BY <1>1, <2>1 DEF Jobs, JobRecord, InstallSteps, UninstallSteps
  <2>3. ASSUME Orderly PROVE Fits(r, dir', tmp', uses)
    <3>1. Fits(job[p], dir, tmp, uses)
      BY <2>3 DEF Orderly
    <3>2. \A i \in Instances : uses[i] \notin job[p].todo
      BY <2>1, <3>1 DEF Fits
    <3> QED BY <2>2, <3>2 DEF Fits
  <2>4. /\ dir[v] \in SUBSET Whole /\ dir' = [dir EXCEPT ![v] = dir[v]] /\ Nothing \in SUBSET Whole
        /\ r.pc \notin Unpacked /\ collided' \in BOOLEAN /\ (collided => collided')
        /\ (~collided' => ~Unpacking(p, v))
    BY <1>1, <2>1, <2>2 DEF Nothing, Unpacked
  <2> HIDE DEF r, v
  <2> QED BY <2>1, <2>2, <2>3, <2>4, WorkMoves
<1>23. ASSUME NEW p \in Procs, Uninstalled(p) PROVE PackagesInductive'
  BY <1>23, CommandEnds DEF Uninstalled, bounds
<1>24. ASSUME NEW p \in Procs, Die(p) PROVE PackagesInductive'
  BY <1>24, CommandEnds DEF Die
<1>25. CASE UNCHANGED packages
  BY <1>25 DEF packages, PackagesInductive, PackagesTyped, Orderly
<1> QED
  BY <1>5, <1>6, <1>7, <1>8, <1>9, <1>10, <1>12, <1>13, <1>14, <1>15, <1>16, <1>17, <1>18,
     <1>19, <1>20, <1>21, <1>22, <1>23, <1>24, <1>25 DEF PackagesNext

(* Whatever install or uninstall was cut short at whatever step, and however *)
(* many run beside each other, every package that counts as installed is     *)
(* whole and the server of every instance is installed, until two of them    *)
(* collide on one package: one unpacks, moves or removes it where another    *)
(* is unpacking it, an uninstall moves it away while another command is      *)
(* about to give it to an instance, or an instance gets it after an          *)
(* uninstall found it unused (install::package, uninstall::run).             *)
THEOREM PackagesStayWhole == PackagesSpec => []PackagesInv
<1>1. PackagesInductive /\ [PackagesNext]_packages => PackagesInductive'
  BY PackagesStep
<1>2. PackagesInductive => PackagesInv
  BY DEF PackagesInductive, Orderly, AllWhole, PackagesInv
<1> QED BY PackagesStart, <1>1, <1>2, PTL DEF PackagesSpec

-----------------------------------------------------------------------------
Account == [port : Nat, password : Nat]
Making == {"manifest", "ports", "truncate", "write", "bootstrap", "rename"}
Tearing == {"data", "service_files", "delete", "projects"}
Operations == {"none", "create", "init", "link", "add", "reset", "destroy", "unlink", "project_unlink"}
Places ==
    {"idle", "credentials", "service", "stash", "migrate", "overwrite", "alter", "save", "list", "own"}
    \cup Making \cup Tearing
TaskRecord ==
    [op : Operations, pc : Places,
     name : Names \cup {Missing}, dir : Dirs \cup {Missing}, id : Nat,
     map : Account \cup {Missing} \cup [Names -> Nat], port : Nat, todo : SUBSET Dirs, found : BOOLEAN]

\* A command at work: where it may be, and what it works on
Working(r) ==
    /\ r.op # "none" /\ r.name \in Names
    /\ r.op \in {"init", "link", "project_unlink"} => r.dir \in Dirs
    /\ r.op \in Creating => r.pc \in Making \cup {"credentials", "service", "stash", "migrate"}
    /\ r.op = "create" => r.pc \notin {"manifest", "stash", "migrate"}
    /\ r.op = "link" => r.pc \in {"manifest", "stash", "migrate"}
    /\ r.op = "add" => r.pc = "overwrite"
    /\ r.op = "reset" => r.pc \in {"alter", "save"} /\ r.map \in Account \cup {Missing}
    /\ r.op = "destroy" => r.pc \in {"list"} \cup Tearing
    /\ r.op = "unlink" => r.pc \in {"list", "delete", "projects"}
    /\ r.op = "project_unlink" => r.pc \in {"own"} \cup Tearing
    /\ r.pc \in {"truncate", "write"} => r.map \in [Names -> Nat]
    /\ r.pc = "credentials" => r.map \in Account
Tasks == {r \in TaskRecord : r = IdleTask \/ Working(r)}

InstancesTyped ==
    /\ data \in [Names -> Account \cup {Missing}] /\ made \in [Names -> Account \cup {Missing}]
    /\ creds \in [Names -> Account \cup {Missing}]
    /\ service \in [Names -> BOOLEAN] /\ ports \in [Names -> Nat]
    /\ manifest \subseteq Dirs /\ stash \in [Dirs -> Names \cup {Missing}] /\ linked \subseteq Dirs
    /\ excused \subseteq Names /\ shaky \in BOOLEAN /\ task \in [Clients -> Tasks] /\ given \in Nat

\* Two commands that met on an instance are excused; in a directory they never meet
Alone ==
    \A p, q \in Clients : p # q /\ task[p].name = task[q].name =>
        task[p].name \in excused \cup {Missing}
DirsApart ==
    \A p, q \in Clients : p # q /\ task[p].dir = task[q].dir => task[p].dir = Missing

\* The data x and the credentials y of an instance that no command works on
Settled(x, y) == x # Missing => y # Missing /\ (y.port = Elsewhere \/ y = x)

\* and of one on which a command works
Stands(r, x, y) ==
    /\ r.op \in Creating /\ r.pc \in Making => x = Missing /\ y = Missing
    /\ r.pc = "credentials" => x = r.map /\ x # Missing /\ y = Missing
    /\ r.op = "reset" => r.map = y
    /\ r.pc = "save" /\ x # Missing =>
          y # Missing /\ x.password = r.id /\ (y.port = Elsewhere \/ y.port = x.port)
    /\ r.op \in Removing /\ r.pc \in {"service_files", "delete", "projects"} => x = Missing
    /\ r.op = "unlink" => x = Missing
    /\ r.pc \notin {"credentials", "save"} => Settled(x, y)

CredentialsFit ==
    \A n \in Names \ excused :
        /\ \A p \in Clients : task[p].name = n => Stands(task[p], data[n], creds[n])
        /\ (\A p \in Clients : task[p].name # n) => Settled(data[n], creds[n])

\* What a command knows of the projects l and the stash s: none is missed of those that
\* it is going to forget
ProjectFits(r, e, l, s) ==
    /\ r.op \in {"init", "link"} /\ r.pc # "migrate" => s[r.dir] = Missing
    /\ r.op \in {"destroy", "unlink"} /\ r.pc # "list" /\ r.name \notin e =>
          \A d \in l : s[d] = r.name => d \in r.todo
    /\ r.op = "project_unlink" /\ r.pc # "own" /\ r.name \notin e =>
          \A d \in l : s[d] = r.name => d = r.dir

ProjectsFit ==
    /\ \A d \in linked : stash[d] \in Names
    /\ \A p \in Clients : ProjectFits(task[p], excused, linked, stash)

\* The map has the port of all data, and a port once
Registered(map, x) ==
    /\ \A n \in Names : x[n] # Missing => map[n] = x[n].port /\ map[n] # 0
    /\ \A n, m \in Names : n # m /\ map[n] # 0 => map[n] # map[m]

PortFits(r, map, x, t) ==
    /\ r.pc \in {"truncate", "write"} =>
          Registered(r.map, x) /\ r.map[r.name] = r.port /\ r.port # 0
    /\ r.pc \in {"bootstrap", "rename"} => map[r.name] = r.port /\ r.port # 0
    /\ r.pc = "rename" => t[r.name] # Missing /\ t[r.name].port = r.port

PortsFit ==
    /\ \A p, q \in Clients : p # q => ~(task[p].op \in Creating /\ task[q].op \in Creating)
    /\ (\A p \in Clients : task[p].pc # "write") => Registered(ports, data)
    /\ \A p \in Clients : PortFits(task[p], ports, data, made)

InstancesInductive ==
    /\ InstancesTyped /\ Alone /\ DirsApart
    /\ CredentialsFit /\ ProjectsKept /\ ProjectsFit /\ (~shaky => PortsFit)

(* What a step of the command of p does, which goes on as r. *)
Moves(p, r) ==
    /\ r = IdleTask \/ (r.op = task[p].op /\ r.name = task[p].name /\ r.dir = task[p].dir)
    /\ task' = [task EXCEPT ![p] = r]
    /\ excused' \in {excused, excused \cup {task[p].name}} /\ (shaky => shaky') /\ given' = given
    /\ \A n \in Names : n # task[p].name => data'[n] = data[n] /\ creds'[n] = creds[n]

FilesTyped ==
    /\ data \in [Names -> Account \cup {Missing}] /\ made \in [Names -> Account \cup {Missing}]
    /\ creds \in [Names -> Account \cup {Missing}]
    /\ service \in [Names -> BOOLEAN] /\ ports \in [Names -> Nat]
    /\ manifest \subseteq Dirs /\ stash \in [Dirs -> Names \cup {Missing}] /\ linked \subseteq Dirs
    /\ shaky \in BOOLEAN

CredentialsMove(p, r, n) ==
    n \in excused' \/
    (Stands(task[p], data[n], creds[n]) =>
        IF r = IdleTask THEN Settled(data'[n], creds'[n]) ELSE Stands(r, data'[n], creds'[n]))

ProjectsMove(p, r, n) ==
    /\ \A d \in linked' : stash'[d] = stash[d] /\ (d \in linked \/ stash[d] = n)
    /\ \A d \in Dirs : stash'[d] = stash[d] \/ stash'[d] = Missing \/ d = task[p].dir
    /\ \A d \in linked' : stash'[d] = n =>
          n \in excused' \/ creds'[n] # Missing \/ (r.op \in Removing /\ r.pc = "projects")
    /\ ProjectFits(r, excused', linked', stash')

PortsMove(p, r) ==
    \/ shaky'
    \/ /\ task[p].op \in Creating
       /\ PortFits(r, ports', data', made') /\ (r.pc # "write" => Registered(ports', data'))
    \/ /\ task[p].op \notin Creating /\ ports' = ports /\ made' = made
       /\ \A n \in Names : data'[n] # Missing => data[n] # Missing /\ data'[n].port = data[n].port

(* What follows from the type of a task. *)
LEMMA IdleTaskFits ==
    /\ IdleTask \in Tasks /\ IdleTask.name = Missing /\ IdleTask.dir = Missing
    /\ IdleTask.op = "none" /\ IdleTask.pc = "idle" /\ IdleTask.todo = {}
BY DEF IdleTask, Tasks, TaskRecord, Operations, Places

LEMMA TaskIs ==
    ASSUME NEW r \in Tasks
    PROVE  /\ r \in TaskRecord /\ (r # IdleTask => Working(r))
           /\ r.name \in Names \cup {Missing} /\ r.dir \in Dirs \cup {Missing} /\ r.id \in Nat
           /\ r.port \in Nat /\ r.todo \subseteq Dirs /\ r.found \in BOOLEAN
           /\ r.op \in Operations /\ r.pc \in Places
           /\ r.map \in Account \cup {Missing} \cup [Names -> Nat]
           /\ r # IdleTask => r.name \in Names /\ r.name # Missing
           /\ r.op = "none" => r = IdleTask
<1>1. r \in TaskRecord /\ (r = IdleTask \/ Working(r))
  BY DEF Tasks
<1>2. r # IdleTask => r.op # "none" /\ r.name \in Names /\ r.name # Missing
  BY <1>1, InstancesAssumption DEF Working
<1> QED BY <1>1, <1>2 DEF TaskRecord

(* A step of one command leaves the credentials as the others expect them. *)
LEMMA CredentialsStay ==
    ASSUME InstancesInductive, NEW p \in Clients, task[p] # IdleTask, NEW r \in Tasks,
           Moves(p, r), CredentialsMove(p, r, task[p].name)
    PROVE  Alone' /\ DirsApart' /\ CredentialsFit'
<1> DEFINE n0 == task[p].name
<1>0. /\ task \in [Clients -> Tasks] /\ Alone /\ DirsApart /\ CredentialsFit /\ n0 \in Names /\ n0 # Missing
      /\ task' = [task EXCEPT ![p] = r] /\ excused \subseteq excused'
  BY TaskIs DEF InstancesInductive, InstancesTyped, Moves
<1>1. task'[p] = r /\ \A q \in Clients : q # p => task'[q] = task[q]
  BY <1>0
<1>2. r.name \in {n0, Missing} /\ r.dir \in {task[p].dir, Missing} /\ (r # IdleTask => r.name = n0)
  BY IdleTaskFits DEF Moves
<1>3. Alone'
  BY <1>0, <1>1, <1>2 DEF Alone
<1>4. DirsApart'
  BY <1>0, <1>1, <1>2 DEF DirsApart
<1>5. ASSUME NEW n \in Names, n \notin excused'
      PROVE  /\ \A q \in Clients : task'[q].name = n => Stands(task'[q], data'[n], creds'[n])
             /\ (\A q \in Clients : task'[q].name # n) => Settled(data'[n], creds'[n])
  <2>1. /\ n \notin excused /\ n # Missing
        /\ \A q \in Clients : task[q].name = n => Stands(task[q], data[n], creds[n])
        /\ (\A q \in Clients : task[q].name # n) => Settled(data[n], creds[n])
    BY <1>0, <1>5, InstancesAssumption DEF CredentialsFit
  <2>2. CASE n # n0
    <3>1. data'[n] = data[n] /\ creds'[n] = creds[n] /\ r.name # n /\ task[p].name # n
      BY <1>2, <2>1, <2>2 DEF Moves
    <3> QED BY <1>1, <2>1, <3>1
  <2>3. CASE n = n0
    <3>1. \A q \in Clients : q # p => task[q].name # n
      BY <1>0, <2>1, <2>3 DEF Alone
    <3>2. Stands(task[p], data[n], creds[n])
      BY <2>1, <2>3
    <3>3. IF r = IdleTask THEN Settled(data'[n], creds'[n]) ELSE Stands(r, data'[n], creds'[n])
      BY <1>5, <2>3, <3>2 DEF CredentialsMove
    <3>4. r = IdleTask => r.name # n
      BY <2>1, IdleTaskFits
    <3> QED BY <1>1, <1>2, <2>3, <3>1, <3>3, <3>4
  <2> QED BY <2>2, <2>3
<1> QED BY <1>3, <1>4, <1>5 DEF CredentialsFit

(* What ProjectsKept says about the instance that a command works on. *)
LEMMA KeptHere ==
    ASSUME InstancesInductive, NEW p \in Clients, task[p] # IdleTask
    PROVE  \A d \in linked : stash[d] = task[p].name =>
              \/ task[p].name \in excused \/ creds[task[p].name] # Missing
              \/ task[p].op \in Removing /\ task[p].pc = "projects"
<1>1. task[p] \in Tasks /\ task[p].name # Missing
  BY TaskIs DEF InstancesInductive, InstancesTyped
<1> QED BY <1>1 DEF InstancesInductive, ProjectsKept, Alone, On

(* A step of one command leaves the projects as the others expect them. *)
LEMMA ProjectsStay ==
    ASSUME InstancesInductive, NEW p \in Clients, task[p] # IdleTask, NEW r \in Tasks,
           Moves(p, r), ProjectsMove(p, r, task[p].name), linked' \subseteq Dirs
    PROVE  ProjectsKept' /\ ProjectsFit'
<1> DEFINE n0 == task[p].name
<1>0. /\ task \in [Clients -> Tasks] /\ Alone /\ DirsApart /\ ProjectsFit /\ ProjectsKept
      /\ n0 \in Names /\ n0 # Missing
      /\ task' = [task EXCEPT ![p] = r] /\ excused \subseteq excused'
  BY TaskIs DEF InstancesInductive, InstancesTyped, Moves
<1>1. task'[p] = r /\ \A q \in Clients : q # p => task'[q] = task[q]
  BY <1>0
<1>2. \A d \in linked' : stash'[d] = stash[d] /\ (d \in linked \/ stash[d] = n0)
  BY DEF ProjectsMove
<1>3. \A d \in linked' : stash'[d] \in Names
  BY <1>0, <1>2 DEF ProjectsFit
<1>4. ProjectsKept'
  <2> SUFFICES ASSUME NEW d \in linked'
               PROVE  \/ stash'[d] \in excused' \/ creds'[stash'[d]] # Missing
                      \/ \E q \in Clients : On(q, Removing, "projects")' /\ task'[q].name = stash'[d]
    BY DEF ProjectsKept, Removing
  <2>1. CASE stash'[d] = n0
    <3>1. n0 \in excused' \/ creds'[n0] # Missing \/ (r.op \in Removing /\ r.pc = "projects")
      BY <2>1 DEF ProjectsMove
    <3>2. r.op \in Removing => r.name = n0
      BY IdleTaskFits DEF Moves, Removing
    <3>3. r.op \in Removing /\ r.pc = "projects" => On(p, Removing, "projects")' /\ task'[p].name = n0
      BY <1>1, <3>2 DEF On, Removing
    <3> QED BY <2>1, <3>1, <3>3
  <2>2. CASE stash'[d] # n0
    <3>1. d \in linked /\ stash'[d] = stash[d] /\ stash[d] \in Names /\ creds'[stash[d]] = creds[stash[d]]
      BY <1>0, <1>2, <1>3, <2>2 DEF Moves
    <3>2. ASSUME NEW q \in Clients, On(q, Removing, "projects"), task[q].name = stash[d]
          PROVE  On(q, Removing, "projects")' /\ task'[q].name = stash'[d]
      <4>1. task'[q] = task[q]
        BY <1>1, <2>2, <3>1, <3>2
      <4> QED BY <3>1, <3>2, <4>1 DEF On, Removing
    <3> QED BY <1>0, <3>1, <3>2 DEF ProjectsKept
  <2> QED BY <2>1, <2>2
<1>5. ASSUME NEW q \in Clients PROVE ProjectFits(task'[q], excused', linked', stash')
  <2>1. CASE q = p
    BY <1>1, <2>1 DEF ProjectsMove
  <2>2. CASE q # p /\ task[q] # IdleTask
    <3>1. /\ task'[q] = task[q] /\ ProjectFits(task[q], excused, linked, stash)
          /\ task[q] \in Tasks /\ Working(task[q])
      BY <1>0, <1>1, <2>2, TaskIs DEF ProjectsFit
    <3>2. ASSUME task[q].op \in {"init", "link"}, task[q].pc # "migrate"
          PROVE  stash'[task[q].dir] = Missing
      <4>1. task[q].dir \in Dirs /\ stash[task[q].dir] = Missing
        BY <3>1, <3>2 DEF ProjectFits, Working
      <4>2. task[q].dir # task[p].dir
        BY <1>0, <2>2, <4>1, InstancesAssumption DEF DirsApart
      <4> QED BY <4>1, <4>2 DEF ProjectsMove
    <3>3. ASSUME task[q].name \notin excused', NEW d \in linked', stash'[d] = task[q].name
          PROVE  task[q].name \notin excused /\ d \in linked /\ stash[d] = task[q].name
      <4>1. task[q].name \notin excused /\ task[q].name \in Names /\ task[q].name # Missing
        BY <1>0, <3>1, <3>3, InstancesAssumption DEF Working
      <4>2. task[q].name # n0
        BY <1>0, <2>2, <4>1 DEF Alone
      <4> QED BY <1>2, <3>3, <4>1, <4>2
    <3> QED BY <3>1, <3>2, <3>3 DEF ProjectFits
  <2>3. CASE q # p /\ task[q] = IdleTask
    <3>1. task'[q] = IdleTask
      BY <1>1, <2>3
    <3> QED BY <3>1, IdleTaskFits DEF ProjectFits
  <2> QED BY <2>1, <2>2, <2>3
<1> QED BY <1>3, <1>4, <1>5 DEF ProjectsFit

(* Only commands that create an instance are at the steps that use ports. *)
LEMMA CreatorsOnly ==
    ASSUME NEW r \in Tasks, r.op \notin Creating
    PROVE  r.pc \notin {"truncate", "write", "bootstrap", "rename"}
<1>1. r # IdleTask => Working(r)
  BY TaskIs
<1> QED BY <1>1, TaskIs, IdleTaskFits DEF Working, Creating, Tearing, Operations

(* A step of one command leaves the map of ports as the others expect it. *)
LEMMA PortsStay ==
    ASSUME InstancesInductive, NEW p \in Clients, task[p] # IdleTask, NEW r \in Tasks,
           Moves(p, r), PortsMove(p, r)
    PROVE  ~shaky' => PortsFit'
<1> SUFFICES ASSUME ~shaky' PROVE PortsFit'
  OBVIOUS
<1>0. /\ task \in [Clients -> Tasks] /\ ~shaky /\ PortsFit /\ task' = [task EXCEPT ![p] = r]
      /\ task[p] \in Tasks
  BY DEF InstancesInductive, InstancesTyped, Moves
<1>1. task'[p] = r /\ \A q \in Clients : q # p => task'[q] = task[q]
  BY <1>0
<1>2. r.op \in Creating => task[p].op \in Creating
  BY IdleTaskFits DEF Moves, Creating
<1>3. \A q, s \in Clients : q # s => ~(task'[q].op \in Creating /\ task'[s].op \in Creating)
  BY <1>0, <1>1, <1>2 DEF PortsFit
<1>4. CASE task[p].op \in Creating
  <2>1. PortFits(r, ports', data', made') /\ (r.pc # "write" => Registered(ports', data'))
    BY <1>4 DEF PortsMove
  <2>2. ASSUME NEW q \in Clients, q # p PROVE PortFits(task'[q], ports', data', made')
    <3>1. task'[q] = task[q] /\ task[q].op \notin Creating
      BY <1>0, <1>1, <1>4, <2>2 DEF PortsFit
    <3>2. task'[q].pc \notin {"truncate", "write", "bootstrap", "rename"}
      BY <1>0, <3>1, CreatorsOnly
    <3> QED BY <3>2 DEF PortFits
  <2> QED BY <1>1, <1>3, <2>1, <2>2 DEF PortsFit, Creating
<1>5. CASE task[p].op \notin Creating
  <2>1. /\ ports' = ports /\ made' = made
        /\ \A n \in Names : data'[n] # Missing => data[n] # Missing /\ data'[n].port = data[n].port
    BY <1>5 DEF PortsMove
  <2>2. \A map : Registered(map, data) => Registered(map, data')
    BY <2>1 DEF Registered
  <2>3. task[p].pc # "write" /\ r.pc \notin {"truncate", "write", "bootstrap", "rename"}
    BY <1>0, <1>2, <1>5, CreatorsOnly
  <2>4. (\A q \in Clients : task'[q].pc # "write") => Registered(ports', data')
    <3> SUFFICES ASSUME \A q \in Clients : task'[q].pc # "write" PROVE Registered(ports', data')
      OBVIOUS
    <3>1. \A q \in Clients : task[q].pc # "write"
      BY <1>1, <2>3
    <3> QED BY <1>0, <2>1, <2>2, <3>1 DEF PortsFit
  <2>5. ASSUME NEW q \in Clients PROVE PortFits(task'[q], ports', data', made')
    <3>1. CASE q = p
      BY <1>1, <2>3, <3>1 DEF PortFits
    <3>2. CASE q # p
      <4>1. task'[q] = task[q] /\ PortFits(task[q], ports, data, made)
        BY <1>0, <1>1, <3>2 DEF PortsFit
      <4> QED BY <2>1, <2>2, <4>1 DEF PortFits
    <3> QED BY <3>1, <3>2
  <2> QED BY <1>3, <2>4, <2>5 DEF PortsFit, Creating
<1> QED BY <1>4, <1>5

(* A step that keeps credentials, projects and ports in order keeps the invariant. *)
LEMMA ClientMoves ==
    ASSUME InstancesInductive, NEW p \in Clients, task[p] # IdleTask, NEW r \in Tasks,
           Moves(p, r), FilesTyped', CredentialsMove(p, r, task[p].name),
           ProjectsMove(p, r, task[p].name), PortsMove(p, r)
    PROVE  InstancesInductive'
<1>1. Alone' /\ DirsApart' /\ CredentialsFit'
  BY CredentialsStay
<1>2. ProjectsKept' /\ ProjectsFit'
  BY ProjectsStay DEF FilesTyped
<1>3. ~shaky' => PortsFit'
  BY PortsStay
<1>4. InstancesTyped'
  <2>1. task' \in [Clients -> Tasks] /\ excused' \subseteq Names /\ given' \in Nat
    BY TaskIs DEF InstancesInductive, InstancesTyped, Moves
  <2> QED BY <2>1 DEF InstancesTyped, FilesTyped
<1> QED BY <1>1, <1>2, <1>3, <1>4 DEF InstancesInductive

(* A command begins. *)
LEMMA CommandIs ==
    ASSUME InstancesTyped, NEW p \in Clients, NEW op \in Operations, NEW pc \in Places, NEW n \in Names,
           NEW d \in Dirs \cup {Missing}, Command(p, op, n, d, pc)
    PROVE  \E r \in TaskRecord :
              /\ r.op = op /\ r.pc = pc /\ r.name = n /\ r.dir = d /\ r.todo = {}
              /\ r.map = (IF op = "reset" THEN creds[n] ELSE Missing)
              /\ task' = [task EXCEPT ![p] = r]
<1> DEFINE map == IF op = "reset" THEN creds[n] ELSE Missing
           id == given + 1
           r == [IdleTask EXCEPT !.op = op, !.pc = pc, !.name = n, !.dir = d, !.id = id, !.map = map]
<1>1. map \in Account \cup {Missing} /\ id \in Nat
  BY DEF InstancesTyped
<1> HIDE DEF map, id
<1>2. IdleTask \in TaskRecord /\ IdleTask.todo = {}
  BY IdleTaskFits DEF Tasks
<1>3. /\ r.op = op /\ r.pc = pc /\ r.name = n /\ r.dir = d /\ r.map = map /\ r.todo = {}
      /\ r \in TaskRecord
  BY <1>1, <1>2 DEF TaskRecord
<1>4. task' = [task EXCEPT ![p] = r]
  BY DEF Command, map, id
<1> HIDE DEF r
<1> QED BY <1>3, <1>4 DEF map

LEMMA TaskBegins ==
    ASSUME InstancesInductive, NEW p \in Clients, NEW op, NEW pc, NEW n \in Names,
           NEW d \in Dirs \cup {Missing}, Command(p, op, n, d, pc),
           NEW r \in Tasks, task' = [task EXCEPT ![p] = r],
           r.op = op, r.pc = pc, r.name = n, r.dir = d,
           n \in excused' \/ (Settled(data[n], creds[n]) => Stands(r, data[n], creds[n])),
           ProjectFits(r, excused', linked, stash),
           pc \notin {"truncate", "write", "bootstrap", "rename"}
    PROVE  InstancesInductive'
<1>0. /\ InstancesTyped /\ Alone /\ DirsApart /\ CredentialsFit /\ ProjectsFit /\ ProjectsKept
      /\ task \in [Clients -> Tasks] /\ given \in Nat /\ excused \subseteq Names /\ n # Missing
  BY InstancesAssumption DEF InstancesInductive, InstancesTyped
<1>2. /\ task[p] = IdleTask /\ task' = [task EXCEPT ![p] = r] /\ given' = given + 1
      /\ excused' = (IF \E q \in Clients : task[q].name = n THEN excused \cup {n} ELSE excused)
      /\ shaky' = (shaky \/ (op \in Creating /\ \E q \in Clients : task[q].op \in Creating))
      /\ data' = data /\ made' = made /\ creds' = creds /\ service' = service /\ ports' = ports
      /\ manifest' = manifest /\ stash' = stash /\ linked' = linked
  BY DEF Command, files, projects
<1>3. task'[p] = r /\ \A q \in Clients : q # p => task'[q] = task[q]
  BY <1>0, <1>2
<1>4. InstancesTyped'
  <2>1. task' \in [Clients -> Tasks] /\ excused' \subseteq Names /\ given' \in Nat /\ shaky' \in BOOLEAN
    BY <1>0, <1>2 DEF InstancesTyped
  <2> QED BY <1>0, <1>2, <2>1 DEF InstancesTyped
<1>5. Alone'
  BY <1>0, <1>2, <1>3 DEF Alone
<1>6. DirsApart'
  <2>1. d # Missing => \A q \in Clients : task[q].dir # d
    BY IdleTaskFits DEF Command
  <2> QED BY <1>0, <1>3, <2>1 DEF DirsApart
<1>7. CredentialsFit'
  <2> SUFFICES ASSUME NEW m \in Names, m \notin excused'
               PROVE  /\ \A q \in Clients : task'[q].name = m => Stands(task'[q], data[m], creds[m])
                      /\ (\A q \in Clients : task'[q].name # m) => Settled(data[m], creds[m])
    BY <1>2 DEF CredentialsFit
  <2>1. /\ m \notin excused /\ m # Missing
        /\ \A q \in Clients : task[q].name = m => Stands(task[q], data[m], creds[m])
        /\ (\A q \in Clients : task[q].name # m) => Settled(data[m], creds[m])
    BY <1>0, <1>2, InstancesAssumption DEF CredentialsFit
  <2>2. CASE m = n
    <3>1. \A q \in Clients : task[q].name # m
      BY <1>2, <2>2
    <3>2. Stands(r, data[m], creds[m])
      BY <2>1, <2>2, <3>1
    <3> QED BY <1>3, <2>2, <3>1, <3>2
  <2>3. CASE m # n
    <3>1. task[p].name # m
      BY <1>2, <2>1, IdleTaskFits
    <3> QED BY <1>3, <2>1, <2>3, <3>1
  <2> QED BY <2>2, <2>3
<1>8. ProjectsKept'
  <2>1. \A q \in Clients : On(q, Removing, "projects") => q # p
    BY <1>2, IdleTaskFits DEF On, Removing
  <2>2. \A q \in Clients : On(q, Removing, "projects") => On(q, Removing, "projects")' /\ task'[q].name = task[q].name
    BY <1>3, <2>1 DEF On, Removing
  <2>3. excused \subseteq excused'
    BY <1>2
  <2> SUFFICES ASSUME NEW e \in linked
               PROVE  \/ stash[e] \in excused' \/ creds[stash[e]] # Missing
                      \/ \E q \in Clients : On(q, Removing, "projects")' /\ task'[q].name = stash[e]
    BY <1>2 DEF ProjectsKept, Removing
  <2> QED BY <1>0, <2>2, <2>3 DEF ProjectsKept
<1>9. ProjectsFit'
  <2>1. excused \subseteq excused'
    BY <1>2
  <2>2. ASSUME NEW q \in Clients PROVE ProjectFits(task'[q], excused', linked, stash)
    <3>1. CASE q = p
      BY <1>3, <3>1
    <3>2. CASE q # p
      <4>1. task'[q] = task[q] /\ ProjectFits(task[q], excused, linked, stash)
        BY <1>0, <1>3, <3>2 DEF ProjectsFit
      <4> QED BY <2>1, <4>1 DEF ProjectFits
    <3> QED BY <3>1, <3>2
  <2> QED BY <1>0, <1>2, <2>2 DEF ProjectsFit
<1>10. ~shaky' => PortsFit'
  <2> SUFFICES ASSUME ~shaky' PROVE PortsFit'
    OBVIOUS
  <2>1. PortsFit /\ (op \in Creating => \A q \in Clients : task[q].op \notin Creating)
    BY <1>2 DEF InstancesInductive
  <2>2. \A q, s \in Clients : q # s => ~(task'[q].op \in Creating /\ task'[s].op \in Creating)
    BY <1>3, <2>1 DEF PortsFit
  <2>3. (\A q \in Clients : task'[q].pc # "write") => Registered(ports', data')
    <3>1. task[p].pc # "write"
      BY <1>2, IdleTaskFits
    <3> QED BY <1>2, <1>3, <2>1, <3>1 DEF PortsFit
  <2>4. ASSUME NEW q \in Clients PROVE PortFits(task'[q], ports', data', made')
    <3>1. CASE q = p
      BY <1>3, <3>1 DEF PortFits
    <3>2. CASE q # p
      BY <1>2, <1>3, <2>1, <3>2 DEF PortsFit
    <3> QED BY <3>1, <3>2
  <2> QED BY <2>2, <2>3, <2>4 DEF PortsFit, Creating
<1> QED BY <1>4, <1>5, <1>6, <1>7, <1>8, <1>9, <1>10 DEF InstancesInductive

(* A step that neither forgets nor adds a project. *)
LEMMA ProjectsRest ==
    ASSUME InstancesInductive, NEW p \in Clients, task[p] # IdleTask, NEW r,
           Moves(p, r), stash' = stash, linked' = linked,
           creds'[task[p].name] = creds[task[p].name] \/ creds'[task[p].name] # Missing,
           task[p].pc = "projects" => task[p].name \in excused',
           \/ r = IdleTask
           \/ r.todo = task[p].todo /\ task[p].pc \notin {"migrate", "list", "own"}
    PROVE  ProjectsMove(p, r, task[p].name)
<1>0. /\ task[p] \in Tasks /\ ProjectFits(task[p], excused, linked, stash)
      /\ excused \subseteq excused'
  BY DEF InstancesInductive, InstancesTyped, ProjectsFit, Moves
<1>1. ProjectFits(r, excused', linked, stash)
  <2>1. CASE r = IdleTask
    BY <2>1, IdleTaskFits DEF ProjectFits
  <2>2. CASE r # IdleTask
    BY <1>0, <2>2 DEF Moves, ProjectFits
  <2> QED BY <2>1, <2>2
<1>2. \A d \in linked : stash[d] = task[p].name =>
        task[p].name \in excused' \/ creds'[task[p].name] # Missing
  BY <1>0, KeptHere
<1> QED BY <1>1, <1>2 DEF ProjectsMove

(* The commands begin. *)
LEMMA Beginnings ==
    ASSUME InstancesInductive, NEW p \in Clients, NEW n \in Names,
           \/ Create(p, n) \/ Link(p, n) \/ ResetPassword(p, n)
           \/ \E force \in BOOLEAN : DestroyInstance(p, n, force) \/ Unlink(p, n, force)
    PROVE  InstancesInductive'
<1>0. InstancesTyped /\ Missing \in Dirs \cup {Missing}
  BY DEF InstancesInductive
<1>1. ASSUME NEW op \in {"create", "add", "reset", "destroy", "unlink"},
             NEW pc \in {"ports", "overwrite", "alter", "list"}, Command(p, op, n, Missing, pc),
             op = "create" => pc = "ports" /\ data[n] = Missing /\ creds[n] = Missing,
             op = "add" => pc = "overwrite", op = "reset" => pc = "alter",
             op \in {"destroy", "unlink"} => pc = "list", op = "unlink" => data[n] = Missing
      PROVE  InstancesInductive'
  <2>1. op \in Operations /\ pc \in Places
    BY DEF Operations, Places, Making
  <2>2. PICK r \in TaskRecord :
              /\ r.op = op /\ r.pc = pc /\ r.name = n /\ r.dir = Missing /\ r.todo = {}
              /\ r.map = (IF op = "reset" THEN creds[n] ELSE Missing)
              /\ task' = [task EXCEPT ![p] = r]
    BY <1>0, <1>1, <2>1, CommandIs
  <2>3. creds[n] \in Account \cup {Missing}
    BY <1>0 DEF InstancesTyped
  <2>4. Working(r)
    BY <1>1, <2>2, <2>3 DEF Working, Creating, Making
  <2>5. Settled(data[n], creds[n]) => Stands(r, data[n], creds[n])
    BY <1>1, <2>2 DEF Stands, Settled, Creating, Removing, Making
  <2>6. ProjectFits(r, excused', linked, stash)
    BY <1>1, <2>2 DEF ProjectFits
  <2>7. r \in Tasks /\ pc \notin {"truncate", "write", "bootstrap", "rename"}
    BY <2>4 DEF Tasks
  <2> QED BY <1>0, <1>1, <2>2, <2>5, <2>6, <2>7, TaskBegins
<1>2. CASE Create(p, n)
  BY <1>1, <1>2 DEF Create
<1>3. CASE Link(p, n)
  BY <1>1, <1>3 DEF Link
<1>4. CASE ResetPassword(p, n)
  BY <1>1, <1>4 DEF ResetPassword
<1>5. ASSUME NEW force \in BOOLEAN, DestroyInstance(p, n, force)
      PROVE  InstancesInductive'
  BY <1>1, <1>5 DEF DestroyInstance
<1>6. ASSUME NEW force \in BOOLEAN, Unlink(p, n, force)
      PROVE  InstancesInductive'
  BY <1>1, <1>6 DEF Unlink
<1> QED BY <1>2, <1>3, <1>4, <1>5, <1>6

LEMMA ProjectBegins ==
    ASSUME InstancesInductive, InstancesTyped, NEW p \in Clients, NEW d \in Dirs \cup {Missing}, d \in Dirs,
           NEW n \in Names, NEW op \in Operations, NEW pc \in Places, Command(p, op, n, d, pc),
           op \in {"init", "link", "project_unlink"},
           op = "init" => pc \in {"manifest", "ports"} /\ stash[d] = Missing /\ creds[n] = Missing,
           op = "link" => pc \in {"manifest", "stash"} /\ stash[d] = Missing,
           op = "project_unlink" => pc = "own" \/ (pc = "data" /\ UsersOf(n) = {d})
    PROVE  InstancesInductive'
<1>1. PICK r \in TaskRecord :
            /\ r.op = op /\ r.pc = pc /\ r.name = n /\ r.dir = d /\ r.todo = {}
            /\ r.map = (IF op = "reset" THEN creds[n] ELSE Missing)
            /\ task' = [task EXCEPT ![p] = r]
  BY CommandIs
<1>2. op = "project_unlink" => pc \notin {"manifest", "ports", "stash"}
  OBVIOUS
<1>3. Working(r)
  BY <1>1, <1>2 DEF Working, Creating, Making, Tearing
<1>4. Settled(data[n], creds[n]) => Stands(r, data[n], creds[n])
  BY <1>1, <1>2 DEF Stands, Settled, Creating, Removing, Making
<1>5. ProjectFits(r, excused', linked, stash)
  <2>1. op = "project_unlink" /\ pc # "own" => \A e \in linked : stash[e] = n => e = d
    BY DEF UsersOf, InstancesTyped
  <2> QED BY <1>1, <2>1 DEF ProjectFits
<1>6. r \in Tasks
  BY <1>3 DEF Tasks
<1>7. pc \notin {"truncate", "write", "bootstrap", "rename"}
  OBVIOUS
<1> QED BY <1>1, <1>4, <1>5, <1>6, <1>7, TaskBegins

LEMMA ProjectBeginnings ==
    ASSUME InstancesInductive, NEW p \in Clients, NEW d \in Dirs,
           \/ \E n \in Names : InitProject(p, d, n) \/ LinkProject(p, d, n)
           \/ \E destroy \in BOOLEAN : UnlinkProject(p, d, destroy)
    PROVE  InstancesInductive'
<1>0. InstancesTyped /\ d \in Dirs \cup {Missing}
  BY DEF InstancesInductive
<1>1. ASSUME NEW n \in Names, InitProject(p, d, n)
      PROVE  InstancesInductive'
  BY <1>0, <1>1, ProjectBegins DEF InitProject, Operations, Places, Making
<1>2. ASSUME NEW n \in Names, LinkProject(p, d, n)
      PROVE  InstancesInductive'
  BY <1>0, <1>2, ProjectBegins DEF LinkProject, Operations, Places, Making
<1>3. ASSUME NEW destroy \in BOOLEAN, UnlinkProject(p, d, destroy)
      PROVE  InstancesInductive'
  <2>1. stash[d] \in Names
    BY <1>0, <1>3 DEF InstancesTyped, UnlinkProject
  <2> QED BY <1>0, <1>3, <2>1, ProjectBegins DEF UnlinkProject, Operations, Places, Tearing
<1> QED BY <1>1, <1>2, <1>3

(* A command that is at one of its steps. *)
LEMMA AtWork ==
    ASSUME InstancesInductive, NEW p \in Clients, task[p].pc # "idle"
    PROVE  /\ task[p] # IdleTask /\ task[p] \in TaskRecord /\ Working(task[p]) /\ task[p].name \in Names
           /\ task[p].name # Missing /\ InstancesTyped /\ FilesTyped
           /\ data[task[p].name] \in Account \cup {Missing} /\ made[task[p].name] \in Account \cup {Missing}
           /\ creds[task[p].name] \in Account \cup {Missing}
<1>1. task[p] # IdleTask /\ task[p] \in Tasks /\ InstancesTyped
  BY IdleTaskFits DEF InstancesInductive, InstancesTyped
<1>2. task[p] \in TaskRecord /\ Working(task[p]) /\ task[p].name \in Names /\ task[p].name # Missing
  BY <1>1, TaskIs
<1> QED BY <1>1, <1>2 DEF InstancesTyped, FilesTyped

LEMMA Onward ==
    ASSUME InstancesInductive, NEW p \in Clients, task[p].pc # "idle", NEW pc \in Places, Step(p, pc)
    PROVE  \E r \in TaskRecord :
              /\ r.op = task[p].op /\ r.pc = pc /\ r.name = task[p].name /\ r.dir = task[p].dir
              /\ r.id = task[p].id /\ r.map = task[p].map /\ r.port = task[p].port
              /\ r.todo = task[p].todo /\ r.found = task[p].found
              /\ task' = [task EXCEPT ![p] = r]
<1> DEFINE r == [task[p] EXCEPT !.pc = pc]
<1>1. task[p] \in TaskRecord
  BY AtWork
<1>2. /\ r \in TaskRecord
      /\ r.op = task[p].op /\ r.pc = pc /\ r.name = task[p].name /\ r.dir = task[p].dir
      /\ r.id = task[p].id /\ r.map = task[p].map /\ r.port = task[p].port
      /\ r.todo = task[p].todo /\ r.found = task[p].found
  BY <1>1 DEF TaskRecord
<1>3. task' = [task EXCEPT ![p] = r]
  BY DEF Step
<1> HIDE DEF r
<1> QED BY <1>2, <1>3

(* A port is always free, and the one that is allocated is new to the map. *)
LEMMA FreePort ==
    ASSUME NEW map \in [Names -> Nat]
    PROVE  /\ NextMinPort(map) \in Nat \ {0}
           /\ \A n \in Names : map[n] # NextMinPort(map)
<1> DEFINE K == Cardinality(Names)
           Used == {map[n] : n \in Names}
           Free == {port \in 1..(K + 1) : port \notin Used}
<1>1. IsFiniteSet(Names) /\ K \in Nat
  BY FS_CardinalityType, InstancesAssumption
<1>2. IsFiniteSet(Used) /\ Cardinality(Used) <= K /\ Cardinality(Used) \in Nat
  <2>1. map \in Surjection(Names, Used)
    BY DEF Surjection
  <2>2. IsFiniteSet(Used) /\ Cardinality(Used) <= K
    BY <1>1, <2>1, FS_Surjection
  <2> QED BY <2>2, FS_CardinalityType
<1>3. Free # {}
  <2> SUFFICES ASSUME Free = {} PROVE FALSE
    OBVIOUS
  <2>1. 1..(K + 1) \in SUBSET Used
    OBVIOUS
  <2>2. Cardinality(1..(K + 1)) <= Cardinality(Used)
    BY <1>2, <2>1, FS_Subset
  <2>3. Cardinality(1..(K + 1)) = K + 1
    <3> HIDE DEF K
    <3>1. 1 \in Int /\ K + 1 \in Int /\ ~(1 > K + 1)
      BY <1>1
    <3>2. Cardinality(1..(K + 1)) = (K + 1) - 1 + 1
      BY <3>1, FS_Interval
    <3> QED BY <1>1, <3>2
  <2> QED BY <1>1, <1>2, <2>2, <2>3
<1>4. Free \subseteq Nat
  BY <1>1
<1>5. \E port \in Free : \A q \in Free : ~(<<q, port>> \in OpToRel(<, Nat))
  BY <1>3, <1>4, WFMin, NatLessThanWellFounded
<1>6. PICK port \in Free : \A q \in Free : ~(q < port)
  BY <1>4, <1>5 DEF OpToRel
<1> QED
  BY <1>1, <1>6 DEF NextMinPort, MinPort

(* A step of the creation of an instance. *)
LEMMA CreatorMoves ==
    ASSUME InstancesInductive, NEW p \in Clients, task[p] # IdleTask, task[p].op \in Creating,
           task[p].pc \notin {"manifest", "stash", "migrate"},
           NEW r \in Tasks, task' = [task EXCEPT ![p] = r],
           \/ r = IdleTask
           \/ r.op = task[p].op /\ r.name = task[p].name /\ r.dir = task[p].dir /\ r.todo = task[p].todo,
           manifest' = manifest /\ stash' = stash /\ linked' = linked,
           excused' = excused /\ given' = given, shaky' = shaky \/ shaky' = TRUE,
           \A n \in Names : n # task[p].name => data'[n] = data[n] /\ creds'[n] = creds[n],
           creds'[task[p].name] = creds[task[p].name] \/ creds'[task[p].name] # Missing,
           FilesTyped', CredentialsMove(p, r, task[p].name), PortsMove(p, r)
    PROVE  InstancesInductive'
<1>1. task[p] \in Tasks /\ shaky \in BOOLEAN
  BY DEF InstancesInductive, InstancesTyped
<1>2. task[p].pc \notin {"projects", "migrate", "list", "own"}
  BY <1>1, TaskIs DEF Working, Creating, Making
<1>3. Moves(p, r)
  BY <1>1 DEF Moves
<1>4. ProjectsMove(p, r, task[p].name)
  BY <1>2, <1>3, ProjectsRest
<1> QED BY <1>3, <1>4, ClientMoves

LEMMA GivesPort ==
    ASSUME InstancesInductive, NEW p \in Clients, GivenPort(p)
    PROVE  InstancesInductive'
<1>1. task[p].pc = "ports" /\ task[p].op = "create"
  BY DEF GivenPort, On
<1>2. PICK port \in MinPort..Cardinality(Names) :
        task' = [task EXCEPT ![p].pc = "bootstrap", ![p].port = port]
  BY DEF GivenPort
<1>3. port \in Nat
  <2>1. Cardinality(Names) \in Nat
    BY FS_CardinalityType, InstancesAssumption
  <2> QED BY <2>1 DEF MinPort
<1>4. /\ task[p] # IdleTask /\ task[p] \in TaskRecord /\ Working(task[p]) /\ task[p].name \in Names
      /\ FilesTyped
  BY <1>1, AtWork
<1> DEFINE r == [task[p] EXCEPT !.pc = "bootstrap", !.port = port]
<1>5. /\ r \in TaskRecord /\ r.op = task[p].op /\ r.pc = "bootstrap" /\ r.name = task[p].name
      /\ r.dir = task[p].dir /\ r.map = task[p].map /\ r.todo = task[p].todo
  BY <1>3, <1>4 DEF TaskRecord, Places, Making
<1>6. task' = [task EXCEPT ![p] = r]
  BY <1>2
<1> HIDE DEF r
<1>7. r \in Tasks
  BY <1>1, <1>4, <1>5 DEF Tasks, Working, Creating, Making
<1>8. /\ data' = data /\ made' = made /\ creds' = creds /\ service' = service /\ ports' = ports
      /\ manifest' = manifest /\ stash' = stash /\ linked' = linked
      /\ excused' = excused /\ given' = given /\ shaky' = TRUE
  BY DEF GivenPort, files, projects
<1>9. FilesTyped'
  BY <1>4, <1>8 DEF FilesTyped
<1>10. CredentialsMove(p, r, task[p].name)
  BY <1>1, <1>5, <1>8, IdleTaskFits DEF CredentialsMove, Stands, Settled, Creating, Making, Removing
<1>11. PortsMove(p, r)
  BY <1>8 DEF PortsMove
<1>12. task[p].op \in Creating /\ task[p].pc \notin {"manifest", "stash", "migrate"}
  BY <1>1 DEF Creating
<1> QED BY <1>4, <1>5, <1>6, <1>7, <1>8, <1>9, <1>10, <1>11, <1>12, CreatorMoves

(* No other command that creates an instance runs beside this one. *)
LEMMA OneCreator ==
    ASSUME InstancesInductive, ~shaky, NEW p \in Clients, task[p].op \in Creating
    PROVE  /\ task[p].pc # "write" => Registered(ports, data)
           /\ PortFits(task[p], ports, data, made)
<1>1. PortsFit /\ \A q \in Clients : task[q] \in Tasks
  BY DEF InstancesInductive, InstancesTyped
<1>2. \A q \in Clients : q # p => task[q].pc # "write"
  BY <1>1, CreatorsOnly DEF PortsFit
<1> QED BY <1>1, <1>2 DEF PortsFit

LEMMA AllocatesPort ==
    ASSUME InstancesInductive, NEW p \in Clients, AllocatePort(p)
    PROVE  InstancesInductive'
<1>1. task[p].pc = "ports" /\ task[p].op \in Creating
  BY DEF AllocatePort, On
<1>2. /\ task[p] # IdleTask /\ task[p] \in TaskRecord /\ Working(task[p]) /\ task[p].name \in Names
      /\ FilesTyped /\ ports \in [Names -> Nat]
  BY <1>1, AtWork DEF FilesTyped
<1>3. /\ data' = data /\ made' = made /\ creds' = creds /\ service' = service /\ ports' = ports
      /\ manifest' = manifest /\ stash' = stash /\ linked' = linked
      /\ excused' = excused /\ given' = given /\ shaky' = shaky
  BY DEF AllocatePort, files, projects, history
<1>4. FilesTyped'
  BY <1>2, <1>3 DEF FilesTyped
<1>5. ASSUME NEW r \in TaskRecord, r.op = task[p].op, r.pc \in {"bootstrap", "truncate"},
             r.name = task[p].name, r.dir = task[p].dir, r.todo = task[p].todo,
             r.pc = "truncate" => r.map \in [Names -> Nat],
             task' = [task EXCEPT ![p] = r], ~shaky => PortFits(r, ports, data, made)
      PROVE  InstancesInductive'
  <2>1. r \in Tasks
    BY <1>1, <1>2, <1>5 DEF Tasks, Working, Creating, Making
  <2>2. CredentialsMove(p, r, task[p].name)
    BY <1>1, <1>3, <1>5, IdleTaskFits DEF CredentialsMove, Stands, Settled, Creating, Making, Removing
  <2>3. PortsMove(p, r)
    BY <1>1, <1>3, <1>5, OneCreator DEF PortsMove, FilesTyped
  <2> QED BY <1>1, <1>2, <1>3, <1>4, <1>5, <2>1, <2>2, <2>3, CreatorMoves
<1>6. CASE ports[task[p].name] # 0
  <2> DEFINE r == [task[p] EXCEPT !.pc = "bootstrap", !.port = ports[task[p].name]]
  <2>1. ports[task[p].name] \in Nat
    BY <1>2
  <2>2. /\ r \in TaskRecord /\ r.op = task[p].op /\ r.pc = "bootstrap" /\ r.name = task[p].name
        /\ r.dir = task[p].dir /\ r.todo = task[p].todo /\ r.port = ports[task[p].name]
    BY <1>2, <2>1 DEF TaskRecord, Places, Making
  <2>3. task' = [task EXCEPT ![p] = r]
    BY <1>6 DEF AllocatePort
  <2> HIDE DEF r
  <2>4. PortFits(r, ports, data, made)
    BY <1>6, <2>2 DEF PortFits
  <2> QED BY <1>5, <2>2, <2>3, <2>4
<1>7. CASE ports[task[p].name] = 0
  <2> DEFINE port == NextMinPort(ports)
             map == [ports EXCEPT ![task[p].name] = port]
             r == [task[p] EXCEPT !.pc = "truncate", !.port = port, !.map = map]
  <2>0. task' = [task EXCEPT ![p] = r]
    BY <1>7 DEF AllocatePort
  <2>1. port \in Nat \ {0} /\ \A n \in Names : ports[n] # port
    BY <1>2, FreePort
  <2> HIDE DEF port
  <2>2. map \in [Names -> Nat] /\ map[task[p].name] = port
        /\ \A n \in Names : n # task[p].name => map[n] = ports[n]
    BY <1>2, <2>1
  <2> HIDE DEF map
  <2>3. /\ r \in TaskRecord /\ r.op = task[p].op /\ r.pc = "truncate" /\ r.name = task[p].name
        /\ r.dir = task[p].dir /\ r.todo = task[p].todo /\ r.port = port /\ r.map = map
    BY <1>2, <2>1, <2>2 DEF TaskRecord, Places, Making
  <2> HIDE DEF r
  <2>4. ASSUME ~shaky PROVE PortFits(r, ports, data, made)
    <3>1. Registered(ports, data)
      BY <1>1, <2>4, OneCreator
    <3>2. \A n \in Names : data[n] # Missing => map[n] = data[n].port /\ map[n] # 0
      BY <1>7, <2>2, <3>1 DEF Registered
    <3>3. \A n, m \in Names : n # m /\ map[n] # 0 => map[n] # map[m]
      BY <1>2, <2>1, <2>2, <3>1 DEF Registered
    <3> QED BY <2>1, <2>2, <2>3, <3>2, <3>3 DEF PortFits, Registered
  <2> QED BY <1>5, <2>0, <2>2, <2>3, <2>4
<1> QED BY <1>6, <1>7

LEMMA WritesPorts ==
    ASSUME InstancesInductive, NEW p \in Clients, TruncatePorts(p) \/ WritePorts(p)
    PROVE  InstancesInductive'
<1>0. task[p].op \in Creating /\ task[p].pc \in {"truncate", "write"}
  BY DEF TruncatePorts, WritePorts, On
<1>1. /\ task[p] # IdleTask /\ task[p] \in TaskRecord /\ Working(task[p]) /\ task[p].name \in Names
      /\ FilesTyped
  BY <1>0, AtWork
<1>2. /\ data' = data /\ made' = made /\ creds' = creds /\ service' = service
      /\ manifest' = manifest /\ stash' = stash /\ linked' = linked
      /\ excused' = excused /\ given' = given /\ shaky' = shaky
  BY DEF TruncatePorts, WritePorts, projects, history
<1>3. ASSUME NEW r \in TaskRecord, NEW pc \in {"write", "bootstrap"}, r.pc = pc,
             r.op = task[p].op, r.name = task[p].name, r.dir = task[p].dir, r.map = task[p].map,
             r.todo = task[p].todo, task' = [task EXCEPT ![p] = r], ports' \in [Names -> Nat],
             ~shaky => PortFits(r, ports', data, made) /\ (pc # "write" => Registered(ports', data))
      PROVE  InstancesInductive'
  <2>1. r \in Tasks
    BY <1>0, <1>1, <1>3 DEF Tasks, Working, Creating, Making
  <2>2. FilesTyped'
    BY <1>1, <1>2, <1>3 DEF FilesTyped
  <2>3. CredentialsMove(p, r, task[p].name)
    BY <1>0, <1>2, <1>3, IdleTaskFits DEF CredentialsMove, Stands, Settled, Creating, Making, Removing
  <2>4. PortsMove(p, r)
    BY <1>0, <1>1, <1>2, <1>3 DEF PortsMove, FilesTyped
  <2>5. task[p].pc \notin {"manifest", "stash", "migrate"}
    BY <1>0
  <2> QED BY <1>0, <1>1, <1>2, <1>3, <2>1, <2>2, <2>3, <2>4, <2>5, CreatorMoves
<1>4. ASSUME ~shaky
      PROVE  /\ Registered(task[p].map, data) /\ task[p].map[task[p].name] = task[p].port
             /\ task[p].port # 0
  BY <1>0, <1>4, OneCreator DEF PortFits
<1>5. CASE TruncatePorts(p)
  <2>1. Step(p, "write") /\ ports' = [n \in Names |-> 0]
    BY <1>5 DEF TruncatePorts
  <2>2. PICK r \in TaskRecord :
              /\ r.op = task[p].op /\ r.pc = "write" /\ r.name = task[p].name /\ r.dir = task[p].dir
              /\ r.id = task[p].id /\ r.map = task[p].map /\ r.port = task[p].port
              /\ r.todo = task[p].todo /\ r.found = task[p].found
              /\ task' = [task EXCEPT ![p] = r]
    BY <1>0, <2>1, Onward DEF Places, Making
  <2>3. ~shaky => PortFits(r, ports', data, made)
    BY <1>4, <2>2 DEF PortFits
  <2>4. ports' \in [Names -> Nat]
    BY <2>1
  <2> QED BY <1>3, <2>2, <2>3, <2>4
<1>6. CASE WritePorts(p)
  <2>1. Step(p, "bootstrap") /\ ports' = task[p].map /\ task[p].pc = "write"
    BY <1>6 DEF WritePorts, On
  <2>2. PICK r \in TaskRecord :
              /\ r.op = task[p].op /\ r.pc = "bootstrap" /\ r.name = task[p].name /\ r.dir = task[p].dir
              /\ r.id = task[p].id /\ r.map = task[p].map /\ r.port = task[p].port
              /\ r.todo = task[p].todo /\ r.found = task[p].found
              /\ task' = [task EXCEPT ![p] = r]
    BY <1>0, <2>1, Onward DEF Places, Making
  <2>3. ~shaky => PortFits(r, ports', data, made) /\ Registered(ports', data)
    BY <1>4, <2>1, <2>2 DEF PortFits
  <2>4. ports' \in [Names -> Nat]
    BY <1>1, <2>1 DEF Working
  <2> QED BY <1>3, <2>2, <2>3, <2>4
<1> QED BY <1>5, <1>6

LEMMA Bootstraps ==
    ASSUME InstancesInductive, NEW p \in Clients, RunBootstrap(p)
    PROVE  InstancesInductive'
<1>0. task[p].op \in Creating /\ task[p].pc = "bootstrap" /\ Step(p, "rename")
  BY DEF RunBootstrap, On
<1>1. /\ task[p] # IdleTask /\ task[p] \in TaskRecord /\ Working(task[p]) /\ task[p].name \in Names
      /\ FilesTyped
  BY <1>0, AtWork
<1> DEFINE x == [port |-> task[p].port, password |-> task[p].id]
<1>2. /\ data' = data /\ creds' = creds /\ service' = service /\ ports' = ports
      /\ manifest' = manifest /\ stash' = stash /\ linked' = linked
      /\ excused' = excused /\ given' = given /\ shaky' = shaky
      /\ made' = [made EXCEPT ![task[p].name] = x]
  BY DEF RunBootstrap, projects, history
<1>3. x \in Account /\ x.port = task[p].port
  BY <1>1 DEF Account, TaskRecord
<1>4. x # Missing
  BY <1>3, InstancesAssumption DEF Account
<1> HIDE DEF x
<1>5. PICK r \in TaskRecord :
              /\ r.op = task[p].op /\ r.pc = "rename" /\ r.name = task[p].name /\ r.dir = task[p].dir
              /\ r.id = task[p].id /\ r.map = task[p].map /\ r.port = task[p].port
              /\ r.todo = task[p].todo /\ r.found = task[p].found
              /\ task' = [task EXCEPT ![p] = r]
  BY <1>0, Onward DEF Places, Making
<1>6. r \in Tasks
  BY <1>0, <1>1, <1>5 DEF Tasks, Working, Creating, Making
<1>7. made' \in [Names -> Account \cup {Missing}] /\ made'[task[p].name] = x
  BY <1>1, <1>2, <1>3 DEF FilesTyped
<1>8. FilesTyped'
  BY <1>1, <1>2, <1>7 DEF FilesTyped
<1>9. CredentialsMove(p, r, task[p].name)
  BY <1>0, <1>2, <1>5, IdleTaskFits DEF CredentialsMove, Stands, Settled, Creating, Making, Removing
<1>10. PortsMove(p, r)
  <2> SUFFICES ASSUME ~shaky PROVE PortsMove(p, r)
    BY <1>1, <1>2 DEF FilesTyped, PortsMove
  <2>1. Registered(ports, data) /\ PortFits(task[p], ports, data, made)
    BY <1>0, OneCreator
  <2>2. PortFits(r, ports, data, made')
    BY <1>0, <1>3, <1>4, <1>5, <1>7, <2>1 DEF PortFits
  <2> QED BY <1>0, <1>2, <2>1, <2>2 DEF PortsMove
<1>11. task[p].pc \notin {"manifest", "stash", "migrate"}
  BY <1>0
<1> QED BY <1>0, <1>1, <1>2, <1>5, <1>6, <1>8, <1>9, <1>10, <1>11, CreatorMoves

LEMMA Renames ==
    ASSUME InstancesInductive, NEW p \in Clients, RenameTmp(p)
    PROVE  InstancesInductive'
<1> DEFINE n == task[p].name
           x == made[n]
           r == [task[p] EXCEPT !.pc = "credentials", !.map = x]
<1>0. /\ task[p].op \in Creating /\ task[p].pc = "rename" /\ data[n] = Missing /\ x # Missing
      /\ task' = [task EXCEPT ![p].pc = "credentials", ![p].map = x]
  BY DEF RenameTmp, On
<1>1. /\ task[p] # IdleTask /\ task[p] \in TaskRecord /\ Working(task[p]) /\ n \in Names
      /\ FilesTyped /\ x \in Account
  BY <1>0, AtWork
<1>2. /\ creds' = creds /\ service' = service /\ ports' = ports
      /\ manifest' = manifest /\ stash' = stash /\ linked' = linked
      /\ excused' = excused /\ given' = given /\ shaky' = shaky
      /\ data' = [data EXCEPT ![n] = x] /\ made' = [made EXCEPT ![n] = Missing]
  BY DEF RenameTmp, projects, history
<1>3. task' = [task EXCEPT ![p] = r]
  BY <1>0
<1> HIDE DEF x
<1>4. /\ r \in TaskRecord /\ r.op = task[p].op /\ r.pc = "credentials" /\ r.name = task[p].name
      /\ r.dir = task[p].dir /\ r.todo = task[p].todo /\ r.map = x
  BY <1>1 DEF TaskRecord, Places, Making
<1> HIDE DEF r
<1>5. r \in Tasks
  BY <1>0, <1>1, <1>4 DEF Tasks, Working, Creating, Making
<1>6. /\ data' \in [Names -> Account \cup {Missing}] /\ made' \in [Names -> Account \cup {Missing}]
      /\ data'[n] = x /\ \A m \in Names : m # n => data'[m] = data[m]
  BY <1>1, <1>2 DEF FilesTyped
<1>7. FilesTyped'
  BY <1>1, <1>2, <1>6 DEF FilesTyped
<1>8. CredentialsMove(p, r, n)
  <2> SUFFICES ASSUME Stands(task[p], data[n], creds[n]) PROVE Stands(r, x, creds[n]) /\ r # IdleTask
    BY <1>2, <1>6 DEF CredentialsMove
  <2>1. creds[n] = Missing
    BY <1>0 DEF Stands, Making
  <2> QED BY <1>0, <1>4, <2>1, IdleTaskFits DEF Stands, Creating, Making, Removing
<1>9. PortsMove(p, r)
  <2> SUFFICES ASSUME ~shaky PROVE PortsMove(p, r)
    BY <1>1, <1>2 DEF FilesTyped, PortsMove
  <2>1. Registered(ports, data) /\ ports[n] = task[p].port /\ task[p].port # 0 /\ x.port = task[p].port
    <3>1. Registered(ports, data) /\ PortFits(task[p], ports, data, made)
      BY <1>0, OneCreator
    <3> QED BY <1>0, <3>1 DEF PortFits, x
  <2>2. Registered(ports, data')
    BY <1>6, <2>1 DEF Registered
  <2>3. PortFits(r, ports, data', made')
    BY <1>4 DEF PortFits
  <2> QED BY <1>0, <1>2, <2>2, <2>3 DEF PortsMove
<1>10. task[p].pc \notin {"manifest", "stash", "migrate"}
  BY <1>0
<1> HIDE DEF n
<1>11. \A m \in Names : m # task[p].name => data'[m] = data[m] /\ creds'[m] = creds[m]
  BY <1>2, <1>6 DEF n
<1> QED BY <1>0, <1>1, <1>2, <1>3, <1>4, <1>5, <1>7, <1>8, <1>9, <1>10, <1>11, CreatorMoves DEF n

LEMMA GivesCredentials ==
    ASSUME InstancesInductive, NEW p \in Clients, WriteCredentials(p)
    PROVE  InstancesInductive'
<1> DEFINE n == task[p].name
<1>0. task[p].op \in Creating /\ task[p].pc = "credentials" /\ Step(p, "service")
  BY DEF WriteCredentials, On
<1>1. /\ task[p] # IdleTask /\ task[p] \in TaskRecord /\ Working(task[p]) /\ n \in Names
      /\ FilesTyped /\ task[p].map \in Account /\ task[p].map # Missing
  <2>1. task[p] # IdleTask /\ task[p] \in TaskRecord /\ Working(task[p]) /\ n \in Names /\ FilesTyped
    BY <1>0, AtWork
  <2>2. task[p].map \in Account
    BY <1>0, <2>1 DEF Working
  <2> QED BY <2>1, <2>2, InstancesAssumption DEF Account
<1>2. /\ data' = data /\ made' = made /\ service' = service /\ ports' = ports
      /\ manifest' = manifest /\ stash' = stash /\ linked' = linked
      /\ excused' = excused /\ given' = given /\ shaky' = shaky
      /\ creds' = [creds EXCEPT ![n] = task[p].map]
  BY DEF WriteCredentials, projects, history
<1>3. PICK r \in TaskRecord :
              /\ r.op = task[p].op /\ r.pc = "service" /\ r.name = task[p].name /\ r.dir = task[p].dir
              /\ r.id = task[p].id /\ r.map = task[p].map /\ r.port = task[p].port
              /\ r.todo = task[p].todo /\ r.found = task[p].found
              /\ task' = [task EXCEPT ![p] = r]
  BY <1>0, Onward DEF Places
<1>4. r \in Tasks
  BY <1>0, <1>1, <1>3 DEF Tasks, Working, Creating, Making
<1>5. /\ creds' \in [Names -> Account \cup {Missing}] /\ creds'[n] = task[p].map
      /\ \A m \in Names : m # n => creds'[m] = creds[m]
  BY <1>1, <1>2 DEF FilesTyped
<1>6. FilesTyped'
  BY <1>1, <1>2, <1>5 DEF FilesTyped
<1>7. CredentialsMove(p, r, n)
  <2> SUFFICES ASSUME Stands(task[p], data[n], creds[n])
               PROVE Stands(r, data[n], task[p].map) /\ r # IdleTask
    BY <1>2, <1>5 DEF CredentialsMove
  <2>1. data[n] = task[p].map /\ data[n] # Missing
    BY <1>0 DEF Stands
  <2> QED BY <1>0, <1>3, <2>1, IdleTaskFits DEF Stands, Settled, Creating, Making, Removing
<1>8. PortsMove(p, r)
  <2> SUFFICES ASSUME ~shaky PROVE PortsMove(p, r)
    BY <1>1, <1>2 DEF FilesTyped, PortsMove
  <2>1. Registered(ports, data)
    BY <1>0, OneCreator
  <2>2. PortFits(r, ports, data, made)
    BY <1>3 DEF PortFits
  <2> QED BY <1>0, <1>2, <2>1, <2>2 DEF PortsMove
<1>9. task[p].pc \notin {"manifest", "stash", "migrate"}
  BY <1>0
<1> QED BY <1>0, <1>1, <1>2, <1>3, <1>4, <1>5, <1>6, <1>7, <1>8, <1>9, CreatorMoves

LEMMA GivesService ==
    ASSUME InstancesInductive, NEW p \in Clients, CreateService(p)
    PROVE  InstancesInductive'
<1> DEFINE n == task[p].name
<1>0. task[p].op \in Creating /\ task[p].pc = "service"
  BY DEF CreateService, On
<1>1. /\ task[p] # IdleTask /\ task[p] \in TaskRecord /\ Working(task[p]) /\ n \in Names /\ FilesTyped
  BY <1>0, AtWork
<1>2. /\ data' = data /\ made' = made /\ creds' = creds /\ ports' = ports
      /\ manifest' = manifest /\ stash' = stash /\ linked' = linked
      /\ excused' = excused /\ given' = given /\ shaky' = shaky
      /\ service' = [service EXCEPT ![n] = TRUE]
  BY DEF CreateService, projects, history
<1>3. FilesTyped'
  BY <1>1, <1>2 DEF FilesTyped
<1>4. ASSUME NEW r \in Tasks, task' = [task EXCEPT ![p] = r],
             \/ r = IdleTask
             \/ /\ r.op = task[p].op /\ r.name = task[p].name /\ r.dir = task[p].dir
                /\ r.todo = task[p].todo /\ r.pc = "stash"
      PROVE  InstancesInductive'
  <2>1. r = IdleTask \/ r.pc = "stash" => r.pc \notin {"truncate", "write", "bootstrap", "rename"}
    BY IdleTaskFits
  <2>2. CredentialsMove(p, r, n)
    BY <1>0, <1>2, <1>4 DEF CredentialsMove, Stands, Settled, Creating, Making, Removing
  <2>3. PortsMove(p, r)
    <3> SUFFICES ASSUME ~shaky PROVE PortsMove(p, r)
      BY <1>1, <1>2 DEF FilesTyped, PortsMove
    <3>1. Registered(ports, data)
      BY <1>0, OneCreator
    <3>2. PortFits(r, ports, data, made)
      BY <1>4, <2>1 DEF PortFits
    <3> QED BY <1>0, <1>2, <3>1, <3>2 DEF PortsMove
  <2>4. task[p].pc \notin {"manifest", "stash", "migrate"}
    BY <1>0
  <2> QED BY <1>0, <1>1, <1>2, <1>3, <1>4, <2>2, <2>3, <2>4, CreatorMoves
<1>5. CASE task[p].op = "init"
  <2>1. Step(p, "stash")
    BY <1>5 DEF CreateService
  <2>2. PICK r \in TaskRecord :
              /\ r.op = task[p].op /\ r.pc = "stash" /\ r.name = task[p].name /\ r.dir = task[p].dir
              /\ r.id = task[p].id /\ r.map = task[p].map /\ r.port = task[p].port
              /\ r.todo = task[p].todo /\ r.found = task[p].found
              /\ task' = [task EXCEPT ![p] = r]
    BY <1>0, <2>1, Onward DEF Places
  <2>3. r \in Tasks
    BY <1>1, <1>5, <2>2 DEF Tasks, Working, Creating
  <2> QED BY <1>4, <2>2, <2>3
<1>6. CASE task[p].op # "init"
  BY <1>4, <1>6, IdleTaskFits DEF CreateService, Done
<1> QED BY <1>5, <1>6

(* A step that touches no port. *)
LEMMA PortsRest ==
    ASSUME InstancesInductive, NEW p \in Clients, NEW r, task[p].pc # "write",
           r.pc \notin {"truncate", "write", "bootstrap", "rename"},
           ports' = ports /\ made' = made, shaky' \in BOOLEAN, shaky => shaky',
           \A n \in Names : data'[n] # Missing => data[n] # Missing /\ data'[n].port = data[n].port
    PROVE  PortsMove(p, r)
<1> SUFFICES ASSUME ~shaky', ~shaky, task[p].op \in Creating
             PROVE  PortsMove(p, r)
  BY DEF PortsMove
<1>1. Registered(ports, data)
  BY OneCreator
<1>2. Registered(ports', data')
  BY <1>1 DEF Registered
<1>3. PortFits(r, ports', data', made')
  BY DEF PortFits
<1> QED BY <1>2, <1>3 DEF PortsMove

(* The steps of project init and link. *)
LEMMA WritesManifest ==
    ASSUME InstancesInductive, NEW p \in Clients, WriteManifest(p)
    PROVE  InstancesInductive'
<1> DEFINE pc == IF task[p].op = "link" THEN "stash" ELSE "ports"
<1>0. task[p].op \in {"init", "link"} /\ task[p].pc = "manifest" /\ Step(p, pc)
  BY DEF WriteManifest, On
<1>1. /\ task[p] # IdleTask /\ task[p] \in TaskRecord /\ Working(task[p]) /\ task[p].name \in Names
      /\ FilesTyped
  BY <1>0, AtWork
<1>2. /\ data' = data /\ made' = made /\ creds' = creds /\ service' = service /\ ports' = ports
      /\ stash' = stash /\ linked' = linked
      /\ excused' = excused /\ given' = given /\ shaky' = shaky
      /\ manifest' = manifest \cup {task[p].dir}
  BY DEF WriteManifest, files, history
<1>3. pc \in Places /\ pc \in {"stash", "ports"} /\ (pc = "stash" <=> task[p].op = "link")
  BY DEF Places, Making
<1> HIDE DEF pc
<1>4. PICK r \in TaskRecord :
              /\ r.op = task[p].op /\ r.pc = pc /\ r.name = task[p].name /\ r.dir = task[p].dir
              /\ r.id = task[p].id /\ r.map = task[p].map /\ r.port = task[p].port
              /\ r.todo = task[p].todo /\ r.found = task[p].found
              /\ task' = [task EXCEPT ![p] = r]
  BY <1>0, <1>3, Onward
<1>5. r \in Tasks
  BY <1>0, <1>1, <1>3, <1>4 DEF Tasks, Working, Creating, Making
<1>6. FilesTyped'
  <2>1. task[p].dir \in Dirs
    BY <1>0, <1>1 DEF Working
  <2> QED BY <1>1, <1>2, <2>1 DEF FilesTyped
<1>7. Moves(p, r)
  BY <1>2, <1>4 DEF Moves
<1>8. CredentialsMove(p, r, task[p].name)
  BY <1>0, <1>2, <1>3, <1>4, IdleTaskFits DEF CredentialsMove, Stands, Settled, Creating, Making, Removing
<1>9. ProjectsMove(p, r, task[p].name)
  BY <1>0, <1>1, <1>2, <1>4, <1>7, ProjectsRest
<1>10. PortsMove(p, r)
  BY <1>0, <1>1, <1>2, <1>3, <1>4, PortsRest DEF FilesTyped
<1> QED BY <1>1, <1>5, <1>6, <1>7, <1>8, <1>9, <1>10, ClientMoves

LEMMA WritesStash ==
    ASSUME InstancesInductive, NEW p \in Clients, WriteStash(p)
    PROVE  InstancesInductive'
<1> DEFINE n == task[p].name
<1>0. task[p].op \in {"init", "link"} /\ task[p].pc = "stash" /\ Step(p, "migrate")
  BY DEF WriteStash, On
<1>1. /\ task[p] # IdleTask /\ task[p] \in TaskRecord /\ Working(task[p]) /\ n \in Names
      /\ FilesTyped /\ task[p].dir \in Dirs
  <2>1. task[p] # IdleTask /\ task[p] \in TaskRecord /\ Working(task[p]) /\ n \in Names /\ FilesTyped
    BY <1>0, AtWork
  <2> QED BY <1>0, <2>1 DEF Working
<1>2. /\ data' = data /\ made' = made /\ creds' = creds /\ service' = service /\ ports' = ports
      /\ manifest' = manifest /\ linked' = linked
      /\ excused' = excused /\ given' = given /\ shaky' = shaky
      /\ stash' = [stash EXCEPT ![task[p].dir] = n]
  BY DEF WriteStash, files, history
<1>3. PICK r \in TaskRecord :
              /\ r.op = task[p].op /\ r.pc = "migrate" /\ r.name = task[p].name /\ r.dir = task[p].dir
              /\ r.id = task[p].id /\ r.map = task[p].map /\ r.port = task[p].port
              /\ r.todo = task[p].todo /\ r.found = task[p].found
              /\ task' = [task EXCEPT ![p] = r]
  BY <1>0, Onward DEF Places
<1>4. r \in Tasks
  BY <1>0, <1>1, <1>3 DEF Tasks, Working, Creating
<1>5. FilesTyped'
  BY <1>1, <1>2 DEF FilesTyped
<1>6. Moves(p, r)
  BY <1>2, <1>3 DEF Moves
<1>7. CredentialsMove(p, r, n)
  BY <1>0, <1>2, <1>3, IdleTaskFits DEF CredentialsMove, Stands, Settled, Creating, Making, Removing
<1>8. ProjectsMove(p, r, n)
  <2>1. stash[task[p].dir] = Missing /\ \A d \in linked : stash[d] # Missing
    BY <1>0, InstancesAssumption DEF InstancesInductive, ProjectsFit, ProjectFits
  <2>2. \A d \in linked : d \in Dirs /\ stash'[d] = stash[d]
    BY <1>1, <1>2, <2>1 DEF FilesTyped
  <2>3. \A d \in Dirs : d # task[p].dir => stash'[d] = stash[d]
    BY <1>1, <1>2 DEF FilesTyped
  <2>4. \A d \in linked : stash[d] = n => n \in excused \/ creds[n] # Missing
    BY <1>0, <1>1, KeptHere
  <2>5. ProjectFits(r, excused', linked', stash')
    BY <1>0, <1>3 DEF ProjectFits
  <2> QED BY <1>2, <2>2, <2>3, <2>4, <2>5 DEF ProjectsMove
<1>9. PortsMove(p, r)
  BY <1>0, <1>1, <1>2, <1>3, PortsRest DEF FilesTyped
<1> QED BY <1>1, <1>4, <1>5, <1>6, <1>7, <1>8, <1>9, ClientMoves

LEMMA Migrates ==
    ASSUME InstancesInductive, NEW p \in Clients, Migrate(p)
    PROVE  InstancesInductive'
<1> DEFINE n == task[p].name
<1>0. /\ task[p].op \in {"init", "link"} /\ task[p].pc = "migrate" /\ creds[n] # Missing
      /\ task' = [task EXCEPT ![p] = IdleTask]
  BY DEF Migrate, On, Done
<1>1. /\ task[p] # IdleTask /\ task[p] \in TaskRecord /\ Working(task[p]) /\ n \in Names
      /\ FilesTyped /\ task[p].dir \in Dirs
  <2>1. task[p] # IdleTask /\ task[p] \in TaskRecord /\ Working(task[p]) /\ n \in Names /\ FilesTyped
    BY <1>0, AtWork
  <2> QED BY <1>0, <2>1 DEF Working
<1>2. /\ data' = data /\ made' = made /\ creds' = creds /\ service' = service /\ ports' = ports
      /\ manifest' = manifest /\ stash' = stash
      /\ excused' = excused /\ given' = given /\ shaky' = shaky
      /\ linked' \subseteq Dirs /\ \A d \in linked' : d \in linked \/ stash[d] = n
  BY <1>1 DEF Migrate, files, history, FilesTyped
<1>3. FilesTyped'
  BY <1>1, <1>2 DEF FilesTyped
<1>4. Moves(p, IdleTask)
  BY <1>0, <1>2 DEF Moves
<1>5. CredentialsMove(p, IdleTask, n)
  BY <1>0, <1>2 DEF CredentialsMove, Stands
<1>6. ProjectsMove(p, IdleTask, n)
  <2>1. ProjectFits(IdleTask, excused', linked', stash')
    BY IdleTaskFits DEF ProjectFits
  <2> QED BY <1>0, <1>2, <2>1 DEF ProjectsMove
<1>7. PortsMove(p, IdleTask)
  BY <1>0, <1>1, <1>2, IdleTaskFits, PortsRest DEF FilesTyped
<1> QED BY <1>1, <1>3, <1>4, <1>5, <1>6, <1>7, IdleTaskFits, ClientMoves

(* The steps of the commands on credentials: instance link and reset-password. *)
LEMMA Overwrites ==
    ASSUME InstancesInductive, NEW p \in Clients, Overwrite(p) \/ SaveCredentials(p)
    PROVE  InstancesInductive'
<1> DEFINE n == task[p].name
           m == task[p].map
           x == IF task[p].op = "add" THEN [port |-> Elsewhere, password |-> task[p].id]
                ELSE [port |-> IF m = Missing THEN 0 ELSE m.port, password |-> task[p].id]
<1>0. /\ \/ task[p].op = "add" /\ task[p].pc = "overwrite"
         \/ task[p].op = "reset" /\ task[p].pc = "save"
      /\ task' = [task EXCEPT ![p] = IdleTask]
      /\ creds' = [creds EXCEPT ![n] = x]
  BY DEF Overwrite, SaveCredentials, On, Done
<1>1. /\ task[p] # IdleTask /\ task[p] \in TaskRecord /\ Working(task[p]) /\ n \in Names
      /\ FilesTyped /\ data[n] \in Account \cup {Missing} /\ task[p].id \in Nat
      /\ task[p].op = "reset" => m \in Account \cup {Missing}
  <2>1. /\ task[p] # IdleTask /\ task[p] \in TaskRecord /\ Working(task[p]) /\ n \in Names /\ FilesTyped
        /\ data[n] \in Account \cup {Missing}
    BY <1>0, AtWork
  <2> QED BY <2>1 DEF Working, TaskRecord
<1>2. /\ data' = data /\ made' = made /\ service' = service /\ ports' = ports
      /\ manifest' = manifest /\ stash' = stash /\ linked' = linked
      /\ excused' = excused /\ given' = given /\ shaky' = shaky
  BY DEF Overwrite, SaveCredentials, projects, history
<1>3. /\ x \in Account /\ x.password = task[p].id
      /\ task[p].op = "add" => x.port = Elsewhere
      /\ task[p].op # "add" /\ m # Missing => x.port = m.port
  <2>1. CASE task[p].op = "add"
    BY <1>1, <2>1 DEF Account, Elsewhere
  <2>2. CASE task[p].op # "add"
    <3> DEFINE port == IF m = Missing THEN 0 ELSE m.port
    <3>1. port \in Nat
      BY <1>0, <1>1, <2>2 DEF Account
    <3>2. x = [port |-> port, password |-> task[p].id]
      BY <2>2
    <3> HIDE DEF x
    <3>3. m # Missing => port = m.port
      OBVIOUS
    <3> HIDE DEF port
    <3> QED BY <1>1, <2>2, <3>1, <3>2, <3>3 DEF Account
  <2> QED BY <2>1, <2>2
<1>4. x # Missing
  BY <1>3, InstancesAssumption DEF Account
<1> HIDE DEF x
<1>5. /\ creds' \in [Names -> Account \cup {Missing}] /\ creds'[n] = x
      /\ \A o \in Names : o # n => creds'[o] = creds[o]
  BY <1>0, <1>1, <1>3 DEF FilesTyped
<1>6. FilesTyped'
  BY <1>1, <1>2, <1>5 DEF FilesTyped
<1>7. Moves(p, IdleTask)
  BY <1>0, <1>2, <1>5 DEF Moves
<1>8. CredentialsMove(p, IdleTask, n)
  <2> SUFFICES ASSUME Stands(task[p], data[n], creds[n]), data[n] # Missing
               PROVE  x.port = Elsewhere \/ x = data[n]
    BY <1>2, <1>4, <1>5 DEF CredentialsMove, Settled
  <2>1. CASE task[p].op = "add"
    BY <1>3, <2>1
  <2>2. CASE task[p].op = "reset"
    <3>1. /\ m = creds[n] /\ creds[n] # Missing /\ data[n].password = task[p].id
          /\ m.port = Elsewhere \/ m.port = data[n].port
      BY <1>0, <2>2 DEF Stands
    <3>2. x.port = m.port /\ x.password = data[n].password
      BY <1>3, <2>2, <3>1
    <3> QED BY <1>1, <1>3, <3>1, <3>2 DEF Account
  <2> QED BY <1>0, <2>1, <2>2
<1>9. ProjectsMove(p, IdleTask, n)
  BY <1>0, <1>1, <1>2, <1>4, <1>5, <1>7, ProjectsRest
<1>10. PortsMove(p, IdleTask)
  BY <1>0, <1>1, <1>2, IdleTaskFits, PortsRest DEF FilesTyped
<1> QED BY <1>1, <1>6, <1>7, <1>8, <1>9, <1>10, IdleTaskFits, ClientMoves

LEMMA Alters ==
    ASSUME InstancesInductive, NEW p \in Clients, AlterRole(p)
    PROVE  InstancesInductive'
<1> DEFINE n == task[p].name
<1>0. task[p].op = "reset" /\ task[p].pc = "alter" /\ data[n] # Missing
  BY DEF AlterRole, On
<1>1. /\ task[p] # IdleTask /\ task[p] \in TaskRecord /\ Working(task[p]) /\ n \in Names
      /\ FilesTyped /\ data[n] \in Account /\ task[p].id \in Nat
  <2>1. /\ task[p] # IdleTask /\ task[p] \in TaskRecord /\ Working(task[p]) /\ n \in Names /\ FilesTyped
        /\ data[n] \in Account \cup {Missing}
    BY <1>0, AtWork
  <2> QED BY <1>0, <2>1 DEF TaskRecord
<1> DEFINE x == [data[n] EXCEPT !.password = task[p].id]
<1>2. /\ made' = made /\ creds' = creds /\ service' = service /\ ports' = ports
      /\ manifest' = manifest /\ stash' = stash /\ linked' = linked
      /\ given' = given /\ shaky' = shaky /\ data' = [data EXCEPT ![n] = x]
  BY DEF AlterRole, projects
<1>3. x \in Account /\ x.password = task[p].id /\ x.port = data[n].port
  BY <1>1 DEF Account
<1> HIDE DEF x
<1>4. /\ data' \in [Names -> Account \cup {Missing}] /\ data'[n] = x
      /\ \A m \in Names : m # n => data'[m] = data[m]
  BY <1>1, <1>2, <1>3 DEF FilesTyped
<1>5. FilesTyped'
  BY <1>1, <1>2, <1>4 DEF FilesTyped
<1>6. \A m \in Names : data'[m] # Missing => data[m] # Missing /\ data'[m].port = data[m].port
  BY <1>0, <1>3, <1>4
<1>7. CASE Step(p, "save") /\ UNCHANGED excused
  <2>1. PICK r \in TaskRecord :
              /\ r.op = task[p].op /\ r.pc = "save" /\ r.name = task[p].name /\ r.dir = task[p].dir
              /\ r.id = task[p].id /\ r.map = task[p].map /\ r.port = task[p].port
              /\ r.todo = task[p].todo /\ r.found = task[p].found
              /\ task' = [task EXCEPT ![p] = r]
    BY <1>0, <1>7, Onward DEF Places
  <2>2. r \in Tasks
    BY <1>0, <1>1, <2>1 DEF Tasks, Working, Creating
  <2>3. Moves(p, r)
    BY <1>2, <1>4, <1>7, <2>1 DEF Moves
  <2>4. CredentialsMove(p, r, n)
    <3> SUFFICES ASSUME Stands(task[p], data[n], creds[n])
                 PROVE  Stands(r, x, creds[n]) /\ r # IdleTask
      BY <1>2, <1>4 DEF CredentialsMove
    <3>1. /\ r.map = creds[n] /\ creds[n] # Missing
          /\ creds[n].port = Elsewhere \/ creds[n].port = data[n].port
      BY <1>0, <2>1 DEF Stands, Settled
    <3> QED BY <1>0, <1>3, <2>1, <3>1, IdleTaskFits DEF Stands, Creating, Removing
  <2>5. ProjectsMove(p, r, n)
    BY <1>0, <1>1, <1>2, <2>1, <2>3, ProjectsRest
  <2>6. PortsMove(p, r)
    BY <1>0, <1>1, <1>2, <1>6, <2>1, PortsRest DEF FilesTyped
  <2> QED BY <1>1, <1>5, <2>2, <2>3, <2>4, <2>5, <2>6, ClientMoves
<1>8. CASE Done(p) /\ excused' = excused \cup {n}
  <2>1. Moves(p, IdleTask)
    BY <1>2, <1>4, <1>8 DEF Moves, Done
  <2>2. CredentialsMove(p, IdleTask, n)
    BY <1>8 DEF CredentialsMove
  <2>3. ProjectsMove(p, IdleTask, n)
    BY <1>0, <1>1, <1>2, <2>1, ProjectsRest
  <2>4. PortsMove(p, IdleTask)
    BY <1>0, <1>1, <1>2, <1>6, IdleTaskFits, PortsRest DEF FilesTyped
  <2> QED BY <1>1, <1>5, <2>1, <2>2, <2>3, <2>4, IdleTaskFits, ClientMoves
<1> QED BY <1>7, <1>8 DEF AlterRole

(* The steps of the removals: destroy, unlink and project unlink. *)
LEMMA Lists ==
    ASSUME InstancesInductive, NEW p \in Clients, ListProjects(p)
    PROVE  InstancesInductive'
<1> DEFINE n == task[p].name
           pc == IF task[p].op = "unlink" THEN "delete" ELSE "data"
           todo == UsersOf(n)
           r == [task[p] EXCEPT !.pc = pc, !.todo = todo]
<1>0. /\ task[p].op \in {"destroy", "unlink"} /\ task[p].pc = "list"
      /\ task' = [task EXCEPT ![p] = r]
  BY DEF ListProjects, On
<1>1. /\ task[p] # IdleTask /\ task[p] \in TaskRecord /\ Working(task[p]) /\ n \in Names /\ FilesTyped
  BY <1>0, AtWork
<1>2. /\ data' = data /\ made' = made /\ creds' = creds /\ service' = service /\ ports' = ports
      /\ manifest' = manifest /\ stash' = stash /\ linked' = linked
      /\ excused' = excused /\ given' = given /\ shaky' = shaky
  BY DEF ListProjects, files, projects, history
<1>3. /\ pc \in Places /\ pc \in {"delete", "data"} /\ (task[p].op = "unlink" <=> pc = "delete")
      /\ todo \in SUBSET Dirs /\ \A d \in linked : stash[d] = n => d \in todo
  BY <1>1 DEF Places, Tearing, UsersOf, FilesTyped
<1> HIDE DEF pc, todo
<1>4. /\ r \in TaskRecord /\ r.op = task[p].op /\ r.pc = pc /\ r.name = n /\ r.dir = task[p].dir
      /\ r.map = task[p].map /\ r.todo = todo
  BY <1>1, <1>3 DEF TaskRecord
<1> HIDE DEF r
<1>5. r \in Tasks
  BY <1>0, <1>1, <1>3, <1>4 DEF Tasks, Working, Creating, Tearing
<1>6. FilesTyped'
  BY <1>1, <1>2 DEF FilesTyped
<1>7. Moves(p, r)
  BY <1>0, <1>2, <1>4 DEF Moves
<1>8. CredentialsMove(p, r, n)
  BY <1>0, <1>2, <1>3, <1>4, IdleTaskFits DEF CredentialsMove, Stands, Settled, Creating, Making, Removing
<1>9. ProjectsMove(p, r, n)
  <2>1. ProjectFits(r, excused', linked', stash')
    BY <1>0, <1>2, <1>3, <1>4 DEF ProjectFits
  <2>2. \A d \in linked : stash[d] = n => n \in excused \/ creds[n] # Missing
    BY <1>0, <1>1, KeptHere
  <2> QED BY <1>2, <2>1, <2>2 DEF ProjectsMove
<1>10. PortsMove(p, r)
  BY <1>0, <1>1, <1>2, <1>3, <1>4, PortsRest DEF FilesTyped
<1> QED BY <1>1, <1>5, <1>6, <1>7, <1>8, <1>9, <1>10, ClientMoves

LEMMA Removes ==
    ASSUME InstancesInductive, NEW p \in Clients, RemoveData(p) \/ RemoveService(p)
    PROVE  InstancesInductive'
<1> DEFINE n == task[p].name
           pc == IF task[p].pc = "data" THEN "service_files" ELSE "delete"
<1>0. /\ task[p].op \in Removing /\ task[p].pc \in {"data", "service_files"}
  BY DEF RemoveData, RemoveService, On
<1>1. /\ task[p] # IdleTask /\ task[p] \in TaskRecord /\ Working(task[p]) /\ n \in Names /\ FilesTyped
  BY <1>0, AtWork
<1>2. /\ made' = made /\ creds' = creds /\ ports' = ports
      /\ manifest' = manifest /\ stash' = stash /\ linked' = linked
      /\ excused' = excused /\ given' = given /\ shaky' = shaky
  BY DEF RemoveData, RemoveService, projects, history
<1>3. \E found \in BOOLEAN : task' = [task EXCEPT ![p] = [task[p] EXCEPT !.pc = pc, !.found = found]]
  <2>1. CASE RemoveData(p)
    <3>1. PICK loaded \in BOOLEAN :
            task' = [task EXCEPT ![p].pc = "service_files", ![p].found = loaded \/ data[n] # Missing]
      BY <2>1 DEF RemoveData
    <3>2. (loaded \/ data[n] # Missing) \in BOOLEAN
      OBVIOUS
    <3>3. pc = "service_files"
      BY <2>1 DEF RemoveData, On
    <3> QED BY <3>1, <3>2, <3>3
  <2>2. CASE RemoveService(p)
    <3> DEFINE found == task[p].found \/ service[n]
    <3>1. task' = [task EXCEPT ![p].pc = "delete", ![p].found = found]
      BY <2>2 DEF RemoveService
    <3>2. found \in BOOLEAN
      OBVIOUS
    <3>3. pc = "delete"
      BY <2>2 DEF RemoveService, On
    <3> HIDE DEF found, pc
    <3> QED BY <3>1, <3>2, <3>3
  <2> QED BY <2>1, <2>2
<1>4. pc \in Places /\ pc \in {"service_files", "delete"}
  BY DEF Places, Tearing
<1>5. PICK found \in BOOLEAN : task' = [task EXCEPT ![p] = [task[p] EXCEPT !.pc = pc, !.found = found]]
  BY <1>3
<1> HIDE DEF pc
<1> DEFINE r == [task[p] EXCEPT !.pc = pc, !.found = found]
<1>6. /\ r \in TaskRecord /\ r.op = task[p].op /\ r.pc = pc /\ r.name = n /\ r.dir = task[p].dir
      /\ r.map = task[p].map /\ r.todo = task[p].todo
  BY <1>1, <1>4 DEF TaskRecord
<1>7. task' = [task EXCEPT ![p] = r]
  BY <1>5
<1> HIDE DEF r
<1>8. r \in Tasks
  BY <1>0, <1>1, <1>4, <1>6 DEF Tasks, Working, Creating, Removing, Tearing
<1>9. /\ data' \in [Names -> Account \cup {Missing}] /\ service' \in [Names -> BOOLEAN]
      /\ \A m \in Names : m # n => data'[m] = data[m]
      /\ task[p].pc = "data" => data'[n] = Missing
      /\ task[p].pc # "data" => data'[n] = data[n]
      /\ \A m \in Names : data'[m] # Missing => data[m] # Missing /\ data'[m].port = data[m].port
  BY <1>1 DEF RemoveData, RemoveService, FilesTyped, On
<1>10. FilesTyped'
  BY <1>1, <1>2, <1>9 DEF FilesTyped
<1>11. Moves(p, r)
  BY <1>2, <1>6, <1>7, <1>9 DEF Moves
<1>12. CredentialsMove(p, r, n)
  <2> SUFFICES ASSUME Stands(task[p], data[n], creds[n])
               PROVE  Stands(r, data'[n], creds[n]) /\ r # IdleTask
    BY <1>2 DEF CredentialsMove
  <2>1. data'[n] = Missing
    BY <1>0, <1>9 DEF Stands
  <2> QED BY <1>0, <1>4, <1>6, <2>1, IdleTaskFits DEF Stands, Settled, Creating, Making, Removing
<1>13. ProjectsMove(p, r, n)
  BY <1>0, <1>1, <1>2, <1>6, <1>11, ProjectsRest
<1>14. PortsMove(p, r)
  BY <1>0, <1>1, <1>2, <1>4, <1>6, <1>9, PortsRest DEF FilesTyped
<1> QED BY <1>1, <1>8, <1>10, <1>11, <1>12, <1>13, <1>14, ClientMoves

LEMMA Deletes ==
    ASSUME InstancesInductive, NEW p \in Clients, DeleteCredentials(p)
    PROVE  InstancesInductive'
<1> DEFINE n == task[p].name
<1>0. /\ task[p].op \in Removing /\ task[p].pc = "delete"
      /\ Step(p, "projects") \/ (Done(p) /\ creds[n] = Missing)
  BY DEF DeleteCredentials, On
<1>1. /\ task[p] # IdleTask /\ task[p] \in TaskRecord /\ Working(task[p]) /\ n \in Names /\ FilesTyped
  BY <1>0, AtWork
<1>2. /\ data' = data /\ made' = made /\ service' = service /\ ports' = ports
      /\ manifest' = manifest /\ stash' = stash /\ linked' = linked
      /\ excused' = excused /\ given' = given /\ shaky' = shaky
      /\ creds' = [creds EXCEPT ![n] = Missing]
  BY DEF DeleteCredentials, projects, history
<1>3. /\ creds' \in [Names -> Account \cup {Missing}] /\ creds'[n] = Missing
      /\ \A m \in Names : m # n => creds'[m] = creds[m]
  BY <1>1, <1>2 DEF FilesTyped
<1>4. FilesTyped'
  BY <1>1, <1>2, <1>3 DEF FilesTyped
<1>5. CASE Step(p, "projects")
  <2>1. PICK r \in TaskRecord :
              /\ r.op = task[p].op /\ r.pc = "projects" /\ r.name = task[p].name /\ r.dir = task[p].dir
              /\ r.id = task[p].id /\ r.map = task[p].map /\ r.port = task[p].port
              /\ r.todo = task[p].todo /\ r.found = task[p].found
              /\ task' = [task EXCEPT ![p] = r]
    BY <1>0, <1>5, Onward DEF Places, Tearing
  <2>2. r \in Tasks
    BY <1>0, <1>1, <2>1 DEF Tasks, Working, Creating, Removing, Tearing
  <2>3. Moves(p, r)
    BY <1>2, <1>3, <2>1 DEF Moves
  <2>4. CredentialsMove(p, r, n)
    <3> SUFFICES ASSUME Stands(task[p], data[n], creds[n])
                 PROVE  Stands(r, data[n], Missing) /\ r # IdleTask
      BY <1>2, <1>3 DEF CredentialsMove
    <3>1. data[n] = Missing
      BY <1>0 DEF Stands
    <3> QED BY <1>0, <2>1, <3>1, IdleTaskFits DEF Stands, Settled, Creating, Making, Removing
  <2>5. ProjectsMove(p, r, n)
    <3>1. ProjectFits(task[p], excused, linked, stash)
      BY DEF InstancesInductive, ProjectsFit
    <3>2. ProjectFits(r, excused', linked', stash')
      BY <1>0, <1>2, <2>1, <3>1 DEF ProjectFits, Removing
    <3> QED BY <1>0, <1>2, <2>1, <3>2 DEF ProjectsMove
  <2>6. PortsMove(p, r)
    BY <1>0, <1>1, <1>2, <2>1, PortsRest DEF FilesTyped
  <2> QED BY <1>1, <1>4, <2>2, <2>3, <2>4, <2>5, <2>6, ClientMoves
<1>6. CASE Done(p) /\ creds[n] = Missing
  <2>1. Moves(p, IdleTask)
    BY <1>2, <1>3, <1>6 DEF Moves, Done
  <2>2. CredentialsMove(p, IdleTask, n)
    BY <1>0, <1>2, <1>3 DEF CredentialsMove, Stands, Settled
  <2>3. ProjectsMove(p, IdleTask, n)
    BY <1>0, <1>1, <1>2, <1>3, <1>6, <2>1, ProjectsRest
  <2>4. PortsMove(p, IdleTask)
    BY <1>0, <1>1, <1>2, IdleTaskFits, PortsRest DEF FilesTyped
  <2> QED BY <1>1, <1>4, <2>1, <2>2, <2>3, <2>4, IdleTaskFits, ClientMoves
<1> QED BY <1>0, <1>5, <1>6

LEMMA RemovesStash ==
    ASSUME InstancesInductive, NEW p \in Clients, RemoveStash(p)
    PROVE  InstancesInductive'
<1> DEFINE n == task[p].name
<1>0. task[p].op \in {"destroy", "unlink"} /\ task[p].pc = "projects"
  BY DEF RemoveStash, On
<1>1. /\ task[p] # IdleTask /\ task[p] \in TaskRecord /\ Working(task[p]) /\ n \in Names /\ FilesTyped
      /\ task[p].todo \in SUBSET Dirs
  <2>1. /\ task[p] # IdleTask /\ task[p] \in TaskRecord /\ Working(task[p]) /\ n \in Names /\ FilesTyped
    BY <1>0, AtWork
  <2> QED BY <2>1 DEF TaskRecord
<1>2. /\ data' = data /\ made' = made /\ creds' = creds /\ service' = service /\ ports' = ports
      /\ manifest' = manifest /\ excused' = excused /\ given' = given /\ shaky' = shaky
  BY DEF RemoveStash, files, history
<1>3. ProjectFits(task[p], excused, linked, stash)
  BY DEF InstancesInductive, ProjectsFit
<1>4. CASE task[p].todo = {} /\ Done(p) /\ UNCHANGED <<stash, linked>>
  <2>1. FilesTyped'
    BY <1>1, <1>2, <1>4 DEF FilesTyped
  <2>2. Moves(p, IdleTask)
    BY <1>2, <1>4 DEF Moves, Done
  <2>3. CredentialsMove(p, IdleTask, n)
    BY <1>0, <1>2 DEF CredentialsMove, Stands
  <2>4. ProjectsMove(p, IdleTask, n)
    <3>1. \A d \in linked : stash[d] = n => n \in excused
      BY <1>0, <1>3, <1>4 DEF ProjectFits
    <3>2. ProjectFits(IdleTask, excused', linked', stash')
      BY IdleTaskFits DEF ProjectFits
    <3> QED BY <1>2, <1>4, <3>1, <3>2 DEF ProjectsMove
  <2>5. PortsMove(p, IdleTask)
    BY <1>0, <1>1, <1>2, IdleTaskFits, PortsRest DEF FilesTyped
  <2> QED BY <1>1, <2>1, <2>2, <2>3, <2>4, <2>5, IdleTaskFits, ClientMoves
<1>5. ASSUME NEW d \in task[p].todo,
             task' = [task EXCEPT ![p].todo = @ \ {d}],
             stash' = [stash EXCEPT ![d] = Missing], linked' = linked \ {d}
      PROVE  InstancesInductive'
  <2> DEFINE todo == task[p].todo \ {d}
             r == [task[p] EXCEPT !.todo = todo]
  <2>1. task' = [task EXCEPT ![p] = r]
    BY <1>5
  <2>2. todo \in SUBSET Dirs /\ \A e : e \in todo <=> e \in task[p].todo /\ e # d
    BY <1>1
  <2> HIDE DEF todo
  <2>3. /\ r \in TaskRecord /\ r.op = task[p].op /\ r.pc = task[p].pc /\ r.name = n /\ r.dir = task[p].dir
        /\ r.map = task[p].map /\ r.todo = todo /\ r.id = task[p].id
    BY <1>1, <2>2 DEF TaskRecord
  <2> HIDE DEF r
  <2>4. r \in Tasks
    BY <1>0, <1>1, <2>3 DEF Tasks, Working, Creating, Tearing
  <2>5. /\ stash' \in [Dirs -> Names \cup {Missing}] /\ linked' \subseteq Dirs
        /\ \A e \in Dirs : stash'[e] = stash[e] \/ stash'[e] = Missing
        /\ \A e \in linked' : e \in linked /\ e # d /\ stash'[e] = stash[e]
    BY <1>1, <1>5 DEF FilesTyped
  <2>6. FilesTyped'
    BY <1>1, <1>2, <2>5 DEF FilesTyped
  <2>7. Moves(p, r)
    BY <1>2, <2>1, <2>3 DEF Moves
  <2>8. CredentialsMove(p, r, n)
    BY <1>0, <1>2, <2>3, IdleTaskFits DEF CredentialsMove, Stands, Creating, Removing
  <2>9. ProjectsMove(p, r, n)
    <3>1. ProjectFits(r, excused', linked', stash')
      BY <1>0, <1>2, <1>3, <2>2, <2>3, <2>5 DEF ProjectFits
    <3> QED BY <1>0, <1>2, <2>3, <2>5, <3>1 DEF ProjectsMove, Removing
  <2>10. PortsMove(p, r)
    BY <1>0, <1>1, <1>2, <2>3, PortsRest DEF FilesTyped
  <2> QED BY <1>1, <2>4, <2>6, <2>7, <2>8, <2>9, <2>10, ClientMoves
<1> QED BY <1>4, <1>5 DEF RemoveStash

LEMMA RemovesOwnStash ==
    ASSUME InstancesInductive, NEW p \in Clients, RemoveOwnStash(p)
    PROVE  InstancesInductive'
<1> DEFINE n == task[p].name
<1>0. task[p].op = "project_unlink" /\ task[p].pc \in {"own", "projects"}
  BY DEF RemoveOwnStash, On
<1>1. /\ task[p] # IdleTask /\ task[p] \in TaskRecord /\ Working(task[p]) /\ n \in Names /\ FilesTyped
  BY <1>0, AtWork
<1>2. /\ data' = data /\ made' = made /\ creds' = creds /\ service' = service /\ ports' = ports
      /\ manifest' = manifest /\ excused' = excused /\ given' = given /\ shaky' = shaky
      /\ task' = [task EXCEPT ![p] = IdleTask]
      /\ stash' = [stash EXCEPT ![task[p].dir] = Missing] /\ linked' = linked \ {task[p].dir}
  BY DEF RemoveOwnStash, Done, files, history
<1>3. /\ stash' \in [Dirs -> Names \cup {Missing}] /\ linked' \subseteq Dirs
      /\ \A e \in Dirs : stash'[e] = stash[e] \/ stash'[e] = Missing
      /\ \A e \in linked' : e \in linked /\ e # task[p].dir /\ stash'[e] = stash[e]
  BY <1>1, <1>2 DEF FilesTyped
<1>4. FilesTyped'
  BY <1>1, <1>2, <1>3 DEF FilesTyped
<1>5. Moves(p, IdleTask)
  BY <1>2 DEF Moves
<1>6. CredentialsMove(p, IdleTask, n)
  BY <1>0, <1>2 DEF CredentialsMove, Stands
<1>7. ProjectsMove(p, IdleTask, n)
  <2>1. \A d \in linked' : stash[d] = n => n \in excused \/ creds[n] # Missing
    <3>1. CASE task[p].pc = "own"
      BY <1>1, <1>3, <3>1, KeptHere
    <3>2. CASE task[p].pc = "projects"
      <4>1. ProjectFits(task[p], excused, linked, stash)
        BY DEF InstancesInductive, ProjectsFit
      <4> QED BY <1>0, <1>3, <3>2, <4>1 DEF ProjectFits
    <3> QED BY <1>0, <3>1, <3>2
  <2>2. ProjectFits(IdleTask, excused', linked', stash')
    BY IdleTaskFits DEF ProjectFits
  <2> QED BY <1>2, <1>3, <2>1, <2>2 DEF ProjectsMove
<1>8. PortsMove(p, IdleTask)
  BY <1>0, <1>1, <1>2, IdleTaskFits, PortsRest DEF FilesTyped
<1> QED BY <1>1, <1>4, <1>5, <1>6, <1>7, <1>8, IdleTaskFits, ClientMoves

(* A command ends with an error, or is cut short. *)
LEMMA Ends ==
    ASSUME InstancesInductive, NEW p \in Clients, GiveUp(p) \/ Cut(p)
    PROVE  InstancesInductive'
<1> DEFINE n == task[p].name
<1>0. /\ task[p].pc # "idle" /\ Done(p)
      /\ GiveUp(p) => task[p].pc \in {"rename", "migrate", "alter"} /\ (task[p].pc = "rename" => task[p].op \in Creating)
  <2>1. task[p] # IdleTask => task[p].pc # "idle"
    <3>1. task[p] \in Tasks
      BY DEF InstancesInductive, InstancesTyped
    <3> QED BY <3>1, TaskIs DEF Working, Creating, Making, Tearing, Operations
  <2> QED BY <2>1 DEF GiveUp, Refused, Cut, On
<1>1. /\ task[p] # IdleTask /\ task[p] \in TaskRecord /\ Working(task[p]) /\ n \in Names /\ FilesTyped
  BY <1>0, AtWork
<1>2. /\ data' = data /\ made' = made /\ creds' = creds /\ service' = service /\ ports' = ports
      /\ manifest' = manifest /\ stash' = stash /\ linked' = linked /\ given' = given
      /\ task' = [task EXCEPT ![p] = IdleTask]
      /\ shaky' \in BOOLEAN /\ (shaky => shaky') /\ (task[p].pc = "write" => shaky')
      /\ (GiveUp(p) /\ excused' = excused) \/ excused' = excused \cup {n}
  <2>1. task[p].pc = "write" => On(p, Creating, "write")
    <3>1. task[p] \in Tasks
      BY <1>1 DEF Tasks
    <3> QED BY <3>1, CreatorsOnly DEF On, Creating
  <2> QED BY <1>0, <1>1, <2>1 DEF GiveUp, Cut, Done, files, projects, history, FilesTyped
<1>3. FilesTyped'
  BY <1>1, <1>2 DEF FilesTyped
<1>4. Moves(p, IdleTask)
  BY <1>2 DEF Moves
<1>5. CredentialsMove(p, IdleTask, n)
  BY <1>0, <1>2 DEF CredentialsMove, Stands, Settled, Making
<1>6. ProjectsMove(p, IdleTask, n)
  BY <1>0, <1>1, <1>2, <1>4, ProjectsRest
<1>7. PortsMove(p, IdleTask)
  <2>1. CASE task[p].pc = "write"
    BY <1>2, <2>1 DEF PortsMove
  <2>2. CASE task[p].pc # "write"
    BY <1>1, <1>2, <2>2, IdleTaskFits, PortsRest
  <2> QED BY <2>1, <2>2
<1> QED BY <1>1, <1>3, <1>4, <1>5, <1>6, <1>7, IdleTaskFits, ClientMoves

(* A user removes the manifest of a project. *)
LEMMA LosesManifest ==
    ASSUME InstancesInductive, NEW d \in Dirs, RemoveManifest(d)
    PROVE  InstancesInductive'
<1>1. /\ manifest' = manifest \ {d} /\ given' = given + 1
      /\ data' = data /\ made' = made /\ creds' = creds /\ service' = service /\ ports' = ports
      /\ stash' = stash /\ linked' = linked /\ excused' = excused /\ shaky' = shaky /\ task' = task
  BY DEF RemoveManifest, files
<1>2. InstancesTyped'
  BY <1>1 DEF InstancesInductive, InstancesTyped
<1>3. Alone' /\ DirsApart' /\ CredentialsFit' /\ ProjectsFit' /\ (~shaky' => PortsFit')
  BY <1>1 DEF InstancesInductive, Alone, DirsApart, CredentialsFit, ProjectsFit, PortsFit
<1>4. ProjectsKept'
  <2>1. ProjectsKept
    BY DEF InstancesInductive
  <2> QED BY <1>1, <2>1 DEF ProjectsKept, On
<1> QED BY <1>2, <1>3, <1>4 DEF InstancesInductive

LEMMA InstancesStart == InstancesInit => InstancesInductive
<1> SUFFICES ASSUME InstancesInit PROVE InstancesInductive
  OBVIOUS
<1>1. InstancesTyped
  BY IdleTaskFits DEF InstancesInit, InstancesTyped
<1>2. Alone /\ DirsApart
  BY IdleTaskFits DEF InstancesInit, Alone, DirsApart
<1>3. CredentialsFit
  BY IdleTaskFits, InstancesAssumption DEF InstancesInit, CredentialsFit, Settled
<1>4. ProjectsKept /\ ProjectsFit
  BY IdleTaskFits DEF InstancesInit, ProjectsKept, ProjectsFit, ProjectFits
<1>5. PortsFit
  <2>1. Registered(ports, data)
    BY DEF InstancesInit, Registered
  <2> QED BY <2>1, IdleTaskFits DEF InstancesInit, PortsFit, PortFits, Creating
<1> QED BY <1>1, <1>2, <1>3, <1>4, <1>5 DEF InstancesInductive

LEMMA InstancesStep == InstancesInductive /\ [InstancesNext]_instances => InstancesInductive'
<1> SUFFICES ASSUME InstancesInductive, [InstancesNext]_instances PROVE InstancesInductive'
  OBVIOUS
<1>1. CASE UNCHANGED instances
  <2>1. InstancesTyped'
    BY <1>1 DEF InstancesInductive, InstancesTyped, instances
  <2>2. Alone' /\ DirsApart' /\ CredentialsFit' /\ ProjectsFit' /\ (~shaky' => PortsFit')
    BY <1>1 DEF InstancesInductive, Alone, DirsApart, CredentialsFit, ProjectsFit, PortsFit, instances
  <2>3. ProjectsKept'
    <3>1. ProjectsKept
      BY DEF InstancesInductive
    <3> QED BY <1>1, <3>1 DEF ProjectsKept, On, instances
  <2> QED BY <2>1, <2>2, <2>3 DEF InstancesInductive
<1>2. CASE \E d \in Dirs : RemoveManifest(d)
  BY <1>2, LosesManifest
<1>3. ASSUME NEW p \in Clients, NEW n \in Names,
             \/ Create(p, n) \/ Link(p, n) \/ ResetPassword(p, n)
             \/ \E force \in BOOLEAN : DestroyInstance(p, n, force) \/ Unlink(p, n, force)
      PROVE  InstancesInductive'
  BY <1>3, Beginnings
<1>4. ASSUME NEW p \in Clients, NEW d \in Dirs,
             \/ \E n \in Names : InitProject(p, d, n) \/ LinkProject(p, d, n)
             \/ \E destroy \in BOOLEAN : UnlinkProject(p, d, destroy)
      PROVE  InstancesInductive'
  BY <1>4, ProjectBeginnings
<1>5. ASSUME NEW p \in Clients,
             \/ GivenPort(p) \/ AllocatePort(p) \/ TruncatePorts(p) \/ WritePorts(p)
             \/ RunBootstrap(p) \/ RenameTmp(p) \/ WriteCredentials(p) \/ CreateService(p)
      PROVE  InstancesInductive'
  BY <1>5, GivesPort, AllocatesPort, WritesPorts, Bootstraps, Renames, GivesCredentials, GivesService
<1>6. ASSUME NEW p \in Clients,
             \/ WriteManifest(p) \/ WriteStash(p) \/ Migrate(p)
             \/ Overwrite(p) \/ AlterRole(p) \/ SaveCredentials(p)
      PROVE  InstancesInductive'
  BY <1>6, WritesManifest, WritesStash, Migrates, Overwrites, Alters
<1>7. ASSUME NEW p \in Clients,
             \/ ListProjects(p) \/ RemoveData(p) \/ RemoveService(p) \/ DeleteCredentials(p)
             \/ RemoveStash(p) \/ RemoveOwnStash(p) \/ GiveUp(p) \/ Cut(p)
      PROVE  InstancesInductive'
  BY <1>7, Lists, Removes, Deletes, RemovesStash, RemovesOwnStash, Ends
<1> QED BY <1>1, <1>2, <1>3, <1>4, <1>5, <1>6, <1>7 DEF InstancesNext

(* The inductive invariant contains what is promised. *)
LEMMA InductiveSuffices == InstancesInductive => InstancesInv
<1> SUFFICES ASSUME InstancesInductive PROVE InstancesInv
  OBVIOUS
<1>1. ProjectsKept
  BY DEF InstancesInductive
<1>2. PortsDistinct
  <2> SUFFICES ASSUME ~shaky, NEW n \in Names, NEW m \in Names, n # m, data[n] # Missing, data[m] # Missing
               PROVE  data[n].port # data[m].port
    BY DEF PortsDistinct
  <2>1. PortsFit /\ \A q \in Clients : task[q] \in Tasks
    BY DEF InstancesInductive, InstancesTyped
  <2>2. \E map : Registered(map, data)
    <3>1. CASE \E q \in Clients : task[q].pc = "write"
      BY <2>1, <3>1 DEF PortsFit, PortFits
    <3>2. CASE ~\E q \in Clients : task[q].pc = "write"
      BY <2>1, <3>2 DEF PortsFit
    <3> QED BY <3>1, <3>2
  <2> QED BY <2>2 DEF Registered
<1>3. CredentialsOpen
  <2> SUFFICES ASSUME NEW n \in Names, n \notin excused, data[n] # Missing, creds[n] # Missing,
                      creds[n].port # Elsewhere,
                      ~\E p \in Clients : On(p, {"reset"}, "save") /\ task[p].name = n
               PROVE  creds[n] = data[n]
    BY DEF CredentialsOpen
  <2>1. /\ \A p \in Clients : task[p].name = n => Stands(task[p], data[n], creds[n])
        /\ (\A p \in Clients : task[p].name # n) => Settled(data[n], creds[n])
    BY DEF InstancesInductive, CredentialsFit
  <2>2. CASE \A p \in Clients : task[p].name # n
    BY <2>1, <2>2 DEF Settled
  <2>3. ASSUME NEW p \in Clients, task[p].name = n
        PROVE  creds[n] = data[n]
    <3>1. task[p] \in Tasks /\ task[p].name # Missing
      BY <2>3, InstancesAssumption DEF InstancesInductive, InstancesTyped
    <3>2. Working(task[p])
      BY <3>1, TaskIs, IdleTaskFits
    <3>3. task[p].pc = "save" => task[p].op = "reset"
      BY <3>1, <3>2, TaskIs DEF Working, Creating, Making, Tearing, Operations
    <3>4. task[p].pc # "save"
      BY <2>3, <3>3 DEF On
    <3>5. Stands(task[p], data[n], creds[n])
      BY <2>1, <2>3
    <3> QED BY <3>4, <3>5 DEF Stands, Settled
  <2> QED BY <2>2, <2>3
<1> QED BY <1>1, <1>2, <1>3 DEF InstancesInv

(* However creations, links, password resets and removals of any number of   *)
(* clients interleave and fail: a linked project names an instance that has  *)
(* credentials, unless a removal is about to forget the project; the data of *)
(* two instances never have one port, as long as allocations do not meet, no *)
(* process dies while it writes the map and no user chooses the port; and    *)
(* credentials open their instance.  Instances on which two commands met or  *)
(* one was cut short are excused (create_local, Paths, allocate_port,        *)
(* do_destroy, with_projects, reset_password).                               *)
THEOREM InstancesHold == InstancesSpec => []InstancesInv
<1>1. InstancesSpec => []InstancesInductive
  BY InstancesStart, InstancesStep, PTL DEF InstancesSpec
<1> QED BY <1>1, InductiveSuffices, PTL

(* Versions: the server that a filter selects *)

AllVersions == [major : Nat, kind : MinorKinds, n : Nat]

\* The place of every kind in the order of MinorVersion
LEMMA Ranks ==
    /\ Rank("alpha") = 1 /\ Rank("beta") = 2 /\ Rank("rc") = 3 /\ Rank("dev") = 4 /\ Rank("minor") = 5
<1>1. /\ DOMAIN Kinds = 1..5 /\ Kinds[1] = "alpha" /\ Kinds[2] = "beta" /\ Kinds[3] = "rc" /\ Kinds[4] = "dev"
      /\ Kinds[5] = "minor"
  BY DEF Kinds
<1>2. \A i \in DOMAIN Kinds : i = 1 \/ i = 2 \/ i = 3 \/ i = 4 \/ i = 5
  BY <1>1
<1>3. Rank("alpha") = 1
  <2>1. \A i \in DOMAIN Kinds : Kinds[i] = "alpha" <=> i = 1
    BY <1>1, <1>2
  <2> QED BY <1>1, <2>1 DEF Rank
<1>4. Rank("beta") = 2
  <2>1. \A i \in DOMAIN Kinds : Kinds[i] = "beta" <=> i = 2
    BY <1>1, <1>2
  <2> QED BY <1>1, <2>1 DEF Rank
<1>5. Rank("rc") = 3
  <2>1. \A i \in DOMAIN Kinds : Kinds[i] = "rc" <=> i = 3
    BY <1>1, <1>2
  <2> QED BY <1>1, <2>1 DEF Rank
<1>6. Rank("dev") = 4
  <2>1. \A i \in DOMAIN Kinds : Kinds[i] = "dev" <=> i = 4
    BY <1>1, <1>2
  <2> QED BY <1>1, <2>1 DEF Rank
<1>7. Rank("minor") = 5
  <2>1. \A i \in DOMAIN Kinds : Kinds[i] = "minor" <=> i = 5
    BY <1>1, <1>2
  <2> QED BY <1>1, <2>1 DEF Rank
<1> QED BY <1>3, <1>4, <1>5, <1>6, <1>7

\* The order of the versions
LEMMA EarlierOrders ==
    /\ \A v \in AllVersions : Rank(v.kind) \in 1..5 /\ ~Earlier(v, v)
    /\ \A u, v, w \in AllVersions : Earlier(u, v) /\ Earlier(v, w) => Earlier(u, w)
    /\ \A v, w \in AllVersions : v = w \/ Earlier(v, w) \/ Earlier(w, v)
<1>1. \A v \in AllVersions : Rank(v.kind) \in 1..5 /\ v.major \in Nat /\ v.n \in Nat
  BY Ranks DEF AllVersions, MinorKinds
<1>2. \A v, w \in AllVersions : Rank(v.kind) = Rank(w.kind) => v.kind = w.kind
  BY Ranks DEF AllVersions, MinorKinds
<1>3. \A v \in AllVersions : ~Earlier(v, v)
  BY <1>1 DEF Earlier
<1>4. ASSUME NEW u \in AllVersions, NEW v \in AllVersions, NEW w \in AllVersions, Earlier(u, v), Earlier(v, w)
      PROVE  Earlier(u, w)
  BY <1>1, <1>2, <1>4 DEF Earlier
<1>5. ASSUME NEW v \in AllVersions, NEW w \in AllVersions, ~Earlier(v, w), ~Earlier(w, v)
      PROVE  v = w
  <2>1. v.major = w.major
    BY <1>1, <1>5 DEF Earlier
  <2>2. Rank(v.kind) = Rank(w.kind)
    BY <1>1, <1>5, <2>1 DEF Earlier
  <2>3. v.kind = w.kind
    BY <1>2, <2>2
  <2>4. v.n = w.n
    BY <1>1, <1>5, <2>1, <2>3 DEF Earlier
  <2> QED BY <2>1, <2>3, <2>4 DEF AllVersions
<1> QED BY <1>1, <1>3, <1>4, <1>5

\* A finite set of versions has a last one: the one with the fewest after it
LEMMA LatestIsLast ==
    ASSUME NEW S, S \subseteq AllVersions, IsFiniteSet(S), S # {}
    PROVE  Latest(S) \in S /\ \A w \in S : ~Earlier(Latest(S), w)
<1> DEFINE After(v) == {w \in S : Earlier(v, w)}
           Counts == {Cardinality(After(v)) : v \in S}
<1>1. \A v \in S : IsFiniteSet(After(v)) /\ Cardinality(After(v)) \in Nat
  BY FS_Subset, FS_CardinalityType
<1>2. Counts \subseteq Nat /\ Counts # {}
  BY <1>1
<1>3. PICK n \in Counts : \A m \in Counts : ~(<<m, n>> \in OpToRel(<, Nat))
  <2> HIDE DEF Counts
  <2> QED BY <1>2, WFMin, NatLessThanWellFounded
<1>4. \A m \in Counts : ~(m < n)
  <2> HIDE DEF Counts
  <2> QED BY <1>2, <1>3 DEF OpToRel
<1>5. PICK v \in S : n = Cardinality(After(v))
  BY <1>3
<1>6. ASSUME NEW w \in S, Earlier(v, w) PROVE FALSE
  <2>1. After(w) \subseteq After(v) /\ w \in After(v) /\ w \notin After(w)
    BY <1>6, EarlierOrders
  <2>2. Cardinality(After(w)) <= Cardinality(After(v)) /\ Cardinality(After(w)) # Cardinality(After(v))
    <3> HIDE DEF After
    <3> QED BY <1>1, <2>1, FS_Subset
  <2>3. Cardinality(After(w)) \in Counts
    OBVIOUS
  <2> HIDE DEF After, Counts
  <2> QED BY <1>1, <1>4, <1>5, <2>2, <2>3
<1>7. \E u \in S : \A w \in S : ~Earlier(u, w)
  BY <1>6
<1> QED BY <1>7 DEF Latest

\* What was selected: the latest of what matches the filter, and then of what matches the
\* query for that version
ChosenFits(v, f) == v \in Matching(f) /\ \A w \in Matching(f) : ~Earlier(v, w)
Again(v) == Reread(QueryOf(v)).filter
SelectionInductive ==
    /\ released \subseteq Versions /\ asked \in Filters
    /\ \/ chosen = <<>>
       \/ \E v \in AllVersions : chosen = <<v>> /\ ChosenFits(v, asked)
       \/ \E v, w \in AllVersions :
             chosen = <<v, w>> /\ ChosenFits(v, asked) /\ ChosenFits(w, Again(v))

\* What a second selection appends
LEMMA AppendToOne == \A v, w : Append(<<v>>, w) = <<v, w>>
<1> SUFFICES ASSUME NEW v, NEW w PROVE Append(<<v>>, w) = <<v, w>>
  OBVIOUS
<1>1. <<v>> \in Seq({v, w}) /\ <<v, w>> \in Seq({v, w}) /\ Len(<<v>>) = 1 /\ Len(<<v, w>>) = 2
  OBVIOUS
<1>2. PICK s : s = Append(<<v>>, w)
  OBVIOUS
<1>3. s \in Seq({v, w}) /\ Len(s) = 2 /\ s[1] = v /\ s[2] = w
  BY <1>1, <1>2
<1>4. \A i \in 1..Len(s) : s[i] = <<v, w>>[i]
  BY <1>3
<1>5. s = <<v, w>>
  BY <1>1, <1>3, <1>4, SeqEqual
<1> QED BY <1>2, <1>5

\* Selecting takes the last version that matches (select_server_package_from_packages)
LEMMA MatchingChosen ==
    ASSUME SelectionInductive, NEW f, Matching(f) # {}
    PROVE  Latest(Matching(f)) \in AllVersions /\ ChosenFits(Latest(Matching(f)), f)
<1> DEFINE S == Matching(f)
<1>1. S \subseteq released /\ released \subseteq Versions
  BY DEF Matching, SelectionInductive
<1>2. S \subseteq AllVersions
  BY <1>1, VersionsAssumption DEF AllVersions
<1>3. IsFiniteSet(S)
  BY <1>1, VersionsAssumption, FS_Subset
<1>4. S # {}
  OBVIOUS
<1>5. Latest(S) \in S /\ \A w \in S : ~Earlier(Latest(S), w)
  <2> HIDE DEF S
  <2> QED BY <1>2, <1>3, <1>4, LatestIsLast
<1> QED BY <1>2, <1>5 DEF ChosenFits

\* Each selection keeps what the earlier ones found
LEMMA SelectionKept == SelectionInductive /\ [SelectionNext]_selection => SelectionInductive'
<1> SUFFICES ASSUME SelectionInductive, [SelectionNext]_selection PROVE SelectionInductive'
  OBVIOUS
<1>1. CASE UNCHANGED selection
  BY <1>1 DEF selection, SelectionInductive, ChosenFits, Matching
<1>2. CASE Choose
  <2>1. /\ chosen = <<>> /\ Matching(asked) # {} /\ chosen' = <<Latest(Matching(asked))>>
        /\ UNCHANGED <<released, asked>>
    BY <1>2 DEF Choose
  <2>2. PICK v : v = Latest(Matching(asked))
    OBVIOUS
  <2>3. v \in AllVersions /\ chosen' = <<v>> /\ ChosenFits(v, asked)
    BY <2>1, <2>2, MatchingChosen
  <2>4. ChosenFits(v, asked)'
    BY <2>1, <2>3 DEF ChosenFits, Matching
  <2> QED BY <2>1, <2>3, <2>4 DEF SelectionInductive
<1>3. CASE ChooseAgain
  <2>1. /\ Len(chosen) = 1 /\ Matching(Again(chosen[1])) # {}
        /\ chosen' = Append(chosen, Latest(Matching(Again(chosen[1])))) /\ UNCHANGED <<released, asked>>
    BY <1>3 DEF ChooseAgain, Again
  <2>2. PICK v \in AllVersions : chosen = <<v>> /\ ChosenFits(v, asked)
    <3>1. chosen # <<>>
      BY <2>1
    <3>2. ASSUME NEW v, NEW w, chosen = <<v, w>> PROVE FALSE
      BY <2>1, <3>2
    <3> QED BY <3>1, <3>2 DEF SelectionInductive
  <2>3. PICK w : w = Latest(Matching(Again(v)))
    OBVIOUS
  <2>4. chosen[1] = v
    BY <2>2
  <2>5. w \in AllVersions /\ ChosenFits(w, Again(v))
    BY <2>1, <2>3, <2>4, MatchingChosen
  <2>6. chosen' = <<v, w>>
    <3>1. Append(<<v>>, w) = <<v, w>>
      BY AppendToOne
    <3>2. chosen' = Append(chosen, w)
      BY <2>1, <2>3, <2>4
    <3> QED BY <2>2, <3>1, <3>2
  <2>7. ChosenFits(w, Again(v))' /\ ChosenFits(v, asked)'
    BY <2>1, <2>2, <2>5 DEF ChosenFits, Matching
  <2> QED BY <2>1, <2>5, <2>6, <2>7 DEF SelectionInductive
<1> QED BY <1>1, <1>2, <1>3 DEF SelectionNext

\* Nothing is selected at first
LEMMA SelectionStart == SelectionInit => SelectionInductive
<1> QED BY DEF SelectionInit, SelectionInductive

\* The filter written for a version is that version and what may replace it
LEMMA AgainNames ==
    ASSUME NEW v \in AllVersions, v.kind # "dev"
    PROVE  /\ Again(v).major = v.major /\ Again(v).exact = FALSE
           /\ Wanted(Again(v)) = [kind |-> v.kind, n |-> v.n]
<1>1. v.kind # "any"
  BY DEF AllVersions, MinorKinds
<1>2. QueryOf(v).filter = [major |-> v.major, kind |-> v.kind, n |-> v.n, exact |-> FALSE]
  BY DEF QueryOf
<1>3. Again(v) = [major |-> v.major, kind |-> v.kind, n |-> v.n, exact |-> FALSE]
  <2>1. PICK f : f = QueryOf(v).filter
    OBVIOUS
  <2>2. Again(v) = Reparsed(f)
    BY <2>1 DEF Again, Reread, QueryOfFilter
  <2>3. f = [major |-> v.major, kind |-> v.kind, n |-> v.n, exact |-> FALSE]
    BY <1>2, <2>1
  <2>4. Reparsed(f) = [f EXCEPT !.exact = FALSE]
    BY <2>3 DEF Reparsed
  <2> QED BY <2>2, <2>3, <2>4
<1> QED BY <1>1, <1>3 DEF Wanted

\* What a filter asks for, when it is not exact
LEMMA WantedIs ==
    ASSUME NEW f \in Filters
    PROVE  Wanted(f) \in [kind : MinorKinds, n : Nat] /\ f.major \in Nat /\ f.exact \in BOOLEAN
<1>1. f \in [major : Nat, kind : MinorKinds \cup {"any"}, n : Nat, exact : BOOLEAN]
  BY FiltersAssumption
<1> QED BY <1>1 DEF Wanted, MinorKinds

\* What comes after a version that matches a filter matches it too
LEMMA LaterMatches ==
    ASSUME NEW f \in Filters, ~f.exact, NEW v \in AllVersions, NEW w \in AllVersions,
           MatchesSpecific(f, v), v.kind # "dev", w.kind # "dev", w.major = v.major, Earlier(v, w),
           v.major # 1 \/ (v.kind = "minor" /\ w.kind = "minor")
    PROVE  MatchesSpecific(f, w)
<1> PICK q \in [kind : MinorKinds, n : Nat] : q = Wanted(f)
  BY WantedIs
<1>1. /\ v.major = f.major
      /\ \/ v.kind = q.kind /\ v.n = q.n
         \/ v.kind = "minor" /\ q.kind = "minor" /\ v.n >= q.n
         \/ v.kind = "minor" /\ q.kind # "minor" /\ v.major # 1
         \/ /\ {v.kind, q.kind} \subseteq Prereleases /\ v.major # 1
            /\ \/ Rank(v.kind) > Rank(q.kind)
               \/ v.kind = q.kind /\ v.n >= q.n
  BY DEF MatchesSpecific
<1>2. v.n \in Nat /\ w.n \in Nat /\ q.n \in Nat /\ v.major \in Nat /\ v.kind \in MinorKinds
      /\ w.kind \in MinorKinds /\ q.kind \in MinorKinds
  BY DEF AllVersions
<1>3. Rank(v.kind) < Rank(w.kind) \/ (v.kind = w.kind /\ v.n < w.n)
  BY <1>2 DEF Earlier
<1>4. \/ w.kind = q.kind /\ w.n = q.n
      \/ w.kind = "minor" /\ q.kind = "minor" /\ w.n >= q.n
      \/ w.kind = "minor" /\ q.kind # "minor" /\ w.major # 1
      \/ /\ {w.kind, q.kind} \subseteq Prereleases /\ w.major # 1
         /\ \/ Rank(w.kind) > Rank(q.kind)
            \/ w.kind = q.kind /\ w.n >= q.n
  <2>1. CASE w.kind = "minor" /\ q.kind # "minor"
    <3>1. v.major # 1
      BY <1>1, <2>1
    <3> QED BY <2>1, <3>1
  <2>2. CASE q.kind = "minor"
    <3>1. v.kind = "minor" /\ v.n >= q.n
      BY <1>1, <1>2, <2>2 DEF Prereleases
    <3>2. w.kind = "minor" /\ v.n < w.n
      BY <1>2, <1>3, <3>1, Ranks DEF MinorKinds
    <3> QED BY <1>2, <2>2, <3>1, <3>2
  <2>3. CASE w.kind # "minor" /\ q.kind # "minor"
    <3>1. w.major # 1
      BY <2>3
    <3>2. v.kind # "minor"
      BY <1>2, <1>3, <2>3, Ranks DEF MinorKinds
    <3>3. w.kind \in Prereleases /\ v.kind \in Prereleases /\ q.kind \in Prereleases
      BY <1>1, <1>2, <2>3, <3>2 DEF MinorKinds, Prereleases
    <3>4. Rank(v.kind) > Rank(q.kind) \/ (v.kind = q.kind /\ v.n >= q.n)
      BY <1>1, <1>2, <3>2
    <3>5. Rank(w.kind) > Rank(q.kind) \/ (w.kind = q.kind /\ w.n >= q.n)
      BY <1>2, <1>3, <3>3, <3>4, Ranks DEF Prereleases
    <3> QED BY <3>1, <3>3, <3>5
  <2> QED BY <2>1, <2>2, <2>3
<1> QED BY <1>1, <1>4 DEF MatchesSpecific

\* The last version that matches a filter that is not exact is the newest of its major
\* version, since what comes after it would match too
LEMMA SelectionFollows == SelectionInductive => SelectionIsStable
<1> SUFFICES ASSUME SelectionInductive PROVE SelectionIsStable
  OBVIOUS
<1>1. \A v \in released : v \in AllVersions
  BY VersionsAssumption DEF SelectionInductive, AllVersions
<1>2. asked \in Filters
  BY DEF SelectionInductive
<1>3. ASSUME NEW v \in AllVersions, ChosenFits(v, asked), ~asked.exact, v.kind # "dev",
             NEW w \in released, w.kind # "dev", w.major = v.major, Earlier(v, w),
             v.major # 1 \/ (v.kind = "minor" /\ w.kind = "minor")
      PROVE  FALSE
  <2>1. MatchesSpecific(asked, v) /\ w \in AllVersions
    BY <1>1, <1>3 DEF ChosenFits, Matching
  <2>2. MatchesSpecific(asked, w)
    BY <1>2, <1>3, <2>1, LaterMatches
  <2> QED BY <1>3, <2>2 DEF ChosenFits, Matching
<1>4. ASSUME NEW v \in AllVersions, ChosenFits(v, asked), v.kind # "dev"
      PROVE  v \in Matching(Again(v))
  <2>1. v \in released
    BY <1>4 DEF ChosenFits, Matching
  <2>2. MatchesSpecific(Again(v), v)
    <3>1. PICK f : f = Again(v)
      OBVIOUS
    <3>2. f.major = v.major /\ f.exact = FALSE /\ Wanted(f) = [kind |-> v.kind, n |-> v.n]
      BY <1>4, <3>1, AgainNames
    <3>3. MatchesSpecific(f, v)
      BY <3>2 DEF MatchesSpecific
    <3> QED BY <3>1, <3>3
  <2> QED BY <2>1, <2>2 DEF Matching
<1>5. ASSUME NEW v \in AllVersions, NEW w \in AllVersions, v.kind # "dev",
             ChosenFits(v, asked), ChosenFits(w, Again(v))
      PROVE  w = v \/ (Earlier(v, w) /\ asked.exact)
  <2>1. w = v \/ Earlier(v, w)
    BY <1>4, <1>5, EarlierOrders DEF ChosenFits
  <2>2. ASSUME Earlier(v, w), ~asked.exact PROVE w = v
    <3>1. w \in released /\ MatchesSpecific(Again(v), w)
      BY <1>5 DEF ChosenFits, Matching
    <3>2. /\ w.major = v.major
          /\ \/ w.kind = v.kind /\ w.n = v.n
             \/ w.kind = "minor" /\ v.kind = "minor" /\ w.n >= v.n
             \/ w.kind = "minor" /\ v.kind # "minor" /\ w.major # 1
             \/ {w.kind, v.kind} \subseteq Prereleases /\ w.major # 1
      <4>1. PICK f : f = Again(v)
        OBVIOUS
      <4>2. f.major = v.major /\ f.exact = FALSE /\ Wanted(f) = [kind |-> v.kind, n |-> v.n]
        BY <1>5, <4>1, AgainNames
      <4>3. MatchesSpecific(f, w)
        BY <3>1, <4>1
      <4> QED BY <4>2, <4>3 DEF MatchesSpecific
    <3>3. w.kind # "dev"
      BY <1>5, <3>2 DEF Prereleases
    <3>4. CASE w.kind = v.kind /\ w.n = v.n
      BY <3>2, <3>4 DEF AllVersions
    <3>5. CASE v.major # 1 \/ (v.kind = "minor" /\ w.kind = "minor")
      BY <1>3, <1>5, <2>2, <3>1, <3>2, <3>3, <3>5
    <3> QED BY <3>2, <3>4, <3>5
  <2>3. asked.exact \in BOOLEAN
    BY <1>2, WantedIs
  <2> QED BY <2>1, <2>2, <2>3
<1>6. CASE chosen = <<>>
  BY <1>6 DEF SelectionIsStable
<1>7. ASSUME NEW v \in AllVersions, chosen = <<v>>, ChosenFits(v, asked) PROVE SelectionIsStable
  <2>1. chosen[1] = v /\ Len(chosen) = 1
    BY <1>7
  <2>2. ~asked.exact /\ v.kind # "dev" /\ v.major # 1
        => \A w \in released : w.major = v.major /\ w.kind # "dev" => ~Earlier(v, w)
    BY <1>3, <1>7
  <2>3. v.kind # "dev" => Matching(Again(v)) # {}
    BY <1>4, <1>7
  <2> QED BY <2>1, <2>2, <2>3 DEF SelectionIsStable, Again
<1>8. ASSUME NEW v \in AllVersions, NEW w \in AllVersions, chosen = <<v, w>>,
             ChosenFits(v, asked), ChosenFits(w, Again(v))
      PROVE  SelectionIsStable
  <2>1. chosen[1] = v /\ chosen[2] = w /\ Len(chosen) = 2
    BY <1>8
  <2>2. ~asked.exact /\ v.kind # "dev" /\ v.major # 1
        => \A u \in released : u.major = v.major /\ u.kind # "dev" => ~Earlier(v, u)
    BY <1>3, <1>8
  <2>3. v.kind # "dev" => w = v \/ (Earlier(v, w) /\ asked.exact)
    BY <1>5, <1>8
  <2> QED BY <2>1, <2>2, <2>3 DEF SelectionIsStable
<1> QED BY <1>6, <1>7, <1>8 DEF SelectionInductive

\* For any finite set of versions and any filters: the version selected is the newest of its
\* major version unless the filter is exact, and the query written to gel.toml selects it
\* again or one that the exact filter kept out (matches_specific, Query::from_version).
THEOREM SelectionsHold == SelectionSpec => []SelectionIsStable
<1> QED BY SelectionStart, SelectionKept, SelectionFollows, PTL DEF SelectionSpec

=============================================================================
