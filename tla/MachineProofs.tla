--------------------------- MODULE MachineProofs ---------------------------
(***************************************************************************)
(* Proofs about what this program runs on the user's machine: the          *)
(* executable that installers replace (CLI), for any installers and        *)
(* builds, and any failures and deaths; and the server of an instance      *)
(* (Control), for any number of users' processes, runners and launches,    *)
(* and any number of commands and faults.                                  *)
(***************************************************************************)
EXTENDS CLI, Control, FiniteSetTheorems, SequenceTheorems, WellFoundedInduction, TLAPS

-----------------------------------------------------------------------------
(* CLI *)

Downloads == Commands \X {"download"}
Unpacked == Commands \X {"tmp"}
Scratch == {Setup, Copy} \cup Downloads \cup Unpacked
Kept == {Gel, Alt} \cup (Commands \X {"backup"})

InodeRecord == [builds : SUBSET Builds, by : Installers \cup {"nobody"}, done : BOOLEAN]
Inodes == {i \in InodeRecord : i.done => i.builds # {}}
Upgrading == {"open", "receive", "unpack", "decode", "backup", "spawn"}
Copying == {"clear", "copy", "copied", "rename"}
Linking == {"unlink", "link", "end"}
ActingRecord ==
    [pc : {"rest", "fetch", "place"} \cup Upgrading \cup Copying \cup Linking,
     via : Commands, self : Builds \cup {0}, build : Builds \cup {0}, from : FileNames,
     ino : Nat, src : Nat, exe : Nat, alone : BOOLEAN]

Telling(c, w) ==
    /\ c \in [build : Builds \cup {0}, fresh : BOOLEAN]
    /\ w # <<0, 0>> => ChannelOf(w[1]) = ChannelOf(w[2])

CLITyped ==
    /\ host \in [raw : Places, resolved : Places, database : BOOLEAN, hard : BOOLEAN, far : BOOLEAN]
    /\ inodes \in Seq(Inodes) /\ disk \in [FileNames -> 0..Len(inodes) \cup {SymLink}]
    /\ acting \in [Installers -> ActingRecord] /\ raced \in BOOLEAN
    /\ Telling(cached, warned)

Owned(h) == h.resolved \in Literal \cup {"renamed scoop"} \/ (h.resolved = "system" /\ h.database)

\* A file that is being made has one name; a link is the old name of the tool
NamesApart(d, h) ==
    /\ \A s \in Scratch, f \in FileNames : d[s] # 0 /\ f # s => d[f] # d[s]
    /\ \A f \in FileNames : d[f] = SymLink => f = Alt /\ ~h.hard
    /\ d[Alt] # 0 => d[Gel] # 0

KeptWhole(d, n) == \A f \in Kept : d[f] \notin {0, SymLink} => n[d[f]].done

Filled(d, n) == \A f \in {Gel, Copy} : d[f] # 0 => n[d[f]].builds # {}

\* What a process knows at each of its steps
ActingFits(r, d, n, h) ==
    /\ r.pc \notin {"rest", "fetch"} =>
          h.raw = "home" /\ (r.from = Setup \/ ~Owned(h)) /\ r.build \in Builds
    /\ r.pc \in Upgrading => r.from # Setup
    /\ r.pc = "fetch" => r.self \in Builds
    /\ r.pc \in Copying => r.from = Setup
    /\ r.from = Setup => r.self = 0
    /\ r.pc \in {"place"} \cup Linking => r.from \in {Setup} \cup Unpacked
    /\ r.pc \in Linking => d[Gel] # 0
    /\ r.pc \in {"receive", "decode"} => r.ino \in 1..Len(n) /\ r.ino # d[Copy]
    /\ r.pc = "copied" => r.ino \in 1..Len(n) /\ n[r.ino].builds # {}
    /\ r.pc = "decode" => r.src \in 1..Len(n)
    /\ r.pc = "place" => /\ r.exe \in 1..Len(n) /\ n[r.exe].done
                         /\ \A f \in Scratch \ {r.from} : d[f] # r.exe

\* While no two copied at once
CopyFits(p, r, d, n) ==
    r.pc \in {"copied", "rename"} /\ d[Copy] # 0 =>
        d[Copy] = r.ino /\ n[r.ino].by = p /\ (r.pc = "rename" => n[r.ino].done)
CopyAlone ==
    \A p, q \in Installers : p # q => ~(acting[p].pc \in {"copied", "rename"} /\ acting[q].pc \in {"copied", "rename"})

Holds(d, n, f, b) == d[f] \notin {0, SymLink} /\ n[d[f]].done /\ n[d[f]].builds = {b}

\* An upgrade that no other command met
AloneFits(p, r, d, n, h) ==
    LET down == <<r.via, "download">>
        tmp == <<r.via, "tmp">>
        old == <<r.via, "">>
        backup == <<r.via, "backup">>
    IN
    /\ r.pc \in Upgrading \ {"spawn"} =>
          d[old] \notin {0, SymLink} /\ n[d[old]].done /\ (CHOOSE b \in n[d[old]].builds : TRUE) = r.self
    /\ r.pc = "receive" => d[down] = r.ino /\ n[r.ino].builds = {r.build} /\ n[r.ino].by = p
    /\ r.pc = "unpack" => Holds(d, n, down, r.build)
    /\ r.pc = "decode" => d[tmp] = r.ino /\ n[r.src].done /\ n[r.src].builds = {r.build}
    /\ r.pc \in {"backup", "spawn", "place"} => Holds(d, n, tmp, r.build)
    /\ r.pc = "place" => r.from = tmp /\ r.exe = d[tmp]
    /\ r.pc \in {"spawn", "place"} \cup Linking /\ h.hard =>
          d[backup] \notin {0, SymLink} /\ (CHOOSE b \in n[d[backup]].builds : TRUE) = r.self
    /\ r.pc \in Linking => Holds(d, n, Gel, r.build)
    /\ r.pc = "link" => d[Alt] = 0
    /\ r.pc = "end" => d[Alt] \in {d[Gel], SymLink}

CLIInductive ==
    /\ CLITyped /\ NamesApart(disk, host) /\ Filled(disk, inodes)
    /\ Owned(host) => disk[Gel] \in {0, 1}
    /\ ~raced => /\ KeptWhole(disk, inodes) /\ CopyAlone
                 /\ \A p \in Installers : CopyFits(p, acting[p], disk, inodes)
    /\ \A p \in Installers : ActingFits(acting[p], disk, inodes, host)
    /\ \A p \in Installers : acting[p].alone /\ acting[p].pc # "rest" =>
          /\ \A q \in Installers : q # p => acting[q].pc = "rest"
          /\ acting[p].self # 0 => AloneFits(p, acting[p], disk, inodes, host)

Hosts == [raw : Places, resolved : Places, database : BOOLEAN, hard : BOOLEAN, far : BOOLEAN]
Disks(n) == [FileNames -> 0..Len(n) \cup {SymLink}]

\* What a step does to the names of files d, of which there are k, and to the inodes n, so
\* that what others know of them stays true
NamesMove(d, k) ==
    /\ d \in [FileNames -> 0..k \cup {SymLink}]
    /\ disk[Gel] # 0 => d[Gel] # 0
    /\ \A f \in Scratch :
          \/ d[f] \in {0, disk[f]} \/ d[f] > Len(inodes)
          \/ f \in Unpacked /\ \E g \in Downloads : d[f] = disk[g]
InodesMove(n) ==
    /\ n \in Seq(Inodes) /\ Len(inodes) <= Len(n)
    /\ \A i \in 1..Len(inodes) : inodes[i].builds # {} => n[i].builds # {}
    /\ \A i \in 1..Len(inodes) : inodes[i].done =>
          \/ n[i].done \/ \E f \in Downloads \cup {Copy} : disk[f] = i
          \/ ~\E q \in Installers : Running(q, i)
FilesMove(d, n) == NamesMove(d, Len(n)) /\ InodesMove(n) /\ Filled(d, n)

(* The names *)
LEMMA PairIs ==
    ASSUME NEW A, NEW B, NEW f \in A \X B
    PROVE  f = <<f[1], f[2]>> /\ f[1] \in A /\ f[2] \in B
OBVIOUS

LEMMA PairIn == ASSUME NEW A, NEW B, NEW a \in A, NEW b \in B PROVE <<a, b>> \in A \X B
OBVIOUS

\* The names of files are different from one another
LEMMA NamesAre ==
    /\ Scratch \subseteq FileNames /\ Kept \subseteq FileNames /\ Scratch \cap Kept = {}
    /\ FileNames = Scratch \cup Kept
    /\ Downloads \subseteq Scratch /\ Unpacked \subseteq Scratch /\ Downloads \cap Unpacked = {}
    /\ Setup \in Scratch \ (Downloads \cup Unpacked) /\ Copy \in Scratch \ (Downloads \cup Unpacked)
    /\ Setup # Copy /\ Gel \in Kept /\ Alt \in Kept /\ Gel # Alt
    /\ \A via \in Commands :
          /\ <<via, "download">> \in Downloads /\ <<via, "tmp">> \in Unpacked
          /\ <<via, "">> \in {Gel, Alt} /\ <<via, "backup">> \in Kept \ {Gel, Alt}
    /\ \A f \in Unpacked : f \notin {Setup, Copy, Gel, Alt}
<1>1. /\ \A f \in Downloads : f[1] \in Commands /\ f[2] = "download"
      /\ \A f \in Unpacked : f[1] \in Commands /\ f[2] = "tmp"
      /\ \A f \in Commands \X {"backup"} : f[1] \in Commands /\ f[2] = "backup"
      /\ Setup[1] = "setup" /\ Setup[2] = "" /\ Copy[1] = "gel" /\ Copy[2] = "copy"
      /\ Gel[1] = "gel" /\ Gel[2] = "" /\ Alt[1] = "edgedb" /\ Alt[2] = ""
  BY DEF Downloads, Unpacked, Setup, Copy, Gel, Alt
<1>2. \A via \in Commands :
          /\ <<via, "download">> \in Downloads /\ <<via, "tmp">> \in Unpacked
          /\ <<via, "">> \in {Gel, Alt} /\ <<via, "backup">> \in Commands \X {"backup"}
  BY DEF Downloads, Unpacked, Gel, Alt, Commands
<1>3. Commands \X {"", "download", "tmp", "backup"} =
          Downloads \cup Unpacked \cup (Commands \X {"backup"}) \cup {Gel, Alt}
  <2>1. ASSUME NEW f \in Commands \X {"", "download", "tmp", "backup"}
        PROVE  f \in Downloads \cup Unpacked \cup (Commands \X {"backup"}) \cup {Gel, Alt}
    <3> DEFINE Kinds == {"", "download", "tmp", "backup"}
    <3>1. f = <<f[1], f[2]>> /\ f[1] \in Commands /\ f[2] \in Kinds
      <4> HIDE DEF Kinds
      <4>1. f \in Commands \X Kinds
        BY <2>1 DEF Kinds
      <4> QED BY <4>1, PairIs
    <3> QED BY <1>2, <3>1
  <2>2. ASSUME NEW f \in Downloads \cup Unpacked \cup (Commands \X {"backup"}) \cup {Gel, Alt}
        PROVE  f \in Commands \X {"", "download", "tmp", "backup"}
    <3> DEFINE Kinds == {"", "download", "tmp", "backup"}
    <3>1. PICK via \in Commands, kind \in Kinds : f = <<via, kind>>
      <4>1. CASE f \in Downloads \cup Unpacked \cup (Commands \X {"backup"})
        <5>1. f = <<f[1], f[2]>>
          BY <4>1, PairIs DEF Downloads, Unpacked
        <5> QED BY <1>1, <4>1, <5>1
      <4>2. CASE f \in {Gel, Alt}
        BY <4>2 DEF Gel, Alt, Commands
      <4> QED BY <2>2, <4>1, <4>2
    <3> QED BY <3>1, PairIn
  <2> QED BY <2>1, <2>2
<1>4. FileNames = Scratch \cup Kept
  BY <1>3 DEF FileNames, Scratch, Kept
<1>5. \A f \in Scratch : f[2] \in {"copy", "download", "tmp"} \/ f[1] = "setup"
  BY <1>1 DEF Scratch
<1>6. \A f \in Kept : f[2] \in {"", "backup"} /\ f[1] # "setup"
  BY <1>1 DEF Kept, Commands
<1>7. Scratch \cap Kept = {}
  BY <1>5, <1>6
<1>8. /\ Downloads \subseteq Scratch /\ Unpacked \subseteq Scratch /\ Downloads \cap Unpacked = {}
      /\ Setup \in Scratch \ (Downloads \cup Unpacked) /\ Copy \in Scratch \ (Downloads \cup Unpacked)
      /\ Setup # Copy /\ Gel \in Kept /\ Alt \in Kept /\ Gel # Alt
      /\ \A f \in Unpacked : f \notin {Setup, Copy, Gel, Alt}
  BY <1>1 DEF Scratch, Kept
<1>9. \A via \in Commands : <<via, "backup">> \in Kept \ {Gel, Alt}
  BY <1>1, <1>2 DEF Kept
<1> QED BY <1>2, <1>4, <1>7, <1>8, <1>9

LEMMA SymLinkIs == SymLink \in Int /\ SymLink < 0 /\ SymLink \notin Nat /\ SymLink # 0
BY DEF SymLink

(* What follows from the types. *)
LEMMA DiskIs ==
    ASSUME CLIInductive
    PROVE  /\ inodes \in Seq(Inodes) /\ Len(inodes) \in Nat
           /\ \A i \in 1..Len(inodes) : inodes[i] \in Inodes
           /\ disk \in Disks(inodes)
           /\ \A f \in FileNames \ {Alt} : disk[f] \in 0..Len(inodes) /\ disk[f] # SymLink
           /\ disk[Gel] # SymLink /\ disk[Copy] # SymLink /\ disk[Setup] # SymLink
           /\ \A f \in FileNames : disk[f] \notin {0, SymLink} => disk[f] \in 1..Len(inodes)
           /\ \A f \in FileNames \ {Alt} : /\ Inode(f) = disk[f] /\ Content(f) = inodes[disk[f]]
                                           /\ WholeFile(f) <=> disk[f] # 0 /\ inodes[disk[f]].done
           /\ acting \in [Installers -> ActingRecord] /\ host \in Hosts
           /\ NamesApart(disk, host)
<1>1. /\ inodes \in Seq(Inodes) /\ disk \in Disks(inodes) /\ NamesApart(disk, host)
      /\ acting \in [Installers -> ActingRecord] /\ host \in Hosts
  BY DEF CLIInductive, CLITyped, Disks, Hosts
<1>2. Len(inodes) \in Nat /\ \A i \in 1..Len(inodes) : inodes[i] \in Inodes
  BY <1>1, LenProperties, ElementOfSeq
<1>3. \A f \in FileNames \ {Alt} : disk[f] \in 0..Len(inodes) /\ disk[f] # SymLink
  BY <1>1 DEF NamesApart, Disks
<1>4. \A f \in FileNames \ {Alt} : Inode(f) = disk[f]
  BY <1>3 DEF Inode
<1>5. disk[Gel] # SymLink /\ disk[Copy] # SymLink /\ disk[Setup] # SymLink
  BY <1>3, NamesAre
<1>6. \A f \in FileNames : disk[f] \notin {0, SymLink} => disk[f] \in 1..Len(inodes)
  BY <1>1, <1>2 DEF Disks
<1> QED BY <1>1, <1>2, <1>3, <1>4, <1>5, <1>6 DEF Content, WholeFile

\* A sequence of inodes stays one when one is added, and when one is changed
LEMMA NewInode ==
    ASSUME CLIInductive, NEW x \in Inodes
    PROVE  /\ Append(inodes, x) \in Seq(Inodes) /\ Len(Append(inodes, x)) = Len(inodes) + 1
           /\ Append(inodes, x)[Len(inodes) + 1] = x
           /\ \A i \in 1..Len(inodes) : Append(inodes, x)[i] = inodes[i]
BY DiskIs, AppendProperties

LEMMA SetInode ==
    ASSUME CLIInductive, NEW x \in Inodes, NEW i \in 1..Len(inodes)
    PROVE  /\ [inodes EXCEPT ![i] = x] \in Seq(Inodes) /\ Len([inodes EXCEPT ![i] = x]) = Len(inodes)
           /\ [inodes EXCEPT ![i] = x][i] = x
           /\ \A j \in 1..Len(inodes) : j # i => [inodes EXCEPT ![i] = x][j] = inodes[j]
BY DiskIs, ExceptSeq

(* A step of one process that is at work. *)
LEMMA InstallerMoves ==
    ASSUME CLIInductive, NEW p \in Installers, acting[p].pc # "rest",
           NEW r \in ActingRecord, acting' = [acting EXCEPT ![p] = r],
           r.pc = "rest" \/ r.alone = acting[p].alone,
           NEW n, inodes' = n, NEW d, disk' = d, FilesMove(d, n),
           NEW h \in Hosts, host' = h, h.raw = host.raw, NamesApart(d, h),
           Owned(h) => Owned(host) /\ d[Gel] = disk[Gel],
           raced' \in BOOLEAN, raced => raced',
           raced' \/ KeptWhole(d, n),
           raced' \/ CopyFits(p, r, d, n),
           raced' \/ \A q \in Installers \ {p} : acting[q].pc \in {"copied", "rename"} =>
                         r.pc \notin {"copied", "rename"} /\ CopyFits(q, acting[q], d, n),
           Telling(cached', warned'),
           ActingFits(r, d, n, h),
           r.pc # "rest" /\ r.alone /\ r.self # 0 => AloneFits(p, r, d, n, h)
    PROVE  CLIInductive'
<1>1. CLITyped'
  BY DEF CLIInductive, CLITyped, Telling, FilesMove, NamesMove, InodesMove, Hosts, Disks
<1>2. NamesApart(disk, host)' /\ Filled(disk, inodes)'
  BY DEF NamesApart, FilesMove, Filled
<1>3. (Owned(host) => disk[Gel] \in {0, 1})'
  BY DEF CLIInductive, Owned
<1>4. \A q \in Installers : acting'[q] = IF q = p THEN r ELSE acting[q]
  BY DiskIs
<1>5. ~raced' => KeptWhole(disk, inodes)'
  BY DEF KeptWhole
<1>6. ~raced' => CopyAlone' /\ \A q \in Installers : CopyFits(q, acting'[q], d, n)
  <2> SUFFICES ASSUME ~raced' PROVE CopyAlone' /\ \A q \in Installers : CopyFits(q, acting'[q], d, n)
    OBVIOUS
  <2>1. CopyAlone /\ \A q \in Installers : CopyFits(q, acting[q], disk, inodes)
    BY DEF CLIInductive
  <2>2. CopyAlone'
    BY <1>4, <2>1 DEF CopyAlone
  <2>3. \A q \in Installers : CopyFits(q, acting'[q], d, n)
    BY <1>4 DEF CopyFits
  <2> QED BY <2>2, <2>3
<1>7. ASSUME NEW q \in Installers
      PROVE  ActingFits(acting'[q], d, n, h)
  <2>1. CASE q = p
    BY <1>4, <2>1
  <2>2. CASE q # p
    <3> DEFINE s == acting[q]
    <3>1. ActingFits(s, disk, inodes, host) /\ s \in ActingRecord
      BY DiskIs DEF CLIInductive
    <3>2. Len(inodes) \in Nat /\ Len(n) \in Nat /\ Len(inodes) <= Len(n)
      BY DiskIs, LenProperties DEF FilesMove, NamesMove, InodesMove
    <3>3. d[Copy] \in {0, disk[Copy]} \/ d[Copy] > Len(inodes)
      BY NamesAre DEF FilesMove, NamesMove, InodesMove
    <3>4. s.pc = "place" => n[s.exe].done /\ \A f \in Scratch \ {s.from} : d[f] # s.exe
      <4> SUFFICES ASSUME s.pc = "place"
                   PROVE  n[s.exe].done /\ \A f \in Scratch \ {s.from} : d[f] # s.exe
        OBVIOUS
      <4>1. /\ s.exe \in 1..Len(inodes) /\ inodes[s.exe].done /\ s.from \in {Setup} \cup Unpacked
            /\ \A f \in Scratch \ {s.from} : disk[f] # s.exe
        BY <3>1 DEF ActingFits
      <4>2. \A f \in Downloads \cup {Copy} : disk[f] # s.exe
        BY <4>1, NamesAre
      <4>3. Running(q, s.exe)
        BY <4>1 DEF Running
      <4>4. n[s.exe].done
        BY <4>1, <4>2, <4>3 DEF FilesMove, NamesMove, InodesMove
      <4>5. ASSUME NEW f \in Scratch \ {s.from}, d[f] = s.exe
            PROVE  FALSE
        <5>1. s.exe # 0 /\ ~(s.exe > Len(inodes))
          BY <3>2, <4>1
        <5>2. \/ d[f] \in {0, disk[f]} \/ d[f] > Len(inodes)
              \/ \E g \in Downloads : d[f] = disk[g]
          BY DEF FilesMove, NamesMove, InodesMove
        <5> QED BY <4>1, <4>2, <4>5, <5>1, <5>2
      <4> QED BY <4>4, <4>5
    <3>5. s.pc \in {"receive", "decode"} => s.ino \in 1..Len(n) /\ s.ino # d[Copy]
      BY <3>1, <3>2, <3>3 DEF ActingFits
    <3>8. s.pc = "copied" => s.ino \in 1..Len(n) /\ n[s.ino].builds # {}
      BY <3>1, <3>2 DEF ActingFits, FilesMove, InodesMove
    <3>6. s.pc \in Linking => d[Gel] # 0
      BY <3>1 DEF ActingFits, FilesMove, NamesMove
    <3>7. ActingFits(s, d, n, h)
      <4> HIDE DEF s
      <4> QED BY <3>1, <3>2, <3>4, <3>5, <3>6, <3>8 DEF ActingFits
    <3> QED BY <1>4, <2>2, <3>7
  <2> QED BY <2>1, <2>2
<1>8. ASSUME NEW q \in Installers, acting'[q].alone, acting'[q].pc # "rest"
      PROVE  /\ \A s \in Installers : s # q => acting'[s].pc = "rest"
             /\ acting'[q].self # 0 => AloneFits(q, acting'[q], d, n, h)
  <2>1. CASE q = p
    <3>1. acting[p].alone /\ \A s \in Installers : s # p => acting[s].pc = "rest"
      BY <1>4, <1>8, <2>1 DEF CLIInductive
    <3> QED BY <1>4, <1>8, <2>1, <3>1
  <2>2. CASE q # p
    BY <1>4, <1>8, <2>2 DEF CLIInductive
  <2> QED BY <2>1, <2>2
<1> QED BY <1>1, <1>2, <1>3, <1>5, <1>6, <1>7, <1>8 DEF CLIInductive

(* What becomes of names and inodes. *)
LEMMA Same ==
    ASSUME CLIInductive
    PROVE  FilesMove(disk, inodes) /\ NamesApart(disk, host)
BY DiskIs DEF FilesMove, NamesMove, InodesMove, Disks, CLIInductive

(* The builds of an inode stay. *)
LEMMA StaysFilled ==
    ASSUME CLIInductive, NEW n, InodesMove(n), NEW d, d[Gel] = disk[Gel], d[Copy] \in {0, disk[Copy]}
    PROVE  Filled(d, n)
<1>1. \A f \in {Gel, Copy} : f \in FileNames \ {Alt}
  BY NamesAre
<1>2. \A f \in {Gel, Copy} : disk[f] # 0 => disk[f] \in 1..Len(inodes) /\ inodes[disk[f]].builds # {}
  BY <1>1, DiskIs DEF CLIInductive, Filled
<1> QED BY <1>2 DEF Filled, InodesMove

\* A file is removed; a new inode gets a name; a file is renamed
LEMMA Cleared ==
    ASSUME CLIInductive, NEW f \in FileNames \ {Gel},
           disk' = [disk EXCEPT ![f] = 0]
    PROVE  /\ NamesMove(disk', Len(inodes)) /\ NamesApart(disk', host)
           /\ disk'[f] = 0 /\ \A g \in FileNames \ {f} : disk'[g] = disk[g]
<1>1. disk' \in [FileNames -> 0..Len(inodes) \cup {SymLink}] /\ \A g \in FileNames : disk'[g] = IF g = f THEN 0 ELSE disk[g]
  BY DiskIs DEF Disks
<1>2. NamesMove(disk', Len(inodes))
  BY <1>1, NamesAre DEF NamesMove
<1>3. NamesApart(disk', host)
  BY <1>1, DiskIs, NamesAre, SymLinkIs DEF NamesApart
<1> QED BY <1>1, <1>2, <1>3

LEMMA Named ==
    ASSUME CLIInductive, NEW f \in Scratch,
           disk' = [disk EXCEPT ![f] = Len(inodes) + 1]
    PROVE  /\ NamesMove(disk', Len(inodes) + 1) /\ NamesApart(disk', host)
           /\ disk'[f] = Len(inodes) + 1 /\ \A g \in FileNames \ {f} : disk'[g] = disk[g]
<1> DEFINE k == Len(inodes) + 1
<1>1. Len(inodes) \in Nat
  BY DiskIs
<1>2. /\ k \in Nat /\ k > Len(inodes) /\ k # 0 /\ k # SymLink /\ k \notin 0..Len(inodes)
      /\ 0..Len(inodes) \subseteq 0..k /\ k \in 0..k
  BY <1>1, SymLinkIs
<1>3. f \in FileNames /\ f \notin {Gel, Alt}
  BY NamesAre
<1>4. disk' = [disk EXCEPT ![f] = k]
  OBVIOUS
<1> HIDE DEF k
<1>5. /\ disk' \in [FileNames -> 0..k \cup {SymLink}]
      /\ \A g \in FileNames : disk'[g] = IF g = f THEN k ELSE disk[g]
  BY <1>2, <1>3, <1>4, DiskIs DEF Disks
<1>6. NamesMove(disk', k)
  BY <1>2, <1>3, <1>5, NamesAre DEF NamesMove
<1>7. \A g \in FileNames : disk[g] # k
  BY <1>2, DiskIs DEF Disks
<1>8. NamesApart(disk', host)
  <2>1. \A s \in Scratch, m \in FileNames : disk'[s] # 0 /\ m # s => disk'[m] # disk'[s]
    <3> SUFFICES ASSUME NEW s \in Scratch, NEW m \in FileNames, disk'[s] # 0, m # s PROVE disk'[m] # disk'[s]
      OBVIOUS
    <3>1. s \in FileNames /\ (disk[s] # 0 => disk[m] # disk[s])
      BY DiskIs, NamesAre DEF NamesApart
    <3> QED BY <1>5, <1>7, <3>1
  <2>2. \A m \in FileNames : disk'[m] = SymLink => m = Alt /\ ~host.hard
    BY <1>2, <1>5, DiskIs DEF NamesApart
  <2>3. disk'[Alt] # 0 => disk'[Gel] # 0
    BY <1>3, <1>5, DiskIs, NamesAre DEF NamesApart
  <2> QED BY <2>1, <2>2, <2>3 DEF NamesApart
<1>9. NamesMove(disk', Len(inodes) + 1) /\ disk'[f] = Len(inodes) + 1
  BY <1>3, <1>5, <1>6 DEF k
<1> QED BY <1>5, <1>8, <1>9

LEMMA Moved ==
    ASSUME CLIInductive, NEW f \in Scratch, disk[f] # 0,
           NEW g \in Unpacked \cup {Gel}, f # g, g \in Unpacked => f \in Downloads,
           disk' = [disk EXCEPT ![g] = disk[f], ![f] = 0]
    PROVE  /\ NamesMove(disk', Len(inodes)) /\ NamesApart(disk', host)
           /\ disk'[f] = 0 /\ disk'[g] = disk[f] /\ \A m \in FileNames \ {f, g} : disk'[m] = disk[m]
<1>1. f \in FileNames /\ g \in FileNames /\ f \notin {Gel, Alt} /\ g # Alt
  BY NamesAre
<1>2. /\ disk' \in [FileNames -> 0..Len(inodes) \cup {SymLink}]
      /\ \A m \in FileNames : disk'[m] = IF m = f THEN 0 ELSE IF m = g THEN disk[f] ELSE disk[m]
  BY <1>1, DiskIs DEF Disks
<1>3. NamesMove(disk', Len(inodes))
  <2>1. disk[Gel] # 0 => disk'[Gel] # 0
    BY <1>1, <1>2, NamesAre
  <2>2. ASSUME NEW m \in Scratch
        PROVE  \/ disk'[m] \in {0, disk[m]}
               \/ m \in Unpacked /\ \E n \in Downloads : disk'[m] = disk[n]
    <3>1. m \in FileNames /\ m # Gel
      BY NamesAre
    <3> QED BY <1>2, <3>1
  <2> QED BY <1>2, <2>1, <2>2 DEF NamesMove
<1>4. disk[f] # SymLink /\ \A m \in FileNames : m # f => disk[m] # disk[f]
  BY <1>1, DiskIs, NamesAre DEF NamesApart
<1>5. NamesApart(disk', host)
  <2>1. \A s \in Scratch, m \in FileNames : disk'[s] # 0 /\ m # s => disk'[m] # disk'[s]
    <3> SUFFICES ASSUME NEW s \in Scratch, NEW m \in FileNames, disk'[s] # 0, m # s PROVE disk'[m] # disk'[s]
      OBVIOUS
    <3>1. s \in FileNames /\ (disk[s] # 0 => disk[m] # disk[s])
      BY DiskIs, NamesAre DEF NamesApart
    <3> QED BY <1>2, <1>4, <3>1
  <2>2. \A m \in FileNames : disk'[m] = SymLink => m = Alt /\ ~host.hard
    BY <1>2, <1>4, DiskIs, SymLinkIs DEF NamesApart
  <2>3. disk'[Alt] # 0 => disk'[Gel] # 0
    BY <1>1, <1>2, DiskIs, NamesAre DEF NamesApart
  <2> QED BY <2>1, <2>2, <2>3 DEF NamesApart
<1> QED BY <1>1, <1>2, <1>3, <1>5

\* An inode is added; an inode that is being written changes
LEMMA Added ==
    ASSUME CLIInductive, NEW x \in Inodes
    PROVE  InodesMove(Append(inodes, x))
BY DiskIs, NewInode DEF InodesMove

LEMMA Changed ==
    ASSUME CLIInductive, NEW x \in Inodes, NEW i \in 1..Len(inodes), x.builds # {},
           \/ x.done \/ ~inodes[i].done \/ \E f \in Downloads \cup {Copy} : disk[f] = i
           \/ ~\E q \in Installers : Running(q, i)
    PROVE  InodesMove([inodes EXCEPT ![i] = x])
BY DiskIs, SetInode DEF InodesMove

(* A step that changes nothing but files, and those that are in use for the better. *)
LEMMA InstallerGoes ==
    ASSUME CLIInductive, NEW p \in Installers, acting[p].pc # "rest",
           NEW r \in ActingRecord, acting' = [acting EXCEPT ![p] = r],
           r.pc = "rest" \/ r.alone = acting[p].alone,
           NEW n, inodes' = n, NEW d, disk' = d, FilesMove(d, n), NamesApart(d, host),
           UNCHANGED <<host, raced>>, Telling(cached', warned'),
           Owned(host) => d[Gel] = disk[Gel],
           ~raced => KeptWhole(d, n),
           r.pc \notin {"copied", "rename"}, d[Copy] \in {0, disk[Copy]},
           disk[Copy] # 0 => /\ n[disk[Copy]].by = inodes[disk[Copy]].by
                             /\ inodes[disk[Copy]].done => n[disk[Copy]].done,
           ActingFits(r, d, n, host),
           r.pc # "rest" /\ r.alone /\ r.self # 0 => AloneFits(p, r, d, n, host)
    PROVE  CLIInductive'
<1>1. host \in Hosts /\ raced \in BOOLEAN
  BY DiskIs DEF CLIInductive, CLITyped
<1>2. ~raced => \A q \in Installers : CopyFits(q, acting[q], d, n)
  BY DEF CLIInductive, CopyFits
<1>3. CopyFits(p, r, d, n)
  BY DEF CopyFits
<1> QED BY <1>1, <1>2, <1>3, InstallerMoves

(* An error, or the death of the process. *)
LEMMA RestingIs == Resting \in ActingRecord /\ Resting.pc = "rest" /\ \A d, n, h : ActingFits(Resting, d, n, h)
<1>1. Resting \in ActingRecord
  BY NamesAre DEF Resting, ActingRecord, Commands
<1>2. Resting.pc = "rest" /\ Resting.from = Gel
  BY DEF Resting
<1> QED BY <1>1, <1>2, NamesAre DEF ActingFits, Copying, Linking

\* A step that only ends what a process does
LEMMA GivesUp ==
    ASSUME CLIInductive, NEW p \in Installers, acting[p].pc # "rest", Gives(p),
           host' = host, Telling(cached', warned'), raced' \in BOOLEAN, raced => raced'
    PROVE  CLIInductive'
<1>1. /\ acting' = [acting EXCEPT ![p] = Resting] /\ inodes' = inodes /\ disk' = disk
      /\ host \in Hosts
  BY DiskIs DEF Gives, Do, installed
<1>2. FilesMove(disk, inodes)
  BY Same
<1>3. raced' \/ (KeptWhole(disk, inodes) /\ \A q \in Installers : CopyFits(q, acting[q], disk, inodes))
  BY DEF CLIInductive
<1>4. CopyFits(p, Resting, disk, inodes)
  BY RestingIs DEF CopyFits
<1> QED BY <1>1, <1>2, <1>3, <1>4, Same, RestingIs, InstallerMoves

(* What a process knows of itself. *)
LEMMA AtWork ==
    ASSUME CLIInductive, NEW p \in Installers
    PROVE  /\ acting[p] \in ActingRecord /\ ActingFits(acting[p], disk, inodes, host)
           /\ acting[p].pc \notin {"rest", "fetch"} => acting[p].build \in Builds
           /\ acting[p].via \in Commands
           /\ acting[p].alone /\ acting[p].pc # "rest" =>
                 \A q \in Installers : q # p => acting[q].pc = "rest"
           /\ acting[p].alone /\ acting[p].pc # "rest" /\ acting[p].self # 0 =>
                 AloneFits(p, acting[p], disk, inodes, host)
BY DiskIs DEF CLIInductive, ActingFits, ActingRecord

\* A process that has opened an inode
WritesTo(r, pc, i) == [r EXCEPT !.pc = pc, !.ino = i]

\* A process goes on to write to an inode
LEMMA Writes ==
    ASSUME NEW s \in ActingRecord, NEW pc \in {"receive", "copied"}, NEW i \in Nat
    PROVE  LET r == WritesTo(s, pc, i) IN
           /\ r \in ActingRecord /\ r.pc = pc /\ r.alone = s.alone
           /\ r.via = s.via /\ r.self = s.self /\ r.build = s.build /\ r.from = s.from
           /\ r.ino = i
BY DEF ActingRecord, Upgrading, Copying, WritesTo

(* File::create, of a file that may be there and that others may be writing. *)
LEMMA Opens ==
    ASSUME CLIInductive, NEW p \in Installers, NEW f \in Downloads \cup {Copy}, NEW pc,
           acting[p].build \in Builds, Open(f, p, {acting[p].build}, pc)
    PROVE  /\ FilesMove(disk', inodes') /\ NamesApart(disk', host) /\ disk'[f] \in 1..Len(inodes')
           /\ \A g \in FileNames \ {f} : disk'[g] = disk[g]
           /\ \A g \in FileNames \ {f} : disk[g] \notin {0, SymLink} => inodes'[disk[g]] = inodes[disk[g]]
           /\ inodes'[disk'[f]].by = p /\ inodes'[disk'[f]].builds # {}
           /\ (\A q \in Installers : acting[q].pc \notin {"receive", "decode", "copied"}) =>
                 inodes'[disk'[f]].builds = {acting[p].build}
           /\ Do(p, WritesTo(acting[p], pc, disk'[f]))
<1> DEFINE i == IF disk[f] = 0 THEN Len(inodes) + 1 ELSE Inode(f)
           b == {acting[p].build} \cup {acting[q].build : q \in {q \in Installers : Writing(q, i)}}
           x == [builds |-> b, by |-> p, done |-> FALSE]
<1>1. /\ disk' = [disk EXCEPT ![f] = i]
      /\ inodes' = IF disk[f] = 0 THEN Append(inodes, x) ELSE [inodes EXCEPT ![i] = x]
      /\ acting' = [acting EXCEPT ![p] = [acting[p] EXCEPT !.pc = pc, !.ino = i]]
  BY DEF Open, Do
<1>2. f \in FileNames \ {Alt} /\ f \in Scratch
  BY NamesAre
<1>3. b # {} /\ b \subseteq Builds
  <2>1. \A q \in Installers : Writing(q, i) => acting[q].build \in Builds
    BY AtWork DEF Writing
  <2> QED BY <2>1
<1>4. x \in Inodes /\ x.builds = b /\ x.by = p
  BY <1>3 DEF Inodes, InodeRecord
<1>5. (\A q \in Installers : acting[q].pc \notin {"receive", "decode", "copied"}) => b = {acting[p].build}
  BY DEF Writing
<1>8. disk'[f] = i
  BY <1>1, <1>2, DiskIs DEF Disks
<1>9. Do(p, WritesTo(acting[p], pc, disk'[f]))
  BY <1>1, <1>8 DEF WritesTo, Do
<1> HIDE DEF x, b
<1>6. CASE disk[f] = 0
  <2>1. i = Len(inodes) + 1 /\ inodes' = Append(inodes, x) /\ disk' = [disk EXCEPT ![f] = Len(inodes) + 1]
    BY <1>1, <1>6
  <2> HIDE DEF i
  <2>2. /\ NamesMove(disk', Len(inodes) + 1) /\ NamesApart(disk', host)
        /\ disk'[f] = Len(inodes) + 1 /\ \A g \in FileNames \ {f} : disk'[g] = disk[g]
    BY <1>2, <2>1, Named
  <2>3. InodesMove(inodes') /\ Len(inodes') = Len(inodes) + 1
    BY <1>4, <2>1, Added, NewInode
  <2>4. inodes'[i] = x /\ i \in 1..Len(inodes') /\ \A j \in 1..Len(inodes) : inodes'[j] = inodes[j]
    BY <1>4, <2>1, NewInode, DiskIs
  <2>5. \A g \in FileNames : disk[g] \notin {0, SymLink} => inodes'[disk[g]] = inodes[disk[g]]
    BY <2>4, DiskIs DEF Disks
  <2>6. Filled(disk', inodes')
    <3> SUFFICES ASSUME NEW g \in {Gel, Copy}, disk'[g] # 0 PROVE inodes'[disk'[g]].builds # {}
      BY DEF Filled
    <3>1. CASE g = f
      BY <1>3, <1>4, <2>1, <2>2, <2>4, <3>1
    <3>2. CASE g # f
      <4>1. g \in FileNames \ {Alt} /\ g \in FileNames \ {f}
        BY <3>2, NamesAre
      <4>2. disk'[g] = disk[g]
        BY <2>2, <4>1
      <4>3. disk[g] # 0 => inodes[disk[g]].builds # {}
        BY DEF CLIInductive, Filled
      <4>4. disk[g] # SymLink
        BY <4>1, DiskIs DEF NamesApart
      <4> QED BY <2>5, <4>1, <4>2, <4>3, <4>4
    <3> QED BY <3>1, <3>2
  <2> QED BY <1>3, <1>4, <1>5, <1>8, <1>9, <2>1, <2>2, <2>3, <2>4, <2>5, <2>6 DEF FilesMove
<1>7. CASE disk[f] # 0
  <2>1. i = disk[f] /\ i \in 1..Len(inodes) /\ inodes' = [inodes EXCEPT ![i] = x] /\ disk' = disk
    BY <1>1, <1>2, <1>7, DiskIs DEF Disks
  <2> HIDE DEF i
  <2>2. InodesMove(inodes')
    BY <1>3, <1>4, <2>1, Changed
  <2>3. /\ Len(inodes') = Len(inodes) /\ inodes'[i] = x
        /\ \A j \in 1..Len(inodes) : j # i => inodes'[j] = inodes[j]
    BY <1>4, <2>1, SetInode
  <2>4. Filled(disk', inodes') /\ FilesMove(disk', inodes') /\ NamesApart(disk', host)
    BY <2>1, <2>2, <2>3, Same, StaysFilled DEF FilesMove
  <2>5. \A g \in FileNames \ {f} : disk[g] # i
    BY <1>2, <1>7, <2>1, DiskIs DEF NamesApart
  <2>6. \A g \in FileNames \ {f} : disk[g] \notin {0, SymLink} => inodes'[disk[g]] = inodes[disk[g]]
    BY <2>3, <2>5, DiskIs DEF Disks
  <2> QED BY <1>3, <1>4, <1>5, <1>8, <1>9, <2>1, <2>3, <2>4, <2>6
<1> QED BY <1>6, <1>7

(* A step that leaves the names of the tool and the copy of an install. *)
LEMMA Makes ==
    ASSUME CLIInductive, NEW p \in Installers, acting[p].pc # "rest",
           NEW r \in ActingRecord, acting' = [acting EXCEPT ![p] = r],
           r.pc = "rest" \/ r.alone = acting[p].alone,
           NEW n, inodes' = n, NEW d, disk' = d, NamesMove(d, Len(n)), InodesMove(n), NamesApart(d, host),
           UNCHANGED <<host, raced>>, cached' = cached, warned' = warned,
           \A f \in Kept \cup {Copy} :
              /\ d[f] = disk[f]
              /\ disk[f] \notin {0, SymLink} /\ inodes[disk[f]].done => n[disk[f]].done,
           disk[Copy] # 0 => n[disk[Copy]].by = inodes[disk[Copy]].by,
           r.pc \notin {"copied", "rename"}, ActingFits(r, d, n, host),
           r.pc # "rest" /\ r.alone /\ r.self # 0 => AloneFits(p, r, d, n, host)
    PROVE  CLIInductive'
<1>1. Filled(d, n) /\ FilesMove(d, n)
  BY StaysFilled, NamesAre DEF FilesMove
<1>2. d[Gel] = disk[Gel] /\ d[Copy] \in {0, disk[Copy]}
  BY NamesAre
<1>3. ~raced => KeptWhole(d, n)
  BY NamesAre DEF CLIInductive, KeptWhole
<1>4. disk[Copy] # 0 => /\ n[disk[Copy]].by = inodes[disk[Copy]].by
                        /\ inodes[disk[Copy]].done => n[disk[Copy]].done
  <2>1. Copy \in FileNames /\ Copy # Alt
    BY NamesAre
  <2>2. disk[Copy] # SymLink
    BY <2>1, DiskIs DEF NamesApart
  <2> QED BY <2>2
<1>5. Telling(cached', warned')
  BY DEF CLIInductive, CLITyped
<1> QED BY <1>1, <1>2, <1>3, <1>4, <1>5, InstallerGoes

(* The next step of a process. *)
LEMMA Going ==
    ASSUME NEW s \in ActingRecord, NEW r,
           NEW pc \in {"rest", "fetch", "place"} \cup Upgrading \cup Copying \cup Linking,
           r = [s EXCEPT !.pc = pc]
    PROVE  /\ r \in ActingRecord /\ r.pc = pc /\ r.alone = s.alone
           /\ r.via = s.via /\ r.self = s.self /\ r.build = s.build /\ r.from = s.from
           /\ r.ino = s.ino /\ r.src = s.src /\ r.exe = s.exe
BY DEF ActingRecord

LEMMA Via ==
    ASSUME CLIInductive, NEW p \in Installers
    PROVE  /\ <<acting[p].via, "download">> \in Downloads /\ <<acting[p].via, "tmp">> \in Unpacked
           /\ <<acting[p].via, "">> \in {Gel, Alt} /\ <<acting[p].via, "">> \in Kept
           /\ <<acting[p].via, "backup">> \in Kept \ {Gel, Alt}
           /\ {<<acting[p].via, "download">>, <<acting[p].via, "tmp">>} \subseteq Scratch \ {Setup, Copy}
           /\ <<acting[p].via, "download">> # <<acting[p].via, "tmp">>
BY AtWork, NamesAre

\* The steps of an upgrade, up to the new executable being run
LEMMA Receives ==
    ASSUME CLIInductive, NEW p \in Installers, Receive(p)
    PROVE  CLIInductive'
<1> DEFINE s == acting[p]
           down == <<s.via, "download">>
           old == <<s.via, "">>
<1>1. /\ s \in ActingRecord /\ ActingFits(s, disk, inodes, host) /\ s.pc = "open" /\ s.build \in Builds
      /\ s.alone => \A q \in Installers : q # p => acting[q].pc = "rest"
      /\ s.alone /\ s.self # 0 => AloneFits(p, s, disk, inodes, host)
  BY AtWork DEF Receive
<1>2. /\ down \in Downloads /\ down \in Scratch /\ old \in Kept /\ down # old /\ down # Copy
      /\ Copy \in FileNames \ {down} /\ old \in FileNames \ {down} /\ Kept \subseteq FileNames \ {down}
  BY Via, NamesAre
<1>3. Open(down, p, {s.build}, "receive") /\ UNCHANGED rest
  BY DEF Receive
<1>a. acting[p].build \in Builds /\ Open(down, p, {acting[p].build}, "receive") /\ down \in Downloads \cup {Copy}
  BY <1>1, <1>2, <1>3
<1> HIDE DEF down, old, s
<1> DEFINE i == disk'[down]
<1>4. /\ FilesMove(disk', inodes') /\ NamesApart(disk', host) /\ i \in 1..Len(inodes')
      /\ \A g \in FileNames \ {down} : disk'[g] = disk[g]
      /\ \A g \in FileNames \ {down} : disk[g] \notin {0, SymLink} => inodes'[disk[g]] = inodes[disk[g]]
      /\ inodes'[i].by = p /\ inodes'[i].builds # {}
      /\ (\A q \in Installers : acting[q].pc \notin {"receive", "decode", "copied"}) =>
            inodes'[i].builds = {acting[p].build}
  BY <1>a, Opens
<1>b. Do(p, WritesTo(acting[p], "receive", disk'[down]))
  BY <1>a, Opens
<1> USE DEF s
<1> DEFINE r == WritesTo(s, "receive", i)
<1>5. i \in Nat /\ i # 0 /\ i \in 1..Len(inodes')
  BY <1>4
<1>6. /\ r \in ActingRecord /\ r.pc = "receive" /\ r.alone = s.alone /\ r.via = s.via
      /\ r.self = s.self /\ r.build = s.build /\ r.from = s.from /\ r.ino = i
  <2>1. s \in ActingRecord /\ "receive" \in {"receive", "copied"}
    BY <1>1
  <2> HIDE DEF s, i
  <2> QED BY <1>5, <2>1, Writes
<1>7. acting' = [acting EXCEPT ![p] = r]
  BY <1>b DEF Do
<1> HIDE DEF r, i
<1>8. disk'[Copy] # i
  BY <1>2, <1>4, <1>5, NamesAre DEF NamesApart, i
<1>9. ActingFits(r, disk', inodes', host)
  BY <1>1, <1>5, <1>6, <1>8 DEF ActingFits, Upgrading, Copying, Linking
<1>10. r.alone /\ r.self # 0 => AloneFits(p, r, disk', inodes', host)
  <2> SUFFICES ASSUME r.alone, r.self # 0 PROVE AloneFits(p, r, disk', inodes', host)
    OBVIOUS
  <2>1. AloneFits(p, s, disk, inodes, host) /\ \A q \in Installers : q # p => acting[q].pc = "rest"
    BY <1>1, <1>6
  <2>2. inodes'[i].builds = {s.build}
    BY <1>1, <1>4, <2>1
  <2>3. disk[old] \notin {0, SymLink} /\ inodes[disk[old]].done /\ (CHOOSE b \in inodes[disk[old]].builds : TRUE) = s.self
    BY <1>1, <2>1 DEF AloneFits, Upgrading, old
  <2>4. disk'[old] = disk[old] /\ inodes'[disk[old]] = inodes[disk[old]]
    BY <1>2, <1>4, <2>3
  <2>5. disk'[<<r.via, "">>] \notin {0, SymLink} /\ inodes'[disk'[<<r.via, "">>]].done
        /\ (CHOOSE b \in inodes'[disk'[<<r.via, "">>]].builds : TRUE) = r.self
    BY <1>6, <2>3, <2>4 DEF old
  <2>6. disk'[<<r.via, "download">>] = r.ino /\ inodes'[r.ino].builds = {r.build} /\ inodes'[r.ino].by = p
    BY <1>4, <1>6, <2>2 DEF down, i
  <2> QED BY <1>6, <2>5, <2>6 DEF AloneFits, Upgrading, Linking
<1>11. /\ NamesMove(disk', Len(inodes')) /\ InodesMove(inodes') /\ UNCHANGED <<host, raced>>
       /\ cached' = cached /\ warned' = warned
  BY <1>3, <1>4 DEF FilesMove, rest
<1>12. \A f \in Kept \cup {Copy} :
          /\ disk'[f] = disk[f]
          /\ disk[f] \notin {0, SymLink} /\ inodes[disk[f]].done => inodes'[disk[f]].done
  BY <1>2, <1>4
<1>13. disk[Copy] # 0 => inodes'[disk[Copy]].by = inodes[disk[Copy]].by
  BY <1>2, <1>4, DiskIs
<1>14. r.pc \notin {"copied", "rename"} /\ (r.pc = "rest" \/ r.alone = acting[p].alone) /\ acting[p].pc # "rest"
  BY <1>1, <1>6
<1>15. NamesApart(disk', host)
  BY <1>4
<1>16. r.pc # "rest" /\ r.alone /\ r.self # 0 => AloneFits(p, r, disk', inodes', host)
  BY <1>10
<1>17. r \in ActingRecord
  BY <1>6
<1> QED BY <1>7, <1>9, <1>11, <1>12, <1>13, <1>14, <1>15, <1>16, <1>17, Makes

LEMMA ReceivesAll ==
    ASSUME CLIInductive, NEW p \in Installers, Received(p)
    PROVE  CLIInductive'
<1> DEFINE s == acting[p]
           i == s.ino
           old == <<s.via, "">>
           down == <<s.via, "download">>
           r == [s EXCEPT !.pc = "unpack"]
           x == [inodes[i] EXCEPT !.done = @ \/ (inodes[i].by = p /\ Cardinality(inodes[i].builds) = 1)]
<1>1. /\ s \in ActingRecord /\ ActingFits(s, disk, inodes, host) /\ s.pc = "receive" /\ s.build \in Builds
      /\ s.alone => \A q \in Installers : q # p => acting[q].pc = "rest"
      /\ s.alone /\ s.self # 0 => AloneFits(p, s, disk, inodes, host)
  BY AtWork DEF Received
<1>2. i \in 1..Len(inodes) /\ inodes[i] \in Inodes
  BY <1>1, DiskIs DEF ActingFits
<1>3. /\ acting' = [acting EXCEPT ![p] = r] /\ inodes' = [inodes EXCEPT ![i] = x] /\ disk' = disk
      /\ UNCHANGED <<host, raced>> /\ cached' = cached /\ warned' = warned
  BY DEF Received, Go, Do, rest
<1>4. /\ r \in ActingRecord /\ r.pc = "unpack" /\ r.alone = s.alone
      /\ r.via = s.via /\ r.self = s.self /\ r.build = s.build /\ r.from = s.from
  BY <1>1, Going DEF Upgrading
<1>5. /\ x.builds = inodes[i].builds /\ x.by = inodes[i].by
      /\ x.done = (inodes[i].done \/ (inodes[i].by = p /\ Cardinality(inodes[i].builds) = 1))
  BY <1>2 DEF Inodes, InodeRecord
<1>6. x \in Inodes /\ (inodes[i].done => x.done)
  <2>1. Cardinality({}) = 0
    BY FS_EmptySet
  <2>2. x \in InodeRecord /\ x.done \in BOOLEAN
    BY <1>2 DEF Inodes, InodeRecord
  <2>3. x.done => x.builds # {}
    <3> HIDE DEF x, i, s
    <3>1. inodes[i].done => inodes[i].builds # {}
      BY <1>2 DEF Inodes
    <3>2. Cardinality(inodes[i].builds) = 1 => inodes[i].builds # {}
      BY <2>1
    <3> QED BY <1>5, <3>1, <3>2
  <2> QED BY <1>5, <2>2, <2>3 DEF Inodes
<1> HIDE DEF x, r, i
<1>7. /\ [inodes EXCEPT ![i] = x] \in Seq(Inodes) /\ Len(inodes') = Len(inodes)
      /\ inodes'[i] = x /\ \A j \in 1..Len(inodes) : j # i => inodes'[j] = inodes[j]
  BY <1>2, <1>3, <1>6, SetInode
<1>8. \A j \in 1..Len(inodes) :
          inodes'[j].builds = inodes[j].builds /\ inodes'[j].by = inodes[j].by /\ (inodes[j].done => inodes'[j].done)
  BY <1>5, <1>6, <1>7
<1>9. NamesMove(disk', Len(inodes')) /\ InodesMove(inodes') /\ NamesApart(disk', host)
  BY <1>3, <1>7, <1>8, Same, DiskIs DEF FilesMove, InodesMove
<1>10. \A f \in FileNames : disk[f] \notin {0, SymLink} => disk[f] \in 1..Len(inodes)
  BY DiskIs DEF Disks
<1>11. \A f \in Kept \cup {Copy} :
          /\ disk'[f] = disk[f]
          /\ disk[f] \notin {0, SymLink} /\ inodes[disk[f]].done => inodes'[disk[f]].done
  BY <1>3, <1>8, <1>10, NamesAre
<1>12. disk[Copy] # 0 => inodes'[disk[Copy]].by = inodes[disk[Copy]].by
  BY <1>8, <1>10, DiskIs, NamesAre
<1>13. ActingFits(r, disk', inodes', host)
  BY <1>1, <1>4 DEF ActingFits, Upgrading, Copying, Linking
<1>14. r.alone /\ r.self # 0 => AloneFits(p, r, disk', inodes', host)
  <2> SUFFICES ASSUME r.alone, r.self # 0 PROVE AloneFits(p, r, disk', inodes', host)
    OBVIOUS
  <2>1. AloneFits(p, s, disk, inodes, host)
    BY <1>1, <1>4
  <2>2. disk[old] \notin {0, SymLink} /\ inodes[disk[old]].done /\ (CHOOSE b \in inodes[disk[old]].builds : TRUE) = s.self
    BY <1>1, <2>1 DEF AloneFits, Upgrading
  <2>3. disk[down] = i /\ inodes[i].builds = {s.build} /\ inodes[i].by = p
    BY <1>1, <2>1 DEF AloneFits, i
  <2>4. Cardinality({s.build}) = 1
    BY FS_Singleton
  <2>5. x.done /\ x.builds = {s.build}
    BY <1>5, <2>3, <2>4
  <2>6. down \in FileNames \ {Alt} /\ old \in FileNames
    BY Via, NamesAre
  <2>9. disk[down] \notin {0, SymLink}
    <3>1. i # 0
      BY <1>2
    <3>2. disk[down] # SymLink
      BY <2>6, DiskIs
    <3> QED BY <2>3, <3>1, <3>2
  <2>7. Holds(disk', inodes', down, s.build)
    BY <1>3, <1>7, <2>3, <2>5, <2>9 DEF Holds
  <2>8. inodes'[disk[old]].done /\ inodes'[disk[old]].builds = inodes[disk[old]].builds
    BY <1>8, <1>10, <2>2, <2>6
  <2> QED BY <1>3, <1>4, <2>2, <2>7, <2>8 DEF AloneFits, Upgrading, Linking
<1>15. r.pc \notin {"copied", "rename"} /\ (r.pc = "rest" \/ r.alone = acting[p].alone) /\ acting[p].pc # "rest"
  BY <1>1, <1>4
<1>16. r.pc # "rest" /\ r.alone /\ r.self # 0 => AloneFits(p, r, disk', inodes', host)
  BY <1>14
<1>17. r \in ActingRecord /\ acting' = [acting EXCEPT ![p] = r]
  BY <1>3, <1>4
<1> QED BY <1>3, <1>9, <1>11, <1>12, <1>13, <1>15, <1>16, <1>17, Makes

LEMMA Decodes ==
    ASSUME CLIInductive, NEW p \in Installers, Decode(p)
    PROVE  CLIInductive'
<1> DEFINE s == acting[p]
           down == <<s.via, "download">>
           tmp == <<s.via, "tmp">>
           k == Len(inodes) + 1
           x == [builds |-> {}, by |-> p, done |-> FALSE]
           r == [s EXCEPT !.pc = "decode", !.ino = k, !.src = disk[down]]
<1>1. /\ s \in ActingRecord /\ ActingFits(s, disk, inodes, host) /\ s.pc = "unpack" /\ s.build \in Builds
      /\ s.alone /\ s.self # 0 => AloneFits(p, s, disk, inodes, host)
  BY AtWork DEF Decode
<1>2. UNCHANGED <<host, raced>> /\ cached' = cached /\ warned' = warned
  BY DEF Decode, rest
<1>3. CASE disk[down] = 0
  <2>1. Gives(p) /\ s.pc # "rest" /\ Telling(cached', warned') /\ host' = host
        /\ raced' \in BOOLEAN /\ (raced => raced')
    BY <1>1, <1>2, <1>3 DEF Decode, CLIInductive, CLITyped
  <2> QED BY <2>1, GivesUp
<1>4. CASE disk[down] # 0
  <2>1. /\ inodes' = Append(inodes, x) /\ disk' = [disk EXCEPT ![tmp] = Len(inodes) + 1]
        /\ acting' = [acting EXCEPT ![p] = r]
    BY <1>4 DEF Decode, Do
  <2>2. /\ down \in FileNames \ {Alt} /\ tmp \in Scratch /\ tmp \in FileNames /\ down # tmp
        /\ Kept \cup {Copy} \subseteq FileNames \ {tmp}
    BY Via, NamesAre
  <2>3. disk[down] \in 1..Len(inodes) /\ Len(inodes) \in Nat
    BY <1>4, <2>2, DiskIs
  <2>4. /\ r \in ActingRecord /\ r.pc = "decode" /\ r.alone = s.alone /\ r.via = s.via
        /\ r.self = s.self /\ r.build = s.build /\ r.from = s.from
        /\ r.ino = k /\ r.src = disk[down]
    <3>1. k \in Nat /\ disk[down] \in Nat
      BY <2>3
    <3> HIDE DEF k, down, s
    <3> QED BY <1>1, <3>1 DEF ActingRecord, Upgrading
  <2>5. x \in Inodes
    BY DEF Inodes, InodeRecord
  <2> HIDE DEF r, x, s, down, tmp
  <2>6. /\ NamesMove(disk', k) /\ NamesApart(disk', host)
        /\ disk'[tmp] = k /\ \A g \in FileNames \ {tmp} : disk'[g] = disk[g]
    BY <2>1, <2>2, Named
  <2>7. /\ Len(inodes') = k /\ inodes'[k] = x /\ InodesMove(inodes')
        /\ \A i \in 1..Len(inodes) : inodes'[i] = inodes[i]
    BY <2>1, <2>5, NewInode, Added
  <2>8. \A f \in FileNames : disk[f] \notin {0, SymLink} => inodes'[disk[f]] = inodes[disk[f]]
    BY <2>7, DiskIs
  <2>9. \A f \in Kept \cup {Copy} :
           /\ disk'[f] = disk[f]
           /\ disk[f] \notin {0, SymLink} /\ inodes[disk[f]].done => inodes'[disk[f]].done
    BY <2>2, <2>6, <2>8
  <2>10. disk[Copy] # 0 => inodes'[disk[Copy]].by = inodes[disk[Copy]].by
    BY <2>2, <2>8, DiskIs
  <2>11. k # disk'[Copy] /\ k \in 1..k /\ disk[down] \in 1..k
    <3>1. Copy \in FileNames \ {Alt}
      BY NamesAre
    <3>2. disk[Copy] \in 0..Len(inodes)
      BY <3>1, DiskIs
    <3>3. disk'[Copy] = disk[Copy]
      BY <2>2, <2>6
    <3> QED BY <2>3, <3>2, <3>3
  <2>12. ActingFits(r, disk', inodes', host)
    BY <1>1, <2>4, <2>7, <2>11 DEF ActingFits, Upgrading, Copying, Linking
  <2>13. r.pc # "rest" /\ r.alone /\ r.self # 0 => AloneFits(p, r, disk', inodes', host)
    <3> SUFFICES ASSUME r.alone, r.self # 0 PROVE AloneFits(p, r, disk', inodes', host)
      OBVIOUS
    <3> USE DEF s, down, tmp
    <3>1. AloneFits(p, s, disk, inodes, host)
      BY <1>1, <2>4
    <3>2. Holds(disk, inodes, down, s.build)
      BY <1>1, <3>1 DEF AloneFits
    <3> DEFINE old == <<s.via, "">>
    <3>3. disk[old] \notin {0, SymLink} /\ inodes[disk[old]].done /\ (CHOOSE b \in inodes[disk[old]].builds : TRUE) = s.self
      BY <1>1, <3>1 DEF AloneFits, Upgrading
    <3>4. old \in Kept \cup {Copy} /\ old \in FileNames
      BY Via, NamesAre
    <3>5. disk'[old] = disk[old] /\ inodes'[disk[old]] = inodes[disk[old]]
      BY <2>8, <2>9, <3>3, <3>4
    <3>6. inodes'[disk[down]].done /\ inodes'[disk[down]].builds = {s.build}
      BY <2>2, <2>8, <3>2 DEF Holds
    <3>7. disk'[tmp] = k
      BY <2>6
    <3> HIDE DEF k, old, tmp, down
    <3> QED BY <2>4, <3>3, <3>5, <3>6, <3>7 DEF AloneFits, Upgrading, Linking, old, tmp, down
  <2>14. NamesMove(disk', Len(inodes')) /\ r.pc \notin {"copied", "rename"}
         /\ (r.pc = "rest" \/ r.alone = acting[p].alone) /\ acting[p].pc # "rest"
    BY <1>1, <2>4, <2>6, <2>7 DEF s
  <2> QED BY <1>2, <2>1, <2>4, <2>6, <2>7, <2>9, <2>10, <2>12, <2>13, <2>14, Makes
<1> QED BY <1>3, <1>4

LEMMA DecodesAll ==
    ASSUME CLIInductive, NEW p \in Installers, Decoded(p)
    PROVE  CLIInductive'
<1> DEFINE s == acting[p]
           down == <<s.via, "download">>
           tmp == <<s.via, "tmp">>
           i == s.ino
           x == [inodes[s.src] EXCEPT !.by = p]
           r == [s EXCEPT !.pc = "backup"]
<1>1. /\ s \in ActingRecord /\ ActingFits(s, disk, inodes, host) /\ s.pc = "decode" /\ s.build \in Builds
      /\ s.alone /\ s.self # 0 => AloneFits(p, s, disk, inodes, host)
  BY AtWork DEF Decoded
<1>2. UNCHANGED <<host, raced>> /\ cached' = cached /\ warned' = warned
  BY DEF Decoded, rest
<1>3. CASE ~inodes[s.src].done
  <2>1. Gives(p) /\ s.pc # "rest" /\ Telling(cached', warned') /\ host' = host
        /\ raced' \in BOOLEAN /\ (raced => raced')
    BY <1>1, <1>2, <1>3 DEF Decoded, CLIInductive, CLITyped
  <2> QED BY <2>1, GivesUp
<1>4. CASE inodes[s.src].done
  <2>1. /\ inodes' = [inodes EXCEPT ![i] = x] /\ disk' = [disk EXCEPT ![down] = 0]
        /\ acting' = [acting EXCEPT ![p] = r]
    BY <1>4 DEF Decoded, Go, Do
  <2>2. /\ down \in FileNames \ {Gel} /\ tmp \in FileNames /\ down # tmp /\ tmp \in Scratch
        /\ Kept \cup {Copy} \subseteq FileNames \ {down} /\ tmp \notin Kept
    BY Via, NamesAre
  <2>3. i \in 1..Len(inodes) /\ s.src \in 1..Len(inodes) /\ i # disk[Copy] /\ inodes[s.src] \in Inodes
    BY <1>1, DiskIs DEF ActingFits
  <2>4. /\ r \in ActingRecord /\ r.pc = "backup" /\ r.alone = s.alone
        /\ r.via = s.via /\ r.self = s.self /\ r.build = s.build /\ r.from = s.from
    BY <1>1, Going DEF Upgrading
  <2>5. x \in Inodes /\ x.done /\ x.builds = inodes[s.src].builds /\ x.builds # {}
    BY <1>4, <2>3 DEF Inodes, InodeRecord
  <2> HIDE DEF r, x, s, down, tmp, i
  <2>6. /\ NamesMove(disk', Len(inodes)) /\ NamesApart(disk', host)
        /\ \A g \in FileNames \ {down} : disk'[g] = disk[g]
    BY <2>1, <2>2, Cleared
  <2>7. /\ Len(inodes') = Len(inodes) /\ inodes'[i] = x /\ InodesMove(inodes')
        /\ \A j \in 1..Len(inodes) : j # i => inodes'[j] = inodes[j]
    <3>1. InodesMove([inodes EXCEPT ![i] = x])
      BY <2>3, <2>5, Changed
    <3>2. /\ Len([inodes EXCEPT ![i] = x]) = Len(inodes) /\ [inodes EXCEPT ![i] = x][i] = x
          /\ \A j \in 1..Len(inodes) : j # i => [inodes EXCEPT ![i] = x][j] = inodes[j]
      BY <2>3, <2>5, SetInode
    <3> QED BY <2>1, <3>1, <3>2
  <2>8. \A j \in 1..Len(inodes) : inodes[j].done => inodes'[j].done
    BY <2>5, <2>7
  <2>9. \A f \in Kept \cup {Copy} :
           /\ disk'[f] = disk[f]
           /\ disk[f] \notin {0, SymLink} /\ inodes[disk[f]].done => inodes'[disk[f]].done
    BY <2>2, <2>6, <2>8, DiskIs
  <2>10. disk[Copy] # 0 => inodes'[disk[Copy]].by = inodes[disk[Copy]].by
    BY <2>2, <2>3, <2>7, DiskIs
  <2>12. ActingFits(r, disk', inodes', host)
    BY <1>1, <2>4 DEF ActingFits, Upgrading, Copying, Linking
  <2>13. r.pc # "rest" /\ r.alone /\ r.self # 0 => AloneFits(p, r, disk', inodes', host)
    <3> SUFFICES ASSUME r.alone, r.self # 0 PROVE AloneFits(p, r, disk', inodes', host)
      OBVIOUS
    <3> USE DEF s, down, tmp
    <3>1. AloneFits(p, s, disk, inodes, host)
      BY <1>1, <2>4
    <3>2. disk[tmp] = i /\ inodes[s.src].builds = {s.build}
      BY <1>1, <3>1 DEF AloneFits, i
    <3> DEFINE old == <<s.via, "">>
    <3>3. disk[old] \notin {0, SymLink} /\ inodes[disk[old]].done /\ (CHOOSE b \in inodes[disk[old]].builds : TRUE) = s.self
      BY <1>1, <3>1 DEF AloneFits, Upgrading
    <3>4. old \in Kept \cup {Copy} /\ old \in FileNames /\ old # tmp
      BY <2>2, Via, NamesAre
    <3>5. disk[old] # i
      <4>1. i # 0
        BY <2>3
      <4> HIDE DEF old, tmp
      <4> QED BY <2>2, <3>2, <3>4, <4>1, DiskIs DEF NamesApart
    <3>6. disk'[old] = disk[old] /\ inodes'[disk[old]] = inodes[disk[old]]
      BY <2>7, <2>9, <3>3, <3>4, <3>5, DiskIs
    <3>7. tmp # Alt /\ disk'[tmp] = i
      BY <2>2, <2>6, <3>2, NamesAre
    <3>8. i \notin {0, SymLink}
      BY <2>2, <2>3, <3>2, <3>7, DiskIs
    <3>9. Holds(disk', inodes', tmp, s.build)
      BY <2>5, <2>7, <3>2, <3>7, <3>8 DEF Holds
    <3> QED BY <2>4, <3>3, <3>6, <3>9 DEF AloneFits, Upgrading, Linking
  <2>14. NamesMove(disk', Len(inodes')) /\ r.pc \notin {"copied", "rename"}
         /\ (r.pc = "rest" \/ r.alone = acting[p].alone) /\ acting[p].pc # "rest"
    BY <1>1, <2>4, <2>6, <2>7 DEF s
  <2> QED BY <1>2, <2>1, <2>4, <2>6, <2>7, <2>9, <2>10, <2>12, <2>13, <2>14, Makes
<1> QED BY <1>3, <1>4

LEMMA Renames ==
    ASSUME CLIInductive, NEW p \in Installers, UnpackByRename(p)
    PROVE  CLIInductive'
<1> DEFINE s == acting[p]
           down == <<s.via, "download">>
           tmp == <<s.via, "tmp">>
           r == [s EXCEPT !.pc = "backup"]
<1>1. /\ s \in ActingRecord /\ ActingFits(s, disk, inodes, host) /\ s.pc = "unpack" /\ s.build \in Builds
      /\ s.alone /\ s.self # 0 => AloneFits(p, s, disk, inodes, host)
  BY AtWork DEF UnpackByRename
<1>2. UNCHANGED <<host, raced>> /\ cached' = cached /\ warned' = warned
  BY DEF UnpackByRename, rest
<1>3. CASE disk[down] = 0
  <2>1. Gives(p) /\ s.pc # "rest" /\ Telling(cached', warned') /\ host' = host
        /\ raced' \in BOOLEAN /\ (raced => raced')
    BY <1>1, <1>2, <1>3 DEF UnpackByRename, CLIInductive, CLITyped
  <2> QED BY <2>1, GivesUp
<1>4. CASE disk[down] # 0
  <2>1. /\ disk' = [disk EXCEPT ![tmp] = disk[down], ![down] = 0] /\ inodes' = inodes
        /\ acting' = [acting EXCEPT ![p] = r]
    BY <1>4 DEF UnpackByRename, Go, Do
  <2>2. /\ down \in Scratch /\ down \in FileNames /\ tmp \in Unpacked \cup {Gel} /\ tmp \in FileNames
        /\ down # tmp /\ down \in Downloads /\ Kept \cup {Copy} \subseteq FileNames \ {down, tmp}
    BY Via, NamesAre
  <2>3. /\ r \in ActingRecord /\ r.pc = "backup" /\ r.alone = s.alone
        /\ r.via = s.via /\ r.self = s.self /\ r.build = s.build /\ r.from = s.from
    BY <1>1, Going DEF Upgrading
  <2> HIDE DEF r, s, down, tmp
  <2>4. /\ NamesMove(disk', Len(inodes)) /\ NamesApart(disk', host)
        /\ disk'[tmp] = disk[down] /\ \A g \in FileNames \ {down, tmp} : disk'[g] = disk[g]
    BY <1>4, <2>1, <2>2, Moved
  <2>5. InodesMove(inodes')
    BY <2>1, Same DEF FilesMove
  <2>6. \A f \in Kept \cup {Copy} :
           /\ disk'[f] = disk[f]
           /\ disk[f] \notin {0, SymLink} /\ inodes[disk[f]].done => inodes'[disk[f]].done
    BY <2>1, <2>2, <2>4
  <2>7. ActingFits(r, disk', inodes', host)
    BY <1>1, <2>3 DEF ActingFits, Upgrading, Copying, Linking
  <2>8. r.pc # "rest" /\ r.alone /\ r.self # 0 => AloneFits(p, r, disk', inodes', host)
    <3> SUFFICES ASSUME r.alone, r.self # 0 PROVE AloneFits(p, r, disk', inodes', host)
      OBVIOUS
    <3> USE DEF s, down, tmp
    <3>1. AloneFits(p, s, disk, inodes, host)
      BY <1>1, <2>3
    <3> DEFINE old == <<s.via, "">>
    <3>2. /\ disk[old] \notin {0, SymLink} /\ inodes[disk[old]].done
          /\ (CHOOSE b \in inodes[disk[old]].builds : TRUE) = s.self
          /\ Holds(disk, inodes, down, s.build)
      BY <1>1, <3>1 DEF AloneFits, Upgrading
    <3>3. disk'[old] = disk[old]
      BY <2>6, Via
    <3>4. Holds(disk', inodes', tmp, s.build)
      BY <2>1, <2>4, <3>2 DEF Holds
    <3> QED BY <2>1, <2>3, <3>2, <3>3, <3>4 DEF AloneFits, Upgrading, Linking
  <2>9. NamesMove(disk', Len(inodes')) /\ r.pc \notin {"copied", "rename"}
        /\ (r.pc = "rest" \/ r.alone = acting[p].alone) /\ acting[p].pc # "rest"
    BY <1>1, <2>1, <2>3, <2>4 DEF s
  <2> QED BY <1>2, <2>1, <2>3, <2>4, <2>5, <2>6, <2>7, <2>8, <2>9, Makes
<1> QED BY <1>3, <1>4

(* A link to a file of the tool. *)
LEMMA Linked ==
    ASSUME CLIInductive, NEW g \in Kept \ {Gel}, NEW v,
           v \in {0, SymLink} \/ \E f \in Kept : v = disk[f],
           v = SymLink => g = Alt /\ ~host.hard,
           g = Alt /\ v # 0 => disk[Gel] # 0,
           disk' = [disk EXCEPT ![g] = v]
    PROVE  /\ FilesMove(disk', inodes) /\ NamesApart(disk', host) /\ (~raced => KeptWhole(disk', inodes))
           /\ disk'[g] = v /\ \A m \in FileNames \ {g} : disk'[m] = disk[m]
<1>1. g \in FileNames /\ g # Gel /\ g \notin Scratch
  BY NamesAre
<1>2. v \in 0..Len(inodes) \cup {SymLink}
  <2>1. CASE \E f \in Kept : v = disk[f]
    BY <2>1, DiskIs, NamesAre DEF Disks
  <2>2. CASE v \in {0, SymLink}
    BY <2>2, DiskIs
  <2> QED BY <2>1, <2>2
<1>3. /\ disk' \in [FileNames -> 0..Len(inodes) \cup {SymLink}]
      /\ \A m \in FileNames : disk'[m] = IF m = g THEN v ELSE disk[m]
  BY <1>1, <1>2, DiskIs DEF Disks
<1>4. disk'[Gel] = disk[Gel] /\ disk'[Copy] = disk[Copy]
  BY <1>1, <1>3, NamesAre
<1>5. FilesMove(disk', inodes)
  <2>1. NamesMove(disk', Len(inodes))
    BY <1>1, <1>3, <1>4, NamesAre DEF NamesMove
  <2>2. InodesMove(inodes)
    BY Same DEF FilesMove
  <2> QED BY <1>4, <2>1, <2>2, StaysFilled DEF FilesMove
<1>6. NamesApart(disk', host)
  <2>1. \A s \in Scratch, m \in FileNames : disk'[s] # 0 /\ m # s => disk'[m] # disk'[s]
    <3> SUFFICES ASSUME NEW s \in Scratch, NEW m \in FileNames, disk'[s] # 0, m # s PROVE disk'[m] # disk'[s]
      OBVIOUS
    <3>1. s \in FileNames \ {Alt} /\ s \notin Kept
      BY NamesAre
    <3>2. disk'[s] = disk[s] /\ disk[s] # SymLink /\ \A f \in FileNames : f # s => disk[f] # disk[s]
      BY <1>1, <1>3, <3>1, DiskIs DEF NamesApart
    <3>3. v # disk[s]
      BY <3>1, <3>2, NamesAre
    <3> QED BY <1>3, <3>2, <3>3
  <2>2. \A m \in FileNames : disk'[m] = SymLink => m = Alt /\ ~host.hard
    BY <1>3, DiskIs DEF NamesApart
  <2>3. disk'[Alt] # 0 => disk'[Gel] # 0
    BY <1>3, <1>4, DiskIs, NamesAre DEF NamesApart
  <2> QED BY <2>1, <2>2, <2>3 DEF NamesApart
<1>7. ~raced => KeptWhole(disk', inodes)
  <2> SUFFICES ASSUME ~raced, NEW f \in Kept, disk'[f] \notin {0, SymLink} PROVE inodes[disk'[f]].done
    BY DEF KeptWhole
  <2>1. \A m \in Kept : disk[m] \notin {0, SymLink} => inodes[disk[m]].done
    BY DEF CLIInductive, KeptWhole
  <2>2. f \in FileNames
    BY NamesAre
  <2> QED BY <1>3, <2>1, <2>2
<1> QED BY <1>1, <1>3, <1>5, <1>6, <1>7

(* A step that links or unlinks. *)
LEMMA Links ==
    ASSUME CLIInductive, NEW p \in Installers, acting[p].pc # "rest",
           NEW r \in ActingRecord, acting' = [acting EXCEPT ![p] = r], r.alone = acting[p].alone,
           NEW g \in Kept \ {Gel}, NEW v,
           v \in {0, SymLink} \/ \E f \in Kept : v = disk[f],
           v = SymLink => g = Alt /\ ~host.hard,
           g = Alt /\ v # 0 => disk[Gel] # 0,
           disk' = [disk EXCEPT ![g] = v], inodes' = inodes,
           UNCHANGED <<host, raced>>, cached' = cached, warned' = warned,
           r.pc \notin {"copied", "rename"}, ActingFits(r, disk', inodes', host),
           r.alone /\ r.self # 0 => AloneFits(p, r, disk', inodes', host)
    PROVE  CLIInductive'
<1>1. /\ FilesMove(disk', inodes) /\ NamesApart(disk', host) /\ (~raced => KeptWhole(disk', inodes))
      /\ \A m \in FileNames \ {g} : disk'[m] = disk[m]
  BY Linked
<1>2. disk'[Gel] = disk[Gel] /\ disk'[Copy] \in {0, disk[Copy]}
  BY <1>1, NamesAre
<1>3. Telling(cached', warned')
  BY DEF CLIInductive, CLITyped
<1> QED BY <1>1, <1>2, <1>3, InstallerGoes

LEMMA BacksUp ==
    ASSUME CLIInductive, NEW p \in Installers, Backup(p)
    PROVE  CLIInductive'
<1> DEFINE s == acting[p]
           old == <<s.via, "">>
           g == <<s.via, "backup">>
           tmp == <<s.via, "tmp">>
           v == IF host.hard THEN disk[old] ELSE 0
           r == [s EXCEPT !.pc = "spawn"]
<1>1. /\ s \in ActingRecord /\ ActingFits(s, disk, inodes, host) /\ s.pc = "backup" /\ s.build \in Builds
      /\ s.alone /\ s.self # 0 => AloneFits(p, s, disk, inodes, host)
  BY AtWork DEF Backup
<1>2. /\ UNCHANGED <<host, raced>> /\ cached' = cached /\ warned' = warned /\ inodes' = inodes
      /\ disk' = [disk EXCEPT ![g] = v] /\ acting' = [acting EXCEPT ![p] = r]
  BY DEF Backup, rest, Go, Do
<1>3. /\ r \in ActingRecord /\ r.pc = "spawn" /\ r.alone = s.alone
      /\ r.via = s.via /\ r.self = s.self /\ r.build = s.build /\ r.from = s.from
  BY <1>1, Going DEF Upgrading
<1>4. /\ g \in Kept \ {Gel} /\ g # Alt /\ g \in FileNames /\ old \in Kept /\ old \in FileNames
      /\ tmp \in FileNames \ {g}
  BY Via, NamesAre
<1>5. v \in {0, SymLink} \/ \E f \in Kept : v = disk[f]
  BY <1>4
<1>6. ~(v = SymLink)
  BY <1>4, DiskIs, SymLinkIs DEF NamesApart
<1> HIDE DEF v, r
<1>7. disk'[g] = v /\ disk'[tmp] = disk[tmp]
  BY <1>2, <1>4, DiskIs DEF Disks
<1>8. ActingFits(r, disk', inodes', host)
  BY <1>1, <1>3 DEF ActingFits, Upgrading, Copying, Linking
<1>9. r.alone /\ r.self # 0 => AloneFits(p, r, disk', inodes', host)
  <2> SUFFICES ASSUME r.alone, r.self # 0 PROVE AloneFits(p, r, disk', inodes', host)
    OBVIOUS
  <2>1. AloneFits(p, s, disk, inodes, host)
    BY <1>1, <1>3
  <2>2. /\ disk[old] \notin {0, SymLink} /\ (CHOOSE b \in inodes[disk[old]].builds : TRUE) = s.self
        /\ Holds(disk, inodes, tmp, s.build)
    BY <1>1, <2>1 DEF AloneFits, Upgrading
  <2>3. host.hard => disk'[g] = disk[old]
    BY <1>7 DEF v
  <2>4. Holds(disk', inodes', tmp, s.build)
    BY <1>2, <1>7, <2>2 DEF Holds
  <2> QED BY <1>2, <1>3, <2>2, <2>3, <2>4 DEF AloneFits, Upgrading, Linking
<1>10. r.pc \notin {"copied", "rename"} /\ acting[p].pc # "rest" /\ r.alone = acting[p].alone
  BY <1>1, <1>3
<1>11. (v = SymLink => g = Alt /\ ~host.hard) /\ (g = Alt /\ v # 0 => disk[Gel] # 0)
  BY <1>4, <1>6
<1> HIDE DEF s, g
<1> QED BY <1>2, <1>3, <1>4, <1>5, <1>8, <1>9, <1>10, <1>11, Links

LEMMA Spawns ==
    ASSUME CLIInductive, NEW p \in Installers, Spawn(p)
    PROVE  CLIInductive'
<1> DEFINE s == acting[p]
           tmp == <<s.via, "tmp">>
           r == [s EXCEPT !.pc = "place", !.from = tmp, !.exe = disk[tmp]]
<1>1. /\ s \in ActingRecord /\ ActingFits(s, disk, inodes, host) /\ s.pc = "spawn" /\ s.build \in Builds
      /\ s.alone /\ s.self # 0 => AloneFits(p, s, disk, inodes, host)
  BY AtWork DEF Spawn
<1>2. UNCHANGED <<host, raced>> /\ cached' = cached /\ warned' = warned
  BY DEF Spawn, rest
<1>3. CASE Gives(p)
  <2>1. s.pc # "rest" /\ Telling(cached', warned') /\ host' = host
        /\ raced' \in BOOLEAN /\ (raced => raced')
    BY <1>1, <1>2 DEF CLIInductive, CLITyped
  <2> QED BY <1>3, <2>1, GivesUp
<1>4. CASE ~Gives(p)
  <2>1. WholeFile(tmp) /\ disk' = disk /\ inodes' = inodes /\ acting' = [acting EXCEPT ![p] = r]
    BY <1>4 DEF Spawn, Do, installed
  <2>2. tmp \in Unpacked /\ tmp \in Scratch /\ tmp \in FileNames \ {Alt} /\ Kept \cup {Copy} \subseteq FileNames
    BY Via, NamesAre
  <2>3. disk[tmp] \in 1..Len(inodes) /\ disk[tmp] # 0 /\ inodes[disk[tmp]].done
    BY <2>1, <2>2, DiskIs
  <2>4. disk[tmp] \in Nat
    BY <2>3
  <2>5. /\ r \in ActingRecord /\ r.pc = "place" /\ r.alone = s.alone /\ r.via = s.via
        /\ r.self = s.self /\ r.build = s.build /\ r.from = tmp /\ r.exe = disk[tmp]
    BY <1>1, <2>2, <2>4 DEF ActingRecord
  <2> HIDE DEF r, tmp
  <2>6. \A f \in Scratch \ {tmp} : disk[f] # disk[tmp]
    BY <2>2, <2>3, DiskIs, NamesAre DEF NamesApart
  <2>7. ActingFits(r, disk', inodes', host)
    <3>1. tmp # Setup
      BY <2>2, NamesAre
    <3> QED BY <1>1, <2>1, <2>2, <2>3, <2>5, <2>6, <3>1 DEF ActingFits, Upgrading, Copying, Linking
  <2>8. r.pc # "rest" /\ r.alone /\ r.self # 0 => AloneFits(p, r, disk', inodes', host)
    BY <1>1, <2>1, <2>5 DEF AloneFits, Upgrading, Linking, tmp
  <2>9. NamesMove(disk', Len(inodes')) /\ InodesMove(inodes') /\ NamesApart(disk', host)
    BY <2>1, Same DEF FilesMove
  <2>10. \A f \in Kept \cup {Copy} :
            /\ disk'[f] = disk[f]
            /\ disk[f] \notin {0, SymLink} /\ inodes[disk[f]].done => inodes'[disk[f]].done
    BY <2>1
  <2>11. disk[Copy] # 0 => inodes'[disk[Copy]].by = inodes[disk[Copy]].by
    BY <2>1
  <2>12. r.pc \notin {"copied", "rename"} /\ r.alone = acting[p].alone /\ acting[p].pc # "rest"
    BY <1>1, <2>5
  <2> QED BY <1>2, <2>1, <2>5, <2>7, <2>8, <2>9, <2>10, <2>11, <2>12, Makes
<1> QED BY <1>3, <1>4

(* The executable is replaced. *)
LEMMA Replaces ==
    ASSUME CLIInductive, NEW p \in Installers, acting[p].pc \notin {"rest", "fetch"},
           NEW r \in ActingRecord, acting' = [acting EXCEPT ![p] = r], r.pc = "unlink",
           r.alone = acting[p].alone, r.self = acting[p].self, r.build = acting[p].build,
           r.from = acting[p].from, r.from \in {Setup} \cup Unpacked,
           NEW f \in Scratch, disk[f] # 0, disk' = [disk EXCEPT ![Gel] = disk[f], ![f] = 0],
           inodes' = inodes, host' = [host EXCEPT !.resolved = host.raw],
           raced' = raced, cached' = cached, warned' = warned,
           inodes[disk[f]].builds # {}, ~raced => inodes[disk[f]].done,
           r.alone /\ r.self # 0 => AloneFits(p, r, disk', inodes, host)
    PROVE  CLIInductive'
<1>1. /\ ActingFits(acting[p], disk, inodes, host) /\ acting[p].build \in Builds /\ host.raw = "home"
      /\ host \in Hosts
  BY AtWork, DiskIs DEF ActingFits
<1>2. /\ host' \in Hosts /\ host'.raw = host.raw /\ host'.hard = host.hard /\ host'.resolved = "home"
  BY <1>1 DEF Hosts, Places
<1>3. ~Owned(host')
  BY <1>2 DEF Owned, Literal
<1>4. f # Gel /\ f \in FileNames /\ Gel \in FileNames \ {Alt} /\ Gel \notin Unpacked /\ Gel # Copy
  BY NamesAre
<1>5. /\ NamesMove(disk', Len(inodes)) /\ NamesApart(disk', host)
      /\ disk'[f] = 0 /\ disk'[Gel] = disk[f] /\ \A m \in FileNames \ {f, Gel} : disk'[m] = disk[m]
  <2>1. /\ Gel \in Unpacked \cup {Gel} /\ f # Gel /\ (Gel \in Unpacked => f \in Downloads)
    BY <1>4
  <2> QED BY <2>1, Moved
<1>6. NamesApart(disk', host')
  BY <1>2, <1>5 DEF NamesApart
<1>7. disk'[Copy] \in {0, disk[Copy]}
  BY <1>4, <1>5, NamesAre
<1>8. FilesMove(disk', inodes)
  <2>1. InodesMove(inodes)
    BY Same DEF FilesMove
  <2>2. Filled(disk', inodes)
    <3>1. disk[Copy] # 0 => inodes[disk[Copy]].builds # {}
      BY DEF Filled, CLIInductive
    <3>2. disk'[Gel] = disk[f]
      BY <1>5
    <3> QED BY <1>7, <3>1, <3>2 DEF Filled
  <2> QED BY <1>5, <2>1, <2>2 DEF FilesMove
<1>9. raced' \/ KeptWhole(disk', inodes)
  <2> SUFFICES ASSUME ~raced, NEW m \in Kept, disk'[m] \notin {0, SymLink} PROVE inodes[disk'[m]].done
    BY DEF KeptWhole
  <2>1. \A g \in Kept : disk[g] \notin {0, SymLink} => inodes[disk[g]].done
    BY DEF CLIInductive, KeptWhole
  <2>2. m \in FileNames \ {f}
    BY NamesAre
  <2> QED BY <1>5, <2>1, <2>2
<1>10. raced' \/ \A q \in Installers \ {p} : CopyFits(q, acting[q], disk', inodes)
  BY <1>7 DEF CLIInductive, CopyFits
<1>11. CopyFits(p, r, disk', inodes) /\ r.pc \notin {"copied", "rename"}
  BY DEF CopyFits
<1>12. ActingFits(r, disk', inodes, host')
  <2>1. disk'[Gel] # 0
    BY <1>5
  <2>2. r.from = Setup => r.self = 0
    BY <1>1 DEF ActingFits
  <2> QED BY <1>1, <1>2, <1>3, <2>1, <2>2 DEF ActingFits, Upgrading, Copying, Linking
<1>13. r.alone /\ r.self # 0 => AloneFits(p, r, disk', inodes, host')
  BY <1>2 DEF AloneFits
<1>14. Telling(cached', warned') /\ raced' \in BOOLEAN
  BY DEF CLIInductive, CLITyped
<1> QED BY <1>2, <1>3, <1>6, <1>8, <1>9, <1>10, <1>11, <1>12, <1>13, <1>14, InstallerMoves

\* The steps of `cli install`, from a download and from elsewhere
LEMMA PlacesIt ==
    ASSUME CLIInductive, NEW p \in Installers, Place(p)
    PROVE  CLIInductive'
<1> DEFINE s == acting[p]
           from == s.from
           backup == <<s.via, "backup">>
<1>1. /\ s \in ActingRecord /\ ActingFits(s, disk, inodes, host) /\ s.pc = "place" /\ s.build \in Builds
      /\ s.alone /\ s.self # 0 => AloneFits(p, s, disk, inodes, host)
  BY AtWork DEF Place
<1>2. raced' = raced /\ cached' = cached /\ warned' = warned
  BY DEF Place
<1>3. from \in {Setup} \cup Unpacked /\ from \in Scratch /\ from \notin {Copy, Gel, Alt} /\ from \in FileNames \ {Alt}
  BY <1>1, NamesAre DEF ActingFits
<1>4. s.exe \in 1..Len(inodes) /\ inodes[s.exe].done
  BY <1>1 DEF ActingFits
<1>5. CASE disk[from] # s.exe
  <2>1. Gives(p) /\ host' = host /\ s.pc # "rest" /\ Telling(cached', warned')
        /\ raced' \in BOOLEAN /\ (raced => raced')
    BY <1>1, <1>2, <1>5 DEF Place, CLIInductive, CLITyped
  <2> QED BY <2>1, GivesUp
<1>6. CASE disk[from] = s.exe /\ from = Setup /\ host.far
  <2> DEFINE r == [s EXCEPT !.pc = "clear"]
  <2>1. /\ acting' = [acting EXCEPT ![p] = r] /\ disk' = disk /\ inodes' = inodes /\ host' = host
    BY <1>6 DEF Place, Go, Do, installed
  <2>2. /\ r \in ActingRecord /\ r.pc = "clear" /\ r.alone = s.alone
        /\ r.via = s.via /\ r.self = s.self /\ r.build = s.build /\ r.from = s.from
    BY <1>1, Going DEF Copying
  <2> HIDE DEF r
  <2>3. ActingFits(r, disk', inodes', host)
    BY <1>1, <1>6, <2>1, <2>2 DEF ActingFits, Upgrading, Copying, Linking
  <2>4. r.self = 0
    BY <1>1, <1>6, <2>2 DEF ActingFits
  <2>5. NamesMove(disk', Len(inodes')) /\ InodesMove(inodes') /\ NamesApart(disk', host)
    BY <2>1, Same DEF FilesMove
  <2>6. \A f \in Kept \cup {Copy} :
           /\ disk'[f] = disk[f]
           /\ disk[f] \notin {0, SymLink} /\ inodes[disk[f]].done => inodes'[disk[f]].done
    BY <2>1
  <2>7. disk[Copy] # 0 => inodes'[disk[Copy]].by = inodes[disk[Copy]].by
    BY <2>1
  <2>8. r.pc \notin {"copied", "rename"} /\ r.alone = acting[p].alone /\ acting[p].pc # "rest"
    BY <1>1, <2>2
  <2> QED BY <1>2, <2>1, <2>2, <2>3, <2>4, <2>5, <2>6, <2>7, <2>8, Makes
<1>7. CASE disk[from] = s.exe /\ ~(from = Setup /\ host.far)
  <2> DEFINE r == [s EXCEPT !.pc = "unlink"]
  <2>1. /\ acting' = [acting EXCEPT ![p] = r] /\ disk' = [disk EXCEPT ![Gel] = disk[from], ![from] = 0]
        /\ inodes' = inodes /\ host' = [host EXCEPT !.resolved = host.raw]
    BY <1>7 DEF Place, Go, Do
  <2>2. /\ r \in ActingRecord /\ r.pc = "unlink" /\ r.alone = s.alone
        /\ r.via = s.via /\ r.self = s.self /\ r.build = s.build /\ r.from = s.from
    BY <1>1, Going DEF Linking
  <2>3. disk[from] # 0 /\ inodes[disk[from]].done /\ inodes[disk[from]].builds # {}
    BY <1>4, <1>7, DiskIs DEF Inodes
  <2>4. /\ backup \in FileNames \ {from, Gel} /\ Gel \in FileNames /\ from \in FileNames /\ from # Gel
    BY <1>3, Via, NamesAre
  <2> HIDE DEF r, from
  <2>5. disk'[Gel] = disk[from] /\ disk'[backup] = disk[backup]
    BY <2>1, <2>4, DiskIs DEF Disks
  <2>6. r.alone /\ r.self # 0 => AloneFits(p, r, disk', inodes, host)
    <3> SUFFICES ASSUME r.alone, r.self # 0 PROVE AloneFits(p, r, disk', inodes, host)
      OBVIOUS
    <3>1. AloneFits(p, s, disk, inodes, host)
      BY <1>1, <2>2
    <3>2. Holds(disk, inodes, from, s.build)
      BY <1>1, <3>1 DEF AloneFits, from
    <3>3. host.hard => disk[backup] \notin {0, SymLink} /\ (CHOOSE b \in inodes[disk[backup]].builds : TRUE) = s.self
      BY <1>1, <3>1 DEF AloneFits
    <3>4. Holds(disk', inodes, Gel, s.build)
      BY <2>5, <3>2 DEF Holds
    <3> QED BY <2>2, <2>5, <3>3, <3>4 DEF AloneFits, Upgrading, Linking
  <2>7. from \in Scratch /\ acting[p].pc \notin {"rest", "fetch"} /\ r.from \in {Setup} \cup Unpacked
    BY <1>1, <1>3, <2>2 DEF from
  <2> QED BY <1>2, <2>1, <2>2, <2>3, <2>6, <2>7, Replaces
<1> QED BY <1>5, <1>6, <1>7

LEMMA ClearsCopy ==
    ASSUME CLIInductive, NEW p \in Installers, ClearCopy(p)
    PROVE  CLIInductive'
<1> DEFINE s == acting[p]
           r == [s EXCEPT !.pc = "copy"]
<1>1. /\ s \in ActingRecord /\ ActingFits(s, disk, inodes, host) /\ s.pc = "clear" /\ s.build \in Builds
      /\ s.from = Setup /\ s.self = 0
  BY AtWork DEF ClearCopy, ActingFits, Copying
<1>2. /\ acting' = [acting EXCEPT ![p] = r] /\ disk' = [disk EXCEPT ![Copy] = 0] /\ inodes' = inodes
      /\ UNCHANGED <<host, raced>> /\ cached' = cached /\ warned' = warned
  BY DEF ClearCopy, Go, Do, rest
<1>3. /\ r \in ActingRecord /\ r.pc = "copy" /\ r.alone = s.alone
      /\ r.via = s.via /\ r.self = s.self /\ r.build = s.build /\ r.from = s.from
  BY <1>1, Going DEF Copying
<1> HIDE DEF r
<1>4. /\ NamesMove(disk', Len(inodes)) /\ NamesApart(disk', host)
      /\ disk'[Copy] = 0 /\ \A g \in FileNames \ {Copy} : disk'[g] = disk[g]
  <2>1. Copy \in FileNames \ {Gel}
    BY NamesAre
  <2> QED BY <1>2, <2>1, Cleared
<1>5. \A f \in Kept : disk'[f] = disk[f]
  BY <1>4, NamesAre
<1>6. FilesMove(disk', inodes)
  <2>1. InodesMove(inodes)
    BY Same DEF FilesMove
  <2> QED BY <1>4, <1>5, <2>1, NamesAre, StaysFilled DEF FilesMove
<1>7. ~raced => KeptWhole(disk', inodes)
  BY <1>5 DEF CLIInductive, KeptWhole
<1>8. ActingFits(r, disk', inodes, host)
  BY <1>1, <1>3 DEF ActingFits, Upgrading, Copying, Linking
<1>9. Telling(cached', warned') /\ disk'[Gel] = disk[Gel] /\ r.pc \notin {"copied", "rename"} /\ acting[p].pc # "rest"
      /\ r.self = 0
  BY <1>1, <1>2, <1>3, <1>5, NamesAre DEF CLIInductive, CLITyped
<1> QED BY <1>2, <1>3, <1>4, <1>6, <1>7, <1>8, <1>9, InstallerGoes

LEMMA StartsCopy ==
    ASSUME CLIInductive, NEW p \in Installers, StartCopy(p)
    PROVE  CLIInductive'
<1> DEFINE s == acting[p]
           i == disk'[Copy]
           r == WritesTo(s, "copied", i)
<1>1. /\ s \in ActingRecord /\ ActingFits(s, disk, inodes, host) /\ s.pc = "copy" /\ s.build \in Builds
      /\ s.from = Setup /\ s.self = 0
  BY AtWork DEF StartCopy, ActingFits, Copying
<1>2. Open(Copy, p, {acting[p].build}, "copied") /\ Copy \in Downloads \cup {Copy} /\ acting[p].build \in Builds
  BY <1>1 DEF StartCopy, CopyTo
<1>3. /\ raced' = (raced \/ OthersCopy(p)) /\ host' = host /\ cached' = cached /\ warned' = warned
      /\ raced \in BOOLEAN
  BY DEF StartCopy, CLIInductive, CLITyped
<1>4. /\ FilesMove(disk', inodes') /\ NamesApart(disk', host) /\ i \in 1..Len(inodes')
      /\ \A g \in FileNames \ {Copy} : disk'[g] = disk[g]
      /\ \A g \in FileNames \ {Copy} : disk[g] \notin {0, SymLink} => inodes'[disk[g]] = inodes[disk[g]]
      /\ inodes'[i].by = p /\ inodes'[i].builds # {}
  BY <1>2, Opens
<1>5. Do(p, WritesTo(acting[p], "copied", disk'[Copy]))
  BY <1>2, Opens
<1>6. acting' = [acting EXCEPT ![p] = r]
  BY <1>5 DEF Do
<1> HIDE DEF i
<1>7. i \in Nat
  BY <1>4
<1>8. /\ r \in ActingRecord /\ r.pc = "copied" /\ r.alone = s.alone /\ r.via = s.via
      /\ r.self = s.self /\ r.build = s.build /\ r.from = s.from /\ r.ino = i
  <2>1. s \in ActingRecord /\ "copied" \in {"receive", "copied"}
    BY <1>1
  <2> HIDE DEF s
  <2> QED BY <1>7, <2>1, Writes
<1> HIDE DEF r
<1>9. ActingFits(r, disk', inodes', host)
  BY <1>1, <1>4, <1>8 DEF ActingFits, Upgrading, Copying, Linking
<1>10. Kept \subseteq FileNames \ {Copy} /\ Gel \in FileNames \ {Copy}
  BY NamesAre
<1>11. raced' \/ KeptWhole(disk', inodes')
  BY <1>3, <1>4, <1>10 DEF CLIInductive, KeptWhole
<1>12. CopyFits(p, r, disk', inodes')
  BY <1>4, <1>8 DEF CopyFits, i
<1>13. raced' \/ \A q \in Installers \ {p} : acting[q].pc \notin {"copied", "rename"}
  BY <1>3 DEF OthersCopy
<1>14. /\ raced' \in BOOLEAN /\ (raced => raced') /\ Telling(cached', warned') /\ disk'[Gel] = disk[Gel]
       /\ acting[p].pc # "rest" /\ r.self = 0 /\ host \in Hosts
  BY <1>1, <1>3, <1>4, <1>8, <1>10, DiskIs DEF CLIInductive, CLITyped
<1> QED BY <1>3, <1>4, <1>6, <1>8, <1>9, <1>11, <1>12, <1>13, <1>14, InstallerMoves

LEMMA EndsCopy ==
    ASSUME CLIInductive, NEW p \in Installers, EndCopy(p)
    PROVE  CLIInductive'
<1> DEFINE s == acting[p]
           i == s.ino
           x == [inodes[i] EXCEPT !.done = @ \/ inodes[i].by = p]
           r == [s EXCEPT !.pc = "rename"]
<1>1. /\ s \in ActingRecord /\ ActingFits(s, disk, inodes, host) /\ s.pc = "copied" /\ s.build \in Builds
      /\ s.from = Setup /\ s.self = 0 /\ i \in 1..Len(inodes) /\ inodes[i].builds # {}
  BY AtWork DEF EndCopy, ActingFits, Copying
<1>2. /\ acting' = [acting EXCEPT ![p] = r] /\ disk' = disk /\ inodes' = [inodes EXCEPT ![i] = x]
      /\ UNCHANGED <<host, raced>> /\ cached' = cached /\ warned' = warned
  BY DEF EndCopy, Go, Do, rest
<1>3. /\ r \in ActingRecord /\ r.pc = "rename" /\ r.alone = s.alone /\ r.via = s.via
      /\ r.self = s.self /\ r.build = s.build /\ r.from = s.from /\ r.ino = s.ino
  <2>1. s \in ActingRecord /\ "rename" \in Copying /\ r = [s EXCEPT !.pc = "rename"]
    BY <1>1 DEF Copying
  <2> HIDE DEF s, r
  <2> QED BY <2>1, Going
<1>4. inodes[i] \in Inodes
  BY <1>1, DiskIs
<1>5. /\ x.builds = inodes[i].builds /\ x.by = inodes[i].by /\ x \in InodeRecord
      /\ x.done = (inodes[i].done \/ inodes[i].by = p)
  BY <1>4 DEF Inodes, InodeRecord
<1>6. x \in Inodes /\ x.builds # {} /\ (inodes[i].done => x.done)
  BY <1>1, <1>5 DEF Inodes
<1> HIDE DEF x, r, i
<1>7. /\ Len(inodes') = Len(inodes) /\ inodes'[i] = x
      /\ \A j \in 1..Len(inodes) : j # i => inodes'[j] = inodes[j]
  BY <1>1, <1>2, <1>6, SetInode
<1>8. InodesMove(inodes')
  BY <1>1, <1>2, <1>6, Changed
<1>9. \A j \in 1..Len(inodes) : inodes'[j].by = inodes[j].by /\ (inodes[j].done => inodes'[j].done)
  BY <1>5, <1>6, <1>7
<1>10. FilesMove(disk', inodes') /\ NamesApart(disk', host)
  BY <1>2, <1>7, <1>8, Same, StaysFilled DEF FilesMove
<1>11. raced' \/ KeptWhole(disk', inodes')
  BY <1>2, <1>9, DiskIs, NamesAre DEF CLIInductive, KeptWhole
<1>12. raced' \/ CopyFits(p, r, disk', inodes')
  <2> SUFFICES ASSUME ~raced, disk[Copy] # 0 PROVE disk[Copy] = i /\ inodes'[i].by = p /\ inodes'[i].done
    BY <1>2, <1>3 DEF CopyFits, i
  <2>1. CopyFits(p, s, disk, inodes)
    BY DEF CLIInductive
  <2>2. disk[Copy] = i /\ inodes[i].by = p
    BY <1>1, <2>1 DEF CopyFits, i
  <2> QED BY <1>5, <1>7, <2>2
<1>13. raced' \/ \A q \in Installers \ {p} : acting[q].pc \notin {"copied", "rename"}
  BY <1>1, <1>2 DEF CLIInductive, CopyAlone
<1>14. ActingFits(r, disk', inodes', host)
  BY <1>1, <1>3 DEF ActingFits, Upgrading, Copying, Linking
<1>15. /\ raced' \in BOOLEAN /\ (raced => raced') /\ Telling(cached', warned') /\ disk'[Gel] = disk[Gel]
       /\ acting[p].pc # "rest" /\ r.self = 0 /\ host \in Hosts
  BY <1>1, <1>2, <1>3, DiskIs DEF CLIInductive, CLITyped
<1> QED BY <1>2, <1>3, <1>10, <1>11, <1>12, <1>13, <1>14, <1>15, InstallerMoves

LEMMA RenamesCopy ==
    ASSUME CLIInductive, NEW p \in Installers, RenameCopy(p)
    PROVE  CLIInductive'
<1> DEFINE s == acting[p]
           r == [s EXCEPT !.pc = "unlink"]
<1>1. /\ s \in ActingRecord /\ ActingFits(s, disk, inodes, host) /\ s.pc = "rename" /\ s.build \in Builds
      /\ s.from = Setup /\ s.self = 0
  BY AtWork DEF RenameCopy, ActingFits, Copying
<1>2. raced' = raced /\ cached' = cached /\ warned' = warned
  BY DEF RenameCopy
<1>3. CASE disk[Copy] = 0
  <2>1. Gives(p) /\ host' = host /\ s.pc # "rest" /\ Telling(cached', warned')
        /\ raced' \in BOOLEAN /\ (raced => raced')
    BY <1>1, <1>2, <1>3 DEF RenameCopy, CLIInductive, CLITyped
  <2> QED BY <2>1, GivesUp
<1>4. CASE disk[Copy] # 0
  <2>1. /\ acting' = [acting EXCEPT ![p] = r] /\ disk' = [disk EXCEPT ![Gel] = disk[Copy], ![Copy] = 0]
        /\ inodes' = inodes /\ host' = [host EXCEPT !.resolved = host.raw]
    BY <1>4 DEF RenameCopy, Go, Do
  <2>2. /\ r \in ActingRecord /\ r.pc = "unlink" /\ r.alone = s.alone
        /\ r.via = s.via /\ r.self = s.self /\ r.build = s.build /\ r.from = s.from
    BY <1>1, Going DEF Linking
  <2> HIDE DEF r
  <2>3. inodes[disk[Copy]].builds # {}
    BY <1>4 DEF CLIInductive, Filled
  <2>4. ~raced => inodes[disk[Copy]].done
    BY <1>1, <1>4 DEF CLIInductive, CopyFits
  <2>5. Copy \in Scratch /\ acting[p].pc \notin {"rest", "fetch"} /\ r.from \in {Setup} \cup Unpacked /\ r.self = 0
    BY <1>1, <2>2, NamesAre
  <2> QED BY <1>2, <1>4, <2>1, <2>2, <2>3, <2>4, <2>5, Replaces
<1> QED BY <1>3, <1>4

\* The old name of the tool
LEMMA Unlinks ==
    ASSUME CLIInductive, NEW p \in Installers, UnlinkOldName(p)
    PROVE  CLIInductive'
<1> DEFINE s == acting[p]
           backup == <<s.via, "backup">>
           r == [s EXCEPT !.pc = "link"]
<1>1. /\ s \in ActingRecord /\ ActingFits(s, disk, inodes, host) /\ s.pc = "unlink" /\ s.build \in Builds
      /\ s.alone /\ s.self # 0 => AloneFits(p, s, disk, inodes, host)
  BY AtWork DEF UnlinkOldName
<1>2. /\ UNCHANGED <<host, raced>> /\ cached' = cached /\ warned' = warned /\ inodes' = inodes
      /\ disk' = [disk EXCEPT ![Alt] = 0] /\ acting' = [acting EXCEPT ![p] = r]
  BY DEF UnlinkOldName, rest, Go, Do
<1>3. /\ r \in ActingRecord /\ r.pc = "link" /\ r.alone = s.alone
      /\ r.via = s.via /\ r.self = s.self /\ r.build = s.build /\ r.from = s.from
  BY <1>1, Going DEF Linking
<1>4. Alt \in Kept \ {Gel} /\ Alt \in FileNames /\ {Gel, backup} \subseteq FileNames \ {Alt}
  BY Via, NamesAre
<1> HIDE DEF r
<1>5. disk'[Alt] = 0 /\ disk'[Gel] = disk[Gel] /\ disk'[backup] = disk[backup]
  BY <1>2, <1>4, DiskIs DEF Disks
<1>6. ActingFits(r, disk', inodes', host)
  BY <1>1, <1>3, <1>5 DEF ActingFits, Upgrading, Copying, Linking
<1>7. r.alone /\ r.self # 0 => AloneFits(p, r, disk', inodes', host)
  <2> SUFFICES ASSUME r.alone, r.self # 0 PROVE AloneFits(p, r, disk', inodes', host)
    OBVIOUS
  <2>1. AloneFits(p, s, disk, inodes, host)
    BY <1>1, <1>3
  <2>2. /\ Holds(disk, inodes, Gel, s.build)
        /\ host.hard => disk[backup] \notin {0, SymLink} /\ (CHOOSE b \in inodes[disk[backup]].builds : TRUE) = s.self
    BY <1>1, <2>1 DEF AloneFits, Linking
  <2>3. Holds(disk', inodes', Gel, s.build)
    BY <1>2, <1>5, <2>2 DEF Holds
  <2> QED BY <1>2, <1>3, <1>5, <2>2, <2>3 DEF AloneFits, Upgrading, Linking
<1>8. r.pc \notin {"copied", "rename"} /\ acting[p].pc # "rest" /\ r.alone = acting[p].alone /\ 0 # SymLink
  BY <1>1, <1>3, SymLinkIs
<1> QED BY <1>2, <1>3, <1>4, <1>6, <1>7, <1>8, Links

LEMMA LinksOldName ==
    ASSUME CLIInductive, NEW p \in Installers, LinkOldName(p)
    PROVE  CLIInductive'
<1> DEFINE s == acting[p]
           backup == <<s.via, "backup">>
           v == IF host.hard THEN disk[Gel] ELSE SymLink
           r == [s EXCEPT !.pc = "end"]
<1>1. /\ s \in ActingRecord /\ ActingFits(s, disk, inodes, host) /\ s.pc = "link" /\ s.build \in Builds
      /\ s.alone /\ s.self # 0 => AloneFits(p, s, disk, inodes, host)
      /\ disk[Gel] # 0
  BY AtWork DEF LinkOldName, ActingFits, Linking
<1>2. /\ UNCHANGED <<host, raced>> /\ cached' = cached /\ warned' = warned /\ inodes' = inodes
      /\ disk' = [disk EXCEPT ![Alt] = v] /\ acting' = [acting EXCEPT ![p] = r]
  BY DEF LinkOldName, rest, Go, Do
<1>3. /\ r \in ActingRecord /\ r.pc = "end" /\ r.alone = s.alone
      /\ r.via = s.via /\ r.self = s.self /\ r.build = s.build /\ r.from = s.from
  BY <1>1, Going DEF Linking
<1>4. /\ Alt \in Kept \ {Gel} /\ Alt \in FileNames /\ {Gel, backup} \subseteq FileNames \ {Alt}
      /\ Gel \in Kept
  BY Via, NamesAre
<1>5. v \in {0, SymLink} \/ \E f \in Kept : v = disk[f]
  BY <1>4
<1>6. v \in {disk[Gel], SymLink} /\ (v = SymLink => Alt = Alt /\ ~host.hard) /\ (Alt = Alt /\ v # 0 => disk[Gel] # 0)
  BY <1>1, DiskIs
<1> HIDE DEF r, v
<1>7. disk'[Alt] = v /\ disk'[Gel] = disk[Gel] /\ disk'[backup] = disk[backup]
  BY <1>2, <1>4, DiskIs DEF Disks
<1>8. ActingFits(r, disk', inodes', host)
  BY <1>1, <1>3, <1>7 DEF ActingFits, Upgrading, Copying, Linking
<1>9. r.alone /\ r.self # 0 => AloneFits(p, r, disk', inodes', host)
  <2> SUFFICES ASSUME r.alone, r.self # 0 PROVE AloneFits(p, r, disk', inodes', host)
    OBVIOUS
  <2>1. AloneFits(p, s, disk, inodes, host)
    BY <1>1, <1>3
  <2>2. /\ Holds(disk, inodes, Gel, s.build)
        /\ host.hard => disk[backup] \notin {0, SymLink} /\ (CHOOSE b \in inodes[disk[backup]].builds : TRUE) = s.self
    BY <1>1, <2>1 DEF AloneFits, Linking
  <2>3. Holds(disk', inodes', Gel, s.build)
    BY <1>2, <1>7, <2>2 DEF Holds
  <2> QED BY <1>2, <1>3, <1>6, <1>7, <2>2, <2>3 DEF AloneFits, Upgrading, Linking
<1>10. r.pc \notin {"copied", "rename"} /\ acting[p].pc # "rest" /\ r.alone = acting[p].alone
  BY <1>1, <1>3
<1> QED BY <1>2, <1>3, <1>4, <1>5, <1>6, <1>8, <1>9, <1>10, Links

LEMMA LinksByCopy ==
    ASSUME CLIInductive, NEW p \in Installers, LinkByCopy(p)
    PROVE  CLIInductive'
<1> DEFINE s == acting[p]
           i == Inode(Alt)
           x == IF i = disk[Gel] THEN [inodes[i] EXCEPT !.done = FALSE] ELSE Content(Gel)
           r == [s EXCEPT !.pc = "end"]
<1>1. /\ s \in ActingRecord /\ ActingFits(s, disk, inodes, host) /\ s.pc = "link" /\ s.build \in Builds
      /\ s.alone /\ s.self # 0 => AloneFits(p, s, disk, inodes, host)
      /\ disk[Gel] # 0 /\ s.from \in {Setup} \cup Unpacked
  BY AtWork DEF LinkByCopy, ActingFits, Linking
<1>2. /\ raced' = TRUE /\ host' = host /\ cached' = cached /\ warned' = warned /\ disk[Alt] # 0
  BY DEF LinkByCopy
<1>3. Telling(cached', warned') /\ s.pc # "rest" /\ host \in Hosts
  BY <1>1, <1>2, DiskIs DEF CLIInductive, CLITyped
<1>4. CASE Gives(p)
  BY <1>2, <1>3, <1>4, GivesUp
<1>5. CASE ~Gives(p)
  <2>1. /\ ~\E q \in Installers : Running(q, i)
        /\ inodes' = [inodes EXCEPT ![i] = IF i = disk[Gel] THEN [@ EXCEPT !.done = FALSE] ELSE Content(Gel)]
        /\ acting' = [acting EXCEPT ![p] = r] /\ disk' = disk
    BY <1>5 DEF LinkByCopy, Go, Do
  <2>2. inodes' = [inodes EXCEPT ![i] = x]
    BY <2>1
  <2>3. Gel \in FileNames \ {Alt} /\ Alt \in FileNames
    BY NamesAre
  <2>4. disk[Gel] \in 1..Len(inodes) /\ i \in 1..Len(inodes)
    BY <1>1, <1>2, <2>3, DiskIs DEF Inode
  <2>5. inodes[i] \in Inodes /\ inodes[disk[Gel]] \in Inodes /\ inodes[disk[Gel]].builds # {}
        /\ Content(Gel) = inodes[disk[Gel]]
    BY <1>1, <2>3, <2>4, DiskIs DEF CLIInductive, Filled
  <2> HIDE DEF i, r
  <2>6. x \in Inodes /\ x.builds # {}
    <3>1. CASE i = disk[Gel]
      <4>1. x = [inodes[i] EXCEPT !.done = FALSE] /\ inodes[i] \in InodeRecord /\ inodes[i].builds # {}
        BY <2>5, <3>1 DEF Inodes
      <4>2. x \in InodeRecord /\ x.builds = inodes[i].builds /\ ~x.done
        BY <4>1 DEF InodeRecord
      <4> QED BY <4>1, <4>2 DEF Inodes
    <3>2. CASE i # disk[Gel]
      BY <2>5, <3>2
    <3> QED BY <3>1, <3>2
  <2> HIDE DEF x
  <2>7. InodesMove(inodes')
    BY <2>1, <2>2, <2>4, <2>6, Changed
  <2>8. Len(inodes') = Len(inodes)
    BY <2>2, <2>4, <2>6, SetInode
  <2>9. FilesMove(disk', inodes') /\ NamesApart(disk', host)
    BY <2>1, <2>7, <2>8, Same, StaysFilled DEF FilesMove
  <2>10. /\ r \in ActingRecord /\ r.pc = "end" /\ r.alone = s.alone
         /\ r.via = s.via /\ r.self = s.self /\ r.build = s.build /\ r.from = s.from
    BY <1>1, Going DEF Linking, r
  <2>11. ActingFits(r, disk', inodes', host)
    BY <1>1, <2>1, <2>10 DEF ActingFits, Upgrading, Copying, Linking
  <2>12. ~(r.alone /\ r.self # 0)
    BY <1>1, <1>2, <2>10 DEF AloneFits
  <2>13. disk'[Gel] = disk[Gel] /\ raced' \in BOOLEAN /\ r.alone = acting[p].alone
    BY <1>2, <2>1, <2>10
  <2> QED BY <1>2, <1>3, <2>1, <2>9, <2>10, <2>11, <2>12, <2>13, InstallerMoves
<1> QED BY <1>4, <1>5

LEMMA Finishes ==
    ASSUME CLIInductive, NEW p \in Installers, Finish(p)
    PROVE  CLIInductive'
<1> DEFINE s == acting[p]
           from == s.from
<1>1. s.pc = "end" /\ from \in {Setup} \cup Unpacked
  BY AtWork DEF Finish, ActingFits, Linking
<1>2. /\ UNCHANGED <<host, raced>> /\ cached' = cached /\ warned' = warned /\ inodes' = inodes
      /\ disk' = [disk EXCEPT ![from] = IF from = Setup THEN @ ELSE 0] /\ acting' = [acting EXCEPT ![p] = Resting]
  BY DEF Finish, rest, Do
<1>3. from \in FileNames \ {Gel} /\ from \in FileNames /\ Kept \cup {Copy} \subseteq FileNames \ {from}
      /\ from \notin Kept
  BY <1>1, NamesAre
<1> HIDE DEF from, s
<1>4. /\ NamesMove(disk', Len(inodes)) /\ NamesApart(disk', host)
      /\ \A g \in FileNames \ {from} : disk'[g] = disk[g]
  <2>1. CASE from = Setup
    <3>1. disk' = disk
      BY <1>2, <1>3, <2>1, DiskIs DEF Disks
    <3> QED BY <3>1, Same DEF FilesMove
  <2>2. CASE from # Setup
    <3>1. disk' = [disk EXCEPT ![from] = 0]
      BY <1>2, <2>2
    <3> QED BY <1>3, <3>1, Cleared
  <2> QED BY <2>1, <2>2
<1>5. InodesMove(inodes') /\ NamesMove(disk', Len(inodes'))
  BY <1>2, <1>4, Same DEF FilesMove
<1>6. \A f \in Kept \cup {Copy} :
         /\ disk'[f] = disk[f]
         /\ disk[f] \notin {0, SymLink} /\ inodes[disk[f]].done => inodes'[disk[f]].done
  BY <1>2, <1>3, <1>4
<1>7. disk[Copy] # 0 => inodes'[disk[Copy]].by = inodes[disk[Copy]].by
  BY <1>2
<1>8. acting[p].pc # "rest" /\ Resting \in ActingRecord /\ Resting.pc = "rest" /\ Resting.pc \notin {"copied", "rename"}
      /\ ActingFits(Resting, disk', inodes', host)
  BY <1>1, RestingIs DEF s
<1> QED BY <1>2, <1>4, <1>5, <1>6, <1>7, <1>8, Makes

LEMMA BreaksOff ==
    ASSUME CLIInductive, NEW p \in Installers, Breaks(p)
    PROVE  CLIInductive'
<1>1. Gives(p) /\ acting[p].pc # "rest" /\ host' = host /\ cached' = cached /\ warned' = warned /\ raced' = raced
  BY DEF Breaks
<1>2. Telling(cached', warned') /\ raced' \in BOOLEAN /\ (raced => raced')
  BY <1>1 DEF CLIInductive, CLITyped
<1> QED BY <1>1, <1>2, GivesUp

(* Versions and what is told of them. *)
LEMMA NewestIs ==
    ASSUME NEW channel, NEW b \in Newest(channel)
    PROVE  b \in Builds /\ b \in Nat \ {0} /\ ChannelOf(b) = channel
BY BuildsAssumption DEF Newest

\* What is known of a whole file
LEMMA WholeIs ==
    ASSUME CLIInductive, NEW f \in FileNames, WholeFile(f)
    PROVE  /\ disk[f] # 0 /\ BuildOf(f) \in Builds /\ BuildOf(f) \in Nat \ {0}
           /\ BuildOf(f) = CHOOSE b \in inodes[Inode(f)].builds : TRUE
           /\ Inode(f) = (IF disk[f] = SymLink THEN disk[Gel] ELSE disk[f])
           /\ Inode(f) \in 1..Len(inodes) /\ inodes[Inode(f)].done
<1>1. disk[f] # 0 /\ Inode(f) \in 1..Len(inodes)
  <2>1. Inode(f) # 0 /\ 0 # SymLink
    BY SymLinkIs DEF WholeFile
  <2>2. Gel \in FileNames /\ disk[Gel] # SymLink
    BY NamesAre, DiskIs
  <2>3. CASE disk[f] = SymLink
    BY <2>1, <2>2, <2>3, DiskIs DEF Inode
  <2>4. CASE disk[f] # SymLink
    BY <2>1, <2>4, DiskIs DEF Inode
  <2> QED BY <2>3, <2>4
<1>2. inodes[Inode(f)].done /\ inodes[Inode(f)] \in Inodes
  BY <1>1, DiskIs DEF WholeFile, Content
<1>3. BuildOf(f) = CHOOSE b \in inodes[Inode(f)].builds : TRUE
  BY DEF BuildOf, Content
<1>4. BuildOf(f) \in inodes[Inode(f)].builds
  BY <1>2, <1>3 DEF Inodes
<1>5. BuildOf(f) \in Builds
  BY <1>2, <1>4 DEF Inodes, InodeRecord
<1> QED BY <1>1, <1>2, <1>3, <1>5, BuildsAssumption DEF Inode

LEMMA Tells ==
    ASSUME CLIInductive, NEW self \in Builds, NEW b, b = 0 \/ ChannelOf(b) = ChannelOf(self),
           b \in Builds \cup {0}, Warn(self, b)
    PROVE  warned' # <<0, 0>> => ChannelOf(warned'[1]) = ChannelOf(warned'[2])
<1>1. CASE b > self
  <2>1. b # 0 /\ warned' = <<self, b>>
    BY <1>1, BuildsAssumption DEF Warn
  <2> QED BY <2>1
<1>2. CASE ~(b > self)
  BY <1>2 DEF Warn, CLIInductive, CLITyped, Telling
<1> QED BY <1>1, <1>2

(* The first step of a run of the tool. *)
Meets(r) == [r EXCEPT !.alone = FALSE]
NamedAlone(r) == [r EXCEPT !.alone = TRUE]

LEMMA Meeting ==
    ASSUME NEW s \in ActingRecord
    PROVE  \A r \in {Meets(s), NamedAlone(s)} :
           /\ r \in ActingRecord /\ r.pc = s.pc /\ r.via = s.via /\ r.self = s.self /\ r.build = s.build
           /\ r.from = s.from /\ r.ino = s.ino /\ r.src = s.src /\ r.exe = s.exe
           /\ r = Meets(s) => ~r.alone
BY DEF ActingRecord, Meets, NamedAlone

\* A process starts: it meets whoever is at work
LEMMA InstallerStarts ==
    ASSUME CLIInductive, NEW p \in Installers, NEW act \in ActingRecord, Starts(p, act),
           UNCHANGED <<disk, inodes, host, raced>>, Telling(cached', warned'),
           act.pc \in {"rest", "fetch", "open", "place"}, ActingFits(act, disk, inodes, host),
           act.pc # "rest" /\ act.self # 0 => AloneFits(p, act, disk, inodes, host)
    PROVE  CLIInductive'
<1> DEFINE others == {q \in Installers \ {p} : acting[q].pc # "rest"}
           r(q) == IF q = p THEN [act EXCEPT !.alone = others = {}]
                   ELSE IF q \in others THEN [acting[q] EXCEPT !.alone = FALSE] ELSE acting[q]
<1>1. acting[p].pc = "rest" /\ acting' = [q \in Installers |-> r(q)]
  BY DEF Starts
<1>2. \A q \in Installers : acting'[q] = r(q)
  BY <1>1
<1>3. \A q \in Installers : acting[q] \in ActingRecord
  BY DiskIs
<1>4. /\ acting'[p] \in ActingRecord /\ acting'[p].pc = act.pc /\ acting'[p].via = act.via
      /\ acting'[p].self = act.self /\ acting'[p].build = act.build /\ acting'[p].from = act.from
      /\ acting'[p].ino = act.ino /\ acting'[p].src = act.src /\ acting'[p].exe = act.exe
      /\ acting'[p].alone => others = {}
  <2>1. CASE others = {}
    <3>1. acting'[p] = NamedAlone(act)
      BY <1>2, <2>1 DEF NamedAlone
    <3> HIDE DEF others, r
    <3> QED BY <2>1, <3>1, Meeting
  <2>2. CASE others # {}
    <3>1. acting'[p] = Meets(act)
      BY <1>2, <2>2 DEF Meets
    <3> HIDE DEF others, r
    <3> QED BY <3>1, Meeting
  <2> QED BY <2>1, <2>2
<1>5. ASSUME NEW q \in Installers, q # p
      PROVE  /\ acting'[q] \in ActingRecord /\ acting'[q].pc = acting[q].pc /\ acting'[q].via = acting[q].via
             /\ acting'[q].self = acting[q].self /\ acting'[q].build = acting[q].build
             /\ acting'[q].from = acting[q].from /\ acting'[q].ino = acting[q].ino
             /\ acting'[q].src = acting[q].src /\ acting'[q].exe = acting[q].exe
             /\ acting[q].pc # "rest" => ~acting'[q].alone
  <2>1. CASE q \in others
    <3>1. acting'[q] = Meets(acting[q])
      BY <1>2, <1>5, <2>1 DEF Meets
    <3> HIDE DEF others, r
    <3> QED BY <1>3, <3>1, Meeting
  <2>2. CASE q \notin others
    <3>1. acting'[q] = acting[q] /\ acting[q].pc = "rest"
      BY <1>2, <1>5, <2>2
    <3> QED BY <1>3, <3>1
  <2> QED BY <2>1, <2>2
<1>6. acting' \in [Installers -> ActingRecord]
  BY <1>1, <1>2, <1>4, <1>5
<1> HIDE DEF r
<1>7. CLITyped'
  BY <1>6 DEF CLIInductive, CLITyped
<1>8. NamesApart(disk, host)' /\ Filled(disk, inodes)' /\ (Owned(host) => disk[Gel] \in {0, 1})'
  BY DEF CLIInductive, NamesApart, Filled, Owned
<1>9. ~raced' => KeptWhole(disk, inodes)' /\ CopyAlone'
  BY <1>4, <1>5 DEF CLIInductive, KeptWhole, CopyAlone
<1>10. ~raced' => \A q \in Installers : CopyFits(q, acting'[q], disk, inodes)
  BY <1>4, <1>5 DEF CLIInductive, CopyFits
<1>11. \A q \in Installers : ActingFits(acting'[q], disk, inodes, host)
  <2>1. ActingFits(acting'[p], disk, inodes, host)
    BY <1>4 DEF ActingFits
  <2>2. ASSUME NEW q \in Installers, q # p
        PROVE  ActingFits(acting'[q], disk, inodes, host)
    <3>1. ActingFits(acting[q], disk, inodes, host)
      BY DEF CLIInductive
    <3> QED BY <1>5, <2>2, <3>1 DEF ActingFits
  <2> QED BY <2>1, <2>2
<1>12. ASSUME NEW q \in Installers, acting'[q].alone, acting'[q].pc # "rest"
       PROVE  /\ \A o \in Installers : o # q => acting'[o].pc = "rest"
              /\ acting'[q].self # 0 => AloneFits(q, acting'[q], disk, inodes, host)
  <2>1. q = p
    BY <1>5, <1>12
  <2>2. others = {}
    BY <1>4, <1>12, <2>1
  <2>3. \A o \in Installers : o # p => acting'[o].pc = "rest"
    BY <1>5, <2>2
  <2>4. acting'[p].self # 0 => AloneFits(p, acting'[p], disk, inodes, host)
    <3> SUFFICES ASSUME acting'[p].self # 0 PROVE AloneFits(p, acting'[p], disk, inodes, host)
      OBVIOUS
    <3>1. AloneFits(p, act, disk, inodes, host)
      BY <1>4, <1>12, <2>1
    <3> DEFINE t == acting'[p]
    <3>2. /\ t.pc = act.pc /\ t.via = act.via /\ t.self = act.self /\ t.build = act.build
          /\ t.from = act.from /\ t.ino = act.ino /\ t.src = act.src /\ t.exe = act.exe
      BY <1>4
    <3>3. AloneFits(p, t, disk, inodes, host)
      <4> HIDE DEF t
      <4> QED BY <3>1, <3>2 DEF AloneFits
    <3> QED BY <3>3
  <2> QED BY <2>1, <2>3, <2>4
<1>13. disk' = disk /\ inodes' = inodes /\ host' = host
  OBVIOUS
<1> QED BY <1>7, <1>8, <1>9, <1>10, <1>11, <1>12, <1>13 DEF CLIInductive

LEMMA Upgrades ==
    ASSUME CLIInductive, NEW p \in Installers, NEW via \in Commands, NEW channel, NEW force,
           Upgrade(p, via, channel, force)
    PROVE  CLIInductive'
<1> DEFINE f == <<via, "">>
           to == IF disk[f] = SymLink THEN "gel" ELSE via
           old == <<to, "">>
<1>1. PICK b \in Newest(channel) :
          Starts(p, [Resting EXCEPT !.pc = "open", !.self = BuildOf(f), !.build = b, !.via = to])
  BY DEF Upgrade
<1> DEFINE act == [Resting EXCEPT !.pc = "open", !.self = BuildOf(f), !.build = b, !.via = to]
<1>2. /\ WholeFile(f) /\ MayUpgrade /\ UNCHANGED <<disk, inodes, host, raced>>
      /\ cached' = cached /\ warned' = warned
  BY DEF Upgrade, installed
<1>3. f \in {Gel, Alt} /\ f \in FileNames /\ <<"gel", "">> = Gel /\ Gel \in FileNames
  BY NamesAre DEF Gel
<1>4. /\ BuildOf(f) \in Builds /\ inodes[Inode(f)].done /\ disk[f] # 0
      /\ BuildOf(f) = CHOOSE c \in inodes[Inode(f)].builds : TRUE
      /\ Inode(f) = (IF disk[f] = SymLink THEN disk[Gel] ELSE disk[f])
      /\ Inode(f) \in 1..Len(inodes)
  BY <1>2, <1>3, WholeIs
<1>5. b \in Builds
  BY NewestIs
<1>6. to \in Commands
  BY DEF Commands
<1> HIDE DEF to, f
<1>7. /\ act \in ActingRecord /\ act.pc = "open" /\ act.self = BuildOf(f) /\ act.build = b
      /\ act.via = to /\ act.from = Gel
  BY <1>4, <1>5, <1>6, RestingIs DEF ActingRecord, Upgrading, Resting
<1>8. Starts(p, act)
  BY <1>1
<1> HIDE DEF act
<1>9. host.raw = "home" /\ ~Owned(host)
  <2>1. host.raw = "home" /\ Detect = "direct"
    BY <1>2 DEF MayUpgrade
  <2>2. DetectFromPath(host.raw) = "direct"
    BY <2>1 DEF DetectFromPath, Literal
  <2>3. DetectFromPath(host.resolved) = "direct"
    BY <2>1, <2>2 DEF Detect
  <2> QED BY <2>1, <2>3 DEF DetectFromPath, Literal, Owned
<1>10. ActingFits(act, disk, inodes, host)
  BY <1>5, <1>7, <1>9, NamesAre DEF ActingFits, Upgrading, Copying, Linking
<1>11. AloneFits(p, act, disk, inodes, host)
  <2>1. disk[old] = Inode(f) /\ disk[old] \notin {0, SymLink}
    <3>1. Inode(f) # 0
      BY <1>4
    <3>2. CASE disk[f] = SymLink
      <4>1. old = Gel
        BY <1>3, <3>2 DEF to
      <4> QED BY <1>4, <3>1, <3>2, <4>1, DiskIs
    <3>3. CASE disk[f] # SymLink
      <4>1. old = f
        BY <3>3 DEF to, f
      <4> QED BY <1>4, <3>1, <3>3, <4>1
    <3> QED BY <3>2, <3>3
  <2> QED BY <1>4, <1>7, <2>1 DEF AloneFits, Upgrading, Linking
<1>12. Telling(cached', warned')
  BY <1>2 DEF CLIInductive, CLITyped
<1> QED BY <1>2, <1>7, <1>8, <1>10, <1>11, <1>12, InstallerStarts

LEMMA UpgradesNothing ==
    ASSUME CLIInductive, NEW p \in Installers, UpgradeNothing(p)
    PROVE  CLIInductive'
<1>1. /\ Starts(p, Resting) /\ UNCHANGED <<disk, inodes, host, raced>> /\ Telling(cached', warned')
  BY DEF UpgradeNothing, installed, CLIInductive, CLITyped
<1>2. Resting \in ActingRecord /\ Resting.pc = "rest" /\ ActingFits(Resting, disk, inodes, host)
  BY RestingIs
<1> QED BY <1>1, <1>2, InstallerStarts

LEMMA InstallsFromSetup ==
    ASSUME CLIInductive, NEW p \in Installers, InstallFromSetup(p)
    PROVE  CLIInductive'
<1> DEFINE act == [Resting EXCEPT !.pc = "place", !.build = BuildOf(Setup), !.from = Setup, !.exe = disk[Setup]]
<1>1. /\ Starts(p, act) /\ UNCHANGED <<disk, inodes, host, raced>> /\ WholeFile(Setup) /\ host.raw = "home"
      /\ cached' = cached /\ warned' = warned
  BY DEF InstallFromSetup, installed
<1>2. Setup \in FileNames \ {Alt} /\ Setup \in FileNames /\ Setup \in Scratch /\ Setup \notin Unpacked
  BY NamesAre
<1>3. BuildOf(Setup) \in Builds /\ disk[Setup] \in 1..Len(inodes) /\ inodes[disk[Setup]].done
  BY <1>1, <1>2, WholeIs, DiskIs
<1>4. disk[Setup] \in Nat /\ disk[Setup] # 0
  BY <1>3
<1>5. /\ act \in ActingRecord /\ act.pc = "place" /\ act.self = 0 /\ act.build = BuildOf(Setup)
      /\ act.from = Setup /\ act.exe = disk[Setup]
  BY <1>2, <1>3, <1>4, RestingIs DEF ActingRecord, Resting
<1> HIDE DEF act
<1>6. \A f \in Scratch \ {Setup} : disk[f] # disk[Setup]
  BY <1>2, <1>4, DiskIs, NamesAre DEF NamesApart
<1>7. ActingFits(act, disk, inodes, host)
  BY <1>1, <1>3, <1>5, <1>6 DEF ActingFits, Upgrading, Copying, Linking
<1>8. Telling(cached', warned')
  BY <1>1 DEF CLIInductive, CLITyped
<1> QED BY <1>1, <1>5, <1>7, <1>8, InstallerStarts

\* The check for a newer version
LEMMA ChecksCached ==
    ASSUME CLIInductive, NEW p \in Installers, CheckCached(p)
    PROVE  CLIInductive'
<1>1. /\ Starts(p, Resting) /\ UNCHANGED <<disk, inodes, host, raced>> /\ cached' = cached
      /\ WholeFile(Gel) /\ ChannelMatches(BuildOf(Gel)) /\ Warn(BuildOf(Gel), cached.build)
  BY DEF CheckCached, installed
<1>2. BuildOf(Gel) \in Builds
  BY <1>1, WholeIs, NamesAre
<1>3. cached \in [build : Builds \cup {0}, fresh : BOOLEAN]
  BY DEF CLIInductive, CLITyped, Telling
<1>4. cached.build = 0 \/ ChannelOf(cached.build) = ChannelOf(BuildOf(Gel))
  BY <1>1 DEF ChannelMatches
<1>5. cached.build \in Builds \cup {0}
  BY <1>3
<1>6. Telling(cached', warned')
  BY <1>1, <1>2, <1>3, <1>4, <1>5, Tells DEF Telling
<1>7. Resting \in ActingRecord /\ Resting.pc = "rest" /\ ActingFits(Resting, disk, inodes, host)
  BY RestingIs
<1> QED BY <1>1, <1>6, <1>7, InstallerStarts

LEMMA ChecksRemote ==
    ASSUME CLIInductive, NEW p \in Installers, CheckRemote(p)
    PROVE  CLIInductive'
<1> DEFINE act == [Resting EXCEPT !.pc = "fetch", !.self = BuildOf(Gel)]
<1>1. /\ Starts(p, act) /\ UNCHANGED <<disk, inodes, host, raced>> /\ WholeFile(Gel)
      /\ Telling(cached', warned')
  BY DEF CheckRemote, installed, CLIInductive, CLITyped
<1>2. BuildOf(Gel) \in Builds
  BY <1>1, WholeIs, NamesAre
<1>3. act \in ActingRecord /\ act.pc = "fetch" /\ act.self = BuildOf(Gel) /\ act.from = Gel
  BY <1>2, RestingIs DEF ActingRecord, Resting
<1> HIDE DEF act
<1>4. ActingFits(act, disk, inodes, host)
  BY <1>2, <1>3, NamesAre DEF ActingFits, Upgrading, Copying, Linking
<1>5. AloneFits(p, act, disk, inodes, host)
  BY <1>3 DEF AloneFits, Upgrading, Linking
<1> QED BY <1>1, <1>3, <1>4, <1>5, InstallerStarts

LEMMA FetchesIt ==
    ASSUME CLIInductive, NEW p \in Installers, Fetched(p)
    PROVE  CLIInductive'
<1>1. /\ Gives(p) /\ acting[p].pc = "fetch" /\ host' = host /\ raced' = raced
  BY DEF Fetched, Gives
<1>2. PICK b \in Newest(ChannelOf(acting[p].self)) \cup {0} :
          Warn(acting[p].self, b) /\ cached' = [build |-> b, fresh |-> TRUE]
  BY DEF Fetched
<1>3. acting[p].self \in Builds
  BY <1>1, AtWork DEF ActingFits
<1>4. b \in Builds \cup {0} /\ (b = 0 \/ ChannelOf(b) = ChannelOf(acting[p].self))
  BY NewestIs
<1>5. Telling(cached', warned')
  BY <1>2, <1>3, <1>4, Tells DEF Telling
<1>6. raced' \in BOOLEAN /\ (raced => raced') /\ acting[p].pc # "rest"
  BY <1>1 DEF CLIInductive, CLITyped
<1> QED BY <1>1, <1>5, <1>6, GivesUp

LEMMA Expires ==
    ASSUME CLIInductive, Expire
    PROVE  CLIInductive'
<1>1. /\ disk' = disk /\ inodes' = inodes /\ host' = host /\ acting' = acting /\ raced' = raced /\ warned' = warned
      /\ cached' = [cached EXCEPT !.fresh = FALSE]
  BY DEF Expire, installed
<1>2. Telling(cached', warned')
  BY <1>1 DEF CLIInductive, CLITyped, Telling
<1>3. CLITyped'
  BY <1>1, <1>2 DEF CLIInductive, CLITyped
<1>4. \A p \in Installers : CopyFits(p, acting'[p], disk', inodes')
         <=> CopyFits(p, acting[p], disk, inodes)
  BY <1>1
<1> QED BY <1>1, <1>3 DEF CLIInductive, NamesApart, Filled, Owned, KeptWhole, CopyAlone

(* The first state. *)
LEMMA OldestIs == ASSUME NEW c \in Builds PROVE Oldest \in Builds
<1>1. \E b \in Builds : \A d \in Builds : ~(<<d, b>> \in OpToRel(<, Nat))
  BY NatLessThanWellFounded, WFMin, BuildsAssumption
<1>2. PICK b \in Builds : \A d \in Builds : ~(<<d, b>> \in OpToRel(<, Nat))
  BY <1>1
<1>3. ASSUME NEW d \in Builds
      PROVE  b <= d
  <2>1. d \in Nat /\ b \in Nat
    BY BuildsAssumption
  <2>2. ~(d < b)
    BY <1>2, <2>1 DEF OpToRel
  <2> QED BY <2>1, <2>2
<1> QED BY <1>3 DEF Oldest

\* The invariant holds at first, implies what it is for, and is kept by every step
LEMMA CLIStart == CLIInit => CLIInductive
<1> SUFFICES ASSUME CLIInit PROVE CLIInductive
  OBVIOUS
<1>1. PICK b \in Newest("stable"), old \in {0, 1} :
          /\ inodes = <<Complete(Oldest, "nobody"), Complete(b, "nobody")>>
          /\ disk = [f \in FileNames |-> CASE f = Gel -> old [] f = Setup -> 2 [] OTHER -> 0]
  BY DEF CLIInit
<1>2. b \in Builds /\ Oldest \in Builds
  BY NewestIs, OldestIs
<1>3. \A c \in Builds : /\ Complete(c, "nobody") \in Inodes /\ Complete(c, "nobody").done
                        /\ Complete(c, "nobody").builds # {}
  BY DEF Inodes, InodeRecord, Complete
<1>4. /\ inodes \in Seq(Inodes) /\ Len(inodes) = 2
      /\ inodes[1] = Complete(Oldest, "nobody") /\ inodes[2] = Complete(b, "nobody")
  BY <1>1, <1>2, <1>3
<1>5. \A f \in FileNames : disk[f] = IF f = Gel THEN old ELSE IF f = Setup THEN 2 ELSE 0
  <2>1. Gel # Setup
    BY NamesAre
  <2> QED BY <1>1, <2>1
<1>6. disk \in [FileNames -> 0..Len(inodes) \cup {SymLink}]
  <2>1. \A f \in FileNames : disk[f] \in 0..2
    BY <1>5
  <2>2. disk \in [FileNames -> 0..2]
    <3>1. disk = [f \in FileNames |-> disk[f]]
      BY <1>1
    <3> QED BY <2>1, <3>1
  <2> QED BY <1>4, <2>2
<1>7. acting = [p \in Installers |-> Resting]
  BY DEF CLIInit
<1>8. \A p \in Installers : acting[p] = Resting /\ acting[p].pc = "rest" /\ ActingFits(acting[p], disk, inodes, host)
  BY <1>7, RestingIs
<1>9. host \in Hosts /\ raced = FALSE /\ cached = Unchecked /\ warned = <<0, 0>>
  BY DEF CLIInit, Hosts
<1>10. CLITyped
  BY <1>4, <1>6, <1>7, <1>9, RestingIs DEF CLITyped, Telling, Unchecked, Hosts
<1>11. /\ disk[Setup] = 2 /\ disk[Gel] = old /\ disk[Alt] = 0 /\ disk[Copy] = 0
       /\ \A f \in FileNames \ {Gel, Setup} : disk[f] = 0
  BY <1>5, NamesAre
<1>12. NamesApart(disk, host)
  <2>1. \A s \in Scratch, f \in FileNames : disk[s] # 0 /\ f # s => disk[f] # disk[s]
    <3> SUFFICES ASSUME NEW s \in Scratch, NEW f \in FileNames, disk[s] # 0, f # s PROVE disk[f] # disk[s]
      OBVIOUS
    <3>1. s \in FileNames /\ s # Gel
      BY NamesAre
    <3>2. s = Setup /\ disk[s] = 2
      BY <1>5, <3>1
    <3> QED BY <1>5, <3>2
  <2>2. \A f \in FileNames : disk[f] # SymLink
    BY <1>5, SymLinkIs
  <2> QED BY <1>11, <2>1, <2>2 DEF NamesApart
<1>13. old # 0 => inodes[old].done /\ inodes[old].builds # {}
  BY <1>2, <1>3, <1>4
<1>14. Filled(disk, inodes) /\ (Owned(host) => disk[Gel] \in {0, 1})
  BY <1>11, <1>13 DEF Filled
<1>15. KeptWhole(disk, inodes)
  <2> SUFFICES ASSUME NEW f \in Kept, disk[f] \notin {0, SymLink} PROVE inodes[disk[f]].done
    BY DEF KeptWhole
  <2>1. f \in FileNames /\ f # Setup
    BY NamesAre
  <2> QED BY <1>5, <1>13, <2>1
<1>16. CopyAlone /\ \A p \in Installers : CopyFits(p, acting[p], disk, inodes)
  BY <1>8 DEF CopyAlone, CopyFits
<1> QED BY <1>8, <1>10, <1>12, <1>14, <1>15, <1>16 DEF CLIInductive

LEMMA CLISuffices == CLIInductive => CLIInv
<1> SUFFICES ASSUME CLIInductive PROVE CLIInv
  OBVIOUS
<1>1. raced \/ (\A f \in {Gel, Alt} \cup (Commands \X {"backup"}) : disk[f] # 0 => WholeFile(f))
  <2> SUFFICES ASSUME ~raced, NEW f \in Kept, disk[f] # 0 PROVE WholeFile(f)
    BY DEF Kept
  <2>1. \A g \in Kept : disk[g] \notin {0, SymLink} => inodes[disk[g]].done
    BY DEF CLIInductive, KeptWhole
  <2>2. f \in FileNames /\ Gel \in Kept /\ Alt \in Kept
    BY NamesAre
  <2>3. CASE disk[f] = SymLink
    <3>1. f = Alt /\ disk[Gel] \notin {0, SymLink}
      BY <2>2, <2>3, DiskIs DEF NamesApart
    <3> QED BY <2>1, <2>2, <2>3, <3>1 DEF WholeFile, Content, Inode
  <2>4. CASE disk[f] # SymLink
    BY <2>1, <2>4 DEF WholeFile, Content, Inode
  <2> QED BY <2>3, <2>4
<1>2. disk[Alt] # 0 => disk[Gel] # 0
  BY DEF CLIInductive, NamesApart
<1>3. OwnedByManager => /\ disk[Gel] \in {0, 1}
                        /\ \A p \in Installers : acting[p].pc \in {"rest", "fetch"} \/ acting[p].from = Setup
  <2>1. OwnedByManager <=> Owned(host)
    BY DEF OwnedByManager, Owned
  <2> QED BY <2>1 DEF CLIInductive, ActingFits
<1>4. warned # <<0, 0>> => ChannelOf(warned[1]) = ChannelOf(warned[2])
  BY DEF CLIInductive, CLITyped, Telling
<1>5. ASSUME NEW p \in Installers, acting[p].pc = "end", acting[p].alone, acting[p].self # 0
      PROVE  /\ WholeFile(Gel) /\ BuildOf(Gel) = acting[p].build
             /\ WholeFile(Alt) /\ BuildOf(Alt) = acting[p].build
             /\ host.hard => BuildOf(<<acting[p].via, "backup">>) = acting[p].self
  <2> DEFINE s == acting[p]
             backup == <<s.via, "backup">>
  <2>1. AloneFits(p, s, disk, inodes, host)
    BY <1>5, AtWork
  <2>2. /\ Holds(disk, inodes, Gel, s.build) /\ disk[Alt] \in {disk[Gel], SymLink}
        /\ host.hard => disk[backup] \notin {0, SymLink} /\ (CHOOSE b \in inodes[disk[backup]].builds : TRUE) = s.self
    BY <1>5, <2>1 DEF AloneFits, Linking
  <2>3. disk[Gel] \notin {0, SymLink} /\ inodes[disk[Gel]].done /\ inodes[disk[Gel]].builds = {s.build}
    BY <2>2 DEF Holds
  <2>4. Inode(Gel) = disk[Gel] /\ Inode(Alt) = disk[Gel]
    BY <2>2, <2>3 DEF Inode
  <2>5. (CHOOSE b \in {s.build} : TRUE) = s.build
    OBVIOUS
  <2>6. host.hard => BuildOf(backup) = s.self
    BY <2>2 DEF BuildOf, Content, Inode
  <2> QED BY <2>3, <2>4, <2>5, <2>6 DEF WholeFile, BuildOf, Content
<1> QED BY <1>1, <1>2, <1>3, <1>4, <1>5 DEF CLIInv

LEMMA CLIStep == CLIInductive /\ [CLINext]_cli => CLIInductive'
<1> SUFFICES ASSUME CLIInductive, [CLINext]_cli PROVE CLIInductive'
  OBVIOUS
<1>1. ASSUME NEW p \in Installers, NEW via \in Commands, NEW channel \in {"stable", "nightly"}, NEW force \in BOOLEAN,
             Upgrade(p, via, channel, force)
      PROVE  CLIInductive'
  BY <1>1, Upgrades
<1>2. ASSUME NEW p \in Installers,
             \/ UpgradeNothing(p) \/ Receive(p) \/ Received(p) \/ Decode(p) \/ Decoded(p)
             \/ UnpackByRename(p) \/ Backup(p) \/ Spawn(p)
      PROVE  CLIInductive'
  BY <1>2, UpgradesNothing, Receives, ReceivesAll, Decodes, DecodesAll, Renames, BacksUp, Spawns
<1>3. ASSUME NEW p \in Installers,
             \/ InstallFromSetup(p) \/ Place(p) \/ ClearCopy(p) \/ StartCopy(p) \/ EndCopy(p) \/ RenameCopy(p)
      PROVE  CLIInductive'
  BY <1>3, InstallsFromSetup, PlacesIt, ClearsCopy, StartsCopy, EndsCopy, RenamesCopy
<1>4. ASSUME NEW p \in Installers,
             \/ UnlinkOldName(p) \/ LinkOldName(p) \/ LinkByCopy(p) \/ Finish(p) \/ Breaks(p)
             \/ CheckCached(p) \/ CheckRemote(p) \/ Fetched(p)
      PROVE  CLIInductive'
  BY <1>4, Unlinks, LinksOldName, LinksByCopy, Finishes, BreaksOff, ChecksCached, ChecksRemote, FetchesIt
<1>5. CASE UNCHANGED cli
  <2>1. UNCHANGED <<host, disk, inodes, acting, cached, warned, raced>>
    BY <1>5 DEF cli
  <2> QED BY <2>1 DEF CLIInductive, CLITyped, NamesApart, Filled, Owned, KeptWhole, CopyAlone
<1> QED BY <1>1, <1>2, <1>3, <1>4, <1>5, Expires DEF CLINext

(* Unless two installs copied or linked at once, an installed executable is *)
(* whole under each of its names, whichever step fails or dies; one that a  *)
(* package manager owns is left to it; a version that the user is told of   *)
(* is of the same channel; and an upgrade that no other command met has     *)
(* installed what it chose and kept what it replaced: upgrade, download,    *)
(* unpack_file, copy_to_installation_path, copy_to_alternative_executable,  *)
(* version_check::check.                                                    *)
THEOREM CLIHolds == CLISpec => []CLIInv
<1> QED BY CLIStart, CLISuffices, CLIStep, PTL DEF CLISpec

-----------------------------------------------------------------------------
(* Control *)

HoldSteps == {"mark", "spawn", "pid", "run", "server", "release"}
UnitSteps == {"stop socket", "stop unit", "unit stopped"}
Steps ==
    HoldSteps \cup UnitSteps
    \cup {"idle", "try", "wait", "start", "child", "started", "look", "read pid", "term", "unlock"}
JobRecord ==
    [op : {"none", "run", "start", "stop", "restart", "disable"},
     mode : {"none", "user", "auto", "edgedb-cli", "systemd"}, pc : Steps,
     then : {"end", "wait", "start"}, launch : 0 .. MaxLaunches, pid : 0 .. MaxLaunches,
     seen : 0 .. MaxLaunches, held : BOOLEAN, stale : BOOLEAN, again : BOOLEAN,
     child : Procs \cup {None}, parent : Procs \cup {None}]

ControlTyped ==
    /\ supervised \in BOOLEAN /\ unit \in Runners \cup {None} /\ (unit # None => supervised)
    /\ lock \in Procs \cup {None} /\ pidfile \in 0 .. MaxLaunches
    /\ srv \in [Launches -> {"none", "starting", "ready", "stopping", "gone"}]
    /\ job \in [Procs -> JobRecord]
    /\ launches \in 0 .. MaxLaunches
    /\ \A s \in Launches : srv[s] = "none" <=> s > launches

\* What is true of a process p whose job is r: it holds the lock l or not, is the runner u of the
\* unit or not, has launched one of the servers v, has written the marker m and the pid file f
JobFits(p, r, l, u, v, m, f) ==
    /\ l = p <=> r.pc \in HoldSteps
    /\ u = p <=> r.mode = "systemd"
    /\ r.mode = "systemd" => r.pc \in {"try", "wait", "mark", "spawn", "server"}
    /\ r.pc = "server" => r.mode = "systemd"
    /\ r.launch # 0 => r.pc \in {"pid", "run", "server", "release", "start", "child", "started"}
    /\ r.pc \in {"pid", "run", "server", "release"} => r.launch # 0 /\ v[r.launch] # "none"
    /\ r.launch # 0 /\ r.pc \notin {"pid", "run", "server"} => v[r.launch] = "gone"
    /\ r.pc \in {"spawn", "pid", "run"} /\ r.mode # "systemd" => m # "systemd"
    /\ r.pc = "run" => f = r.launch
    /\ r.seen # 0 => v[r.seen] # "none"

\* It stops, or has stopped, the unit, and the server with it
OnUnit(r) == r.pc \in UnitSteps /\ r.op # "disable"

ControlFits == \A p \in Procs : JobFits(p, job[p], lock, unit, srv, marker, pidfile)

\* Unless its runner died before it, a server is under the lock of that runner, and so is what
\* the pid file names; the server that a command stops with the unit is the unit's
Tended ==
    /\ \A p \in Procs : job[p].stale => job[p].pid \in orphans
    /\ pidfile # 0 /\ pidfile \notin orphans => lock # None /\ At(lock, "run") /\ job[lock].launch = pidfile
    /\ \A s \in Launches \ orphans : Live(s) => lock # None /\ job[lock].launch = s
    /\ \A p \in Procs :
          OnUnit(job[p]) /\ Live(job[p].seen) => unit # None /\ job[unit].launch = job[p].seen

ControlInductive == ControlTyped /\ ControlFits /\ Tended

(* The invariant holds at first. *)
LEMMA ControlStart == ControlInit => ControlInductive
<1> SUFFICES ASSUME ControlInit PROVE ControlInductive
  OBVIOUS
<1>1. Idle \in JobRecord
  BY ControlAssumption DEF Idle, JobRecord, Steps
<1>2. ControlTyped
  <2>1. srv \in [Launches -> {"none", "starting", "ready", "stopping", "gone"}]
    BY DEF ControlInit
  <2>2. launches \in 0 .. MaxLaunches /\ pidfile \in 0 .. MaxLaunches
    <3>1. 0 \in 0 .. MaxLaunches
      BY ControlAssumption
    <3> QED BY <3>1 DEF ControlInit
  <2>3. \A s \in Launches : srv[s] = "none" /\ s > launches
    <3>1. \A s \in 1 .. MaxLaunches : s > 0
      BY ControlAssumption
    <3> QED BY <3>1 DEF ControlInit, Launches
  <2>4. job \in [Procs -> JobRecord]
    BY <1>1 DEF ControlInit
  <2> QED BY <2>1, <2>2, <2>3, <2>4 DEF ControlInit, ControlTyped
<1>3. ASSUME NEW p \in Procs PROVE JobFits(p, job[p], lock, unit, srv, marker, pidfile)
  BY ControlAssumption DEF ControlInit, JobFits, Idle, Procs, HoldSteps
<1>4. Tended
  BY DEF ControlInit, Tended, Idle, Live, OnUnit, UnitSteps
<1> QED BY <1>2, <1>3, <1>4 DEF ControlInductive, ControlFits

(* The invariant says of a server that lives, and of status, what ServerInv *)
(* does. *)
LEMMA ServersServe == ControlInductive => ServerInv
<1> SUFFICES ASSUME ControlInductive PROVE ServerInv
  OBVIOUS
<1> USE DEF ControlInductive
<1>0. None \notin Procs /\ Runners \subseteq Procs
  BY ControlAssumption DEF Procs
<1>1. ASSUME Quiet, NEW s \in Launches, Live(s), s \notin orphans PROVE SaysRunning
  <2>1. lock \in Procs /\ job[lock].launch = s /\ s # 0
    BY <1>1 DEF Tended, ControlTyped, Live
  <2>2. JobFits(lock, job[lock], lock, unit, srv, marker, pidfile)
    BY <2>1 DEF ControlFits
  <2>3. job[lock].pc \in {"run", "server"}
    BY <1>1, <2>1, <2>2 DEF Quiet, JobFits, At, HoldSteps
  <2>4. CASE job[lock].pc = "run"
    BY <1>1, <2>1, <2>2, <2>4 DEF JobFits, SaysRunning
  <2>5. CASE job[lock].pc = "server"
    BY <1>0, <2>1, <2>2, <2>5 DEF JobFits, SaysRunning, ControlTyped
  <2> QED BY <2>3, <2>4, <2>5
<1>2. ASSUME Quiet, SaysRunning PROVE \E s \in Launches : Live(s)
  <2>1. CASE Live(pidfile)
    BY <2>1, ControlAssumption DEF Live, ControlTyped, Launches
  <2>2. CASE supervised /\ unit # None
    <3>1. unit \in Procs /\ JobFits(unit, job[unit], lock, unit, srv, marker, pidfile)
      BY <1>0, <2>2 DEF ControlTyped, ControlFits
    <3>2. job[unit] \in JobRecord
      BY <3>1 DEF ControlTyped
    <3>3. At(unit, "server") /\ srv[job[unit].launch] # "gone"
      BY <1>2, <3>1 DEF Quiet, JobFits, At
    <3>4. job[unit].launch # 0 /\ srv[job[unit].launch] # "none"
      BY <3>1, <3>3 DEF JobFits, At
    <3>5. job[unit].launch \in Launches
      BY <3>2, <3>4, ControlAssumption DEF JobRecord, Launches
    <3>6. Live(job[unit].launch)
      BY <3>3, <3>4, <3>5 DEF Live, ControlTyped
    <3> QED BY <3>5, <3>6
  <2> QED BY <1>2, <2>1, <2>2 DEF SaysRunning
<1> QED BY <1>1, <1>2 DEF ServerInv, Tended

-----------------------------------------------------------------------------
(* Steps *)

\* What has been launched stays so, and what is gone stays gone
Goes(v, w) == \A s \in Launches : (v[s] # "none" => w[s] # "none") /\ (v[s] = "gone" => w[s] = "gone")

(* A process does not notice what others do with the lock, the unit, the    *)
(* marker and the pid file while they have the lock. *)
LEMMA StillFits ==
    ASSUME NEW p, NEW r \in JobRecord, NEW l, NEW u, NEW v, NEW m, NEW f,
           NEW l2, NEW u2, NEW v2, NEW m2, NEW f2,
           JobFits(p, r, l, u, v, m, f), l2 = p <=> l = p, u2 = p <=> u = p, Goes(v, v2),
           <<m2, f2>> = <<m, f>> \/ l # p
    PROVE  JobFits(p, r, l2, u2, v2, m2, f2)
<1>1. r.launch # 0 => r.launch \in Launches
  BY ControlAssumption DEF JobRecord, Launches
<1>2. r.seen # 0 => r.seen \in Launches
  BY ControlAssumption DEF JobRecord, Launches
<1> QED BY <1>1, <1>2 DEF JobFits, Goes, HoldSteps

(* A step of one process that leaves the lock, the unit and the servers     *)
(* alone. *)
LEMMA OwnStep ==
    ASSUME ControlInductive, NEW p \in Procs, NEW r \in JobRecord, job' = [job EXCEPT ![p] = r],
           UNCHANGED <<supervised, unit, record, srv, orphans, launches>>,
           JobFits(p, r, lock, unit, srv, marker, pidfile),
           r.launch = job[p].launch \/ (p # lock /\ p # unit),
           job[p].pc = "run" => r.pc = "run",
           r.stale => r.pid \in orphans,
           OnUnit(r) /\ Live(r.seen) => unit # None /\ job[unit].launch = r.seen
    PROVE  ControlInductive'
<1>0. None \notin Procs /\ Runners \subseteq Procs
  BY ControlAssumption DEF Procs
<1>1. ControlTyped'
  BY DEF ControlInductive, ControlTyped, record
<1>2. \A q \in Procs : job'[q] = IF q = p THEN r ELSE job[q]
  BY DEF ControlInductive, ControlTyped
<1>3. ControlFits'
  BY <1>2 DEF ControlInductive, ControlFits, record
<1>4. Tended'
  <2>1. Tended
    BY DEF ControlInductive
  <2>2. \A q \in Procs : job'[q].stale => job'[q].pid \in orphans'
    BY <1>2, <2>1 DEF Tended
  <2>3. pidfile' # 0 /\ pidfile' \notin orphans' => lock' # None /\ At(lock, "run")' /\ job'[lock'].launch = pidfile'
    BY <1>2, <2>1 DEF Tended, At, record, ControlInductive, ControlTyped
  <2>4. \A s \in Launches \ orphans' : Live(s)' => lock' # None /\ job'[lock'].launch = s
    BY <1>2, <2>1 DEF Tended, Live, record, ControlInductive, ControlTyped
  <2>5. ASSUME NEW q \in Procs, OnUnit(job'[q]), Live(job[q].seen)'
        PROVE  unit' # None /\ job'[unit'].launch = job'[q].seen
    <3>1. job'[q].seen # 0 /\ srv[job'[q].seen] \in {"starting", "ready", "stopping"}
      BY <2>5 DEF Live
    <3>2. unit # None /\ job[unit].launch = job'[q].seen
      BY <1>2, <2>1, <2>5, <3>1 DEF Tended, Live
    <3> QED BY <1>0, <1>2, <3>2 DEF ControlInductive, ControlTyped
  <2> QED BY <2>2, <2>3, <2>4, <2>5 DEF Tended
<1> QED BY <1>1, <1>3, <1>4 DEF ControlInductive

(* A process that had no part in the lock and the unit, and has none. *)
LEMMA FreeStep ==
    ASSUME ControlInductive, NEW p \in Procs, NEW r \in JobRecord, job' = [job EXCEPT ![p] = r],
           UNCHANGED <<supervised, unit, record, srv, orphans, launches>>,
           job[p].pc \notin HoldSteps, r.pc \notin HoldSteps,
           r.mode = job[p].mode \/ (job[p].mode # "systemd" /\ r.mode # "systemd"),
           r.mode = "systemd" => r.pc \in {"try", "wait"},
           r.launch # 0 => r.launch = job[p].launch /\ r.pc \in {"start", "child", "started"},
           r.seen \in {0, job[p].seen}, r.stale => r.pid \in orphans,
           OnUnit(r) => OnUnit(job[p]) /\ r.seen = job[p].seen
    PROVE  ControlInductive'
<1>1. JobFits(p, job[p], lock, unit, srv, marker, pidfile)
  BY DEF ControlInductive, ControlFits
<1>2. JobFits(p, r, lock, unit, srv, marker, pidfile)
  BY <1>1 DEF JobFits, HoldSteps
<1>3. r.launch = job[p].launch \/ (p # lock /\ p # unit)
  BY <1>1 DEF JobFits, HoldSteps
<1>4. OnUnit(r) /\ Live(r.seen) => unit # None /\ job[unit].launch = r.seen
  BY DEF ControlInductive, Tended
<1>5. job[p].pc = "run" => r.pc = "run"
  BY DEF HoldSteps
<1> QED BY <1>2, <1>3, <1>4, <1>5, OwnStep

(* A step of the process that takes, has or gives up the lock. *)
LEMMA HolderStep ==
    ASSUME ControlInductive, NEW p \in Procs, NEW r \in JobRecord, job' = [job EXCEPT ![p] = r],
           UNCHANGED <<supervised, unit, srv, orphans, launches>>,
           lock \in {None, p}, lock' \in {None, p}, pidfile' \in 0 .. MaxLaunches,
           JobFits(p, r, lock', unit, srv, marker', pidfile'),
           r.launch = job[p].launch \/ (lock' = None /\ p # unit),
           ~OnUnit(r), ~r.stale \/ (r.stale = job[p].stale /\ r.pid = job[p].pid),
           pidfile' # 0 /\ pidfile' \notin orphans => lock' = p /\ r.pc = "run" /\ r.launch = pidfile',
           lock' = p \/ \A s \in Launches \ orphans : ~Live(s)
    PROVE  ControlInductive'
<1>0. None \notin Procs /\ Runners \subseteq Procs
  BY ControlAssumption DEF Procs
<1>1. ControlTyped'
  BY DEF ControlInductive, ControlTyped
<1>2. \A q \in Procs : job'[q] = IF q = p THEN r ELSE job[q]
  BY DEF ControlInductive, ControlTyped
<1>3. ASSUME NEW q \in Procs PROVE JobFits(q, job'[q], lock', unit', srv', marker', pidfile')
  <2>1. CASE q = p
    BY <1>2, <2>1
  <2>2. CASE q # p
    <3>1. job[q] \in JobRecord /\ JobFits(q, job[q], lock, unit, srv, marker, pidfile)
      BY DEF ControlInductive, ControlTyped, ControlFits
    <3>2. lock' # q /\ lock # q
      BY <1>0, <2>2
    <3>3. Goes(srv, srv')
      BY DEF Goes
    <3> QED BY <1>2, <2>2, <3>1, <3>2, <3>3, StillFits
  <2> QED BY <2>1, <2>2
<1>4. Tended'
  <2>1. Tended
    BY DEF ControlInductive
  <2>2. \A q \in Procs : job'[q].stale => job'[q].pid \in orphans'
    BY <1>2, <2>1 DEF Tended
  <2>3. pidfile' # 0 /\ pidfile' \notin orphans' => lock' # None /\ At(lock, "run")' /\ job'[lock'].launch = pidfile'
    BY <1>0, <1>2 DEF At
  <2>4. ASSUME NEW s \in Launches \ orphans', Live(s)' PROVE lock' # None /\ job'[lock'].launch = s
    <3>1. Live(s)
      BY <2>4 DEF Live
    <3>2. lock = p /\ job[p].launch = s /\ lock' = p
      BY <2>1, <3>1 DEF Tended
    <3> QED BY <1>0, <1>2, <3>2
  <2>5. ASSUME NEW q \in Procs, OnUnit(job'[q]), Live(job[q].seen)'
        PROVE  unit' # None /\ job'[unit'].launch = job'[q].seen
    <3>1. q # p /\ OnUnit(job[q]) /\ Live(job[q].seen)
      BY <1>2, <2>5 DEF Live
    <3>2. unit # None /\ job[unit].launch = job[q].seen
      BY <2>1, <3>1 DEF Tended
    <3>3. unit \in Procs /\ (unit = p => r.launch = job[p].launch)
      <4>1. unit \in Procs
        BY <1>0, <3>2 DEF ControlInductive, ControlTyped
      <4> QED BY <4>1
    <3> QED BY <1>2, <3>1, <3>2, <3>3
  <2> QED BY <2>2, <2>3, <2>4, <2>5 DEF Tended
<1> QED BY <1>1, <1>3, <1>4 DEF ControlInductive, ControlFits

\* A process waits for a server it has told to stop
Waits(r, r2) ==
    \/ r2 = r
    \/ /\ r.pc \in {"term", "stop unit"} /\ r2 = [r EXCEPT !.pc = r2.pc]
       /\ r2.pc = "unlock" \/ (r2.pc = "unit stopped" /\ r.pc = "stop unit")

StillServes(r, r2) ==
    /\ r2.launch = r.launch /\ r2.seen = r.seen /\ r2.stale = r.stale /\ r2.pid = r.pid
    /\ OnUnit(r2) => OnUnit(r)
    /\ r.pc \in {"run", "idle"} => r2 = r
(* Waiting changes nothing else. *)
LEMMA WaitsFits ==
    ASSUME NEW p, NEW r \in JobRecord, NEW r2, NEW l, NEW u, NEW v, NEW m, NEW f,
           JobFits(p, r, l, u, v, m, f), Waits(r, r2)
    PROVE  JobFits(p, r2, l, u, v, m, f) /\ StillServes(r, r2)
<1>1. CASE r2 = r
  BY <1>1 DEF StillServes
<1>2. CASE /\ r.pc \in {"term", "stop unit"} /\ r2 = [r EXCEPT !.pc = r2.pc]
           /\ r2.pc = "unlock" \/ (r2.pc = "unit stopped" /\ r.pc = "stop unit")
  <2>1. r2.launch = r.launch /\ r2.seen = r.seen /\ r2.stale = r.stale /\ r2.mode = r.mode /\ r2.pid = r.pid
    BY <1>2 DEF JobRecord
  <2>2. r2.pc \in {"unlock", "unit stopped"}
    BY <1>2
  <2>3. JobFits(p, r2, l, u, v, m, f)
    BY <1>2, <2>1, <2>2 DEF JobFits, HoldSteps
  <2>4. r2.op = r.op
    BY <1>2 DEF JobRecord
  <2> QED BY <1>2, <2>1, <2>2, <2>3, <2>4 DEF StillServes, OnUnit, UnitSteps
<1> QED BY <1>1, <1>2 DEF Waits

(* So it is for each process. *)
LEMMA Waiting ==
    ASSUME ControlInductive, NEW q \in Procs, Waits(job[q], job'[q])
    PROVE  JobFits(q, job'[q], lock, unit, srv, marker, pidfile) /\ StillServes(job[q], job'[q])
<1>1. job[q] \in JobRecord /\ JobFits(q, job[q], lock, unit, srv, marker, pidfile)
  BY DEF ControlInductive, ControlTyped, ControlFits
<1> QED BY <1>1, WaitsFits

(* The server of a launch goes on, or is told to. *)
LEMMA ServerStep ==
    ASSUME ControlInductive, NEW s \in Launches, Live(s), NEW x \in {"ready", "stopping", "gone"},
           srv' = [srv EXCEPT ![s] = x], job' \in [Procs -> JobRecord],
           \A q \in Procs : Waits(job[q], job'[q]),
           UNCHANGED <<supervised, unit, record, orphans, launches>>
    PROVE  ControlInductive'
<1>0. None \notin Procs /\ Runners \subseteq Procs
  BY ControlAssumption DEF Procs
<1>1. /\ srv' \in [Launches -> {"none", "starting", "ready", "stopping", "gone"}]
      /\ Goes(srv, srv') /\ \A t \in Launches : srv'[t] = "none" <=> srv[t] = "none"
      /\ \A t \in Launches : Live(t)' => Live(t)
  BY DEF ControlInductive, ControlTyped, Live, Goes
<1>2. ControlTyped'
  BY <1>1 DEF ControlInductive, ControlTyped, record
<1>3. ASSUME NEW q \in Procs
      PROVE  JobFits(q, job'[q], lock, unit, srv, marker, pidfile) /\ StillServes(job[q], job'[q])
  BY Waiting
<1> USE DEF StillServes
<1>4. ASSUME NEW q \in Procs PROVE JobFits(q, job'[q], lock', unit', srv', marker', pidfile')
  <2>1. job'[q] \in JobRecord
    OBVIOUS
  <2> QED BY <1>1, <1>3, <2>1, StillFits DEF record
<1>5. Tended'
  <2>1. Tended
    BY DEF ControlInductive
  <2>2. (lock # None => lock \in Procs) /\ (unit # None => unit \in Procs)
    BY <1>0 DEF ControlInductive, ControlTyped
  <2>3. ASSUME NEW q \in Procs, OnUnit(job'[q]), Live(job[q].seen)'
        PROVE  unit' # None /\ job'[unit'].launch = job'[q].seen
    <3>1. job'[q].seen \in Launches /\ job'[q].seen # 0
      BY <2>3, ControlAssumption DEF JobRecord, Live, Launches
    <3>2. Live(job[q].seen)
      BY <1>1, <1>3, <2>3, <3>1 DEF Live
    <3> QED BY <1>3, <2>1, <2>2, <2>3, <3>2 DEF Tended
  <2>4. \A q \in Procs : job'[q].stale => job'[q].pid \in orphans'
    BY <1>3, <2>1 DEF Tended
  <2>5. pidfile' # 0 /\ pidfile' \notin orphans' => lock' # None /\ At(lock, "run")' /\ job'[lock'].launch = pidfile'
    BY <1>3, <2>1, <2>2 DEF Tended, At, record
  <2>6. \A t \in Launches \ orphans' : Live(t)' => lock' # None /\ job'[lock'].launch = t
    BY <1>1, <1>3, <2>1, <2>2 DEF Tended, record
  <2> QED BY <2>3, <2>4, <2>5, <2>6 DEF Tended
<1> QED BY <1>2, <1>4, <1>5 DEF ControlInductive, ControlFits, record

(* A free runner starts, as the unit or from a command that then waits for it. *)
LEMMA RunnerStarts ==
    ASSUME ControlInductive, NEW r \in Runners, job[r].pc = "idle", job' \in [Procs -> JobRecord],
           NEW mode \in {"edgedb-cli", "systemd"}, NEW p, job'[r] = Runner(mode, p),
           \A q \in Procs \ {r} :
              \/ job'[q] = job[q]
              \/ /\ job[q].pc = "start" /\ job'[q].pc \in {"child", "started"}
                 /\ job'[q].launch = job[q].launch /\ job'[q].seen = job[q].seen
                 /\ job'[q].stale = job[q].stale /\ job'[q].mode = job[q].mode /\ job'[q].pid = job[q].pid,
           IF mode = "systemd" THEN supervised /\ unit = None /\ unit' = r ELSE unit' = unit,
           UNCHANGED <<supervised, record, srv, orphans, launches>>
    PROVE  ControlInductive'
<1>0. None \notin Procs /\ Runners \subseteq Procs
  BY ControlAssumption DEF Procs
<1>1. ControlTyped'
  BY DEF ControlInductive, ControlTyped, record
<1>2. job[r] \in JobRecord /\ JobFits(r, job[r], lock, unit, srv, marker, pidfile)
  BY <1>0 DEF ControlInductive, ControlTyped, ControlFits
<1>3. lock # r /\ unit # r
  BY <1>2 DEF JobFits, HoldSteps
<1>4. /\ job'[r].pc = "try" /\ job'[r].mode = mode /\ job'[r].launch = 0 /\ job'[r].seen = 0
      /\ job'[r].stale = FALSE
  BY DEF Runner, Idle
<1>5. JobFits(r, job'[r], lock, unit', srv, marker, pidfile)
  BY <1>3, <1>4 DEF JobFits, HoldSteps
<1>6. ASSUME NEW q \in Procs \ {r} PROVE JobFits(q, job'[q], lock, unit', srv, marker, pidfile)
  <2>1. job[q] \in JobRecord /\ JobFits(q, job[q], lock, unit, srv, marker, pidfile)
    BY DEF ControlInductive, ControlTyped, ControlFits
  <2>2. JobFits(q, job'[q], lock, unit, srv, marker, pidfile)
    BY <2>1 DEF JobFits, HoldSteps
  <2>3. unit' = q <=> unit = q
    BY <1>0
  <2> QED BY <2>2, <2>3 DEF JobFits
<1>7. Tended'
  <2>1. Tended
    BY DEF ControlInductive
  <2>2. \A q \in Procs : job'[q].stale => job'[q].pid \in orphans'
    BY <1>4, <2>1 DEF Tended
  <2>3. lock # None => lock \in Procs \ {r}
    BY <1>3 DEF ControlInductive, ControlTyped
  <2>4. pidfile' # 0 /\ pidfile' \notin orphans' => lock' # None /\ At(lock, "run")' /\ job'[lock'].launch = pidfile'
    BY <2>1, <2>3 DEF Tended, At, record
  <2>5. \A s \in Launches \ orphans' : Live(s)' => lock' # None /\ job'[lock'].launch = s
    BY <2>1, <2>3 DEF Tended, Live, record
  <2>6. ASSUME NEW q \in Procs, OnUnit(job'[q]), Live(job[q].seen)'
        PROVE  unit' # None /\ job'[unit'].launch = job'[q].seen
    <3>1. q # r /\ job'[q] = job[q]
      BY <1>4, <2>6 DEF OnUnit, UnitSteps
    <3>2. unit # None /\ job[unit].launch = job'[q].seen
      BY <2>1, <2>6, <3>1 DEF Tended, Live
    <3>3. unit' = unit /\ unit \in Procs \ {r}
      BY <1>0, <1>3, <3>2 DEF ControlInductive, ControlTyped
    <3> QED BY <3>2, <3>3
  <2> QED BY <2>2, <2>4, <2>5, <2>6 DEF Tended
<1> QED BY <1>1, <1>5, <1>6, <1>7 DEF ControlInductive, ControlFits, record

LiveIn(v, s) == s # 0 /\ v[s] \in {"starting", "ready", "stopping"}
(* A process ends, with its part in the lock and the unit. *)
LEMMA Ends ==
    ASSUME ControlInductive, NEW x \in Procs, job' \in [Procs -> JobRecord], job'[x] = Idle,
           \A q \in Procs \ {x} : Waits(job[q], job'[q]),
           lock' = IF lock = x THEN None ELSE lock, unit' = IF unit = x THEN None ELSE unit,
           UNCHANGED <<supervised, marker, pidfile, launches>>,
           srv' \in [Launches -> {"none", "starting", "ready", "stopping", "gone"}],
           Goes(srv, srv'), \A s \in Launches : srv'[s] = "none" <=> srv[s] = "none",
           \A s \in Launches : Live(s)' => Live(s),
           orphans \subseteq orphans', unit = x => ~LiveIn(srv', job[x].launch),
           job[x].pc \in {"pid", "run"} \/ LiveIn(srv', job[x].launch) => job[x].launch \in orphans'
    PROVE  ControlInductive'
<1>0. None \notin Procs /\ Runners \subseteq Procs
  BY ControlAssumption DEF Procs
<1>1. ControlTyped'
  BY DEF ControlInductive, ControlTyped
<1>2. JobFits(x, job'[x], lock', unit', srv', marker', pidfile')
  BY <1>0 DEF JobFits, Idle, HoldSteps
<1>3. ASSUME NEW q \in Procs \ {x}
      PROVE  JobFits(q, job'[q], lock, unit, srv, marker, pidfile) /\ StillServes(job[q], job'[q])
  BY Waiting
<1> USE DEF StillServes
<1>4. ASSUME NEW q \in Procs \ {x} PROVE JobFits(q, job'[q], lock', unit', srv', marker', pidfile')
  <2>1. job'[q] \in JobRecord
    OBVIOUS
  <2>2. (lock' = q <=> lock = q) /\ (unit' = q <=> unit = q)
    BY <1>0
  <2> QED BY <1>3, <2>1, <2>2, StillFits
<1>5. Tended'
  <2>1. Tended
    BY DEF ControlInductive
  <2>2. job'[x].pc = "idle" /\ job'[x].stale = FALSE
    BY DEF Idle
  <2>3. \A q \in Procs : job'[q].stale => job'[q].pid \in orphans'
    BY <1>3, <2>1, <2>2 DEF Tended
  <2>4. lock # None => lock \in Procs
    BY DEF ControlInductive, ControlTyped
  <2>5. ASSUME pidfile' # 0, pidfile' \notin orphans'
        PROVE  lock' # None /\ At(lock, "run")' /\ job'[lock'].launch = pidfile'
    <3>1. lock # None /\ job[lock].pc = "run" /\ job[lock].launch = pidfile
      BY <2>1, <2>5 DEF Tended, At
    <3>2. lock # x
      BY <2>5, <3>1
    <3> QED BY <1>3, <2>4, <3>1, <3>2 DEF At
  <2>6. ASSUME NEW s \in Launches \ orphans', Live(s)' PROVE lock' # None /\ job'[lock'].launch = s
    <3>1. lock # None /\ job[lock].launch = s
      BY <2>1, <2>6 DEF Tended
    <3>2. lock # x
      BY <2>6, <3>1 DEF Live, LiveIn
    <3> QED BY <1>3, <2>4, <3>1, <3>2
  <2>7. ASSUME NEW q \in Procs, OnUnit(job'[q]), Live(job[q].seen)'
        PROVE  unit' # None /\ job'[unit'].launch = job'[q].seen
    <3>1. q # x
      BY <2>2, <2>7 DEF OnUnit, UnitSteps
    <3>2. OnUnit(job[q]) /\ job'[q].seen = job[q].seen
      BY <1>3, <2>7, <3>1
    <3>3. job[q].seen \in Launches
      BY <2>7, <3>2, ControlAssumption DEF ControlInductive, ControlTyped, JobRecord, Live, Launches
    <3>4. Live(job[q].seen)' /\ Live(job[q].seen)
      BY <2>7, <3>2, <3>3 DEF Live
    <3>5. unit # None /\ job[unit].launch = job[q].seen
      BY <2>1, <3>2, <3>4 DEF Tended
    <3>6. unit \in Procs \ {x}
      <4>1. srv'[job[q].seen] \in {"starting", "ready", "stopping"} /\ job[q].seen # 0
        BY <3>2, <3>4 DEF Live
      <4>2. unit # x
        BY <3>5, <4>1 DEF LiveIn
      <4> QED BY <1>0, <3>5, <4>2 DEF ControlInductive, ControlTyped
    <3> QED BY <1>0, <1>3, <3>2, <3>5, <3>6
  <2> QED BY <2>3, <2>5, <2>6, <2>7 DEF Tended
<1> QED BY <1>1, <1>2, <1>4, <1>5 DEF ControlInductive, ControlFits

(* The server is launched by the process that has the lock: no other lives. *)
LEMMA ServerSpawns ==
    ASSUME ControlInductive, NEW p \in Procs, SpawnServer(p)
    PROVE  ControlInductive'
<1> DEFINE n == launches + 1
           r == job'[p]
<1>0. None \notin Procs /\ Runners \subseteq Procs
  BY ControlAssumption DEF Procs
<1>1. job[p] \in JobRecord /\ JobFits(p, job[p], lock, unit, srv, marker, pidfile)
  BY DEF ControlInductive, ControlTyped, ControlFits
<1>2. lock = p /\ job[p].launch = 0 /\ job[p].pc = "spawn"
  BY <1>1 DEF SpawnServer, At, JobFits, HoldSteps
<1>3. n \in Launches /\ n # 0 /\ launches' = n /\ srv[n] = "none"
  <2>1. launches \in 0 .. MaxLaunches /\ launches < MaxLaunches /\ launches' = launches + 1
    BY DEF SpawnServer, ControlInductive, ControlTyped
  <2>2. n \in 1 .. MaxLaunches /\ n # 0 /\ n > launches
    BY <2>1, ControlAssumption
  <2> QED BY <2>1, <2>2 DEF ControlInductive, ControlTyped, Launches
<1>4. /\ \A q \in Procs : q # p => job'[q] = job[q]
      /\ r \in JobRecord /\ r.launch = n /\ r.mode = job[p].mode /\ r.seen = job[p].seen
      /\ r.stale = job[p].stale /\ r.pid = job[p].pid
      /\ r.pc = IF job[p].mode = "systemd" THEN "server" ELSE "pid"
  <2>1. n \in 0 .. MaxLaunches
    BY <1>3, ControlAssumption DEF Launches
  <2>2. r = [job[p] EXCEPT !.launch = n,
                           !.pc = IF job[p].mode = "systemd" THEN "server" ELSE "pid"]
    BY DEF SpawnServer, ControlInductive, ControlTyped
  <2>3. \A q \in Procs : q # p => job'[q] = job[q]
    BY DEF SpawnServer, ControlInductive, ControlTyped
  <2> QED BY <1>1, <2>1, <2>2, <2>3 DEF JobRecord, Steps, HoldSteps
<1> HIDE DEF r
<1>5. UNCHANGED <<supervised, unit, lock, marker, pidfile, orphans>>
  BY DEF SpawnServer, systemd, record
<1>6. /\ srv' \in [Launches -> {"none", "starting", "ready", "stopping", "gone"}]
      /\ srv'[n] = "starting" /\ \A t \in Launches : t # n => srv'[t] = srv[t]
  BY <1>3 DEF SpawnServer, ControlInductive, ControlTyped
<1>7. job' \in [Procs -> JobRecord]
  <2>1. job' = [job EXCEPT ![p] = r]
    BY <1>4 DEF SpawnServer, ControlInductive, ControlTyped, r
  <2> QED BY <1>4, <2>1 DEF ControlInductive, ControlTyped
<1>8. \A t \in Launches : srv'[t] = "none" <=> t > n
  <2>1. \A t \in 1 .. MaxLaunches : t # n => (t > launches <=> t > n)
    BY ControlAssumption DEF ControlInductive, ControlTyped
  <2>2. ~(n > n)
    BY <1>3, ControlAssumption DEF Launches
  <2> QED BY <1>6, <2>1, <2>2 DEF ControlInductive, ControlTyped, Launches
<1>9. ControlTyped'
  <2>1. n \in 0 .. MaxLaunches
    BY <1>3, ControlAssumption DEF Launches
  <2> QED BY <1>3, <1>5, <1>6, <1>7, <1>8, <2>1 DEF ControlInductive, ControlTyped
<1>10. JobFits(p, r, lock', unit', srv', marker', pidfile')
  <2>1. r.seen # 0 => r.seen \in Launches
    BY <1>4, ControlAssumption DEF JobRecord, Launches
  <2>2. r.seen # 0 => srv'[r.seen] # "none"
    BY <1>1, <1>4, <1>6, <2>1 DEF JobFits
  <2> QED BY <1>1, <1>2, <1>3, <1>4, <1>5, <1>6, <2>2 DEF JobFits, HoldSteps
<1>11. ASSUME NEW q \in Procs, q # p
       PROVE  JobFits(q, job'[q], lock', unit', srv', marker', pidfile')
  <2>1. job[q] \in JobRecord /\ JobFits(q, job[q], lock, unit, srv, marker, pidfile)
    BY DEF ControlInductive, ControlTyped, ControlFits
  <2>2. Goes(srv, srv')
    BY <1>3, <1>6 DEF Goes
  <2>3. JobFits(q, job[q], lock', unit', srv', marker', pidfile')
    BY <1>5, <2>1, <2>2, StillFits
  <2> QED BY <1>4, <1>11, <2>3
<1>12. Tended'
  <2>1. Tended
    BY DEF ControlInductive
  <2>2. \A t \in Launches \ orphans : ~Live(t)
    BY <1>2, <2>1 DEF Tended, Live
  <2>3. \A q \in Procs : job'[q].stale => job'[q].pid \in orphans'
    BY <1>4, <1>5, <2>1 DEF Tended, r
  <2>4. pidfile' = 0 \/ pidfile' \in orphans'
    BY <1>2, <1>5, <2>1 DEF Tended, At
  <2>5. \A t \in Launches \ orphans' : Live(t)' => lock' # None /\ job'[lock'].launch = t
    BY <1>0, <1>2, <1>4, <1>5, <1>6, <2>2 DEF Live, r
  <2>6. ASSUME NEW q \in Procs, OnUnit(job'[q]), Live(job[q].seen)'
        PROVE  unit' # None /\ job'[unit'].launch = job'[q].seen
    <3>1. q # p
      BY <1>4, <2>6 DEF OnUnit, UnitSteps, r
    <3>2. job'[q] = job[q] /\ job[q].seen # 0 /\ srv[job[q].seen] # "none"
      <4>1. job'[q] = job[q] /\ job[q].seen # 0
        BY <1>4, <2>6, <3>1 DEF Live
      <4> QED BY <4>1 DEF ControlInductive, ControlFits, JobFits
    <3>3. job[q].seen \in Launches
      BY <3>2, ControlAssumption DEF ControlInductive, ControlTyped, JobRecord, Launches
    <3>4. Live(job[q].seen)
      BY <1>3, <1>6, <2>6, <3>2, <3>3 DEF Live
    <3>5. unit # None /\ job[unit].launch = job[q].seen /\ unit # p
      BY <1>2, <2>1, <2>6, <3>2, <3>4 DEF Tended
    <3>6. unit \in Procs
      BY <1>0, <3>5 DEF ControlInductive, ControlTyped
    <3> QED BY <1>4, <1>5, <3>2, <3>5, <3>6
  <2> QED BY <2>3, <2>4, <2>5, <2>6 DEF Tended
<1> QED BY <1>9, <1>10, <1>11, <1>12, <1>5 DEF ControlInductive, ControlFits, r

(* What the invariant says of one process. *)
LEMMA ItsJob ==
    ASSUME ControlInductive, NEW p \in Procs
    PROVE  job[p] \in JobRecord /\ JobFits(p, job[p], lock, unit, srv, marker, pidfile)
BY DEF ControlInductive, ControlTyped, ControlFits

(* A process that does not hold the lock is done. *)
LEMMA EndStep ==
    ASSUME ControlInductive, NEW p \in Procs, End(p), job[p].pc \notin HoldSteps,
           job[p].mode # "systemd", UNCHANGED <<supervised, unit, record, srv, orphans, launches>>
    PROVE  ControlInductive'
<1>1. Idle \in JobRecord
  BY ControlAssumption DEF Idle, JobRecord, Steps
<1>2. /\ Idle.pc = "idle" /\ Idle.mode = "none" /\ Idle.launch = 0 /\ Idle.seen = 0
      /\ Idle.stale = FALSE
  BY DEF Idle
<1>3. job' = [job EXCEPT ![p] = Idle]
  BY DEF End
<1>4. Idle.pc \notin HoldSteps /\ ~OnUnit(Idle)
  BY <1>2 DEF HoldSteps, UnitSteps, OnUnit
<1> QED BY <1>1, <1>2, <1>3, <1>4, FreeStep

(* A process that does not hold the lock goes on. *)
LEMMA PcStep ==
    ASSUME ControlInductive, NEW p \in Procs, NEW pc \in Steps, Goto(p, pc),
           UNCHANGED <<supervised, unit, record, srv, orphans, launches>>,
           job[p].pc \notin HoldSteps, pc \notin HoldSteps,
           (job[p].pc = "try" /\ pc = "wait") \/ job[p].pc \notin {"try", "wait"},
           job[p].pc \in {"start", "child", "started"} => pc \in {"start", "child", "started"},
           pc \in UnitSteps => job[p].op = "disable" \/ job[p].pc \in UnitSteps
    PROVE  ControlInductive'
<1> DEFINE r == [job[p] EXCEPT !.pc = pc]
<1>1. job[p] \in JobRecord /\ JobFits(p, job[p], lock, unit, srv, marker, pidfile)
  BY ItsJob
<1>2. /\ r \in JobRecord /\ r.pc = pc /\ r.mode = job[p].mode /\ r.launch = job[p].launch
      /\ r.seen = job[p].seen /\ r.stale = job[p].stale /\ r.op = job[p].op /\ r.pid = job[p].pid
  BY <1>1 DEF JobRecord
<1>3. job' = [job EXCEPT ![p] = r]
  BY DEF Goto
<1> HIDE DEF r
<1>4. r.mode = "systemd" => r.pc \in {"try", "wait"}
  BY <1>1, <1>2 DEF JobFits, HoldSteps
<1>5. r.launch # 0 => r.launch = job[p].launch /\ r.pc \in {"start", "child", "started"}
  BY <1>1, <1>2 DEF JobFits, HoldSteps
<1>6. OnUnit(r) => OnUnit(job[p]) /\ r.seen = job[p].seen
  BY <1>2 DEF OnUnit
<1>7. r.stale => r.pid \in orphans
  BY <1>2 DEF ControlInductive, Tended
<1>8. r.mode = job[p].mode \/ (job[p].mode # "systemd" /\ r.mode # "systemd")
  BY <1>2
<1>9. r.seen \in {0, job[p].seen} /\ r.pc \notin HoldSteps
  BY <1>2
<1> QED BY <1>2, <1>3, <1>4, <1>5, <1>6, <1>7, <1>8, <1>9, FreeStep

(* The steps of a command that only wait for something. *)
LEMMA Simple ==
    ASSUME ControlInductive, NEW p \in Procs,
           AlreadyRuns(p) \/ Daemonized(p) \/ ServiceStarted(p) \/ StopSocket(p) \/ UnitStopped(p)
           \/ Unlocked(p)
    PROVE  ControlInductive'
<1>1. job[p] \in JobRecord /\ JobFits(p, job[p], lock, unit, srv, marker, pidfile)
  BY ItsJob
<1>2. UNCHANGED <<supervised, unit, record, srv, orphans, launches>>
  BY DEF AlreadyRuns, Daemonized, ServiceStarted, StopSocket, UnitStopped, Unlocked, systemd, record,
         bounds, ControlInductive, ControlTyped
<1>3. /\ job[p].pc \in UnitSteps \cup {"start", "child", "started", "unlock"}
      /\ job[p].pc \notin HoldSteps /\ job[p].pc \notin {"try", "wait"} /\ job[p].mode # "systemd"
  <2>1. job[p].pc \in UnitSteps \cup {"start", "child", "started", "unlock"}
    BY DEF AlreadyRuns, Daemonized, ServiceStarted, StopSocket, UnitStopped, Unlocked, At, UnitSteps
  <2> QED BY <1>1, <2>1 DEF JobFits, UnitSteps, HoldSteps
<1>4. CASE End(p)
  BY <1>2, <1>3, <1>4, EndStep
<1>5. CASE StopSocket(p) /\ Goto(p, "stop unit")
  <2>1. job[p].pc = "stop socket"
    BY <1>5 DEF StopSocket, At
  <2>2. "stop unit" \in Steps /\ "stop unit" \notin HoldSteps /\ job[p].pc \in UnitSteps
    BY <2>1 DEF Steps, UnitSteps, HoldSteps
  <2> QED BY <1>2, <1>3, <1>5, <2>1, <2>2, PcStep
<1>6. CASE UnitStopped(p) /\ Goto(p, "stop socket")
  <2>1. job[p].pc = "unit stopped"
    BY <1>6 DEF UnitStopped, At
  <2>2. "stop socket" \in Steps /\ "stop socket" \notin HoldSteps /\ job[p].pc \in UnitSteps
    BY <2>1 DEF Steps, UnitSteps, HoldSteps
  <2> QED BY <1>2, <1>3, <1>6, <2>1, <2>2, PcStep
<1>7. CASE (UnitStopped(p) \/ Unlocked(p)) /\ job[p].then # "end" /\ Goto(p, job[p].then)
  <2>1. job[p].pc \in {"unit stopped", "unlock"} /\ job[p].then \in {"wait", "start"}
    BY <1>1, <1>7 DEF UnitStopped, Unlocked, At, JobRecord
  <2>2. /\ job[p].then \in Steps /\ job[p].then \notin HoldSteps /\ job[p].then \notin UnitSteps
        /\ job[p].pc \notin {"start", "child", "started"}
    BY <2>1 DEF Steps, UnitSteps, HoldSteps
  <2> QED BY <1>2, <1>3, <1>7, <2>2, PcStep
<1>8. CASE Unlocked(p) /\ job[p].op = "disable" /\ Goto(p, "stop unit")
  <2>1. job[p].pc = "unlock"
    BY <1>8 DEF Unlocked, At
  <2>2. "stop unit" \in Steps /\ "stop unit" \notin HoldSteps
    BY DEF Steps, UnitSteps, HoldSteps
  <2> QED BY <1>2, <1>3, <1>8, <2>1, <2>2, PcStep
<1>9. CASE Unlocked(p)
  BY <1>4, <1>7, <1>8, <1>9 DEF Unlocked, Proceed
<1>10. CASE UnitStopped(p)
  BY <1>4, <1>6, <1>7, <1>10 DEF UnitStopped
<1> QED BY <1>4, <1>5, <1>9, <1>10 DEF AlreadyRuns, Daemonized, ServiceStarted, StopSocket

(* A command begins. *)
LEMMA CommandBegins ==
    ASSUME ControlInductive, NEW p \in Procs, NEW op \in {"run", "start", "stop", "restart", "disable"},
           NEW mode \in {"none", "user", "auto"}, NEW pc \in {"try", "start", "look"},
           NEW then \in {"end", "wait", "start"}, Command(p, op, mode, pc, then)
    PROVE  ControlInductive'
<1> DEFINE r == [Idle EXCEPT !.op = op, !.mode = mode, !.pc = pc, !.then = then]
<1>1. job[p] \in JobRecord /\ JobFits(p, job[p], lock, unit, srv, marker, pidfile)
  BY ItsJob
<1>2. /\ r \in JobRecord /\ r.pc = pc /\ r.mode = mode /\ r.launch = 0 /\ r.seen = 0
      /\ r.stale = FALSE
  <2>1. Idle \in JobRecord
    BY ControlAssumption DEF Idle, JobRecord, Steps
  <2>2. Idle.launch = 0 /\ Idle.seen = 0 /\ Idle.stale = FALSE
    BY DEF Idle
  <2>3. mode \in {"none", "user", "auto", "edgedb-cli", "systemd"} /\ pc \in Steps
    BY DEF Steps
  <2>4. r = [[Idle EXCEPT !.op = op, !.mode = mode] EXCEPT !.pc = pc, !.then = then]
    OBVIOUS
  <2>5. ASSUME NEW i \in JobRecord PROVE [i EXCEPT !.op = op, !.mode = mode] \in JobRecord
    BY <2>3 DEF JobRecord
  <2>6. ASSUME NEW i \in JobRecord PROVE [i EXCEPT !.pc = pc, !.then = then] \in JobRecord
    BY <2>3 DEF JobRecord
  <2>7. r \in JobRecord
    BY <2>1, <2>4, <2>5, <2>6
  <2>8. /\ r.pc = pc /\ r.mode = mode /\ r.launch = Idle.launch /\ r.seen = Idle.seen
        /\ r.stale = Idle.stale
    BY <2>1 DEF JobRecord
  <2> QED BY <2>2, <2>7, <2>8
<1>3. job' = [job EXCEPT ![p] = r]
  BY DEF Command
<1> HIDE DEF r
<1>4. UNCHANGED <<supervised, unit, record, srv, orphans, launches>>
  BY DEF Command, systemd, ControlInductive, ControlTyped
<1>5. job[p].pc \notin HoldSteps /\ job[p].mode # "systemd"
  BY <1>1 DEF Command, Free, At, HoldSteps, JobFits
<1>6. r.pc \notin HoldSteps /\ ~OnUnit(r) /\ r.mode # "systemd"
  BY <1>2 DEF HoldSteps, UnitSteps, OnUnit
<1>7. r.seen \in {0, job[p].seen} /\ ~r.stale /\ r.launch = 0
  BY <1>2
<1> QED BY <1>2, <1>3, <1>4, <1>5, <1>6, <1>7, FreeStep

(* A runner gets service.lock, which nobody holds: then no server lives. *)
LEMMA TakesLock ==
    ASSUME ControlInductive, NEW p \in Procs, job[p].pc \in {"try", "wait"}, lock = None, lock' = p,
           Goto(p, "mark"), UNCHANGED <<systemd, marker, pidfile, srv, bounds>>
    PROVE  ControlInductive'
<1> DEFINE r == [job[p] EXCEPT !.pc = "mark"]
<1>1. job[p] \in JobRecord /\ JobFits(p, job[p], lock, unit, srv, marker, pidfile)
  BY ItsJob
<1>2. /\ r \in JobRecord /\ r.pc = "mark" /\ r.mode = job[p].mode /\ r.launch = job[p].launch
      /\ r.seen = job[p].seen /\ r.stale = job[p].stale /\ r.pid = job[p].pid
  BY <1>1 DEF JobRecord, Steps, HoldSteps
<1>3. job' = [job EXCEPT ![p] = r]
  BY DEF Goto
<1> HIDE DEF r
<1>4. /\ UNCHANGED <<supervised, unit, srv, orphans, launches>>
      /\ marker' = marker /\ pidfile' = pidfile /\ pidfile' \in 0 .. MaxLaunches
  BY DEF systemd, bounds, ControlInductive, ControlTyped
<1>5. JobFits(p, r, lock', unit, srv, marker', pidfile')
  BY <1>1, <1>2, <1>4 DEF JobFits, HoldSteps
<1>6. ~OnUnit(r)
  BY <1>2 DEF OnUnit, UnitSteps
<1>7. pidfile' = 0 \/ pidfile' \in orphans
  BY <1>4 DEF ControlInductive, Tended
<1> QED BY <1>2, <1>3, <1>4, <1>5, <1>6, <1>7, HolderStep

(* A runner tries the lock, waits for it, or goes to stop the service first. *)
LEMMA Tries ==
    ASSUME ControlInductive, NEW p \in Procs, Try(p) \/ Wait(p)
    PROVE  ControlInductive'
<1>1. job[p] \in JobRecord /\ JobFits(p, job[p], lock, unit, srv, marker, pidfile)
  BY ItsJob
<1>2. UNCHANGED <<systemd, marker, pidfile, srv, bounds>>
  BY DEF Try, Wait
<1>3. CASE lock = None
  BY <1>2, <1>3, TakesLock DEF Try, Wait, At
<1>4. CASE lock # None
  <2>1. UNCHANGED <<supervised, unit, record, srv, orphans, launches>>
    BY <1>2, <1>4 DEF Try, Wait, systemd, record, bounds, ControlInductive, ControlTyped
  <2>2. job[p].pc = "try" /\ job[p].pc \notin HoldSteps
    BY <1>4 DEF Try, Wait, At, HoldSteps
  <2>3. CASE job[p].mode = "user"
    <3>1. End(p)
      BY <1>4, <2>3 DEF Try, Wait
    <3> QED BY <2>1, <2>2, <2>3, <3>1, EndStep
  <2>4. CASE job[p].mode = "auto"
    <3> DEFINE r == [job[p] EXCEPT !.pc = "look", !.again = TRUE]
    <3>1. job' = [job EXCEPT ![p].pc = "look", ![p].again = TRUE]
      BY <1>4, <2>4 DEF Try, Wait
    <3>2. job' = [job EXCEPT ![p] = r]
      BY <3>1 DEF ControlInductive, ControlTyped
    <3>3. /\ r \in JobRecord /\ r.pc = "look" /\ r.mode = job[p].mode /\ r.launch = job[p].launch
          /\ r.seen = job[p].seen /\ r.stale = job[p].stale /\ r.pid = job[p].pid
      BY <1>1 DEF JobRecord, Steps
    <3> HIDE DEF r
    <3>4. r.pc \notin HoldSteps /\ ~OnUnit(r) /\ r.mode # "systemd" /\ r.launch = 0
      BY <1>1, <2>2, <2>4, <3>3 DEF HoldSteps, UnitSteps, OnUnit, JobFits
    <3>5. r.stale => r.pid \in orphans
      BY <3>3 DEF ControlInductive, Tended
    <3> QED BY <2>1, <2>2, <3>2, <3>3, <3>4, <3>5, FreeStep
  <2>5. CASE job[p].mode \notin {"user", "auto"}
    <3>1. Goto(p, "wait")
      BY <1>4, <2>5 DEF Try, Wait
    <3>2. "wait" \in Steps /\ "wait" \notin HoldSteps /\ "wait" \notin UnitSteps
      BY DEF Steps, UnitSteps, HoldSteps
    <3> QED BY <2>1, <2>2, <3>1, <3>2, PcStep
  <2> QED BY <2>3, <2>4, <2>5
<1> QED BY <1>3, <1>4

(* A command that stops the server looks who runs it: the one of the unit is left to systemd. *)
LEMMA Looks ==
    ASSUME ControlInductive, NEW p \in Procs, Look(p)
    PROVE  ControlInductive'
<1> DEFINE held == lock # None
           seen == IF lock # None /\ Live(job[lock].launch) THEN job[lock].launch ELSE 0
           pc == IF ~supervised \/ (lock # None /\ marker # "systemd") THEN "read pid"
                 ELSE IF job[p].op \in {"restart", "disable"} THEN "stop unit" ELSE "stop socket"
           r == [job[p] EXCEPT !.held = held, !.seen = seen, !.pc = pc]
<1>0. None \notin Procs /\ Runners \subseteq Procs
  BY ControlAssumption DEF Procs
<1>1. job[p] \in JobRecord /\ JobFits(p, job[p], lock, unit, srv, marker, pidfile)
  BY ItsJob
<1>2. seen \in 0 .. MaxLaunches
  <2>1. lock # None => job[lock].launch \in 0 .. MaxLaunches
    BY DEF ControlInductive, ControlTyped, JobRecord
  <2> QED BY <2>1, ControlAssumption
<1>3. pc \in {"read pid", "stop unit", "stop socket"} /\ pc \in Steps
  BY DEF Steps, UnitSteps
<1>4. job' = [job EXCEPT ![p] = r] \/ End(p)
  BY DEF Look, ControlInductive, ControlTyped
<1>5. seen # 0 => lock # None /\ Live(job[lock].launch) /\ seen = job[lock].launch
  OBVIOUS
<1>6. pc # "read pid" => supervised /\ (lock # None => marker = "systemd")
  OBVIOUS
<1> HIDE DEF seen, pc
<1>7. /\ r \in JobRecord /\ r.pc = pc /\ r.mode = job[p].mode /\ r.launch = job[p].launch
      /\ r.seen = seen /\ r.stale = job[p].stale /\ r.pid = job[p].pid
  BY <1>1, <1>2, <1>3 DEF JobRecord
<1> HIDE DEF r
<1>8. UNCHANGED <<supervised, unit, record, srv, orphans, launches>>
  BY DEF Look, systemd, record, bounds, ControlInductive, ControlTyped
<1>9. job[p].pc = "look"
  BY DEF Look, At
<1>10. JobFits(p, r, lock, unit, srv, marker, pidfile)
  <2>1. seen # 0 => srv[seen] # "none"
    BY <1>5 DEF Live
  <2> QED BY <1>1, <1>3, <1>7, <1>9, <2>1 DEF JobFits, HoldSteps
<1>11. r.stale => r.pid \in orphans
  BY <1>7 DEF ControlInductive, Tended
<1>12. OnUnit(r) /\ Live(r.seen) => unit # None /\ job[unit].launch = r.seen
  <2>1. SUFFICES ASSUME OnUnit(r), Live(seen) PROVE unit # None /\ job[unit].launch = seen
    BY <1>7
  <2>2. seen # 0 /\ pc # "read pid"
    BY <1>7, <2>1 DEF Live, OnUnit, UnitSteps
  <2>3. lock \in Procs /\ seen = job[lock].launch /\ marker = "systemd" /\ Live(job[lock].launch)
    BY <1>5, <1>6, <2>2 DEF ControlInductive, ControlTyped
  <2>4. JobFits(lock, job[lock], lock, unit, srv, marker, pidfile)
    BY <2>3, ItsJob
  <2>5. job[lock].pc \in {"pid", "run", "server"}
    BY <2>2, <2>3, <2>4 DEF JobFits, HoldSteps, Live
  <2>6. unit = lock
    BY <2>3, <2>4, <2>5 DEF JobFits
  <2> QED BY <1>0, <2>3, <2>6
<1>13. job[p].pc = "run" => r.pc = "run"
  BY <1>9
<1>14. CASE End(p)
  <2>1. job[p].pc \notin HoldSteps /\ job[p].mode # "systemd"
    BY <1>1, <1>9 DEF HoldSteps, JobFits
  <2> QED BY <1>8, <1>14, <2>1, EndStep
<1> QED BY <1>4, <1>7, <1>8, <1>10, <1>11, <1>12, <1>13, <1>14, OwnStep

(* The pid file names a server that its runner waits for, unless a runner died. *)
LEMMA ReadsPid ==
    ASSUME ControlInductive, NEW p \in Procs, ReadPid(p)
    PROVE  ControlInductive'
<1>1. job[p] \in JobRecord /\ JobFits(p, job[p], lock, unit, srv, marker, pidfile)
  BY ItsJob
<1>2. UNCHANGED <<supervised, unit, record, srv, orphans, launches>>
  BY DEF ReadPid, systemd, bounds, ControlInductive, ControlTyped
<1>3. job[p].pc = "read pid" /\ job[p].pc \notin HoldSteps /\ job[p].mode # "systemd"
  BY <1>1 DEF ReadPid, At, HoldSteps, JobFits
<1>4. CASE pidfile # 0
  <2> DEFINE stale == srv[pidfile] = "gone" /\ ~\E q \in Procs : At(q, "run") /\ job[q].launch = pidfile
             r == [job[p] EXCEPT !.pid = pidfile, !.pc = "term", !.stale = stale]
  <2>1. job' = [job EXCEPT ![p].pid = pidfile, ![p].pc = "term", ![p].stale = stale]
    BY <1>4 DEF ReadPid
  <2>2. job' = [job EXCEPT ![p] = r]
    BY <2>1 DEF ControlInductive, ControlTyped
  <2>3. pidfile \in 0 .. MaxLaunches /\ stale \in BOOLEAN
    BY DEF ControlInductive, ControlTyped
  <2>4. stale => pidfile \in orphans
    BY <1>4 DEF ControlInductive, ControlTyped, Tended
  <2> HIDE DEF stale
  <2>5. /\ r \in JobRecord /\ r.pc = "term" /\ r.mode = job[p].mode /\ r.launch = job[p].launch
        /\ r.seen = job[p].seen /\ r.stale = stale /\ r.pid = pidfile
    BY <1>1, <2>3 DEF JobRecord, Steps
  <2> HIDE DEF r
  <2>6. r.pc \notin HoldSteps /\ ~OnUnit(r) /\ r.mode # "systemd" /\ r.launch = 0
    BY <1>1, <1>3, <2>5 DEF HoldSteps, UnitSteps, OnUnit, JobFits
  <2> QED BY <1>2, <1>3, <2>2, <2>4, <2>5, <2>6, FreeStep
<1>5. CASE End(p)
  BY <1>2, <1>3, <1>5, EndStep
<1>6. CASE job[p].op = "disable" /\ Goto(p, "stop unit")
  <2>1. "stop unit" \in Steps /\ "stop unit" \notin HoldSteps
    BY DEF Steps, UnitSteps, HoldSteps
  <2> QED BY <1>2, <1>3, <1>6, <2>1, PcStep
<1>7. CASE job[p].then # "end" /\ Goto(p, job[p].then)
  <2>1. job[p].then \in {"wait", "start"}
    BY <1>1, <1>7 DEF JobRecord
  <2>2. job[p].then \in Steps /\ job[p].then \notin HoldSteps /\ job[p].then \notin UnitSteps
    BY <2>1 DEF Steps, UnitSteps, HoldSteps
  <2> QED BY <1>2, <1>3, <1>7, <2>2, PcStep
<1> QED BY <1>4, <1>5, <1>6, <1>7 DEF ReadPid, Proceed

(* The server is told to stop, or was gone. *)
LEMMA Terminates ==
    ASSUME ControlInductive, NEW p \in Procs, Terminate(p)
    PROVE  ControlInductive'
<1>1. job[p] \in JobRecord /\ JobFits(p, job[p], lock, unit, srv, marker, pidfile)
  BY ItsJob
<1>2. UNCHANGED <<supervised, unit, record, orphans, launches>>
  BY DEF Terminate, systemd, bounds
<1>3. job[p].pc = "term" /\ job[p].pc \notin HoldSteps /\ job[p].mode # "systemd"
  BY <1>1 DEF Terminate, At, HoldSteps, JobFits
<1>4. CASE Live(job[p].pid)
  <2>1. job[p].pid \in Launches
    BY <1>1, <1>4, ControlAssumption DEF Live, JobRecord, Launches
  <2>2. /\ srv' = [srv EXCEPT ![job[p].pid] = "stopping"]
        /\ job' = [job EXCEPT ![p].pc = "unlock"]
    BY <1>4 DEF Terminate, Goto
  <2>3. job' \in [Procs -> JobRecord] /\ \A q \in Procs : Waits(job[q], job'[q])
    <3>1. [job[p] EXCEPT !.pc = "unlock"] \in JobRecord
      BY <1>1 DEF JobRecord, Steps
    <3>2. job' = [job EXCEPT ![p] = [job[p] EXCEPT !.pc = "unlock"]]
      BY <2>2
    <3>3. Waits(job[p], [job[p] EXCEPT !.pc = "unlock"])
      BY <1>1, <1>3 DEF Waits, JobRecord
    <3> QED BY <3>1, <3>2, <3>3 DEF ControlInductive, ControlTyped, Waits
  <2>4. UNCHANGED <<supervised, unit, record, orphans, launches>>
    BY <1>2, <2>2
  <2> QED BY <1>4, <2>1, <2>2, <2>3, <2>4, ServerStep
<1>5. CASE ~Live(job[p].pid)
  <2>1. UNCHANGED <<supervised, unit, record, srv, orphans, launches>>
    BY <1>2, <1>5 DEF Terminate
  <2>3. CASE End(p)
    BY <1>3, <2>1, <2>3, EndStep
  <2>4. CASE Goto(p, "unlock")
    <3>1. "unlock" \in Steps /\ "unlock" \notin HoldSteps /\ "unlock" \notin UnitSteps
      BY DEF Steps, UnitSteps, HoldSteps
    <3> QED BY <1>3, <2>1, <2>4, <3>1, PcStep
  <2> QED BY <1>5, <2>3, <2>4 DEF Terminate
<1> QED BY <1>4, <1>5

(* The holder of the lock writes the marker and the pid file, waits for the server and gives up the lock. *)
LEMMA HolderSteps ==
    ASSUME ControlInductive, NEW p \in Procs, WriteMarker(p) \/ WritePid(p) \/ Reap(p) \/ Release(p)
    PROVE  ControlInductive'
<1> DEFINE r == job'[p]
<1>0. None \notin Procs /\ Idle \in JobRecord
  BY ControlAssumption DEF Procs, Idle, JobRecord, Steps
<1>1. job[p] \in JobRecord /\ JobFits(p, job[p], lock, unit, srv, marker, pidfile)
  BY ItsJob
<1>2. job[p].pc \in {"mark", "pid", "run", "release"} /\ job[p].pc \in HoldSteps
  BY DEF WriteMarker, WritePid, Reap, Release, At, HoldSteps
<1>3. lock = p /\ UNCHANGED <<supervised, unit, srv, orphans, launches>>
  BY <1>1, <1>2 DEF JobFits, WriteMarker, WritePid, Reap, Release, systemd, bounds
<1>4. \/ /\ r \in JobRecord /\ r.pc \in {"spawn", "run", "release", "start"}
         /\ r = [job[p] EXCEPT !.pc = r.pc] /\ job' = [job EXCEPT ![p] = r]
      \/ r = Idle /\ job' = [job EXCEPT ![p] = Idle] /\ Release(p)
  <2>1. \A pc \in {"spawn", "run", "release", "start"} :
           Goto(p, pc) => /\ r = [job[p] EXCEPT !.pc = pc] /\ r \in JobRecord /\ r.pc = pc
                          /\ job' = [job EXCEPT ![p] = r]
    <3>1. SUFFICES ASSUME NEW pc \in {"spawn", "run", "release", "start"}, Goto(p, pc)
                   PROVE  /\ r = [job[p] EXCEPT !.pc = pc] /\ r \in JobRecord /\ r.pc = pc
                          /\ job' = [job EXCEPT ![p] = r]
      BY Zenon
    <3>2. pc \in Steps
      BY DEF Steps, HoldSteps
    <3>3. [job[p] EXCEPT !.pc = pc] \in JobRecord /\ [job[p] EXCEPT !.pc = pc].pc = pc
      BY <1>1, <3>2 DEF JobRecord
    <3>4. job' = [job EXCEPT ![p] = [job[p] EXCEPT !.pc = pc]]
      BY <3>1 DEF Goto
    <3>5. r = [job[p] EXCEPT !.pc = pc]
      BY <3>4 DEF ControlInductive, ControlTyped
    <3> QED BY <3>3, <3>4, <3>5
  <2>2. End(p) => r = Idle /\ job' = [job EXCEPT ![p] = Idle]
    BY DEF End, ControlInductive, ControlTyped
  <2>3. \/ \E pc \in {"spawn", "run", "release", "start"} : Goto(p, pc)
        \/ End(p) /\ Release(p)
    BY DEF WriteMarker, WritePid, Reap, Release
  <2> QED BY <2>1, <2>2, <2>3
<1>5. /\ r \in JobRecord /\ job' = [job EXCEPT ![p] = r]
      /\ r.launch = job[p].launch \/ (r.launch = 0 /\ Release(p))
      /\ r.mode = job[p].mode \/ (r.mode = "none" /\ Release(p))
      /\ r.seen \in {0, job[p].seen} /\ (~r.stale \/ (r.stale = job[p].stale /\ r.pid = job[p].pid))
      /\ r.pc \in {"spawn", "run", "release", "start", "idle"}
  <2>1. CASE r = Idle /\ job' = [job EXCEPT ![p] = Idle] /\ Release(p)
    BY <1>0, <2>1 DEF Idle
  <2>2. CASE /\ r \in JobRecord /\ r.pc \in {"spawn", "run", "release", "start"}
             /\ r = [job[p] EXCEPT !.pc = r.pc] /\ job' = [job EXCEPT ![p] = r]
    BY <1>1, <2>2 DEF JobRecord
  <2> QED BY <1>4, <2>1, <2>2
<1>6. /\ Goto(p, "spawn") => r.pc = "spawn"
      /\ Goto(p, "run") => r.pc = "run"
      /\ Goto(p, "release") => r.pc = "release"
      /\ Goto(p, "start") => r.pc = "start"
      /\ End(p) => r.pc = "idle"
  BY <1>1 DEF Goto, End, Idle, JobRecord, ControlInductive, ControlTyped
<1> HIDE DEF r
<1>7. /\ lock' \in {None, p} /\ pidfile' \in 0 .. MaxLaunches
      /\ (pidfile' # 0 /\ pidfile' \notin orphans => lock' = p /\ r.pc = "run" /\ r.launch = pidfile')
      /\ lock' = p \/ \A s \in Launches \ orphans : ~Live(s)
      /\ JobFits(p, r, lock', unit, srv, marker', pidfile')
      /\ r.launch = job[p].launch \/ (lock' = None /\ p # unit)
  <2>0. pidfile \in 0 .. MaxLaunches /\ 0 \in 0 .. MaxLaunches
    BY ControlAssumption DEF ControlInductive, ControlTyped
  <2>1. CASE WriteMarker(p)
    <3>1. job[p].pc = "mark" /\ r.pc = "spawn" /\ lock' = p /\ pidfile' = pidfile
      BY <1>3, <1>6, <2>1 DEF WriteMarker, At
    <3>2. r.launch = job[p].launch /\ r.mode = job[p].mode
      BY <1>5, <2>1, <3>1 DEF Release, At
    <3>3. r.mode # "systemd" => marker' # "systemd"
      BY <2>1, <3>2 DEF WriteMarker
    <3>4. pidfile = 0 \/ pidfile \in orphans
      BY <1>3, <3>1 DEF ControlInductive, Tended, At
    <3>5. JobFits(p, r, lock', unit, srv, marker', pidfile')
      BY <1>0, <1>1, <1>3, <1>5, <3>1, <3>2, <3>3 DEF JobFits, HoldSteps
    <3> QED BY <2>0, <3>1, <3>2, <3>4, <3>5
  <2>2. CASE WritePid(p)
    <3>1. job[p].pc = "pid" /\ r.pc = "run" /\ lock' = p /\ marker' = marker
      BY <1>3, <1>6, <2>2 DEF WritePid, At
    <3>2. r.launch = job[p].launch /\ r.mode = job[p].mode /\ pidfile' = job[p].launch
      BY <1>5, <2>2, <3>1 DEF Release, WritePid, At
    <3>3. JobFits(p, r, lock', unit, srv, marker', pidfile')
      BY <1>1, <1>3, <1>5, <3>1, <3>2 DEF JobFits, HoldSteps
    <3>4. job[p].launch \in 0 .. MaxLaunches
      BY <1>1 DEF JobRecord
    <3> QED BY <3>1, <3>2, <3>3, <3>4
  <2>3. CASE Reap(p)
    <3>1. /\ job[p].pc = "run" /\ r.pc = "release" /\ lock' = p /\ marker' = marker /\ pidfile' = 0
          /\ srv[job[p].launch] = "gone"
      BY <1>3, <1>6, <2>3 DEF Reap, At
    <3>2. r.launch = job[p].launch /\ r.mode = job[p].mode
      BY <1>5, <2>3, <3>1 DEF Release, At
    <3>3. JobFits(p, r, lock', unit, srv, marker', pidfile')
      BY <1>1, <1>3, <1>5, <3>1, <3>2 DEF JobFits, HoldSteps
    <3> QED BY <2>0, <3>1, <3>2, <3>3
  <2>4. CASE Release(p)
    <3>1. /\ job[p].pc = "release" /\ r.pc \in {"start", "idle"} /\ lock' = None
          /\ marker' = marker /\ pidfile' = pidfile
      BY <1>6, <2>4 DEF Release, At
    <3>2. /\ r.launch = job[p].launch \/ r.launch = 0
          /\ r.mode = job[p].mode \/ r.mode = "none"
          /\ r.pc = "start" \/ r.launch = 0
      <4>1. r.pc = "idle" => r.launch = 0
        BY <1>4 DEF Idle, r
      <4> QED BY <1>5, <3>1, <4>1
    <3>3. job[p].mode # "systemd" /\ p # unit /\ srv[job[p].launch] = "gone"
      BY <1>1, <3>1 DEF JobFits
    <3>4. JobFits(p, r, lock', unit, srv, marker', pidfile')
      BY <1>0, <1>1, <1>5, <3>1, <3>2, <3>3 DEF JobFits, HoldSteps
    <3>5. pidfile = 0 \/ pidfile \in orphans
      BY <1>3, <3>1 DEF ControlInductive, Tended, At
    <3>6. \A s \in Launches \ orphans : ~Live(s)
      BY <1>3, <3>3 DEF ControlInductive, Tended, Live
    <3> QED BY <2>0, <3>1, <3>3, <3>4, <3>5, <3>6
  <2> QED BY <2>1, <2>2, <2>3, <2>4
<1>8. ~OnUnit(r)
  BY <1>5 DEF OnUnit, UnitSteps
<1>9. lock \in {None, p}
  BY <1>3
<1> QED BY <1>3, <1>5, <1>7, <1>8, <1>9, HolderStep

(* A runner is started by a command, or by systemd. *)
LEMMA RunnerBegins ==
    ASSUME ControlInductive,
           Connect \/ \E p \in Procs : Daemonize(p) \/ StartService(p)
    PROVE  ControlInductive'
<1> DEFINE r == FreeRunner
<1>0. Runners \subseteq Procs /\ None \notin Procs
  BY ControlAssumption DEF Procs
<1>1. SomeRunner => r \in Runners /\ job[r].pc = "idle"
  BY DEF SomeRunner, FreeRunner, At
<1> HIDE DEF r
<1>2. \A mode \in {"edgedb-cli", "systemd"}, p \in Procs \cup {None} : Runner(mode, p) \in JobRecord
  <2>1. Idle \in JobRecord
    BY ControlAssumption DEF Idle, JobRecord, Steps
  <2>2. ASSUME NEW i \in JobRecord, NEW mode \in {"edgedb-cli", "systemd"}, NEW p \in Procs \cup {None}
        PROVE  [i EXCEPT !.op = "run", !.mode = mode, !.pc = "try", !.parent = p] \in JobRecord
    BY DEF JobRecord, Steps
  <2> QED BY <2>1, <2>2 DEF Runner
<1>3. CASE Connect
  <2>1. /\ supervised /\ unit = None /\ r \in Runners /\ job[r].pc = "idle" /\ unit' = r
        /\ job' = [job EXCEPT ![r] = Runner("systemd", None)]
    BY <1>1, <1>3 DEF Connect, Launch, r
  <2>2. job' \in [Procs -> JobRecord] /\ job'[r] = Runner("systemd", None)
    BY <1>0, <1>2, <2>1 DEF ControlInductive, ControlTyped
  <2>3. \A q \in Procs \ {r} : job'[q] = job[q]
    BY <2>1 DEF ControlInductive, ControlTyped
  <2>4. UNCHANGED <<supervised, record, srv, orphans, launches>>
    BY <1>3 DEF Connect, bounds
  <2> QED BY <2>1, <2>2, <2>3, <2>4, RunnerStarts, SMTT(20)
<1>4. ASSUME NEW p \in Procs, Daemonize(p) PROVE ControlInductive'
  <2>1. /\ job[p].pc = "start" /\ r \in Runners /\ job[r].pc = "idle" /\ unit' = unit
        /\ job' = [job EXCEPT ![r] = Runner("edgedb-cli", p), ![p].pc = "child", ![p].child = r]
    BY <1>1, <1>4 DEF Daemonize, At, systemd, r
  <2>2. p # r /\ job[p] \in JobRecord
    BY <2>1 DEF ControlInductive, ControlTyped
  <2>3. /\ job'[r] = Runner("edgedb-cli", p) /\ job'[p] = [job[p] EXCEPT !.pc = "child", !.child = r]
        /\ \A q \in Procs \ {r, p} : job'[q] = job[q]
    BY <1>0, <2>1, <2>2 DEF ControlInductive, ControlTyped
  <2>4. /\ [job[p] EXCEPT !.pc = "child", !.child = r] \in JobRecord
        /\ job'[p].pc = "child" /\ job'[p].launch = job[p].launch /\ job'[p].seen = job[p].seen
        /\ job'[p].stale = job[p].stale /\ job'[p].mode = job[p].mode /\ job'[p].pid = job[p].pid
    <3>1. r \in Procs \cup {None} /\ "child" \in Steps
      BY <1>0, <2>1 DEF Steps
    <3>2. [job[p] EXCEPT !.pc = "child", !.child = r] \in JobRecord
      BY <2>2, <3>1 DEF JobRecord
    <3> QED BY <2>2, <2>3, <3>2 DEF JobRecord
  <2>5. job' \in [Procs -> JobRecord]
    <3>1. DOMAIN job' = Procs /\ job' = [q \in Procs |-> job'[q]]
      BY <2>1 DEF ControlInductive, ControlTyped
    <3>2. \A q \in Procs : job'[q] \in JobRecord
      BY <1>2, <2>3, <2>4 DEF ControlInductive, ControlTyped
    <3> QED BY <3>1, <3>2
  <2>6. UNCHANGED <<supervised, record, srv, orphans, launches>>
    BY <1>4 DEF Daemonize, bounds, systemd
  <2>7. \A q \in Procs \ {r} :
              \/ job'[q] = job[q]
              \/ /\ job[q].pc = "start" /\ job'[q].pc \in {"child", "started"}
                 /\ job'[q].launch = job[q].launch /\ job'[q].seen = job[q].seen
                 /\ job'[q].stale = job[q].stale /\ job'[q].mode = job[q].mode /\ job'[q].pid = job[q].pid
    BY <2>1, <2>3, <2>4
  <2>8. r \in Runners /\ job[r].pc = "idle" /\ unit' = unit
    BY <2>1
  <2> QED BY <2>3, <2>5, <2>6, <2>7, <2>8, RunnerStarts, SMTT(20)
<1>5. ASSUME NEW p \in Procs, StartService(p), unit = None PROVE ControlInductive'
  <2>1. /\ job[p].pc = "start" /\ r \in Runners /\ job[r].pc = "idle" /\ unit' = r /\ supervised
        /\ job' = [[job EXCEPT ![p].pc = "started"] EXCEPT ![r] = Runner("systemd", None)]
    BY <1>1, <1>5 DEF StartService, Launch, At, r
  <2>2. p # r /\ job[p] \in JobRecord
    BY <2>1 DEF ControlInductive, ControlTyped
  <2>3. /\ job'[r] = Runner("systemd", None) /\ job'[p] = [job[p] EXCEPT !.pc = "started"]
        /\ \A q \in Procs \ {r, p} : job'[q] = job[q]
    BY <1>0, <2>1, <2>2 DEF ControlInductive, ControlTyped
  <2>4. /\ [job[p] EXCEPT !.pc = "started"] \in JobRecord
        /\ job'[p].pc = "started" /\ job'[p].launch = job[p].launch /\ job'[p].seen = job[p].seen
        /\ job'[p].stale = job[p].stale /\ job'[p].mode = job[p].mode /\ job'[p].pid = job[p].pid
    BY <2>2, <2>3 DEF JobRecord, Steps
  <2>5. job' \in [Procs -> JobRecord]
    <3>1. DOMAIN job' = Procs /\ job' = [q \in Procs |-> job'[q]]
      BY <2>1 DEF ControlInductive, ControlTyped
    <3>2. \A q \in Procs : job'[q] \in JobRecord
      BY <1>2, <2>3, <2>4 DEF ControlInductive, ControlTyped
    <3> QED BY <3>1, <3>2
  <2>6. UNCHANGED <<supervised, record, srv, orphans, launches>>
    BY <1>5 DEF StartService, bounds
  <2>7. \A q \in Procs \ {r} :
              \/ job'[q] = job[q]
              \/ /\ job[q].pc = "start" /\ job'[q].pc \in {"child", "started"}
                 /\ job'[q].launch = job[q].launch /\ job'[q].seen = job[q].seen
                 /\ job'[q].stale = job[q].stale /\ job'[q].mode = job[q].mode /\ job'[q].pid = job[q].pid
    BY <2>1, <2>3, <2>4
  <2>8. r \in Runners /\ job[r].pc = "idle" /\ supervised /\ unit = None /\ unit' = r
    BY <1>5, <2>1
  <2> QED BY <2>3, <2>5, <2>6, <2>7, <2>8, RunnerStarts, SMTT(20)
<1>6. ASSUME NEW p \in Procs, StartService(p), unit # None PROVE ControlInductive'
  <2>1. job[p].pc = "start" /\ Goto(p, "started")
    BY <1>6 DEF StartService, At, Goto
  <2>2. UNCHANGED <<supervised, unit, record, srv, orphans, launches>>
    BY <1>6 DEF StartService, bounds, ControlInductive, ControlTyped
  <2>3. "started" \in Steps /\ "started" \notin HoldSteps /\ "started" \notin UnitSteps
    BY DEF Steps, HoldSteps, UnitSteps
  <2>4. job[p].pc \notin HoldSteps
    BY <2>1 DEF HoldSteps
  <2> QED BY <2>1, <2>2, <2>3, <2>4, PcStep
<1> QED BY <1>3, <1>4, <1>5, <1>6

(* systemd stops the unit: its server, or the runner that is no server yet. *)
LEMMA StopsUnit ==
    ASSUME ControlInductive, NEW p \in Procs, StopUnit(p)
    PROVE  ControlInductive'
<1>0. Runners \subseteq Procs /\ None \notin Procs
  BY ControlAssumption DEF Procs
<1>1. job[p] \in JobRecord /\ JobFits(p, job[p], lock, unit, srv, marker, pidfile)
  BY ItsJob
<1>2. job[p].pc = "stop unit"
  BY DEF StopUnit, At
<1>3. /\ "unit stopped" \in Steps /\ "unit stopped" \notin HoldSteps
      /\ "stop unit" \notin HoldSteps /\ "stop unit" \in UnitSteps
  BY DEF Steps, UnitSteps, HoldSteps
<1>4. [job[p] EXCEPT !.pc = "unit stopped"] \in JobRecord
  BY <1>1, <1>3 DEF JobRecord
<1>5. Waits(job[p], [job[p] EXCEPT !.pc = "unit stopped"])
  BY <1>1, <1>2 DEF Waits, JobRecord
<1>6. unit # None => unit \in Procs
  BY <1>0 DEF ControlInductive, ControlTyped
<1>7. UNCHANGED <<supervised, marker, pidfile, orphans, launches>>
  BY DEF StopUnit, bounds, ControlInductive, ControlTyped
<1>8. CASE (unit = None \/ At(unit, "server")) /\ (unit = None \/ ~Live(job[unit].launch))
  <2>1. Goto(p, "unit stopped") /\ UNCHANGED <<unit, lock, srv>>
    BY <1>8 DEF StopUnit
  <2>2. UNCHANGED <<supervised, unit, record, srv, orphans, launches>>
    BY <1>7, <2>1 DEF record
  <2> QED BY <1>2, <1>3, <1>7, <2>1, <2>2, PcStep
<1>9. CASE unit # None /\ At(unit, "server") /\ Live(job[unit].launch)
  <2>1. /\ Goto(p, "unit stopped") /\ UNCHANGED <<unit, lock>>
        /\ srv' = [srv EXCEPT ![job[unit].launch] = "stopping"]
    BY <1>9 DEF StopUnit
  <2>2. job' = [job EXCEPT ![p] = [job[p] EXCEPT !.pc = "unit stopped"]]
    BY <2>1 DEF Goto
  <2>3. job' \in [Procs -> JobRecord] /\ \A q \in Procs : Waits(job[q], job'[q])
    BY <1>4, <1>5, <2>2 DEF ControlInductive, ControlTyped, Waits
  <2>4. job[unit].launch \in Launches
    <3>1. job[unit].launch \in 0 .. MaxLaunches
      BY <1>6, <1>9 DEF ControlInductive, ControlTyped, JobRecord
    <3> QED BY <1>9, <3>1, ControlAssumption DEF Live, Launches
  <2>5. UNCHANGED <<supervised, unit, record, orphans, launches>>
    BY <1>7, <2>1 DEF record
  <2> QED BY <1>9, <2>1, <2>3, <2>4, <2>5, ServerStep
<1>10. CASE unit # None /\ ~At(unit, "server")
  <2>1. /\ job' = [job EXCEPT ![p].pc = "unit stopped", ![unit] = Idle] /\ unit' = None
        /\ srv' = srv /\ lock' = IF lock = unit THEN None ELSE lock
    BY <1>10 DEF StopUnit
  <2>2. unit \in Procs /\ job[unit] \in JobRecord
        /\ JobFits(unit, job[unit], lock, unit, srv, marker, pidfile)
    BY <1>6, <1>10, ItsJob
  <2>3. job[unit].pc \in {"try", "wait", "mark", "spawn"}
    BY <1>10, <2>2 DEF JobFits, At
  <2>4. unit # p /\ job[unit].launch = 0
    BY <1>2, <2>2, <2>3 DEF JobFits
  <2>5. /\ job'[unit] = Idle /\ job'[p] = [job[p] EXCEPT !.pc = "unit stopped"]
        /\ \A q \in Procs \ {unit, p} : job'[q] = job[q]
    BY <2>1, <2>2, <2>4 DEF ControlInductive, ControlTyped
  <2>6. job' \in [Procs -> JobRecord]
    <3>1. Idle \in JobRecord
      BY ControlAssumption DEF Idle, JobRecord, Steps
    <3>2. DOMAIN job' = Procs /\ job' = [q \in Procs |-> job'[q]]
      BY <2>1 DEF ControlInductive, ControlTyped
    <3>3. \A q \in Procs : job'[q] \in JobRecord
      BY <1>4, <2>5, <3>1 DEF ControlInductive, ControlTyped
    <3> QED BY <3>2, <3>3
  <2>7. \A q \in Procs \ {unit} : Waits(job[q], job'[q])
    BY <1>5, <2>5 DEF Waits
  <2>8. /\ srv' \in [Launches -> {"none", "starting", "ready", "stopping", "gone"}]
        /\ Goes(srv, srv') /\ \A s \in Launches : srv'[s] = "none" <=> srv[s] = "none"
    BY <2>1 DEF Goes, ControlInductive, ControlTyped
  <2>9. /\ \A s \in Launches : Live(s)' => Live(s)
        /\ orphans \subseteq orphans' /\ ~LiveIn(srv', job[unit].launch) /\ job[unit].pc \notin {"pid", "run"}
    BY <1>7, <2>1, <2>3, <2>4 DEF Live, LiveIn
  <2>10. unit' = IF unit = unit THEN None ELSE unit
    BY <2>1
  <2> QED BY <1>7, <2>1, <2>2, <2>5, <2>6, <2>7, <2>8, <2>9, <2>10, Ends
<1> QED BY <1>8, <1>9, <1>10

(* A server gets ready, is told to stop, or ends. *)
LEMMA ServersGo ==
    ASSUME ControlInductive, NEW s \in Launches,
           GetReady(s) \/ Refuse(s) \/ ShutDown(s) \/ Crash(s) \/ Exit(s)
    PROVE  ControlInductive'
<1>1. PICK x \in {"ready", "stopping", "gone"} : srv' = [srv EXCEPT ![s] = x]
  BY DEF GetReady, Refuse, ShutDown, Crash, Exit, Become
<1>2. Live(s)
  <2>1. s # 0
    <3>1. \A t \in 1 .. MaxLaunches : t # 0
      BY ControlAssumption
    <3> QED BY <3>1 DEF Launches
  <2> QED BY <2>1 DEF GetReady, Refuse, ShutDown, Crash, Exit, Live
<1>3. job' = job /\ UNCHANGED <<supervised, unit, record, orphans, launches>>
  BY DEF GetReady, Refuse, ShutDown, Crash, Exit, systemd, bounds
<1>4. job' \in [Procs -> JobRecord] /\ \A q \in Procs : Waits(job[q], job'[q])
  BY <1>3 DEF ControlInductive, ControlTyped, Waits
<1> QED BY <1>1, <1>2, <1>3, <1>4, ServerStep

(* A process ends with its server, or before it. *)
LEMMA Dies ==
    ASSUME ControlInductive, NEW p \in Procs, ExitUnit(p) \/ Interrupt(p) \/ Kill(p)
    PROVE  ControlInductive'
<1>0. Runners \subseteq Procs /\ None \notin Procs
  BY ControlAssumption DEF Procs
<1>1. job[p] \in JobRecord /\ JobFits(p, job[p], lock, unit, srv, marker, pidfile)
  BY ItsJob
<1>2. End(p)
  BY DEF ExitUnit, Interrupt, Kill
<1>3. job' \in [Procs -> JobRecord] /\ job'[p] = Idle
  <2>1. Idle \in JobRecord
    BY ControlAssumption DEF Idle, JobRecord, Steps
  <2> QED BY <1>2, <2>1 DEF End, ControlInductive, ControlTyped
<1>4. \A q \in Procs \ {p} : Waits(job[q], job'[q])
  BY <1>2 DEF End, Waits, ControlInductive, ControlTyped
<1>5. UNCHANGED <<supervised, marker, pidfile, launches>>
  BY DEF ExitUnit, Interrupt, Kill, systemd, bounds
<1>6. /\ lock' = IF lock = p THEN None ELSE lock
      /\ unit' = IF unit = p THEN None ELSE unit
  <2>1. CASE ExitUnit(p)
    <3>1. lock = p /\ unit = p
      BY <1>1, <2>1 DEF ExitUnit, At, JobFits, HoldSteps
    <3> QED BY <2>1, <3>1 DEF ExitUnit
  <2>2. CASE Interrupt(p)
    <3>1. lock = p /\ unit # p
      BY <1>1, <2>2 DEF Interrupt, At, JobFits, HoldSteps
    <3> QED BY <2>2, <3>1 DEF Interrupt, systemd
  <2>3. CASE Kill(p)
    BY <2>3 DEF Kill
  <2> QED BY <2>1, <2>2, <2>3
<1>7. job[p].launch # 0 => job[p].launch \in Launches
  BY <1>1, ControlAssumption DEF JobRecord, Launches
<1>8. /\ srv' \in [Launches -> {"none", "starting", "ready", "stopping", "gone"}]
      /\ Goes(srv, srv') /\ \A s \in Launches : srv'[s] = "none" <=> srv[s] = "none"
  <2>1. CASE srv' = srv
    BY <2>1 DEF Goes, ControlInductive, ControlTyped
  <2>2. CASE Interrupt(p)
    <3>1. srv' = [srv EXCEPT ![job[p].launch] = "stopping"] /\ Live(job[p].launch)
      BY <2>2 DEF Interrupt, Become
    <3> QED BY <3>1 DEF Goes, Live, ControlInductive, ControlTyped
  <2> QED BY <2>1, <2>2 DEF ExitUnit, Kill
<1>9. /\ \A s \in Launches : Live(s)' => Live(s)
      /\ orphans \subseteq orphans'
  <2>1. CASE srv' = srv
    BY <2>1 DEF Live, ExitUnit, Interrupt, Kill, bounds
  <2>2. CASE Interrupt(p)
    <3>1. srv' = [srv EXCEPT ![job[p].launch] = "stopping"] /\ Live(job[p].launch)
      BY <2>2 DEF Interrupt, Become
    <3> QED BY <2>2, <3>1 DEF Interrupt, Live, ControlInductive, ControlTyped
  <2> QED BY <2>1, <2>2 DEF ExitUnit, Kill
<1>10. /\ unit = p => ~LiveIn(srv', job[p].launch)
       /\ job[p].pc \in {"pid", "run"} \/ LiveIn(srv', job[p].launch) => job[p].launch \in orphans'
  <2>1. CASE ExitUnit(p)
    BY <2>1 DEF ExitUnit, At, LiveIn
  <2>2. CASE Interrupt(p)
    BY <1>1, <2>2 DEF Interrupt, JobFits, At
  <2>3. CASE Kill(p)
    <3>1. job[p].pc \notin {"pid", "run"} => srv' = srv /\ (job[p].launch = 0 \/ srv[job[p].launch] = "gone")
      BY <1>1, <2>3 DEF Kill, At, JobFits
    <3>2. unit = p => job[p].pc \notin {"pid", "run"}
      BY <1>1 DEF JobFits
    <3>3. ASSUME job[p].pc \notin {"pid", "run"} PROVE ~LiveIn(srv', job[p].launch)
      BY <3>1, <3>3 DEF LiveIn
    <3> QED BY <2>3, <3>2, <3>3 DEF Kill
  <2> QED BY <2>1, <2>2, <2>3
<1> QED BY <1>3, <1>4, <1>5, <1>6, <1>8, <1>9, <1>10, Ends

(* Every step keeps the invariant. *)
LEMMA ControlStep == ControlInductive /\ [ControlNext]_control => ControlInductive'
<1> SUFFICES ASSUME ControlInductive, [ControlNext]_control PROVE ControlInductive'
  OBVIOUS
<1>0. Users \subseteq Procs
  BY DEF Procs
<1>1. CASE Connect
  BY <1>1, RunnerBegins
<1>2. ASSUME NEW p \in Users,
             StartCommand(p) \/ Stop(p) \/ Restart(p) \/ StopAndDisable(p)
             \/ \E mode \in {"user", "auto"} : Foreground(p, mode)
      PROVE  ControlInductive'
  <2>1. PICK op \in {"run", "start", "stop", "restart", "disable"}, mode \in {"none", "user", "auto"},
             pc \in {"try", "start", "look"}, then \in {"end", "wait", "start"} :
                Command(p, op, mode, pc, then)
    BY <1>2 DEF StartCommand, Stop, Restart, StopAndDisable, Foreground
  <2> QED BY <1>0, <2>1, CommandBegins
<1>3. ASSUME NEW p \in Users, Interrupt(p) PROVE ControlInductive'
  BY <1>0, <1>3, Dies
<1>4. ASSUME NEW p \in Procs, Kill(p) PROVE ControlInductive'
  BY <1>4, Dies
<1>5. ASSUME NEW p \in Procs, Work(p) PROVE ControlInductive'
  <2>1. CASE Try(p) \/ Wait(p)
    BY <2>1, Tries
  <2>2. CASE WriteMarker(p) \/ WritePid(p) \/ Reap(p) \/ Release(p)
    BY <2>2, HolderSteps
  <2>3. CASE SpawnServer(p)
    BY <2>3, ServerSpawns
  <2>4. CASE Daemonize(p) \/ StartService(p)
    BY <2>4, RunnerBegins
  <2>5. CASE AlreadyRuns(p) \/ Daemonized(p) \/ ServiceStarted(p) \/ StopSocket(p) \/ UnitStopped(p)
             \/ Unlocked(p)
    BY <2>5, Simple
  <2>6. CASE StopUnit(p)
    BY <2>6, StopsUnit
  <2>7. CASE Look(p)
    BY <2>7, Looks
  <2>8. CASE ReadPid(p)
    BY <2>8, ReadsPid
  <2>9. CASE Terminate(p)
    BY <2>9, Terminates
  <2>10. CASE ExitUnit(p)
    BY <2>10, Dies
  <2> QED BY <1>5, <2>1, <2>2, <2>3, <2>4, <2>5, <2>6, <2>7, <2>8, <2>9, <2>10 DEF Work
<1>6. ASSUME NEW s \in Launches, GetReady(s) \/ Refuse(s) \/ ShutDown(s) \/ Crash(s) \/ Exit(s)
      PROVE  ControlInductive'
  BY <1>6, ServersGo
<1>7. CASE UNCHANGED control
  BY <1>7 DEF control, systemd, record, bounds, ControlInductive, ControlTyped, ControlFits, Tended,
              Live, At
<1> QED BY <1>1, <1>2, <1>3, <1>4, <1>5, <1>6, <1>7 DEF ControlNext

-----------------------------------------------------------------------------
(* Theorems *)

(* A server lives only under service.lock, which its own runner holds, so    *)
(* that never two serve one data directory, unless its runner died before    *)
(* it, by a Ctrl-C or a kill; no command is about to signal a pid that a     *)
(* runner which did not die left behind; and when nothing is under way and   *)
(* no such orphan lives, `instance status` tells whether a server runs.  For *)
(* any number of commands, runners, launches and faults                      *)
(* (run_server_by_cli, do_stop, service_status).                             *)
THEOREM OneServer == Spec => []ServerInv
<1>1. ControlInit => ControlInductive
  BY ControlStart
<1>2. ControlInductive /\ [ControlNext]_control => ControlInductive'
  BY ControlStep
<1>3. ControlInductive => ServerInv
  BY ServersServe
<1> QED BY <1>1, <1>2, <1>3, PTL DEF Spec

(* What a process of the user does is its own: only it changes its job. *)
LEMMA OwnJob ==
    ASSUME ControlTyped, NEW p \in Users, job[p].op # "run",
           job[p].pc \in {"unlock", "unit stopped"}, [ControlNext]_control, job'[p] # job[p]
    PROVE  Unlocked(p) \/ UnitStopped(p)
<1>0. /\ p \in Procs /\ p \notin Runners /\ Users \subseteq Procs /\ p # None
      /\ unit # p /\ job = [q \in Procs |-> job[q]]
  BY ControlAssumption DEF Procs, ControlTyped
<1>1. ASSUME NEW q \in Procs, NEW r, job' = [job EXCEPT ![q] = r] PROVE q = p
  BY <1>0, <1>1
<1>2. SomeRunner => FreeRunner # p
  <2>1. SomeRunner => FreeRunner \in Runners
    BY DEF SomeRunner, FreeRunner
  <2> QED BY <1>0, <2>1
<1>3. ~Connect
  <2>1. Connect => SomeRunner /\ job' = [job EXCEPT ![FreeRunner] = Runner("systemd", None)]
    BY DEF Connect, Launch
  <2> QED BY <1>0, <1>2, <2>1
<1>4. ASSUME NEW q \in Procs, NEW op, NEW mode, NEW pc, NEW then, Command(q, op, mode, pc, then)
      PROVE  FALSE
  <2>1. job[q].pc = "idle" /\ q # p
    BY <1>4 DEF Command, Free, At
  <2> QED BY <1>1, <1>4, <2>1 DEF Command
<1>5. ASSUME NEW q \in Procs, Interrupt(q) \/ Kill(q) PROVE FALSE
  <2>1. job[q].op = "run" /\ q # p
    BY <1>5 DEF Interrupt, Kill
  <2> QED BY <1>1, <1>5, <2>1 DEF Interrupt, Kill, End
<1>6. ASSUME NEW q \in Procs, Daemonize(q) \/ StartService(q) PROVE FALSE
  <2>1. q # p
    BY <1>6 DEF Daemonize, StartService, At
  <2>2. CASE Daemonize(q)
    <3>1. SomeRunner /\ job' = [job EXCEPT ![FreeRunner] = Runner("edgedb-cli", q),
                                           ![q].pc = "child", ![q].child = FreeRunner]
      BY <2>2 DEF Daemonize
    <3> QED BY <1>0, <1>2, <2>1, <3>1
  <2>3. CASE StartService(q) /\ unit = None
    <3>1. /\ SomeRunner
          /\ job' = [[job EXCEPT ![q].pc = "started"] EXCEPT ![FreeRunner] = Runner("systemd", None)]
      BY <2>3 DEF StartService, Launch
    <3> QED BY <1>0, <1>2, <2>1, <3>1
  <2>4. CASE StartService(q) /\ unit # None
    BY <1>0, <2>1, <2>4 DEF StartService
  <2> QED BY <1>6, <2>2, <2>3, <2>4
<1>7. ASSUME NEW q \in Procs, StopUnit(q) PROVE FALSE
  <2>1. q # p
    BY <1>7 DEF StopUnit, At
  <2>2. job' = [job EXCEPT ![q].pc = "unit stopped"]
        \/ job' = [job EXCEPT ![q].pc = "unit stopped", ![unit] = Idle]
    BY <1>7 DEF StopUnit, Goto
  <2> QED BY <1>0, <2>1, <2>2
<1>8. ASSUME NEW q \in Procs,
             Try(q) \/ Wait(q) \/ WriteMarker(q) \/ SpawnServer(q) \/ WritePid(q) \/ Reap(q) \/ Release(q)
             \/ AlreadyRuns(q) \/ Daemonized(q) \/ ServiceStarted(q) \/ StopSocket(q)
             \/ Look(q) \/ ReadPid(q) \/ Terminate(q) \/ ExitUnit(q)
      PROVE  FALSE
  <2>1. q # p
    BY <1>8 DEF Try, Wait, WriteMarker, SpawnServer, WritePid, Reap, Release, AlreadyRuns, Daemonized,
                ServiceStarted, StopSocket, Look, ReadPid, Terminate, ExitUnit, At
  <2>2. \A pc : ~Goto(q, pc)
    BY <1>0, <2>1 DEF Goto
  <2>3. ~End(q)
    BY <1>0, <2>1 DEF End
  <2>4. ~Try(q)
    BY <1>0, <2>1, <2>2, <2>3 DEF Try
  <2>5. ~Wait(q) /\ ~WriteMarker(q) /\ ~WritePid(q) /\ ~Reap(q) /\ ~Release(q)
    BY <2>2, <2>3 DEF Wait, WriteMarker, WritePid, Reap, Release
  <2>6. ~AlreadyRuns(q) /\ ~Daemonized(q) /\ ~ServiceStarted(q) /\ ~StopSocket(q) /\ ~ExitUnit(q)
    BY <2>2, <2>3 DEF AlreadyRuns, Daemonized, ServiceStarted, StopSocket, ExitUnit
  <2>7. ~Terminate(q)
    BY <2>2, <2>3 DEF Terminate
  <2>8. ~SpawnServer(q)
    BY <1>0, <2>1 DEF SpawnServer
  <2>9. ~Look(q)
    BY <1>0, <2>1, <2>3 DEF Look
  <2>10. ~ReadPid(q)
    BY <1>0, <2>1, <2>2, <2>3 DEF ReadPid, Proceed
  <2> QED BY <1>8, <2>4, <2>5, <2>6, <2>7, <2>8, <2>9, <2>10
<1>9. ASSUME NEW q \in Procs, UnitStopped(q) \/ Unlocked(q) PROVE q = p
  BY <1>0, <1>9 DEF UnitStopped, Unlocked, Proceed, Goto, End
<1>10. ~UNCHANGED control
  BY DEF control
<1>11. ASSUME NEW s \in Launches, GetReady(s) \/ Refuse(s) \/ ShutDown(s) \/ Crash(s) \/ Exit(s)
       PROVE  FALSE
  BY <1>11 DEF GetReady, Refuse, ShutDown, Crash, Exit
<1>12. ASSUME NEW q \in Users,
              StartCommand(q) \/ Stop(q) \/ Restart(q) \/ StopAndDisable(q)
              \/ \E mode \in {"user", "auto"} : Foreground(q, mode)
       PROVE  FALSE
  BY <1>0, <1>4, <1>12 DEF StartCommand, Stop, Restart, StopAndDisable, Foreground
<1>13. ControlNext
  BY <1>10
<1>14. PICK q \in Procs : Work(q)
  BY <1>0, <1>3, <1>5, <1>11, <1>12, <1>13 DEF ControlNext
<1>15. UnitStopped(q) \/ Unlocked(q)
  BY <1>6, <1>7, <1>8, <1>14 DEF Work
<1> QED BY <1>9, <1>15

(* A `stop` that ends well leaves the server gone whose runner held the lock *)
(* when it looked, whoever that was and whoever stopped it or started        *)
(* another meanwhile, for any number of them, unless that runner died before *)
(* the server: the lock is free then while the server still stops (do_stop). *)
THEOREM StopsStop == Spec => StopStops
<1>1. ASSUME ControlInductive, [ControlNext]_control, NEW p \in Users,
             job[p].op = "stop", job[p].pc \in {"unlock", "unit stopped"}, job'[p].pc = "idle",
             job[p].seen \notin orphans, job[p].seen # 0
      PROVE  srv'[job[p].seen] = "gone"
  <2>1. p \in Procs
    BY DEF Procs
  <2>2. Unlocked(p) \/ UnitStopped(p)
    BY <1>1, OwnJob DEF ControlInductive
  <2>3. srv' = srv
    BY <2>2 DEF Unlocked, UnitStopped
  <2>4. job[p].seen \in Launches /\ srv[job[p].seen] # "none"
    <3>1. job[p] \in JobRecord /\ JobFits(p, job[p], lock, unit, srv, marker, pidfile)
      BY <1>1, <2>1, ItsJob
    <3>2. job[p].seen \in 0 .. MaxLaunches /\ srv[job[p].seen] # "none"
      BY <1>1, <3>1 DEF JobRecord, JobFits
    <3>3. \A n \in 0 .. MaxLaunches : n # 0 => n \in Launches
      BY ControlAssumption DEF Launches
    <3> QED BY <1>1, <3>2, <3>3
  <2>5. ~Live(job[p].seen)
    <3>1. Tended
      BY <1>1 DEF ControlInductive
    <3>2. CASE Unlocked(p)
      BY <1>1, <2>4, <3>1, <3>2 DEF Unlocked, Tended
    <3>3. CASE UnitStopped(p)
      BY <1>1, <2>1, <3>1, <3>3 DEF UnitStopped, Tended, OnUnit, UnitSteps, At
    <3> QED BY <2>2, <3>2, <3>3
  <2> QED BY <1>1, <2>3, <2>4, <2>5 DEF Live, ControlInductive, ControlTyped
<1>2. ControlInductive /\ [ControlNext]_control
      => [\A p \in Users :
            /\ job[p].op = "stop" /\ job[p].pc \in {"unlock", "unit stopped"}
            /\ job'[p].pc = "idle" /\ job[p].seen \notin orphans
            => job[p].seen = 0 \/ srv'[job[p].seen] = "gone"]_control
  BY <1>1
<1> QED BY <1>2, ControlStart, ControlStep, PTL DEF Spec, StopStops
=============================================================================
