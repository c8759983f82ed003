-------------------------------- MODULE CLI --------------------------------
(***************************************************************************)
(* The executable of the command line tool: who owns it, `cli upgrade`,    *)
(* `cli install` and the check for a newer version.  A file of the         *)
(* installation directory is a name for an inode, so that a process goes   *)
(* on writing or running what another one has renamed or removed.          *)
(***************************************************************************)
EXTENDS Integers, Sequences, FiniteSets

CONSTANTS
    Installers,          \* processes
    Builds, Nightly,     \* versions of the tool in the registry; those with "-dev." in them
    Packed,              \* versions published as a compressed file
    MaxRuns, MaxDeaths

ASSUME BuildsAssumption == Builds \subseteq Nat \ {0} /\ Nightly \subseteq Builds

VARIABLES
    host,    \* where the executable is, and what the file system can do
    disk,    \* inode of each name, 0 if there is none
    inodes,  \* builds written to each inode since it was opened last, by whom, complete
    acting,  \* what each process does
    cached,  \* version_check.json
    warned,  \* the newer version a process has told of last (history)
    raced,   \* two installs copied or linked at once (history)
    ran, deaths

cli == <<host, disk, inodes, acting, cached, warned, raced, ran, deaths>>
installed == <<disk, inodes>>

Commands == {"gel", "edgedb"}       \* BRANDING_CLI_CMD_FILE and its old name
Gel == <<"gel", "">>
Alt == <<"edgedb", "">>
Setup == <<"setup", "">>             \* an executable outside of the directory
Copy == <<"gel", "copy">>
FileNames == {Setup, Copy} \cup (Commands \X {"", "download", "tmp", "backup"})
Oldest == CHOOSE b \in Builds : \A c \in Builds : b <= c
SymLink == -1                       \* `edgedb` is a symbolic link to `gel`
ChannelOf(b) == IF b \in Nightly THEN "nightly" ELSE "stable"
\* cli_package: the latest of the registry's packages for a channel
Newest(channel) ==
    {b \in Builds : ChannelOf(b) = channel /\ \A c \in Builds : ChannelOf(c) = channel => c <= b}
Resting == [pc |-> "rest", via |-> "gel", self |-> 0, build |-> 0, from |-> Gel, ino |-> 0,
            src |-> 0, exe |-> 0, alone |-> TRUE]
Unchecked == [build |-> 0, fresh |-> FALSE]

Inode(f) == IF disk[f] = SymLink THEN disk[Gel] ELSE disk[f]
Content(f) == inodes[Inode(f)]
WholeFile(f) == Inode(f) # 0 /\ Content(f).done
Writing(p, i) == acting[p].pc \in {"receive", "decode", "copied"} /\ acting[p].ino = i
Running(p, i) == acting[p].exe = i /\ i # 0
Complete(b, p) == [builds |-> {b}, by |-> p, done |-> TRUE]
BuildOf(f) == CHOOSE b \in Content(f).builds : TRUE

Literal == {"nix", "homebrew"} \* and Scoop's and WinGet's, which are told alike
Places == {"home", "elsewhere", "renamed scoop", "system"} \cup Literal

CLIInit ==
    /\ host \in [raw : Places, resolved : Places, database : BOOLEAN, hard : BOOLEAN, far : BOOLEAN]
    /\ host.raw # host.resolved => host.raw = "home" /\ host.resolved # "elsewhere"
    /\ host.raw # "home" => ~host.far
    /\ host.hard \/ ~(host.far \/ host.raw # host.resolved)
    /\ host.database => host.resolved = "system"
    /\ \E b \in Newest("stable"), old \in {0, 1} :
          /\ inodes = <<Complete(Oldest, "nobody"), Complete(b, "nobody")>>
          /\ disk = [f \in FileNames |-> CASE f = Gel -> old [] f = Setup -> 2 [] OTHER -> 0]
    /\ acting = [p \in Installers |-> Resting]
    /\ cached = Unchecked /\ warned = <<0, 0>> /\ raced = FALSE /\ ran = 0 /\ deaths = 0

(* install_manager *)

\* detect_from_path: the database of the system's package manager is asked only about
\* a path under /usr/bin or /bin, and Scoop's roots are matched beside the literal names
DetectFromPath(place) ==
    IF place \in Literal \cup {"renamed scoop"} THEN place
    ELSE IF place = "system" /\ host.database THEN "apt" ELSE "direct"
Detect ==
    IF DetectFromPath(host.raw) # "direct" THEN DetectFromPath(host.raw)
    ELSE DetectFromPath(host.resolved)

OwnedByManager ==
    \/ host.resolved \in Literal \cup {"renamed scoop"}
    \/ host.resolved = "system" /\ host.database

(* One run of the tool at a time in each process *)

Do(p, job) == acting' = [acting EXCEPT ![p] = job]
Go(p, pc) == Do(p, [acting[p] EXCEPT !.pc = pc])
Starts(p, job) ==
    /\ acting[p].pc = "rest" /\ ran < MaxRuns /\ ran' = ran + 1
    /\ LET others == {q \in Installers \ {p} : acting[q].pc # "rest"} IN
       acting' = [q \in Installers |->
           IF q = p THEN [job EXCEPT !.alone = others = {}]
           ELSE IF q \in others THEN [acting[q] EXCEPT !.alone = FALSE] ELSE acting[q]]
Gives(p) == Do(p, Resting) /\ UNCHANGED installed
rest == <<host, cached, warned, raced, ran, deaths>>

(* upgrade::upgrade *)

MayUpgrade == Detect = "direct" /\ host.raw = "home"

\* `cli upgrade` through either name; a symbolic link resolves to its target
Upgrade(p, via, channel, force) ==
    /\ WholeFile(<<via, "">>) /\ MayUpgrade
    /\ \E b \in Newest(channel) :
          /\ force \/ channel # ChannelOf(BuildOf(<<via, "">>)) \/ b > BuildOf(<<via, "">>)
          /\ Starts(p, [Resting EXCEPT !.pc = "open", !.self = BuildOf(<<via, "">>), !.build = b,
                                       !.via = IF disk[<<via, "">>] = SymLink THEN "gel" ELSE via])
    /\ UNCHANGED <<installed, host, cached, warned, raced, deaths>>

\* deferred to the package manager, outside of the home directory, or up to date
UpgradeNothing(p) ==
    /\ WholeFile(Gel)
    /\ MayUpgrade => \A b \in Newest(ChannelOf(BuildOf(Gel))) : b <= BuildOf(Gel)
    /\ Starts(p, Resting) /\ UNCHANGED <<installed, host, cached, warned, raced, deaths>>

Open(f, p, builds, next) ==
    LET i == IF disk[f] = 0 THEN Len(inodes) + 1 ELSE Inode(f)
        file == [builds |-> builds \cup {acting[q].build : q \in {q \in Installers : Writing(q, i)}},
                 by |-> p, done |-> FALSE]
    IN /\ disk' = [disk EXCEPT ![f] = i]
       /\ inodes' = IF disk[f] = 0 THEN Append(inodes, file) ELSE [inodes EXCEPT ![i] = file]
       /\ Do(p, [acting[p] EXCEPT !.pc = next, !.ino = i])

\* File::create truncates the download of another process, which writes on
Receive(p) ==
    /\ acting[p].pc = "open" /\ Open(<<acting[p].via, "download">>, p, {acting[p].build}, "receive")
    /\ UNCHANGED rest

\* The hash is of the bytes received, not of the file
Received(p) ==
    /\ acting[p].pc = "receive" /\ Go(p, "unpack")
    /\ LET i == acting[p].ino IN
       inodes' = [inodes EXCEPT ![i].done = @ \/ (inodes[i].by = p /\ Cardinality(inodes[i].builds) = 1)]
    /\ UNCHANGED <<disk, rest>>

\* unpack_file: a compressed package is decoded into a new file
Decode(p) ==
    LET down == <<acting[p].via, "download">>
        tmp == <<acting[p].via, "tmp">>
    IN /\ acting[p].pc = "unpack" /\ acting[p].build \in Packed
       /\ IF disk[down] = 0 THEN Gives(p)
          ELSE /\ inodes' = Append(inodes, [builds |-> {}, by |-> p, done |-> FALSE])
               /\ disk' = [disk EXCEPT ![tmp] = Len(inodes) + 1]
               /\ Do(p, [acting[p] EXCEPT !.pc = "decode", !.ino = Len(inodes) + 1, !.src = disk[down]])
       /\ UNCHANGED rest
Decoded(p) ==
    /\ acting[p].pc = "decode"
    /\ IF ~inodes[acting[p].src].done THEN Gives(p)
       ELSE /\ inodes' = [inodes EXCEPT ![acting[p].ino] = [inodes[acting[p].src] EXCEPT !.by = p]]
            /\ disk' = [disk EXCEPT ![<<acting[p].via, "download">>] = 0]
            /\ Go(p, "backup")
    /\ UNCHANGED rest
\* and another one is renamed
UnpackByRename(p) ==
    LET down == <<acting[p].via, "download">> IN
    /\ acting[p].pc = "unpack" /\ acting[p].build \notin Packed
    /\ IF disk[down] = 0 THEN Gives(p)
       ELSE /\ disk' = [disk EXCEPT ![<<acting[p].via, "tmp">>] = disk[down], ![down] = 0]
            /\ Go(p, "backup") /\ UNCHANGED inodes
    /\ UNCHANGED rest

\* A backup that cannot be linked is only warned of
Backup(p) ==
    /\ acting[p].pc = "backup" /\ Go(p, "spawn")
    /\ disk' = [disk EXCEPT ![<<acting[p].via, "backup">>] = IF host.hard THEN disk[<<acting[p].via, "">>] ELSE 0]
    /\ UNCHANGED <<inodes, rest>>

\* The new executable installs itself; one that is being written cannot be executed, and
\* one that is truncated is assumed to fail before it does anything
Spawn(p) ==
    LET tmp == <<acting[p].via, "tmp">> IN
    /\ acting[p].pc = "spawn"
    /\ IF ~WholeFile(tmp) \/ \E q \in Installers : Writing(q, disk[tmp]) THEN Gives(p)
       ELSE /\ Do(p, [acting[p] EXCEPT !.pc = "place", !.from = tmp, !.exe = disk[tmp]])
            /\ UNCHANGED installed
    /\ UNCHANGED rest

(* install::_run *)

\* `cli install` by an executable from elsewhere
InstallFromSetup(p) ==
    /\ WholeFile(Setup) /\ host.raw = "home"
    /\ Starts(p, [Resting EXCEPT !.pc = "place", !.build = BuildOf(Setup), !.from = Setup,
                                 !.exe = disk[Setup]])
    /\ UNCHANGED <<installed, host, cached, warned, raced, deaths>>

\* copy_to_installation_path: rename, or copy to a temporary file when that fails
Place(p) ==
    LET from == acting[p].from IN
    /\ acting[p].pc = "place"
    /\ IF disk[from] # acting[p].exe THEN Gives(p) /\ UNCHANGED host
       ELSE IF from = Setup /\ host.far THEN Go(p, "clear") /\ UNCHANGED <<host, installed>>
       ELSE /\ disk' = [disk EXCEPT ![Gel] = acting[p].exe, ![from] = 0]
            /\ host' = [host EXCEPT !.resolved = host.raw]
            /\ Go(p, "unlink") /\ UNCHANGED inodes
    /\ UNCHANGED <<cached, warned, raced, ran, deaths>>
ClearCopy(p) ==
    /\ acting[p].pc = "clear" /\ Go(p, "copy") /\ disk' = [disk EXCEPT ![Copy] = 0]
    /\ UNCHANGED <<inodes, rest>>
OthersCopy(p) == \E q \in Installers \ {p} : acting[q].pc \in {"copied", "rename"}
CopyTo(p, f) == Open(f, p, {acting[p].build}, "copied")
StartCopyInPlace(p) ==
    /\ acting[p].pc = "copy" /\ CopyTo(p, Gel) /\ raced' = (raced \/ OthersCopy(p))
    /\ UNCHANGED <<host, cached, warned, ran, deaths>>
StartCopy(p) ==
    /\ acting[p].pc = "copy" /\ CopyTo(p, Copy) /\ raced' = (raced \/ OthersCopy(p))
    /\ UNCHANGED <<host, cached, warned, ran, deaths>>
EndCopy(p) ==
    LET i == acting[p].ino IN
    /\ acting[p].pc = "copied" /\ Go(p, "rename")
    /\ inodes' = [inodes EXCEPT ![i].done = @ \/ inodes[i].by = p]
    /\ UNCHANGED <<disk, rest>>
RenameCopy(p) ==
    /\ acting[p].pc = "rename"
    /\ IF disk[Copy] = 0 THEN Gives(p) /\ UNCHANGED host
       ELSE /\ disk' = [disk EXCEPT ![Gel] = disk[Copy], ![Copy] = 0]
            /\ host' = [host EXCEPT !.resolved = host.raw]
            /\ Go(p, "unlink") /\ UNCHANGED inodes
    /\ UNCHANGED <<cached, warned, raced, ran, deaths>>

\* copy_to_alternative_executable
UnlinkOldName(p) ==
    /\ acting[p].pc = "unlink" /\ Go(p, "link") /\ disk' = [disk EXCEPT ![Alt] = 0]
    /\ UNCHANGED <<inodes, rest>>
LinkOldName(p) ==
    /\ acting[p].pc = "link" /\ disk[Alt] = 0 /\ Go(p, "end")
    /\ disk' = [disk EXCEPT ![Alt] = IF host.hard THEN disk[Gel] ELSE SymLink]
    /\ UNCHANGED <<inodes, rest>>
\* Another install has linked it in between: fs::copy truncates the target it opens, which
\* may be the executable itself, unless it is being run
LinkByCopy(p) ==
    LET i == Inode(Alt) IN
    /\ acting[p].pc = "link" /\ disk[Alt] # 0 /\ raced' = TRUE
    /\ IF \E q \in Installers : Running(q, i) THEN Gives(p)
       ELSE /\ inodes' = [inodes EXCEPT ![i] =
                              IF i = disk[Gel] THEN [@ EXCEPT !.done = FALSE] ELSE Content(Gel)]
            /\ Go(p, "end") /\ UNCHANGED disk
    /\ UNCHANGED <<host, cached, warned, ran, deaths>>

\* The upgrade removes its temporary file
Finish(p) ==
    /\ acting[p].pc = "end" /\ Do(p, Resting)
    /\ disk' = [disk EXCEPT ![acting[p].from] = IF acting[p].from = Setup THEN @ ELSE 0]
    /\ UNCHANGED <<inodes, rest>>

\* An error of a step, or the death of the process
Breaks(p) ==
    /\ acting[p].pc # "rest" /\ deaths < MaxDeaths /\ deaths' = deaths + 1
    /\ Gives(p) /\ UNCHANGED <<host, cached, warned, raced, ran>>

(* version_check::check, at the start of other commands *)

ChannelMatches(self) == cached.build = 0 \/ ChannelOf(cached.build) = ChannelOf(self)
Warn(self, b) == warned' = IF b > self THEN <<self, b>> ELSE warned

CheckCached(p) ==
    /\ WholeFile(Gel) /\ cached.fresh /\ ChannelMatches(BuildOf(Gel))
    /\ Warn(BuildOf(Gel), cached.build)
    /\ Starts(p, Resting) /\ UNCHANGED <<installed, host, cached, raced, deaths>>
CheckRemote(p) ==
    /\ WholeFile(Gel) /\ ~(cached.fresh /\ ChannelMatches(BuildOf(Gel)))
    /\ Starts(p, [Resting EXCEPT !.pc = "fetch", !.self = BuildOf(Gel)])
    /\ UNCHANGED <<installed, host, cached, warned, raced, deaths>>
\* A request that fails is cached too, as no version
Fetched(p) ==
    /\ acting[p].pc = "fetch" /\ Do(p, Resting)
    /\ \E b \in Newest(ChannelOf(acting[p].self)) \cup {0} :
          Warn(acting[p].self, b) /\ cached' = [build |-> b, fresh |-> TRUE]
    /\ UNCHANGED <<installed, host, raced, ran, deaths>>

Expire ==
    /\ cached.fresh /\ cached' = [cached EXCEPT !.fresh = FALSE]
    /\ UNCHANGED <<installed, host, acting, warned, raced, ran, deaths>>
CLINext ==
    \/ \E p \in Installers :
          \/ \E via \in Commands, channel \in {"stable", "nightly"}, force \in BOOLEAN :
                Upgrade(p, via, channel, force)
          \/ UpgradeNothing(p) \/ Receive(p) \/ Received(p) \/ Decode(p) \/ Decoded(p)
          \/ UnpackByRename(p) \/ Backup(p) \/ Spawn(p)
          \/ InstallFromSetup(p) \/ Place(p) \/ ClearCopy(p) \/ StartCopy(p) \/ EndCopy(p) \/ RenameCopy(p)
          \/ UnlinkOldName(p) \/ LinkOldName(p) \/ LinkByCopy(p) \/ Finish(p) \/ Breaks(p)
          \/ CheckCached(p) \/ CheckRemote(p) \/ Fetched(p)
    \/ Expire

CLISpec == CLIInit /\ [][CLINext]_cli

(* Properties *)

\* Once the tool is installed its executable is complete whichever step fails or dies, and
\* so are its old name and the backup (install.rs:572-628, upgrade.rs:129-139), unless two
\* installs copied or linked at once; an executable of a package manager is never upgraded
\* (upgrade.rs:60-64); a newer version that is told of is one of the same channel,
\* whatever the cache held (version_check.rs:37-43); and an upgrade that no other command
\* met has installed the version it chose under both names, and has kept the version it
\* replaced (upgrade.rs:121-151).
CLIInv ==
    /\ raced \/ (\A f \in {Gel, Alt} \cup (Commands \X {"backup"}) : disk[f] # 0 => WholeFile(f))
    /\ disk[Alt] # 0 => disk[Gel] # 0
    /\ OwnedByManager => /\ disk[Gel] \in {0, 1}
                         /\ \A p \in Installers : acting[p].pc \in {"rest", "fetch"} \/ acting[p].from = Setup
    /\ warned # <<0, 0>> => ChannelOf(warned[1]) = ChannelOf(warned[2])
    /\ \A p \in Installers :
           acting[p].pc = "end" /\ acting[p].alone /\ acting[p].self # 0 =>
               /\ WholeFile(Gel) /\ BuildOf(Gel) = acting[p].build
               /\ WholeFile(Alt) /\ BuildOf(Alt) = acting[p].build
               /\ host.hard => BuildOf(<<acting[p].via, "backup">>) = acting[p].self
=============================================================================
