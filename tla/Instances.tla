------------------------------ MODULE Instances ------------------------------
(***************************************************************************)
(* Local and linked instances and the projects that use them: what         *)
(* `instance create`, `link`, `unlink`, `destroy`, `reset-password` and    *)
(* `project init`, `unlink` do to the files of an instance, to the map of  *)
(* ports and to the stash directories, step by step.                       *)
(***************************************************************************)
EXTENDS Naturals, FiniteSets

CONSTANTS
    Clients, Names, Dirs, \* processes, names of instances, project directories
    Missing,
    MaxTasks, MaxCuts

ASSUME InstancesAssumption ==
    /\ IsFiniteSet(Names) /\ Missing \notin Names \cup Dirs \cup [port : Nat, password : Nat]

VARIABLES
    data,     \* data directory: port of instance_info.json and password of the role
    made,     \* the same in the temporary directory
    creds,    \* credentials file: port (Elsewhere for a link) and password
    service,  \* the instance has service files
    ports,    \* instance_ports.json
    manifest, \* directories with a gel.toml
    stash,    \* instance in the stash directory of each project
    linked,   \* projects that a command initialised or linked (history)
    excused,  \* instances on which commands met, or one was cut short (history)
    shaky,    \* the map of ports was shared, torn or passed over (history)
    task, given, cuts

instances ==
    <<data, made, creds, service, ports, manifest, stash, linked, excused, shaky, task, given, cuts>>
files == <<data, made, creds, service, ports>>
projects == <<manifest, stash, linked>>
history == <<excused, shaky, given, cuts>>

MinPort == 1
Elsewhere == 100
IdleTask == [op |-> "none", pc |-> "idle", name |-> Missing, dir |-> Missing, id |-> 0,
            map |-> Missing, port |-> 0, todo |-> {}, found |-> FALSE]

InstancesInit ==
    /\ data = [n \in Names |-> Missing] /\ made = data /\ creds = data
    /\ service = [n \in Names |-> FALSE] /\ ports = [n \in Names |-> 0]
    /\ manifest \in SUBSET Dirs /\ stash = [d \in Dirs |-> Missing] /\ linked = {}
    /\ excused = {} /\ shaky = FALSE
    /\ task = [p \in Clients |-> IdleTask] /\ given = 0 /\ cuts = 0

On(p, op, pc) == task[p].op \in op /\ task[p].pc = pc
Step(p, pc) == task' = [task EXCEPT ![p].pc = pc]
Done(p) == task' = [task EXCEPT ![p] = IdleTask]
Creating == {"create", "init"}
Removing == {"destroy", "unlink", "project_unlink"}

\* Commands on one instance exclude each other only if both take its lock; a project
\* takes the lock of its directory.
Locks(op) == op \in {"destroy", "unlink"}
Command(p, op, n, d, pc) ==
    /\ task[p] = IdleTask /\ given < MaxTasks /\ given' = given + 1
    /\ ~\E q \in Clients :
          /\ task[q] # IdleTask
          /\ \/ Locks(op) /\ Locks(task[q].op) /\ task[q].name = n
             \/ d # Missing /\ task[q].dir = d
    /\ task' = [task EXCEPT ![p] = [IdleTask EXCEPT !.op = op, !.pc = pc, !.name = n, !.dir = d,
                                                 !.id = given + 1,
                                                 !.map = IF op = "reset" THEN creds[n] ELSE Missing]]
    /\ excused' = IF \E q \in Clients : task[q].name = n THEN excused \cup {n} ELSE excused
    /\ shaky' = (shaky \/ (op \in Creating /\ \E q \in Clients : task[q].op \in Creating))
    /\ UNCHANGED <<files, projects, cuts>>

(* create.rs: run *)

\* Paths::check_exists and credentials::exists; `--port` passes over the map of ports
Create(p, n) ==
    /\ data[n] = Missing /\ ~service[n] /\ creds[n] = Missing
    /\ Command(p, "create", n, Missing, "ports")
GivenPort(p) ==
    /\ On(p, {"create"}, "ports") /\ shaky' = TRUE
    /\ \E port \in MinPort..Cardinality(Names) :
          task' = [task EXCEPT ![p].pc = "bootstrap", ![p].port = port]
    /\ UNCHANGED <<files, projects, excused, given, cuts>>

(* local.rs: allocate_port *)

\* the ports that running servers listen on are refused by the system; they are
\* left out, so that it is the map alone that keeps ports apart
NextMinPort(map) == CHOOSE port \in MinPort..Cardinality(Names) + 1 :
    /\ \A n \in Names : map[n] # port
    /\ \A q \in MinPort..(port - 1) : \E n \in Names : map[n] = q

AllocatePort(p) ==
    /\ On(p, Creating, "ports")
    /\ LET n == task[p].name
       IN IF ports[n] # 0 THEN task' = [task EXCEPT ![p].pc = "bootstrap", ![p].port = ports[n]]
          ELSE task' = [task EXCEPT ![p].pc = "truncate", ![p].port = NextMinPort(ports),
                                  ![p].map = [ports EXCEPT ![n] = NextMinPort(ports)]]
    /\ UNCHANGED <<files, projects, history>>
\* write_json: an empty file reads as an empty map
TruncatePorts(p) ==
    /\ On(p, Creating, "truncate") /\ Step(p, "write")
    /\ ports' = [n \in Names |-> 0]
    /\ UNCHANGED <<data, made, creds, service, projects, history>>

WritePorts(p) ==
    /\ On(p, Creating, "write") /\ Step(p, "bootstrap") /\ ports' = task[p].map
    /\ UNCHANGED <<data, made, creds, service, projects, history>>

(* create.rs: bootstrap *)

\* make the directory anew; the server makes the data in it; the password is new
RunBootstrap(p) ==
    /\ On(p, Creating, "bootstrap") /\ Step(p, "rename")
    /\ made' = [made EXCEPT ![task[p].name] = [port |-> task[p].port, password |-> task[p].id]]
    /\ UNCHANGED <<data, creds, service, ports, projects, history>>
RenameTmp(p) ==
    LET n == task[p].name
    IN /\ On(p, Creating, "rename") /\ data[n] = Missing /\ made[n] # Missing
       /\ task' = [task EXCEPT ![p].pc = "credentials", ![p].map = made[n]]
       /\ data' = [data EXCEPT ![n] = made[n]] /\ made' = [made EXCEPT ![n] = Missing]
       /\ UNCHANGED <<creds, service, ports, projects, history>>
WriteCredentials(p) ==
    /\ On(p, Creating, "credentials") /\ Step(p, "service")
    /\ creds' = [creds EXCEPT ![task[p].name] = task[p].map]
    /\ UNCHANGED <<data, made, service, ports, projects, history>>
CreateService(p) ==
    /\ On(p, Creating, "service")
    /\ service' = [service EXCEPT ![task[p].name] = TRUE]
    /\ IF task[p].op = "init" THEN Step(p, "stash") ELSE Done(p)
    /\ UNCHANGED <<data, made, creds, ports, projects, history>>

(* project/init.rs *)

\* init_existing and init_new: an instance that has credentials is not created again
InitProject(p, d, n) ==
    /\ stash[d] = Missing /\ creds[n] = Missing
    /\ Command(p, "init", n, d, IF d \in manifest THEN "ports" ELSE "manifest")
WriteManifest(p) ==
    /\ On(p, {"init", "link"}, "manifest") /\ manifest' = manifest \cup {task[p].dir}
    /\ Step(p, IF task[p].op = "link" THEN "stash" ELSE "ports")
    /\ UNCHANGED <<files, stash, linked, history>>
\* link, and init of a project with an instance that exists; `--link` takes any name
LinkProject(p, d, n) ==
    /\ stash[d] = Missing /\ (creds[n] # Missing \/ d \in manifest)
    /\ Command(p, "link", n, d, IF d \in manifest THEN "stash" ELSE "manifest")
\* StashDir::write
WriteStash(p) ==
    /\ On(p, {"init", "link"}, "stash") /\ Step(p, "migrate")
    /\ stash' = [stash EXCEPT ![task[p].dir] = task[p].name]
    /\ UNCHANGED <<files, manifest, linked, history>>
\* migrate, or create_database: the instance must let the command in
Migrate(p) ==
    /\ On(p, {"init", "link"}, "migrate") /\ creds[task[p].name] # Missing /\ Done(p)
    /\ linked' = IF stash[task[p].dir] = task[p].name THEN linked \cup {task[p].dir} ELSE linked
    /\ UNCHANGED <<files, manifest, stash, history>>

(* link.rs *)

\* the file is written when the server let the command in; `--overwrite` replaces one
Link(p, n) ==
    /\ Command(p, "add", n, Missing, "overwrite")
Overwrite(p) ==
    /\ On(p, {"add"}, "overwrite") /\ Done(p)
    /\ creds' = [creds EXCEPT ![task[p].name] = [port |-> Elsewhere, password |-> task[p].id]]
    /\ UNCHANGED <<data, made, service, ports, projects, history>>

(* reset_password.rs *)

\* the credentials are read before the password is asked for
ResetPassword(p, n) == data[n] # Missing /\ Command(p, "reset", n, Missing, "alter")
AlterRole(p) ==
    /\ On(p, {"reset"}, "alter") /\ data[task[p].name] # Missing
    /\ data' = [data EXCEPT ![task[p].name].password = task[p].id]
    /\ \/ Step(p, "save") /\ UNCHANGED excused
       \/ Done(p) /\ excused' = excused \cup {task[p].name} \* --no-save-credentials
    /\ UNCHANGED <<made, creds, service, ports, projects, shaky, given, cuts>>

\* what was read, with the password; without a file the port is that of nobody
SaveCredentials(p) ==
    /\ On(p, {"reset"}, "save") /\ Done(p)
    /\ creds' = [creds EXCEPT ![task[p].name] =
                    [port |-> IF task[p].map = Missing THEN 0 ELSE task[p].map.port, password |-> task[p].id]]
    /\ UNCHANGED <<data, made, service, ports, projects, history>>

(* destroy.rs *)

UsersOf(n) == {d \in Dirs : stash[d] = n}

\* with_projects: the list is read before the question is asked
DestroyInstance(p, n, force) ==
    /\ force \/ UsersOf(n) = {}
    /\ Command(p, "destroy", n, Missing, "list")
\* the projects are forgotten
ListNoProjects(p) ==
    /\ On(p, {"destroy", "unlink"}, "list")
    /\ Step(p, IF task[p].op = "unlink" THEN "delete" ELSE "data")
    /\ UNCHANGED <<files, projects, history>>

ListProjects(p) ==
    /\ On(p, {"destroy", "unlink"}, "list")
    /\ task' = [task EXCEPT ![p].pc = IF task[p].op = "unlink" THEN "delete" ELSE "data",
                          ![p].todo = UsersOf(task[p].name)]
    /\ UNCHANGED <<files, projects, history>>

\* destroy_local: stops the server (`loaded` tells whether there was a service), then
\* removes the directories, then the service files
RemoveData(p) ==
    /\ On(p, Removing, "data")
    /\ data' = [data EXCEPT ![task[p].name] = Missing]
    /\ \E loaded \in BOOLEAN :
          task' = [task EXCEPT ![p].pc = "service_files", ![p].found = loaded \/ data[task[p].name] # Missing]
    /\ UNCHANGED <<made, creds, service, ports, projects, history>>
RemoveService(p) ==
    /\ On(p, Removing, "service_files")
    /\ service' = [service EXCEPT ![task[p].name] = FALSE]
    /\ task' = [task EXCEPT ![p].pc = "delete", ![p].found = @ \/ service[task[p].name]]
    /\ UNCHANGED <<data, made, creds, ports, projects, history>>
\* do_destroy; the error "not found" leaves the stash directories
DeleteCredentials(p) ==
    /\ On(p, Removing, "delete")
    /\ creds' = [creds EXCEPT ![task[p].name] = Missing]
    /\ IF task[p].found \/ creds[task[p].name] # Missing \/ task[p].op = "unlink" THEN Step(p, "projects") ELSE Done(p)
    /\ UNCHANGED <<data, made, service, ports, projects, history>>
RemoveStash(p) ==
    /\ On(p, {"destroy", "unlink"}, "projects")
    /\ \/ /\ task[p].todo = {} /\ Done(p) /\ UNCHANGED <<stash, linked>>
       \/ \E d \in task[p].todo :
             /\ task' = [task EXCEPT ![p].todo = @ \ {d}]
             /\ stash' = [stash EXCEPT ![d] = Missing] /\ linked' = linked \ {d}
    /\ UNCHANGED <<files, manifest, history>>

(* unlink.rs: refused for an instance with data *)

Unlink(p, n, force) ==
    /\ data[n] = Missing /\ (force \/ UsersOf(n) = {})
    /\ Command(p, "unlink", n, Missing, "list")

(* project/unlink.rs *)

\* with -D the instance goes, unless another project uses it
UnlinkProject(p, d, destroy) ==
    /\ d \in manifest /\ stash[d] # Missing
    /\ destroy => UsersOf(stash[d]) = {d}
    /\ Command(p, "project_unlink", stash[d], d, IF destroy THEN "data" ELSE "own")
RemoveOwnStash(p) ==
    /\ \/ On(p, {"project_unlink"}, "own")
       \/ On(p, {"project_unlink"}, "projects")
    /\ Done(p) /\ stash' = [stash EXCEPT ![task[p].dir] = Missing] /\ linked' = linked \ {task[p].dir}
    /\ UNCHANGED <<files, manifest, history>>

(* What else may happen *)

\* the user removes gel.toml
RemoveManifest(d) ==
    /\ d \in manifest /\ manifest' = manifest \ {d}
    /\ given < MaxTasks /\ given' = given + 1
    /\ \A p \in Clients : task[p].dir # d
    /\ UNCHANGED <<files, stash, linked, excused, shaky, task, cuts>>

\* A command ends with an error when it cannot go on
Refused(p) ==
    \/ On(p, Creating, "rename") /\ (data[task[p].name] # Missing \/ made[task[p].name] = Missing)
    \/ On(p, {"init", "link"}, "migrate") /\ creds[task[p].name] = Missing
    \/ On(p, {"reset"}, "alter") /\ data[task[p].name] = Missing
GiveUp(p) == Refused(p) /\ Done(p) /\ UNCHANGED <<files, projects, history>>

\* An error, a signal or a crash ends it at any step
Cut(p) ==
    /\ task[p] # IdleTask /\ ~Refused(p) /\ cuts < MaxCuts /\ cuts' = cuts + 1
    /\ excused' = excused \cup {task[p].name} /\ shaky' = (shaky \/ On(p, Creating, "write"))
    /\ Done(p) /\ UNCHANGED <<files, projects, given>>

InstancesNext ==
    \/ \E d \in Dirs : RemoveManifest(d)
    \/ \E p \in Clients :
          \/ \E n \in Names :
                \/ Create(p, n) \/ Link(p, n) \/ ResetPassword(p, n)
                \/ \E force \in BOOLEAN : DestroyInstance(p, n, force) \/ Unlink(p, n, force)
                \/ \E d \in Dirs : InitProject(p, d, n) \/ LinkProject(p, d, n)
          \/ \E d \in Dirs, destroy \in BOOLEAN : UnlinkProject(p, d, destroy)
          \/ GivenPort(p) \/ AllocatePort(p) \/ TruncatePorts(p) \/ WritePorts(p)
          \/ RunBootstrap(p) \/ RenameTmp(p) \/ WriteCredentials(p)
          \/ CreateService(p) \/ WriteManifest(p) \/ WriteStash(p) \/ Migrate(p)
          \/ Overwrite(p) \/ AlterRole(p) \/ SaveCredentials(p)
          \/ ListProjects(p) \/ RemoveData(p) \/ RemoveService(p) \/ DeleteCredentials(p)
          \/ RemoveStash(p) \/ RemoveOwnStash(p) \/ GiveUp(p) \/ Cut(p)

InstancesSpec == InstancesInit /\ [][InstancesNext]_instances

(* Properties *)

\* A project that was initialised or linked keeps an instance it can connect to,
\* whatever commands run on either, except while a command removes the instance and
\* then the project: `destroy --force`, `unlink --force` and `project unlink -D` forget
\* every project that uses the instance (with_projects).  Instances on which two
\* commands met, or one was cut short, are left out: nothing orders `project init
\* --link` and `destroy`.
ProjectsKept ==
    \A d \in linked :
        \/ stash[d] \in excused \/ creds[stash[d]] # Missing
        \/ \E p \in Clients : On(p, Removing, "projects") /\ task[p].name = stash[d]

\* No two instances are given one port, through creations, removals and failures,
\* as long as no two commands allocate at once, none dies while it writes the map,
\* and the user gives no port (allocate_port).
PortsDistinct ==
    ~shaky => \A n, m \in Names :
                 n # m /\ data[n] # Missing /\ data[m] # Missing => data[n].port # data[m].port

\* The credentials of a local instance open it, except while `reset-password` is
\* between the server and the file (bootstrap, reset_password::run, do_destroy).
CredentialsOpen ==
    \A n \in Names \ excused :
        data[n] # Missing /\ creds[n] # Missing /\ creds[n].port # Elsewhere =>
            creds[n] = data[n] \/ \E p \in Clients : On(p, {"reset"}, "save") /\ task[p].name = n

\* All three, which rest on what is on disk at each step of every command.
InstancesInv == ProjectsKept /\ PortsDistinct /\ CredentialsOpen

\* Credentials that `reset-password` writes lead to the server of the instance.
ResetLeadsToServer == \A n \in Names : creds[n] # Missing => creds[n].port # 0

=============================================================================
