------------------------------- MODULE Control -------------------------------
(***************************************************************************)
(* The server of one local instance on Unix: the runner that holds         *)
(* service.lock while the server lives, the pid file, systemd's unit and   *)
(* socket where there is a supervisor, and the commands `instance start`,  *)
(* `stop`, `restart`, `status` and the stop that `destroy` does.           *)
(***************************************************************************)
EXTENDS Naturals

CONSTANTS
    Users,   \* processes a user runs commands in, numbered
    Runners, \* processes that run a server in the background
    None,
    MaxLaunches,
    MaxEvents, MaxFaults \* bounds: commands and faults, faults

ASSUME ControlAssumption ==
    /\ Users \subseteq Nat /\ Users \cap Runners = {} /\ None \notin Users \cup Runners
    /\ MaxLaunches \in Nat

VARIABLES
    supervised, \* there is a systemd of the user
    socket,     \* the socket unit listens
    unit,       \* runner systemd has started for the service, or None
    lock,       \* process that holds service.lock, or None
    marker,     \* content of service.lock
    pidfile,    \* launch the pid file names, or 0
    srv,        \* state of the server of each launch
    job,        \* what each process does
    orphans,    \* launches whose runner died before it had waited for the server (history)
    launches, commands, faults

systemd == <<supervised, socket, unit>>
record == <<lock, marker, pidfile>>
bounds == <<orphans, launches, commands, faults>>
control == <<systemd, record, srv, job, bounds>>

Procs == Users \cup Runners
Launches == 1..MaxLaunches
Idle == [op |-> "none", mode |-> "none", pc |-> "idle", then |-> "end", launch |-> 0, pid |-> 0,
         seen |-> 0, held |-> FALSE, stale |-> FALSE, again |-> FALSE, child |-> None, parent |-> None]

ControlInit ==
    /\ supervised \in BOOLEAN /\ socket = FALSE /\ unit = None
    /\ lock = None /\ marker = "" /\ pidfile = 0
    /\ srv = [s \in Launches |-> "none"] /\ job = [p \in Procs |-> Idle]
    /\ orphans = {} /\ launches = 0 /\ commands = 0 /\ faults = 0

At(p, pc) == job[p].pc = pc
Goto(p, pc) == job' = [job EXCEPT ![p].pc = pc]
End(p) == job' = [job EXCEPT ![p] = Idle]
Live(s) == s # 0 /\ srv[s] \in {"starting", "ready", "stopping"}
SomeRunner == \E r \in Runners : At(r, "idle")
FreeRunner == CHOOSE r \in Runners : At(r, "idle")
Runner(mode, p) == [Idle EXCEPT !.op = "run", !.mode = mode, !.pc = "try", !.parent = p]

Fault == faults < MaxFaults /\ commands + faults < MaxEvents /\ faults' = faults + 1

(* Commands *)

\* processes are alike: the first that is free is taken
Free(p) == At(p, "idle") /\ \A q \in Users : q < p => ~At(q, "idle")
Command(p, op, mode, pc, then) ==
    /\ Free(p) /\ commands + faults < MaxEvents /\ commands' = commands + 1
    /\ job' = [job EXCEPT ![p] = [Idle EXCEPT !.op = op, !.mode = mode, !.pc = pc, !.then = then]]
    /\ UNCHANGED <<systemd, record, srv, orphans, launches, faults>>
\* `start --foreground`, with and without `--auto-restart`
Foreground(p, mode) == mode \in {"user", "auto"} /\ Command(p, "run", mode, "try", "wait")
StartCommand(p) == Command(p, "start", "none", "start", "end")
Stop(p) == Command(p, "stop", "none", "look", "end")
Restart(p) == Command(p, "restart", "none", "look", "start")
StopAndDisable(p) == Command(p, "disable", "none", "look", "end")

(* start: the process that runs the server *)

Try(p) ==
    /\ At(p, "try")
    /\ IF lock = None THEN lock' = p /\ Goto(p, "mark")
       ELSE /\ UNCHANGED lock
            /\ CASE job[p].mode = "user" -> End(p)
                 [] job[p].mode = "auto" -> job' = [job EXCEPT ![p].pc = "look", ![p].again = TRUE]
                 [] OTHER -> Goto(p, "wait")
    /\ UNCHANGED <<systemd, marker, pidfile, srv, bounds>>
Wait(p) ==
    /\ At(p, "wait") /\ lock = None /\ lock' = p /\ Goto(p, "mark")
    /\ UNCHANGED <<systemd, marker, pidfile, srv, bounds>>
\* write_lock_info; the marker of the last holder stays until then
WriteMarker(p) ==
    /\ At(p, "mark") /\ Goto(p, "spawn")
    /\ marker' = IF job[p].mode = "auto" THEN "user" ELSE job[p].mode
    /\ UNCHANGED <<systemd, lock, pidfile, srv, bounds>>
\* for systemd the process becomes the server and keeps the lock
SpawnServer(p) ==
    /\ At(p, "spawn") /\ launches < MaxLaunches /\ launches' = launches + 1
    /\ srv' = [srv EXCEPT ![launches + 1] = "starting"]
    /\ job' = [job EXCEPT ![p].launch = launches + 1,
                          ![p].pc = IF job[p].mode = "systemd" THEN "server" ELSE "pid"]
    /\ UNCHANGED <<systemd, record, orphans, commands, faults>>
\* process.rs: write_pid_file
WritePid(p) ==
    /\ At(p, "pid") /\ pidfile' = job[p].launch /\ Goto(p, "run")
    /\ UNCHANGED <<systemd, lock, marker, srv, bounds>>
\* the pid file is left when the server is gone
KeepPid(p) ==
    /\ At(p, "run") /\ srv[job[p].launch] = "gone" /\ Goto(p, "release")
    /\ UNCHANGED <<systemd, record, srv, bounds>>

\* process.rs: the server is waited for, and the pid file removed
Reap(p) ==
    /\ At(p, "run") /\ srv[job[p].launch] = "gone"
    /\ pidfile' = 0 /\ Goto(p, "release")
    /\ UNCHANGED <<systemd, lock, marker, srv, bounds>>
\* the lock goes when the process ends, after it has started the service again
ReleaseLast(p) ==
    /\ At(p, "release")
    /\ IF job[p].again THEN Goto(p, "start") /\ UNCHANGED lock ELSE End(p) /\ lock' = None
    /\ UNCHANGED <<systemd, marker, pidfile, srv, bounds>>

Release(p) ==
    /\ At(p, "release") /\ lock' = None
    /\ IF job[p].again THEN Goto(p, "start") ELSE End(p)
    /\ UNCHANGED <<systemd, marker, pidfile, srv, bounds>>

(* do_start *)

\* daemon_start
AlreadyRuns(p) ==
    /\ At(p, "start") /\ ~supervised /\ lock # None /\ End(p)
    /\ UNCHANGED <<systemd, record, srv, bounds>>
Daemonize(p) ==
    /\ At(p, "start") /\ ~supervised /\ lock = None
    /\ SomeRunner
    /\ job' = [job EXCEPT ![FreeRunner] = Runner("edgedb-cli", p), ![p].pc = "child", ![p].child = FreeRunner]
    /\ UNCHANGED <<systemd, record, srv, bounds>>
\* the output ends when the server is ready, or the child ends
Daemonized(p) ==
    /\ At(p, "child") /\ End(p)
    /\ LET r == job[p].child
       IN job[r].parent # p \/ (job[r].launch # 0 /\ srv[job[r].launch] \in {"ready", "stopping", "gone"})
    /\ UNCHANGED <<systemd, record, srv, bounds>>

(* linux.rs *)

\* systemd runs the service, on demand or for a connection to the socket
Launch(jobs) ==
    SomeRunner /\ unit' = FreeRunner /\ job' = [jobs EXCEPT ![FreeRunner] = Runner("systemd", None)]
StartService(p) ==
    /\ At(p, "start") /\ supervised /\ socket' = TRUE
    /\ LET jobs == [job EXCEPT ![p].pc = "started"]
       IN IF unit = None THEN Launch(jobs) ELSE UNCHANGED unit /\ job' = jobs
    /\ UNCHANGED <<supervised, record, srv, bounds>>
ServiceStarted(p) ==
    /\ At(p, "started") /\ End(p)
    /\ unit # None => job[unit].launch # 0 /\ srv[job[unit].launch] = "ready"
    /\ UNCHANGED <<systemd, record, srv, bounds>>
Connect ==
    /\ supervised /\ socket /\ unit = None /\ Launch(job)
    /\ UNCHANGED <<supervised, socket, record, srv, bounds>>

\* stop_service stops the socket first; stop_and_disable stops it last
StopSocket(p) ==
    /\ At(p, "stop socket") /\ socket' = FALSE
    /\ IF job[p].op = "disable" THEN End(p) ELSE Goto(p, "stop unit")
    /\ UNCHANGED <<supervised, unit, record, srv, bounds>>
\* a runner that is not the server yet is killed
StopUnit(p) ==
    /\ At(p, "stop unit")
    /\ IF unit = None \/ At(unit, "server")
       THEN /\ Goto(p, "unit stopped") /\ UNCHANGED <<unit, lock>>
            /\ srv' = IF unit = None \/ ~Live(job[unit].launch) THEN srv
                      ELSE [srv EXCEPT ![job[unit].launch] = "stopping"]
       ELSE /\ job' = [job EXCEPT ![p].pc = "unit stopped", ![unit] = Idle]
            /\ unit' = None /\ UNCHANGED srv
            /\ lock' = IF lock = unit THEN None ELSE lock
    /\ UNCHANGED <<supervised, socket, marker, pidfile, bounds>>
UnitStopped(p) ==
    /\ At(p, "unit stopped") /\ unit = None
    /\ CASE job[p].op = "disable" -> Goto(p, "stop socket")
         [] job[p].then = "end" -> End(p)
         [] OTHER -> Goto(p, job[p].then)
    /\ UNCHANGED <<systemd, record, srv, bounds>>

(* do_stop, do_restart, stop_and_disable *)

\* one of the unit is left to systemd, whoever holds the lock
LookUnmarked(p) ==
    /\ At(p, "look")
    /\ job' = [job EXCEPT ![p].held = lock # None,
                          ![p].seen = IF lock # None /\ Live(job[lock].launch) THEN job[lock].launch ELSE 0,
                          ![p].pc = IF supervised THEN "stop socket" ELSE "read pid"]
    /\ UNCHANGED <<systemd, record, srv, bounds>>

\* is_run_by_supervisor: the lock is held, and the marker is read.  A restart leaves
\* the socket; stop_and_disable reads the pid only while the lock is held.
Look(p) ==
    /\ At(p, "look")
    /\ IF job[p].op = "disable" /\ lock = None /\ ~supervised THEN End(p)
       ELSE job' = [job EXCEPT
          ![p].held = lock # None,
          ![p].seen = IF lock # None /\ Live(job[lock].launch) THEN job[lock].launch ELSE 0,
          ![p].pc = IF ~supervised \/ (lock # None /\ marker # "systemd") THEN "read pid"
                    ELSE IF job[p].op \in {"restart", "disable"} THEN "stop unit" ELSE "stop socket"]
    /\ UNCHANGED <<systemd, record, srv, bounds>>

\* what follows when nothing is left to stop
Proceed(p) ==
    CASE job[p].op = "disable" /\ supervised -> Goto(p, "stop unit")
      [] job[p].op = "disable" \/ job[p].then = "end" -> End(p)
      [] OTHER -> Goto(p, job[p].then)
\* the file may be gone, or name a process that is gone
ReadPid(p) ==
    /\ At(p, "read pid")
    /\ IF pidfile # 0 THEN job' = [job EXCEPT ![p].pid = pidfile, ![p].pc = "term",
              ![p].stale = srv[pidfile] = "gone" /\ ~\E r \in Procs : At(r, "run") /\ job[r].launch = pidfile]
       ELSE IF job[p].held /\ job[p].op # "disable" THEN End(p) \* cannot find pid
       ELSE Proceed(p)
    /\ UNCHANGED <<systemd, record, srv, bounds>>
\* process::term fails for a process that is gone, unless another has its number
Terminate(p) ==
    /\ At(p, "term")
    /\ IF Live(job[p].pid)
       THEN /\ srv' = [srv EXCEPT ![job[p].pid] = "stopping"]
            /\ Goto(p, "unlock")
       ELSE /\ End(p) \/ Goto(p, "unlock")
            /\ UNCHANGED srv
    /\ UNCHANGED <<systemd, record, bounds>>
Unlocked(p) ==
    /\ At(p, "unlock") /\ lock = None /\ Proceed(p)
    /\ UNCHANGED <<systemd, record, srv, bounds>>

(* The server; it gets ready in a data directory that no other server uses *)

Become(s, state) == srv' = [srv EXCEPT ![s] = state]
Alone(s) == \A t \in Launches \ {s} : ~Live(t)
GetReady(s) ==
    /\ srv[s] = "starting" /\ Alone(s) /\ Become(s, "ready")
    /\ UNCHANGED <<systemd, record, job, bounds>>
Refuse(s) ==
    /\ srv[s] = "starting" /\ ~Alone(s) /\ Become(s, "stopping")
    /\ UNCHANGED <<systemd, record, job, bounds>>
\* --auto-shutdown-after, which only systemd's server is given
ShutDown(s) ==
    /\ srv[s] = "ready" /\ unit # None /\ job[unit].launch = s /\ Become(s, "stopping")
    /\ UNCHANGED <<systemd, record, job, bounds>>
Crash(s) ==
    /\ Live(s) /\ Fault /\ Become(s, "gone")
    /\ UNCHANGED <<systemd, record, job, orphans, launches, commands>>
Exit(s) ==
    /\ srv[s] = "stopping" /\ Become(s, "gone")
    /\ UNCHANGED <<systemd, record, job, bounds>>
\* the server of systemd is the runner: the lock and the unit end with it
ExitUnit(p) ==
    /\ At(p, "server") /\ srv[job[p].launch] = "gone" /\ End(p)
    /\ lock' = None /\ unit' = None
    /\ UNCHANGED <<supervised, socket, marker, pidfile, srv, bounds>>

(* Signals *)

\* Ctrl-C reaches the server and the runner in the foreground, which exits at once
Interrupt(p) ==
    /\ p \in Users /\ job[p].op = "run" /\ At(p, "run") /\ Live(job[p].launch)
    /\ Become(job[p].launch, "stopping") /\ End(p) /\ lock' = None
    /\ orphans' = orphans \cup {job[p].launch}
    /\ UNCHANGED <<systemd, marker, pidfile, launches, commands, faults>>
\* a runner is killed; a command that is killed leaves what it did
Kill(p) ==
    /\ job[p].op = "run" /\ ~At(p, "server") /\ Fault
    /\ End(p) /\ lock' = IF lock = p THEN None ELSE lock
    /\ unit' = IF unit = p THEN None ELSE unit
    /\ orphans' = IF job[p].pc \in {"pid", "run"} THEN orphans \cup {job[p].launch} ELSE orphans
    /\ UNCHANGED <<supervised, socket, marker, pidfile, srv, launches, commands>>

Work(p) ==
    \/ Try(p) \/ Wait(p) \/ WriteMarker(p) \/ SpawnServer(p) \/ WritePid(p)
    \/ Reap(p) \/ Release(p) \/ AlreadyRuns(p) \/ Daemonize(p) \/ Daemonized(p)
    \/ StartService(p) \/ ServiceStarted(p) \/ StopSocket(p) \/ StopUnit(p) \/ UnitStopped(p)
    \/ Look(p) \/ ReadPid(p) \/ Terminate(p) \/ Unlocked(p) \/ ExitUnit(p)
ControlNext ==
    \/ Connect
    \/ \E p \in Users :
          \/ StartCommand(p) \/ Stop(p) \/ Restart(p) \/ StopAndDisable(p) \/ Interrupt(p)
          \/ \E mode \in {"user", "auto"} : Foreground(p, mode)
    \/ \E p \in Procs : Work(p) \/ Kill(p)
    \/ \E s \in Launches : GetReady(s) \/ Refuse(s) \/ ShutDown(s) \/ Crash(s) \/ Exit(s)

\* something that can run runs, and a server that is told to stop stops
Progress == (\E p \in Procs : Work(p)) \/ (\E s \in Launches : Exit(s))
ControlFairness == WF_control(Progress)
Spec == ControlInit /\ [][ControlNext]_control /\ ControlFairness

(* Properties *)

\* instance/status.rs: service_status
SaysRunning ==
    \/ marker # "systemd" /\ Live(pidfile)
    \/ supervised /\ unit # None
Quiet == \A p \in Procs :
    \/ At(p, "idle")
    \/ job[p].pc \in {"run", "server"} /\ srv[job[p].launch] # "gone"

\* A server lives under the lock of its own runner, so that no two live, unless its
\* runner died before it (Interrupt, Kill); no command is about to stop a process by a
\* pid that a runner left behind, unless that runner died; and when no command is under
\* way and no such orphan lives, `instance status` says that the server runs if one does
\* (start, run_server_by_cli, do_stop, service_status).
ServerInv ==
    /\ \A s \in Launches \ orphans : Live(s) => lock # None /\ job[lock].launch = s
    /\ \A p \in Procs : job[p].stale => job[p].pid \in orphans
    /\ Quiet /\ (\A s \in orphans : ~Live(s)) => (SaysRunning <=> \E s \in Launches : Live(s))

\* A `stop` that succeeds leaves the server it found gone, whoever ran it and whoever
\* started or stopped it meanwhile (do_stop).  It finds a server by its runner, which
\* holds the lock (seen).  One whose runner died first is not promised to be gone: after
\* a Ctrl-C in the foreground the lock is free while the server still stops, and `stop`
\* does not wait for it.
StopStops ==
    [][\A p \in Users :
          /\ job[p].op = "stop" /\ job[p].pc \in {"unlock", "unit stopped"}
          /\ job'[p].pc = "idle" /\ job[p].seen \notin orphans
          => job[p].seen = 0 \/ srv'[job[p].seen] = "gone"]_control

\* A `stop` does not wait for ever for the server it has told to stop: the lock is
\* given up, by a foreground runner before it starts the service again; it waits on
\* only while another runner, with another server, has the lock (do_stop, start).
StopReturns ==
    \A p \in Users :
        At(p, "unlock") ~> \/ ~At(p, "unlock")
                           \/ lock # None /\ job[lock].launch # job[p].pid

\* A foreground server with `--auto-restart` that stopped the service starts it again
\* when it ends.
AutoRestartRestarts ==
    [][\A p \in Users :
          /\ job[p].again /\ job[p].pc \in {"run", "release"} /\ faults' = faults
          => job'[p].pc # "idle"]_control

\* When the server is stopped and disabled, as before its data is removed, none is left
\* but one whose runner died.
DisableStops ==
    [][\A p \in Users :
          /\ job[p].op = "disable" /\ job[p].pc = "stop socket"
          /\ job'[p].pc = "idle" /\ faults' = faults
          => ~\E s \in Launches \ orphans : Live(s)']_control

=============================================================================
