--------------------------- MODULE CloudInstances ---------------------------
(***************************************************************************)
(* Commands on instances of the cloud.  A command checks what it is asked, *)
(* sends requests and follows the operation that the cloud answers with,   *)
(* and the ones the cloud replaces it by, until it knows what to report.   *)
(* The cloud carries out the operations of an instance one by one; an      *)
(* operation that fails may be followed by one that takes it back.  HTTP   *)
(* requests are sent again when no answer comes.                           *)
(***************************************************************************)
EXTENDS Naturals, Sequences

CONSTANTS
    Names, Callers,
    StableVersions, TestingVersions,   \* offered by the cloud
    DefaultSize,                       \* of compute and storage
    MaxCalls, MaxOperations, MaxLost

ASSUME CloudAssumption ==
    /\ StableVersions \cup TestingVersions \subseteq Nat \ {0} /\ StableVersions # {}
    /\ DefaultSize \in Nat \ {0}

VARIABLES
    inst,       \* the instances: a function of "version", "tier", "compute" and "storage", or Absent
    cloudOps, \* of the cloud, in the order it began them
    call,       \* the commands
    asked, lost \* commands run, answers lost

cloud == <<inst, cloudOps, call, asked, lost>>

Absent == <<>>
Unset == 0
Free == 1
Pro == 2
Idle == [pc |-> "idle", name |-> CHOOSE n \in Names : TRUE, rest |-> <<>>, want |-> <<>>,
         id |-> 0, first |-> 0, failed |-> FALSE, blind |-> FALSE]

Request(kind, change) == [kind |-> kind, change |-> change]
\* Fields that are not Unset
Given(fields) == [f \in {g \in DOMAIN fields : fields[g] # Unset} |-> fields[f]]

InstancesInit ==
    /\ inst \in [Names -> {Absent, [version |-> CHOOSE v \in StableVersions : TRUE, tier |-> Free,
                                    compute |-> DefaultSize, storage |-> DefaultSize]}]
    /\ cloudOps = <<>>
    /\ call = [c \in Callers |-> Idle] /\ asked = 0 /\ lost = 0

(* What is requested *)

\* The last version that the channel may have
GetVersion(channel) ==
    LET fit == StableVersions \cup IF channel = "testing" THEN TestingVersions ELSE {}
    IN  {v \in fit : \A w \in fit : w <= v}

\* A command runs when the one before it, of the same caller, has ended
MayRun(c) == call[c].pc \in {"idle", "done", "failed"} /\ asked < MaxCalls
Command(c, n, requests, want) ==
    /\ asked' = asked + 1
    /\ call' = [call EXCEPT ![c] = [Idle EXCEPT !.pc = "send", !.name = n, !.rest = requests,
                                                !.want = Given(want)]]
    /\ UNCHANGED <<inst, cloudOps, lost>>

\* create_cloud: sizes are for the Pro tier only, which sizes, or a method of payment, imply
CreateCloud(c, n, channel, tier, compute, storage, pays) ==
    \E v \in GetVersion(channel) :
        LET sized == compute # Unset \/ storage # Unset
            real == IF tier # Unset THEN tier ELSE IF sized \/ pays THEN Pro ELSE Free
            fields == [version |-> v, tier |-> real, compute |-> compute, storage |-> storage]
        IN /\ real = Free => ~sized
           /\ Command(c, n, <<Request("create", Given(fields))>>, fields)

\* do_cloud_init: the cloud chooses the rest
InitCloud(c, n, channel) ==
    \E v \in GetVersion(channel) :
        Command(c, n, <<Request("create", [version |-> v])>>, [version |-> v])

\* upgrade_cloud: the version is looked up before the user confirms
UpgradeCloud(c, n, channel) ==
    \E v \in GetVersion(channel) :
        /\ inst[n] # Absent /\ v > inst[n].version
        /\ Command(c, n, <<Request("upgrade", [version |-> v])>>, [version |-> v])

\* resize_cloud_cmd: another tier brings its default sizes; each resource has a request,
\* which names the tier too
Resize(c, n, tier, compute, storage) ==
    LET moved == tier # Unset /\ tier # inst[n].tier
        Sized(s) == IF s = Unset /\ moved THEN DefaultSize ELSE s
        One(f, s) == IF s = Unset THEN <<>>
                     ELSE <<Request("resize", Given([g \in {"tier", f} |-> IF g = f THEN s ELSE tier]))>>
    IN /\ inst[n] # Absent /\ {tier, compute, storage} # {Unset}
       /\ tier = Free => compute = Unset /\ storage = Unset
       /\ tier = inst[n].tier => compute # Unset \/ storage # Unset
       /\ Command(c, n, One("compute", Sized(compute)) \o One("storage", Sized(storage)),
                  [tier |-> tier, compute |-> Sized(compute), storage |-> Sized(storage)])

\* restart_cloud_instance; create_backup and restore_instance of the API are alike, without
\* the data that a restore brings
Restart(c, n) == Command(c, n, <<Request("restart", <<>>)>>, <<>>)
BackupInstance(c, n) == Command(c, n, <<Request("backup", <<>>)>>, <<>>)
Restore(c, n) == Command(c, n, <<Request("restore", <<>>)>>, <<>>)
DestroyCloud(c, n) == Command(c, n, <<Request("delete", <<>>)>>, <<>>)

(* The cloud: not part of the repository *)

Busy(n) == \E i \in DOMAIN cloudOps : cloudOps[i].on = n /\ cloudOps[i].status = "InProgress"
Accepts(n, request) ==
    /\ Len(cloudOps) < MaxOperations /\ ~Busy(n)
    /\ (request.kind = "create") <=> inst[n] = Absent
Begun(n, c, request) ==
    [on |-> n, by |-> c, kind |-> request.kind, change |-> request.change, was |-> inst[n],
     status |-> "InProgress", subsequent |-> 0]
With(change, fields) == [f \in DOMAIN change \cup DOMAIN fields |->
                            IF f \in DOMAIN change THEN change[f] ELSE fields[f]]
Changed(o) ==
    CASE o.kind = "create" ->
             With(o.change, [tier |-> Free, compute |-> DefaultSize, storage |-> DefaultSize])
      [] o.kind = "delete" -> Absent
      [] o.kind = "rollback" -> o.was
      [] OTHER -> With(o.change, inst[o.on])

Completes(i) ==
    /\ cloudOps[i].status = "InProgress"
    /\ cloudOps' = [cloudOps EXCEPT ![i].status = "Completed"]
    /\ inst' = [inst EXCEPT ![cloudOps[i].on] = Changed(cloudOps[i])]
    /\ UNCHANGED <<call, asked, lost>>
Fails(i) ==
    /\ cloudOps[i].status = "InProgress"
    /\ cloudOps' = [cloudOps EXCEPT ![i].status = "Failed"]
    /\ UNCHANGED <<inst, call, asked, lost>>
\* It fails half way, with everything changed, and is rolled back
FailsHalfWay(i) ==
    LET o == cloudOps[i]
    IN /\ o.status = "InProgress" /\ o.kind # "rollback"
       /\ cloudOps' = Append([cloudOps EXCEPT ![i].status = "Failed",
                                              ![i].subsequent = Len(cloudOps) + 1],
                               [Begun(o.on, o.by, Request("rollback", <<>>)) EXCEPT !.was = o.was])
       /\ inst' = [inst EXCEPT ![o.on] = Changed(o)]
       /\ UNCHANGED <<call, asked, lost>>

(* Requests *)

Sent(c) == /\ cloudOps' = Append(cloudOps, Begun(call[c].name, c, Head(call[c].rest)))
           /\ UNCHANGED <<inst, asked>>
Ready(c) == call[c].pc = "send"
\* Http::map_inner: the answer is the operation
Answered(c) ==
    /\ Ready(c) /\ Accepts(call[c].name, Head(call[c].rest)) /\ Sent(c)
    /\ call' = [call EXCEPT ![c].pc = "wait", ![c].id = Len(cloudOps) + 1,
                            ![c].first = IF @ = 0 THEN Len(cloudOps) + 1 ELSE @]
    /\ UNCHANGED lost
\* or an error
Refused(c) ==
    /\ Ready(c) /\ ~Accepts(call[c].name, Head(call[c].rest))
    /\ call' = [call EXCEPT ![c].pc = "failed"]
    /\ UNCHANGED <<inst, cloudOps, asked, lost>>
\* or it does not come, and the request is sent again, or the retries end
AnswerLost(c) ==
    /\ Ready(c) /\ lost < MaxLost /\ lost' = lost + 1
    /\ Accepts(call[c].name, Head(call[c].rest)) /\ Sent(c)
    /\ \E pc \in {"send", "failed"} : call' = [call EXCEPT ![c].pc = pc, ![c].blind = TRUE]

(* wait_for_operation, of the CLI and of gel-cli-instance *)

Followed(c) == cloudOps[call[c].id]
Waiting(c, status) == call[c].pc = "wait" /\ Followed(c).status = status
\* the error of the first operation is forgotten
FollowFreshly(c) ==
    /\ Waiting(c, "Failed") /\ Followed(c).subsequent # 0
    /\ call' = [call EXCEPT ![c].id = Followed(c).subsequent]
    /\ UNCHANGED <<inst, cloudOps, asked, lost>>
FollowSubsequent(c) ==
    /\ Waiting(c, "Failed") /\ Followed(c).subsequent # 0
    /\ call' = [call EXCEPT ![c].id = Followed(c).subsequent, ![c].failed = TRUE]
    /\ UNCHANGED <<inst, cloudOps, asked, lost>>
OperationFailed(c) ==
    /\ Waiting(c, "Failed") /\ Followed(c).subsequent = 0
    /\ call' = [call EXCEPT ![c].pc = "failed"]
    /\ UNCHANGED <<inst, cloudOps, asked, lost>>
\* The next request of the command, if it has one
OperationCompleted(c) ==
    /\ Waiting(c, "Completed")
    /\ call' = [call EXCEPT ![c].pc = IF call[c].failed THEN "failed"
                                      ELSE IF Len(call[c].rest) > 1 THEN "send" ELSE "done",
                            ![c].rest = Tail(@)]
    /\ UNCHANGED <<inst, cloudOps, asked, lost>>
\* The deadline passes, or the operation cannot be read
GivesUp(c) ==
    /\ call[c].pc = "wait" /\ lost < MaxLost /\ lost' = lost + 1
    /\ call' = [call EXCEPT ![c].pc = "failed", ![c].blind = TRUE]
    /\ UNCHANGED <<inst, cloudOps, asked>>

InstancesNext ==
    \/ \E i \in DOMAIN cloudOps : Completes(i) \/ Fails(i) \/ FailsHalfWay(i)
    \/ \E c \in Callers :
          \/ /\ MayRun(c)
             /\ \E n \in Names :
                   \/ \E channel \in {"stable", "testing"} :
                         \/ UpgradeCloud(c, n, channel) \/ InitCloud(c, n, channel)
                         \/ \E tier \in {Unset, Free, Pro}, compute, storage \in {Unset, DefaultSize + 1},
                               pays \in BOOLEAN :
                               CreateCloud(c, n, channel, tier, compute, storage, pays)
                   \/ \E tier \in {Unset, Free, Pro}, compute, storage \in {Unset, DefaultSize + 1} :
                         Resize(c, n, tier, compute, storage)
                   \/ Restart(c, n) \/ BackupInstance(c, n) \/ Restore(c, n) \/ DestroyCloud(c, n)
          \/ Answered(c) \/ Refused(c) \/ AnswerLost(c)
          \/ FollowSubsequent(c) \/ OperationFailed(c) \/ OperationCompleted(c) \/ GivesUp(c)

InstancesSpec == InstancesInit /\ [][InstancesNext]_cloud

(* Properties *)

Later(c) == \E i \in DOMAIN cloudOps :
                i > call[c].first /\ cloudOps[i].on = call[c].name /\ cloudOps[i].by # c

\* A command that reports success has what it asked for, all of it, unless somebody has
\* changed the instance since: never an operation that was rolled back, nor the first half
\* of a resize.  One that reports the failure of an operation leaves nothing that it asked
\* for going on, unless an answer was lost or it stopped watching (wait_for_operation, resize_cloud_cmd).
ReportsAreTrue ==
    \A c \in Callers :
        LET now == inst[call[c].name]
        IN /\ call[c].pc = "done" =>
                 \/ Later(c)
                 \/ IF cloudOps[call[c].id].kind = "delete" THEN now = Absent
                    ELSE now # Absent /\ \A f \in DOMAIN call[c].want : now[f] = call[c].want[f]
           /\ call[c].pc = "failed" /\ ~call[c].blind =>
                 \A i \in DOMAIN cloudOps :
                     /\ cloudOps[i].by = c /\ cloudOps[i].on = call[c].name
                     /\ i >= call[c].first /\ call[c].first # 0
                     => cloudOps[i].status # "InProgress"

=============================================================================
