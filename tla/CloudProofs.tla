---------------------------- MODULE CloudProofs ----------------------------
(***************************************************************************)
(* Proofs about the cloud: commands on its instances (CloudInstances), for *)
(* any number of instances, callers, requests, operations and answers      *)
(* lost; and its accounts (CloudAccounts), for any number of profiles,     *)
(* projects, keys and commands that run at the same time.                  *)
(***************************************************************************)
EXTENDS CloudInstances, CloudAccounts, TLAPS

(* The instances *)

\* What an instance has, what a request may set of it, and the records of the variables
Fields == {"version", "tier", "compute", "storage"}
Partial == UNION {[S -> Nat] : S \in SUBSET Fields}
Whole == [Fields -> Nat]
RequestKinds == {"create", "upgrade", "resize", "restart", "backup", "restore", "delete"}
RequestRecord == [kind : RequestKinds, change : Partial]
OperationRecord ==
    [on : Names, by : Callers, kind : RequestKinds \cup {"rollback"}, change : Partial,
     was : Whole \cup {Absent}, status : {"InProgress", "Completed", "Failed"}, subsequent : Nat]
CallRecord ==
    [pc : {"idle", "send", "wait", "done", "failed"}, name : Names \cup {Idle.name},
     rest : Seq(RequestRecord), want : Partial, id : Nat, first : Nat, failed : BOOLEAN, blind : BOOLEAN]

InstancesTyped ==
    /\ inst \in [Names -> Whole \cup {Absent}]
    /\ cloudOps \in Seq(OperationRecord)
    /\ call \in [Callers -> CallRecord]

\* The cloud carries out the operations of an instance one by one
Serial(ops) ==
    \A i, j \in DOMAIN ops : i < j /\ ops[i].on = ops[j].on => ops[i].status # "InProgress"
\* What an operation in progress is about is there, and what one is followed by takes it back
OperationFits(i, ops, x) ==
    LET o == ops[i] IN
    /\ o.kind = "create" => "version" \in DOMAIN o.change
    /\ o.status = "InProgress" /\ o.kind # "rollback" =>
           (o.kind = "create" <=> x = Absent) /\ o.was = x /\ o.subsequent = 0
    /\ o.subsequent # 0 =>
           /\ o.status = "Failed" /\ o.kind # "rollback" /\ o.subsequent \in DOMAIN ops
           /\ o.subsequent > i
           /\ ops[o.subsequent].kind = "rollback" /\ ops[o.subsequent].on = o.on
           /\ ops[o.subsequent].by = o.by
OperationsFit ==
    /\ Serial(cloudOps)
    /\ \A i \in DOMAIN cloudOps : OperationFits(i, cloudOps, inst[cloudOps[i].on])

\* The operations that the command r of a caller c has brought about since the first it followed
Own(c, r, ops, i) ==
    i \in DOMAIN ops /\ r.first # 0 /\ i >= r.first /\ ops[i].on = r.name /\ ops[i].by = c
Going(c, r, ops, i) == Own(c, r, ops, i) /\ ops[i].status = "InProgress"
\* Somebody else has had an operation on the instance since
Others(c, r, ops) ==
    \E i \in DOMAIN ops : i > r.first /\ ops[i].on = r.name /\ ops[i].by # c

Kind(r, ops) == ops[r.first].kind
Left(rest) == UNION {DOMAIN rest[i].change : i \in DOMAIN rest}
Agrees(change, want) == DOMAIN change \subseteq DOMAIN want /\ \A f \in DOMAIN change : change[f] = want[f]
\* The instance x has what the command wants, but for what the requests still have to bring
Meets(x, want, rest) ==
    x # Absent /\ \A f \in DOMAIN want : f \in Left(rest) \/ x[f] = want[f]

Requests(r) ==
    /\ \A i \in DOMAIN r.rest :
          /\ Agrees(r.rest[i].change, r.want)
          /\ r.rest[i].kind = "create" => "version" \in DOMAIN r.rest[i].change
          /\ r.rest[i].kind \in {"create", "delete"} => Len(r.rest) = 1
          /\ \A j \in DOMAIN r.rest : r.rest[i].kind = r.rest[j].kind
    /\ r.pc \in {"send", "wait"} => r.rest # <<>>
    /\ r.pc = "done" => r.rest = <<>>

Follows(c, r, ops) ==
    /\ r.pc # "idle" => r.name \in Names
    /\ r.pc \in {"wait", "done"} => r.first # 0
    /\ r.first = 0 /\ r.pc = "send" => DOMAIN r.want \subseteq Left(r.rest) /\ ~r.failed
    /\ r.first # 0 =>
         /\ Own(c, r, ops, r.first) /\ Kind(r, ops) # "rollback"
         /\ \A i \in DOMAIN r.rest : r.rest[i].kind = Kind(r, ops)
         /\ r.pc = "send" => Kind(r, ops) \notin {"create", "delete"} /\ ~r.failed
         /\ r.pc = "done" => ~r.failed
         /\ r.pc \in {"wait", "done"} =>
              /\ Own(c, r, ops, r.id)
              /\ ops[r.id].kind = IF r.failed THEN "rollback" ELSE Kind(r, ops)
              /\ r.pc = "done" => ops[r.id].status = "Completed"
         /\ r.pc = "wait" /\ ~r.failed => ops[r.id].change = r.rest[1].change
         /\ r.pc = "wait" /\ Kind(r, ops) = "create" => DOMAIN r.want \subseteq Left(r.rest)

\* It knows what it has going on
Watches(c, r, ops) ==
    \A i \in DOMAIN ops : Going(c, r, ops, i) =>
       CASE r.pc = "wait" -> i = r.id \/ (ops[r.id].status = "Failed" /\ ops[r.id].subsequent = i)
         [] r.pc \in {"send", "failed"} -> r.blind
         [] OTHER -> FALSE

\* What it wants is kept, and comes
Keeps(c, r, ops, x) ==
    r.first # 0 /\ r.pc \in {"send", "wait", "done"} /\ ~r.failed /\ ~Others(c, r, ops) =>
      /\ Kind(r, ops) \notin {"create", "delete"} =>
           /\ Meets(x, r.want, r.rest)
           /\ \A i \in DOMAIN ops : Going(c, r, ops, i) =>
                /\ Meets(ops[i].was, r.want, r.rest)
                /\ ops[i].kind \in {Kind(r, ops), "rollback"}
                /\ ops[i].kind # "rollback" => Agrees(ops[i].change, r.want)
      /\ r.pc = "done" \/ (r.pc = "wait" /\ ops[r.id].status = "Completed") =>
           IF Kind(r, ops) = "delete" THEN x = Absent
           ELSE Meets(x, r.want, IF r.pc = "wait" THEN Tail(r.rest) ELSE <<>>)

CallFits(c, r, ops, x) ==
    Requests(r) /\ Follows(c, r, ops) /\ Watches(c, r, ops) /\ Keeps(c, r, ops, x)

\* Inductive: what is reported at the end is known from the first request on, through what the
\* operations of the command's own have kept and will keep
InstancesInductive ==
    /\ InstancesTyped /\ OperationsFit
    /\ \A c \in Callers : CallFits(c, call[c], cloudOps, inst[call[c].name])

-----------------------------------------------------------------------------
LEMMA PartialIs ==
    ASSUME NEW a \in Partial
    PROVE  DOMAIN a \subseteq Fields /\ \A f \in DOMAIN a : a[f] \in Nat
BY DEF Partial

LEMMA AbsentIs == Absent \notin Whole /\ DOMAIN Absent = {}
<1>1. DOMAIN Absent = {}
  BY DEF Absent
<1>2. \A x \in Whole : "tier" \in DOMAIN x
  BY DEF Whole, Fields
<1> QED BY <1>1, <1>2

(* The fields of a change replace those of the instance. *)
LEMMA WithIs ==
    ASSUME NEW a \in Partial, NEW b \in Whole
    PROVE  With(a, b) \in Whole /\ \A f \in Fields : With(a, b)[f] = IF f \in DOMAIN a THEN a[f] ELSE b[f]
<1>1. DOMAIN a \subseteq Fields /\ \A f \in DOMAIN a : a[f] \in Nat
  BY PartialIs
<1>2. DOMAIN b = Fields /\ \A f \in Fields : b[f] \in Nat
  BY DEF Whole
<1>3. With(a, b) = [f \in Fields |-> IF f \in DOMAIN a THEN a[f] ELSE b[f]]
  <2>1. DOMAIN a \cup DOMAIN b = Fields
    BY <1>1, <1>2
  <2> QED BY <2>1 DEF With
<1> QED BY <1>1, <1>2, <1>3 DEF Whole

LEMMA CreatedIs ==
    ASSUME NEW a \in Partial, "version" \in DOMAIN a
    PROVE  LET x == With(a, [tier |-> Free, compute |-> DefaultSize, storage |-> DefaultSize])
           IN x \in Whole /\ \A f \in DOMAIN a : x[f] = a[f]
<1> DEFINE b == [tier |-> Free, compute |-> DefaultSize, storage |-> DefaultSize]
           x == With(a, b)
<1>1. DOMAIN a \subseteq Fields /\ \A f \in DOMAIN a : a[f] \in Nat
  BY PartialIs
<1>2. DOMAIN b = {"tier", "compute", "storage"} /\ \A f \in DOMAIN b : b[f] \in Nat
  BY CloudAssumption DEF Free
<1> HIDE DEF b
<1>3. DOMAIN a \cup DOMAIN b = Fields
  BY <1>1, <1>2 DEF Fields
<1>4. x = [f \in Fields |-> IF f \in DOMAIN a THEN a[f] ELSE b[f]]
  BY <1>3 DEF With
<1>5. x \in Whole /\ \A f \in DOMAIN a : x[f] = a[f]
  BY <1>1, <1>2, <1>3, <1>4 DEF Whole
<1> QED BY <1>5 DEF b

LEMMA LeftIs ==
    ASSUME NEW rest \in Seq(RequestRecord), rest # <<>>
    PROVE  Left(rest) = DOMAIN rest[1].change \cup Left(Tail(rest))
<1>1. /\ Tail(rest) \in Seq(RequestRecord) /\ Len(rest) \in Nat \ {0} /\ DOMAIN rest = 1 .. Len(rest)
      /\ Len(Tail(rest)) = Len(rest) - 1 /\ DOMAIN Tail(rest) = 1 .. Len(rest) - 1
      /\ \A i \in 1 .. Len(rest) - 1 : Tail(rest)[i] = rest[i + 1]
  OBVIOUS
<1>2. ASSUME NEW f \in Left(rest) PROVE f \in DOMAIN rest[1].change \cup Left(Tail(rest))
  <2>1. PICK i \in DOMAIN rest : f \in DOMAIN rest[i].change
    BY <1>2 DEF Left
  <2>2. CASE i = 1
    BY <2>1, <2>2
  <2>3. CASE i # 1
    <3>1. i - 1 \in DOMAIN Tail(rest) /\ Tail(rest)[i - 1] = rest[i]
      BY <1>1, <2>1, <2>3
    <3> QED BY <2>1, <3>1 DEF Left
  <2> QED BY <2>2, <2>3
<1>3. ASSUME NEW f \in Left(Tail(rest)) PROVE f \in Left(rest)
  <2>1. PICK i \in DOMAIN Tail(rest) : f \in DOMAIN Tail(rest)[i].change
    BY <1>3 DEF Left
  <2>2. i + 1 \in DOMAIN rest /\ rest[i + 1] = Tail(rest)[i]
    BY <1>1, <2>1
  <2> QED BY <2>1, <2>2 DEF Left
<1>4. DOMAIN rest[1].change \subseteq Left(rest)
  BY <1>1 DEF Left
<1> QED BY <1>2, <1>3, <1>4

(* An operation that a command asked for keeps what the command wants, and  *)
(* brings what it asked for. *)
LEMMA MeetsWith ==
    ASSUME NEW x \in Whole, NEW want \in Partial, NEW rest, NEW a \in Partial, Agrees(a, want),
           Meets(x, want, rest)
    PROVE  Meets(With(a, x), want, rest)
<1>1. With(a, x) \in Whole /\ \A f \in Fields : With(a, x)[f] = IF f \in DOMAIN a THEN a[f] ELSE x[f]
  BY WithIs
<1>2. DOMAIN want \subseteq Fields
  BY PartialIs
<1> QED BY <1>1, <1>2, AbsentIs DEF Meets, Agrees

LEMMA MeetsNext ==
    ASSUME NEW x \in Whole, NEW want \in Partial, NEW rest \in Seq(RequestRecord), rest # <<>>,
           NEW y \in Whole, \A f \in Fields : f \notin DOMAIN rest[1].change => y[f] = x[f],
           \A f \in DOMAIN rest[1].change : y[f] = rest[1].change[f],
           Agrees(rest[1].change, want), Meets(x, want, rest)
    PROVE  Meets(y, want, Tail(rest))
<1>1. DOMAIN want \subseteq Fields
  BY PartialIs
<1>2. Left(rest) = DOMAIN rest[1].change \cup Left(Tail(rest))
  BY LeftIs
<1> QED BY <1>1, <1>2, AbsentIs DEF Meets, Agrees

LEMMA MeetsMore ==
    ASSUME NEW x, NEW want, NEW rest, x # Absent, DOMAIN want \subseteq Left(rest)
    PROVE  Meets(x, want, rest)
BY DEF Meets

-----------------------------------------------------------------------------
\* What the operation o makes of the instance x
Effect(o, x) ==
    CASE o.kind = "create" ->
             With(o.change, [tier |-> Free, compute |-> DefaultSize, storage |-> DefaultSize])
      [] o.kind = "delete" -> Absent
      [] o.kind = "rollback" -> o.was
      [] OTHER -> With(o.change, x)

\* The cloud ends the operation k of ops, on the instance x, and may begin one that takes it back
Ended(k, ops, ops2, x, x2) ==
    /\ k \in DOMAIN ops /\ ops[k].status = "InProgress"
    /\ DOMAIN ops \subseteq DOMAIN ops2
    /\ \A i \in DOMAIN ops : i # k => ops2[i] = ops[i]
    /\ ops2[k].on = ops[k].on /\ ops2[k].by = ops[k].by /\ ops2[k].kind = ops[k].kind
    /\ ops2[k].change = ops[k].change /\ ops2[k].was = ops[k].was
    /\ ops2[k].status \in {"Completed", "Failed"}
    /\ \A i \in DOMAIN ops2 : i \notin DOMAIN ops =>
          /\ \A j \in DOMAIN ops2 : j <= i
          /\ ops2[i].on = ops[k].on /\ ops2[i].by = ops[k].by /\ ops2[i].kind = "rollback"
          /\ ops2[i].was = ops[k].was /\ ops2[i].subsequent = 0
          /\ ops[k].kind # "rollback" /\ ops2[k].status = "Failed" /\ ops2[k].subsequent = i
    /\ ops2[k].subsequent # 0 => ops2[k].subsequent \in DOMAIN ops2 /\ ops2[k].subsequent \notin DOMAIN ops
    /\ x2 \in {x, Effect(ops[k], x)}
    /\ ops2[k].status = "Completed" => x2 = Effect(ops[k], x)

LEMMA EffectIs ==
    ASSUME NEW o \in OperationRecord, NEW x \in Whole \cup {Absent},
           o.kind = "create" => "version" \in DOMAIN o.change,
           o.kind # "rollback" => (o.kind = "create" <=> x = Absent)
    PROVE  /\ Effect(o, x) \in Whole \cup {Absent}
           /\ o.kind = "create" =>
                Effect(o, x) \in Whole /\ \A f \in DOMAIN o.change : Effect(o, x)[f] = o.change[f]
           /\ o.kind = "delete" => Effect(o, x) = Absent
           /\ o.kind = "rollback" => Effect(o, x) = o.was
           /\ o.kind \notin {"create", "delete", "rollback"} =>
                x \in Whole /\ Effect(o, x) = With(o.change, x)
<1>1. o.change \in Partial /\ o.was \in Whole \cup {Absent}
  BY DEF OperationRecord
<1>2. CASE o.kind = "create"
  <2>1. Effect(o, x) = With(o.change, [tier |-> Free, compute |-> DefaultSize, storage |-> DefaultSize])
    BY <1>2 DEF Effect
  <2> QED BY <1>1, <1>2, <2>1, CreatedIs
<1>3. CASE o.kind = "delete"
  BY <1>3 DEF Effect
<1>4. CASE o.kind = "rollback"
  BY <1>1, <1>4 DEF Effect
<1>5. CASE o.kind \notin {"create", "delete", "rollback"}
  <2>1. Effect(o, x) = With(o.change, x) /\ x \in Whole
    BY <1>5 DEF Effect
  <2> QED BY <1>1, <1>5, <2>1, WithIs
<1> QED BY <1>2, <1>3, <1>4, <1>5

(* A command that no operation has answered yet does not depend on the cloud. *)
LEMMA Unanswered ==
    ASSUME NEW c, NEW r, NEW ops, NEW x, NEW ops2, NEW x2, CallFits(c, r, ops, x), r.first = 0
    PROVE  CallFits(c, r, ops2, x2)
<1>1. Requests(r)
  BY DEF CallFits
<1>2. Follows(c, r, ops2)
  BY DEF CallFits, Follows
<1>3. Watches(c, r, ops2)
  BY DEF Watches, Going, Own
<1>4. Keeps(c, r, ops2, x2)
  BY DEF Keeps
<1> QED BY <1>1, <1>2, <1>3, <1>4 DEF CallFits

(* Nor does any on what happens to another instance. *)
LEMMA Elsewhere ==
    ASSUME NEW c, NEW r, NEW ops, NEW x, NEW ops2, CallFits(c, r, ops, x),
           DOMAIN ops \subseteq DOMAIN ops2,
           \A i \in DOMAIN ops : ops2[i].on = ops[i].on,
           \A i \in DOMAIN ops2 : ops2[i].on = r.name => i \in DOMAIN ops /\ ops2[i] = ops[i]
    PROVE  CallFits(c, r, ops2, x)
<1>1. CASE r.first = 0
  BY <1>1, Unanswered
<1>2. CASE r.first # 0
  <2>1. Requests(r) /\ Follows(c, r, ops) /\ Watches(c, r, ops) /\ Keeps(c, r, ops, x)
    BY DEF CallFits
  <2>2. \A i : Own(c, r, ops2, i) <=> Own(c, r, ops, i)
    BY DEF Own
  <2>3. \A i : Own(c, r, ops, i) => ops2[i] = ops[i]
    BY DEF Own
  <2>4. \A i : Going(c, r, ops2, i) <=> Going(c, r, ops, i)
    BY <2>2, <2>3 DEF Going
  <2>5. Others(c, r, ops2) <=> Others(c, r, ops)
    BY DEF Others
  <2>6. Own(c, r, ops, r.first) /\ Kind(r, ops2) = Kind(r, ops)
    BY <1>2, <2>1, <2>3 DEF Follows, Kind
  <2>7. r.pc \in {"wait", "done"} => Own(c, r, ops, r.id) /\ ops2[r.id] = ops[r.id]
    BY <1>2, <2>1, <2>3 DEF Follows
  <2>8. Follows(c, r, ops2)
    BY <1>2, <2>1, <2>2, <2>6, <2>7 DEF Follows
  <2>9. Watches(c, r, ops2)
    <3> SUFFICES ASSUME NEW i \in DOMAIN ops2, Going(c, r, ops2, i)
                 PROVE  CASE r.pc = "wait" -> i = r.id \/ (ops2[r.id].status = "Failed" /\ ops2[r.id].subsequent = i)
                          [] r.pc \in {"send", "failed"} -> r.blind
                          [] OTHER -> FALSE
      BY DEF Watches
    <3>1. i \in DOMAIN ops /\ Going(c, r, ops, i)
      BY <2>4 DEF Going, Own
    <3> QED BY <2>1, <2>7, <3>1 DEF Watches
  <2>10. Keeps(c, r, ops2, x)
    <3>1. \A i : Going(c, r, ops, i) => i \in DOMAIN ops /\ ops2[i] = ops[i]
      BY <2>3 DEF Going, Own
    <3> QED BY <2>1, <2>4, <2>5, <2>6, <2>7, <3>1 DEF Keeps
  <2> QED BY <2>1, <2>8, <2>9, <2>10 DEF CallFits
<1> QED BY <1>1, <1>2

(* The cloud ends an operation on the instance of a command: it is the one   *)
(* in progress there, and the command's own, unless somebody else has had an *)
(* operation since. *)
LEMMA EndsFits ==
    ASSUME NEW c, NEW r \in CallRecord, NEW ops \in Seq(OperationRecord), NEW x \in Whole \cup {Absent},
           NEW ops2 \in Seq(OperationRecord), NEW x2 \in Whole \cup {Absent}, NEW k,
           CallFits(c, r, ops, x), Serial(ops), Ended(k, ops, ops2, x, x2),
           \A i \in DOMAIN ops : ops[i].on = r.name => OperationFits(i, ops, x),
           ops[k].on = r.name
    PROVE  CallFits(c, r, ops2, x2)
<1>1. CASE r.first = 0
  BY <1>1, Unanswered
<1>2. CASE r.first # 0
  <2>1. Requests(r) /\ Follows(c, r, ops) /\ Watches(c, r, ops) /\ Keeps(c, r, ops, x)
    BY DEF CallFits
  <2>2. /\ DOMAIN ops = 1 .. Len(ops) /\ Len(ops) \in Nat /\ DOMAIN ops2 = 1 .. Len(ops2) /\ Len(ops2) \in Nat
        /\ r.first \in Nat /\ r.id \in Nat /\ k \in DOMAIN ops /\ ops[k].status = "InProgress"
        /\ \A i \in DOMAIN ops : ops[i] \in OperationRecord
        /\ r.rest \in Seq(RequestRecord) /\ r.want \in Partial /\ r.failed \in BOOLEAN
    BY DEF Ended, CallRecord
  <2>3. /\ DOMAIN ops \subseteq DOMAIN ops2
        /\ \A i \in DOMAIN ops : ops2[i].on = ops[i].on /\ ops2[i].by = ops[i].by
                                 /\ ops2[i].kind = ops[i].kind /\ ops2[i].change = ops[i].change
    BY DEF Ended
  <2>4. Own(c, r, ops, r.first) /\ Own(c, r, ops2, r.first) /\ Kind(r, ops2) = Kind(r, ops)
    BY <1>2, <2>1, <2>3 DEF Follows, Own, Kind
  \* k is the only one in progress there, and it is not before the first of the command
  <2>5. \A i \in DOMAIN ops : ops[i].on = r.name /\ ops[i].status = "InProgress" => i = k
    BY <2>2 DEF Serial
  <2>6. k >= r.first
    BY <2>2, <2>4 DEF Serial, Own
  <2>7. Others(c, r, ops) => Others(c, r, ops2)
    BY <2>3 DEF Others
  <2>8. ops[k].by # c => Others(c, r, ops)
    <3> SUFFICES ASSUME ops[k].by # c PROVE k > r.first
      BY <2>2 DEF Others
    <3> QED BY <2>2, <2>4, <2>6 DEF Own
  <2>9. ops[k].by = c => Going(c, r, ops, k)
    BY <1>2, <2>2, <2>6 DEF Going, Own
  <2>10. r.pc \in {"wait", "done"} => Own(c, r, ops, r.id) /\ Own(c, r, ops2, r.id)
    BY <1>2, <2>1, <2>3 DEF Follows, Own
  <2>11. r.pc = "done" => ops[r.id].status = "Completed" /\ ops2[r.id] = ops[r.id]
    <3> SUFFICES ASSUME r.pc = "done" PROVE ops[r.id].status = "Completed" /\ ops2[r.id] = ops[r.id]
      OBVIOUS
    <3>1. ops[r.id].status = "Completed"
      BY <1>2, <2>1 DEF Follows
    <3> QED BY <2>2, <2>10, <3>1 DEF Ended, Own
  <2>12. Follows(c, r, ops2)
    <3>1. r.pc # "idle" => r.name \in Names
      BY <2>1 DEF Follows
    <3>2. r.pc \in {"wait", "done"} =>
              /\ Own(c, r, ops2, r.id)
              /\ ops2[r.id].kind = IF r.failed THEN "rollback" ELSE Kind(r, ops2)
              /\ r.pc = "done" => ops2[r.id].status = "Completed"
      <4>1. r.id \in DOMAIN ops /\ r.pc \in {"wait", "done"} => ops2[r.id].kind = ops[r.id].kind
        BY <2>3
      <4> QED BY <1>2, <2>1, <2>4, <2>10, <2>11, <4>1 DEF Follows, Own
    <3>3. r.pc = "wait" /\ ~r.failed => ops2[r.id].change = r.rest[1].change
      BY <1>2, <2>1, <2>3, <2>10 DEF Follows, Own
    <3> QED BY <1>2, <2>1, <2>4, <3>1, <3>2, <3>3 DEF Follows
  \* What goes on now is the one that takes k back, and k was the command's
  <2>13. \A i \in DOMAIN ops2 : Going(c, r, ops2, i) =>
             /\ i \notin DOMAIN ops /\ ops[k].by = c /\ ops2[i].kind = "rollback" /\ ops2[i].was = ops[k].was
             /\ ops[k].kind # "rollback" /\ ops2[k].status = "Failed" /\ ops2[k].subsequent = i
    <3> SUFFICES ASSUME NEW i \in DOMAIN ops2, Going(c, r, ops2, i) PROVE i \notin DOMAIN ops /\ ops2[i].by = c
      BY DEF Ended
    <3>1. ops2[i].on = r.name /\ ops2[i].by = c /\ ops2[i].status = "InProgress"
      BY DEF Going, Own
    <3>2. ASSUME i \in DOMAIN ops PROVE FALSE
      <4>1. CASE i = k
        BY <3>1, <4>1 DEF Ended
      <4>2. CASE i # k
        <5>1. ops2[i] = ops[i]
          BY <3>2, <4>2 DEF Ended
        <5> QED BY <2>5, <3>1, <3>2, <4>2, <5>1
      <4> QED BY <4>1, <4>2
    <3> QED BY <3>1, <3>2
  <2>14. Watches(c, r, ops2)
    <3> SUFFICES ASSUME NEW i \in DOMAIN ops2, Going(c, r, ops2, i)
                 PROVE  CASE r.pc = "wait" -> i = r.id \/ (ops2[r.id].status = "Failed" /\ ops2[r.id].subsequent = i)
                          [] r.pc \in {"send", "failed"} -> r.blind
                          [] OTHER -> FALSE
      BY DEF Watches
    <3>1. Going(c, r, ops, k)
      BY <2>9, <2>13
    <3>2. CASE r.pc = "wait"
      <4>1. k = r.id \/ (ops[r.id].status = "Failed" /\ ops[r.id].subsequent = k)
        BY <2>1, <2>2, <3>1, <3>2 DEF Watches
      <4>2. ASSUME ops[r.id].status = "Failed", ops[r.id].subsequent = k PROVE FALSE
        <5>1. r.id \in DOMAIN ops /\ ops[r.id].on = r.name
          BY <2>10, <3>2 DEF Own
        <5>2. ops[r.id].subsequent # 0
          BY <2>2, <4>2
        <5>3. ops[k].kind = "rollback"
          BY <4>2, <5>1, <5>2 DEF OperationFits
        <5> QED BY <2>13, <5>3
      <4> QED BY <2>13, <3>2, <4>1, <4>2
    <3>3. CASE r.pc # "wait"
      <4>1. r.pc \in {"send", "failed"} /\ r.blind
        BY <2>1, <2>2, <3>1, <3>3 DEF Watches
      <4> QED BY <3>3, <4>1
    <3> QED BY <3>2, <3>3
  <2>15. Keeps(c, r, ops2, x2)
    <3> SUFFICES ASSUME r.pc \in {"send", "wait", "done"}, ~r.failed, ~Others(c, r, ops2)
        PROVE /\ Kind(r, ops2) \notin {"create", "delete"} =>
                   /\ Meets(x2, r.want, r.rest)
                   /\ \A i \in DOMAIN ops2 : Going(c, r, ops2, i) =>
                        /\ Meets(ops2[i].was, r.want, r.rest)
                        /\ ops2[i].kind \in {Kind(r, ops2), "rollback"}
                        /\ ops2[i].kind # "rollback" => Agrees(ops2[i].change, r.want)
              /\ r.pc = "done" \/ (r.pc = "wait" /\ ops2[r.id].status = "Completed") =>
                   IF Kind(r, ops2) = "delete" THEN x2 = Absent
                   ELSE Meets(x2, r.want, IF r.pc = "wait" THEN Tail(r.rest) ELSE <<>>)
      BY DEF Keeps
    <3>1. ops[k].by = c /\ Going(c, r, ops, k)
      BY <2>7, <2>8, <2>9
    <3>2. r.pc \in {"send", "wait"}
      <4> SUFFICES ASSUME r.pc = "done" PROVE FALSE
        OBVIOUS
      <4> QED BY <2>1, <2>2, <3>1 DEF Watches
    <3>3. /\ ops[k] \in OperationRecord /\ ops[k].was \in Whole \cup {Absent} /\ ops[k].change \in Partial
          /\ ops[k].kind = "create" => "version" \in DOMAIN ops[k].change
          /\ ops[k].kind # "rollback" => (ops[k].kind = "create" <=> x = Absent)
      BY <2>2 DEF OperationFits, OperationRecord
    <3>4. /\ ops[k].kind = "create" =>
                Effect(ops[k], x) \in Whole
                /\ \A f \in DOMAIN ops[k].change : Effect(ops[k], x)[f] = ops[k].change[f]
          /\ ops[k].kind = "delete" => Effect(ops[k], x) = Absent
          /\ ops[k].kind = "rollback" => Effect(ops[k], x) = ops[k].was
          /\ ops[k].kind \notin {"create", "delete", "rollback"} =>
                x \in Whole /\ Effect(ops[k], x) = With(ops[k].change, x)
      BY <3>3, EffectIs
    <3>5. ASSUME Kind(r, ops) \notin {"create", "delete"}
          PROVE  /\ Meets(x, r.want, r.rest) /\ Meets(ops[k].was, r.want, r.rest)
                 /\ ops[k].kind \in {Kind(r, ops), "rollback"}
                 /\ ops[k].kind # "rollback" => Agrees(ops[k].change, r.want)
      BY <1>2, <2>1, <2>2, <2>7, <3>1, <3>5 DEF Keeps
    <3>6. Kind(r, ops) \notin {"create", "delete"} => Meets(x2, r.want, r.rest)
      <4> SUFFICES ASSUME Kind(r, ops) \notin {"create", "delete"}, x2 = Effect(ops[k], x)
                   PROVE  Meets(x2, r.want, r.rest)
        BY <3>5 DEF Ended
      <4>1. CASE ops[k].kind = "rollback"
        BY <3>4, <3>5, <4>1
      <4>2. CASE ops[k].kind # "rollback"
        <5>1. x \in Whole /\ x2 = With(ops[k].change, x)
          BY <3>4, <3>5, <4>2
        <5>2. Agrees(ops[k].change, r.want) /\ Meets(x, r.want, r.rest)
          BY <3>5, <4>2
        <5> QED BY <2>2, <3>3, <5>1, <5>2, MeetsWith
      <4> QED BY <4>1, <4>2
    <3>7. ASSUME NEW i \in DOMAIN ops2, Going(c, r, ops2, i), Kind(r, ops) \notin {"create", "delete"}
          PROVE  /\ Meets(ops2[i].was, r.want, r.rest)
                 /\ ops2[i].kind = "rollback"
      BY <2>13, <3>5, <3>7
    <3>8. ASSUME r.pc = "wait", ops2[r.id].status = "Completed"
          PROVE  IF Kind(r, ops) = "delete" THEN x2 = Absent ELSE Meets(x2, r.want, Tail(r.rest))
      <4>1. r.id \in DOMAIN ops /\ ops[r.id].on = r.name
        BY <2>10, <3>8 DEF Own
      <4>2. r.id = k
        <5>1. k = r.id \/ ops[r.id].status = "Failed"
          BY <2>1, <2>2, <3>1, <3>8 DEF Watches
        <5> QED BY <3>8, <4>1, <5>1 DEF Ended
      <4>3. /\ ops[k].kind = Kind(r, ops) /\ Kind(r, ops) # "rollback" /\ ops[k].change = r.rest[1].change
            /\ Kind(r, ops) = "create" => DOMAIN r.want \subseteq Left(r.rest)
        BY <1>2, <2>1, <3>8, <4>2 DEF Follows
      <4>4. x2 = Effect(ops[k], x)
        BY <3>8, <4>2 DEF Ended
      <4>5. r.rest # <<>> /\ 1 \in DOMAIN r.rest /\ Agrees(r.rest[1].change, r.want)
        <5>1. r.rest # <<>>
          BY <2>1, <3>8 DEF Requests
        <5>2. 1 \in DOMAIN r.rest
          BY <2>2, <5>1
        <5> QED BY <2>1, <5>1, <5>2 DEF Requests
      <4>6. CASE Kind(r, ops) = "delete"
        BY <3>4, <4>3, <4>4, <4>6
      <4>7. CASE Kind(r, ops) = "create"
        <5>1. x2 \in Whole /\ \A f \in DOMAIN r.rest[1].change : x2[f] = r.rest[1].change[f]
          BY <3>4, <4>3, <4>4, <4>7
        <5>2. Left(r.rest) = DOMAIN r.rest[1].change \cup Left(Tail(r.rest))
          BY <2>2, <4>5, LeftIs
        <5>3. \A f \in DOMAIN r.want : f \in Left(Tail(r.rest)) \/ x2[f] = r.want[f]
          BY <4>3, <4>5, <4>7, <5>1, <5>2 DEF Agrees
        <5> QED BY <4>7, <5>1, <5>3, AbsentIs DEF Meets
      <4>8. CASE Kind(r, ops) \notin {"create", "delete"}
        <5>1. x \in Whole /\ x2 = With(ops[k].change, x)
          BY <3>4, <4>3, <4>4, <4>8
        <5>2. x2 \in Whole /\ \A f \in Fields : x2[f] = IF f \in DOMAIN ops[k].change THEN ops[k].change[f] ELSE x[f]
          BY <3>3, <5>1, WithIs
        <5>3. DOMAIN ops[k].change \subseteq Fields
          BY <3>3, PartialIs
        <5>4. /\ \A f \in Fields : f \notin DOMAIN r.rest[1].change => x2[f] = x[f]
              /\ \A f \in DOMAIN r.rest[1].change : x2[f] = r.rest[1].change[f]
          BY <4>3, <5>2, <5>3
        <5>5. Meets(x, r.want, r.rest)
          BY <3>5, <4>8
        <5>6. Meets(x2, r.want, Tail(r.rest))
          BY <2>2, <4>5, <5>1, <5>2, <5>4, <5>5, MeetsNext
        <5> QED BY <4>8, <5>6
      <4> QED BY <4>6, <4>7, <4>8
    <3> QED BY <2>4, <3>2, <3>6, <3>7, <3>8
  <2> QED BY <2>1, <2>12, <2>14, <2>15 DEF CallFits
<1> QED BY <1>1, <1>2

(* The operations stay fit for what happens when one ends. *)
LEMMA EndsOperations ==
    ASSUME NEW ops \in Seq(OperationRecord), NEW ops2 \in Seq(OperationRecord),
           NEW x \in Whole \cup {Absent}, NEW x2, NEW k, Ended(k, ops, ops2, x, x2), Serial(ops),
           NEW i \in DOMAIN ops2, i \in DOMAIN ops => OperationFits(i, ops, x) , ops2[i].on = ops[k].on
    PROVE  OperationFits(i, ops2, x2)
<1>1. /\ DOMAIN ops = 1 .. Len(ops) /\ Len(ops) \in Nat /\ DOMAIN ops2 = 1 .. Len(ops2) /\ Len(ops2) \in Nat
      /\ k \in DOMAIN ops /\ ops[k].status = "InProgress" /\ DOMAIN ops \subseteq DOMAIN ops2
      /\ \A j \in DOMAIN ops : ops2[j].on = ops[j].on /\ ops2[j].by = ops[j].by /\ ops2[j].kind = ops[j].kind
      /\ \A j \in DOMAIN ops2 : ops2[j] \in OperationRecord
  BY DEF Ended
<1>2. CASE i \notin DOMAIN ops
  BY <1>2 DEF Ended, OperationFits
<1>3. CASE i = k
  <2>1. OperationFits(k, ops, x)
    BY <1>1, <1>3
  <2>2. /\ ops2[k].kind = ops[k].kind /\ ops2[k].change = ops[k].change
        /\ ops2[k].status \in {"Completed", "Failed"}
    BY DEF Ended
  <2>3. ASSUME ops2[k].subsequent # 0
        PROVE  LET m == ops2[k].subsequent
               IN  /\ ops2[k].status = "Failed" /\ ops2[k].kind # "rollback" /\ m \in DOMAIN ops2 /\ m > k
                   /\ ops2[m].kind = "rollback" /\ ops2[m].on = ops2[k].on /\ ops2[m].by = ops2[k].by
    <3> DEFINE m == ops2[k].subsequent
    <3>1. m \in DOMAIN ops2 /\ m \notin DOMAIN ops
      BY <2>3 DEF Ended
    <3>2. m > k
      BY <1>1, <3>1
    <3> QED BY <1>1, <3>1, <3>2 DEF Ended
  <2> QED BY <1>3, <2>1, <2>2, <2>3 DEF OperationFits
<1>4. CASE i \in DOMAIN ops /\ i # k
  <2>1. ops2[i] = ops[i] /\ OperationFits(i, ops, x)
    BY <1>4 DEF Ended
  <2>2. ops[i].status # "InProgress"
    BY <1>1, <1>4, <2>1 DEF Serial
  <2>3. ASSUME ops[i].subsequent # 0
        PROVE  LET m == ops[i].subsequent
               IN  /\ ops[i].status = "Failed" /\ ops[i].kind # "rollback" /\ m \in DOMAIN ops2 /\ m > i
                   /\ ops2[m].kind = "rollback" /\ ops2[m].on = ops[i].on /\ ops2[m].by = ops[i].by
    BY <1>1, <2>1, <2>3 DEF OperationFits
  <2> QED BY <2>1, <2>2, <2>3 DEF OperationFits
<1> QED BY <1>2, <1>3, <1>4

LEMMA EndsSerial ==
    ASSUME NEW ops \in Seq(OperationRecord), NEW ops2 \in Seq(OperationRecord), NEW x, NEW x2, NEW k,
           Ended(k, ops, ops2, x, x2), Serial(ops)
    PROVE  Serial(ops2)
<1> SUFFICES ASSUME NEW i \in DOMAIN ops2, NEW j \in DOMAIN ops2, i < j, ops2[i].on = ops2[j].on
             PROVE  ops2[i].status # "InProgress"
  BY DEF Serial
<1>1. /\ DOMAIN ops = 1 .. Len(ops) /\ Len(ops) \in Nat /\ DOMAIN ops2 = 1 .. Len(ops2) /\ Len(ops2) \in Nat
      /\ k \in DOMAIN ops /\ ops[k].status = "InProgress"
      /\ \A l \in DOMAIN ops : ops2[l].on = ops[l].on
  BY DEF Ended
<1>2. i \in DOMAIN ops
  <2> SUFFICES ASSUME i \notin DOMAIN ops PROVE j <= i
    BY <1>1
  <2> QED BY DEF Ended
<1>3. CASE i = k
  BY <1>3 DEF Ended
<1>4. CASE i # k
  <2>1. ops2[i] = ops[i]
    BY <1>2, <1>4 DEF Ended
  <2>2. CASE j \in DOMAIN ops
    BY <1>1, <1>2, <2>1, <2>2 DEF Serial
  <2>3. CASE j \notin DOMAIN ops
    <3>1. ops[i].on = ops[k].on
      BY <2>1, <2>3 DEF Ended
    <3>2. i < k \/ k < i
      BY <1>1, <1>2, <1>4
    <3> QED BY <1>1, <1>2, <2>1, <3>1, <3>2 DEF Serial
  <2> QED BY <2>2, <2>3
<1> QED BY <1>3, <1>4

-----------------------------------------------------------------------------
\* The cloud takes up a request: the operation o
Begins(ops, ops2, o) ==
    /\ ops2 = Append(ops, o) /\ o \in OperationRecord /\ o.status = "InProgress" /\ o.subsequent = 0
    /\ \A i \in DOMAIN ops : ops[i].on = o.on => ops[i].status # "InProgress"

LEMMA BeginsIs ==
    ASSUME NEW ops \in Seq(OperationRecord), NEW ops2, NEW o, Begins(ops, ops2, o)
    PROVE  /\ ops2 \in Seq(OperationRecord) /\ Len(ops) \in Nat
           /\ DOMAIN ops = 1 .. Len(ops) /\ DOMAIN ops2 = 1 .. Len(ops) + 1
           /\ \A i \in DOMAIN ops : ops2[i] = ops[i]
           /\ ops2[Len(ops) + 1] = o
BY DEF Begins

LEMMA BeginsSerial ==
    ASSUME NEW ops \in Seq(OperationRecord), NEW ops2, NEW o, Begins(ops, ops2, o), Serial(ops)
    PROVE  Serial(ops2)
<1> SUFFICES ASSUME NEW i \in DOMAIN ops2, NEW j \in DOMAIN ops2, i < j, ops2[i].on = ops2[j].on
             PROVE  ops2[i].status # "InProgress"
  BY DEF Serial
<1>1. /\ Len(ops) \in Nat /\ DOMAIN ops = 1 .. Len(ops) /\ DOMAIN ops2 = 1 .. Len(ops) + 1
      /\ \A l \in DOMAIN ops : ops2[l] = ops[l]
      /\ ops2[Len(ops) + 1] = o
  BY BeginsIs
<1>2. i \in DOMAIN ops
  BY <1>1
<1>3. CASE j \in DOMAIN ops
  BY <1>1, <1>2, <1>3 DEF Serial
<1>4. CASE j = Len(ops) + 1
  BY <1>1, <1>2, <1>4 DEF Begins
<1> QED BY <1>1, <1>3, <1>4

LEMMA BeginsOperations ==
    ASSUME NEW ops \in Seq(OperationRecord), NEW ops2, NEW o, Begins(ops, ops2, o), NEW x,
           NEW i \in DOMAIN ops, OperationFits(i, ops, x)
    PROVE  OperationFits(i, ops2, x)
<1>1. /\ Len(ops) \in Nat /\ DOMAIN ops = 1 .. Len(ops) /\ DOMAIN ops2 = 1 .. Len(ops) + 1
      /\ \A l \in DOMAIN ops : ops2[l] = ops[l]
  BY BeginsIs
<1> QED BY <1>1 DEF OperationFits

(* Another command stays fit: that somebody else has had an operation since *)
(* is all that it learns. *)
LEMMA BesideIt ==
    ASSUME NEW c, NEW r \in CallRecord, NEW ops \in Seq(OperationRecord), NEW ops2, NEW o, NEW x,
           CallFits(c, r, ops, x), Begins(ops, ops2, o), o.by # c
    PROVE  CallFits(c, r, ops2, x)
<1>1. /\ Len(ops) \in Nat /\ DOMAIN ops = 1 .. Len(ops) /\ DOMAIN ops2 = 1 .. Len(ops) + 1
      /\ \A l \in DOMAIN ops : ops2[l] = ops[l]
      /\ ops2[Len(ops) + 1] = o
  BY BeginsIs
<1>2. CASE r.first = 0
  BY <1>2, Unanswered
<1>3. CASE r.first # 0 /\ o.on # r.name
  <2>1. \A i \in DOMAIN ops2 : ops2[i].on = r.name => i \in DOMAIN ops /\ ops2[i] = ops[i]
    BY <1>1, <1>3
  <2>2. DOMAIN ops \subseteq DOMAIN ops2 /\ \A i \in DOMAIN ops : ops2[i].on = ops[i].on
    BY <1>1
  <2> QED BY <2>1, <2>2, Elsewhere
<1>4. CASE r.first # 0 /\ o.on = r.name
  <2>1. Requests(r) /\ Follows(c, r, ops) /\ Watches(c, r, ops)
    BY DEF CallFits
  <2>2. \A i \in DOMAIN ops2 : ops2[i].by = c => i \in DOMAIN ops /\ ops2[i] = ops[i]
    BY <1>1
  <2>3. \A i : Own(c, r, ops2, i) <=> Own(c, r, ops, i)
    BY <1>1, <2>2 DEF Own
  <2>4. \A i : Own(c, r, ops, i) => ops2[i] = ops[i]
    BY <1>1 DEF Own
  <2>5. \A i : Going(c, r, ops2, i) <=> Going(c, r, ops, i)
    BY <2>3, <2>4 DEF Going
  <2>6. Own(c, r, ops, r.first) /\ Kind(r, ops2) = Kind(r, ops)
    BY <1>4, <2>1, <2>4 DEF Follows, Kind
  <2>7. r.pc \in {"wait", "done"} => Own(c, r, ops, r.id) /\ ops2[r.id] = ops[r.id]
    BY <1>4, <2>1, <2>4 DEF Follows
  <2>8. Follows(c, r, ops2)
    BY <1>4, <2>1, <2>3, <2>6, <2>7 DEF Follows
  <2>9. Watches(c, r, ops2)
    <3> SUFFICES ASSUME NEW i \in DOMAIN ops2, Going(c, r, ops2, i)
                 PROVE  CASE r.pc = "wait" -> i = r.id \/ (ops2[r.id].status = "Failed" /\ ops2[r.id].subsequent = i)
                          [] r.pc \in {"send", "failed"} -> r.blind
                          [] OTHER -> FALSE
      BY DEF Watches
    <3>1. i \in DOMAIN ops /\ Going(c, r, ops, i)
      BY <2>5 DEF Going, Own
    <3> QED BY <2>1, <2>7, <3>1 DEF Watches
  <2>10. Others(c, r, ops2)
    <3>1. Len(ops) + 1 \in DOMAIN ops2 /\ ops2[Len(ops) + 1] = o
      BY <1>1
    <3>2. r.first \in DOMAIN ops
      BY <2>6 DEF Own
    <3>3. Len(ops) + 1 > r.first
      BY <1>1, <3>2
    <3> QED BY <1>4, <3>1, <3>3 DEF Others
  <2>11. Keeps(c, r, ops2, x)
    BY <2>10 DEF Keeps
  <2> QED BY <2>1, <2>8, <2>9, <2>11 DEF CallFits
<1> QED BY <1>2, <1>3, <1>4

\* What a command has had answered, or lost the answer of
Sends(c, r, r2, ops, o, x) ==
    /\ r2 \in CallRecord /\ r2.name = r.name /\ r2.rest = r.rest /\ r2.want = r.want /\ r2.failed = r.failed
    /\ o.on = r.name /\ o.by = c /\ o.kind = r.rest[1].kind /\ o.change = r.rest[1].change /\ o.was = x
    /\ o.kind = "create" <=> x = Absent
    /\ \/ /\ r2.pc = "wait" /\ r2.id = Len(ops) + 1
          /\ r2.first = IF r.first = 0 THEN Len(ops) + 1 ELSE r.first
       \/ r2.pc \in {"send", "failed"} /\ r2.first = r.first /\ r2.blind

LEMMA SendsFits ==
    ASSUME NEW c, NEW r \in CallRecord, NEW r2 \in CallRecord, NEW ops \in Seq(OperationRecord), NEW ops2,
           NEW o, NEW x, CallFits(c, r, ops, x), Begins(ops, ops2, o), r.pc = "send", Sends(c, r, r2, ops, o, x)
    PROVE  CallFits(c, r2, ops2, x)
<1> DEFINE m == Len(ops) + 1
<1>1. /\ Len(ops) \in Nat /\ DOMAIN ops = 1 .. Len(ops) /\ DOMAIN ops2 = 1 .. m /\ m \in DOMAIN ops2 /\ m # 0
      /\ \A l \in DOMAIN ops : ops2[l] = ops[l]
      /\ ops2[m] = o
  BY BeginsIs
<1>2. Requests(r) /\ Follows(c, r, ops) /\ Watches(c, r, ops) /\ Keeps(c, r, ops, x)
  BY DEF CallFits
<1>3. /\ r2.name = r.name /\ r2.rest = r.rest /\ r2.want = r.want /\ r2.failed = r.failed
      /\ o.on = r.name /\ o.by = c /\ o.kind = r.rest[1].kind /\ o.change = r.rest[1].change /\ o.was = x
      /\ o.kind = "create" <=> x = Absent
  BY DEF Sends
<1>4. /\ r.rest # <<>> /\ 1 \in DOMAIN r.rest /\ r.rest[1].kind # "rollback" /\ r.name \in Names
      /\ ~r.failed
  <2>1. r.rest # <<>> /\ r.rest \in Seq(RequestRecord)
    BY <1>2 DEF Requests, CallRecord
  <2>2. 1 \in DOMAIN r.rest /\ r.rest[1] \in RequestRecord
    BY <2>1
  <2>3. r.rest[1].kind # "rollback"
    BY <2>2 DEF RequestRecord, RequestKinds
  <2> QED BY <1>2, <2>1, <2>2, <2>3 DEF Follows
<1>5. Requests(r2)
  BY <1>2, <1>3, <1>4 DEF Requests, Sends
<1>6. r.first # 0 => r.first \in DOMAIN ops /\ Own(c, r, ops, r.first) /\ Kind(r, ops) = r.rest[1].kind
                     /\ Kind(r, ops) \notin {"create", "delete"}
  BY <1>2, <1>4 DEF Follows, Own
<1>7. r.first = 0 => DOMAIN r.want \subseteq Left(r.rest)
  BY <1>2 DEF Follows
\* What the command has going on is the new operation
<1>8. \A i : Going(c, r2, ops2, i) => i = m
  BY <1>1, <1>3 DEF Going, Own, Begins
<1>9. \A i \in DOMAIN r.rest : r.rest[i].kind = r.rest[1].kind
  BY <1>2, <1>4 DEF Requests
<1>10. ASSUME r2.first # 0
       PROVE  Own(c, r2, ops2, r2.first) /\ Kind(r2, ops2) = r.rest[1].kind /\ m >= r2.first
  <2>1. CASE r.first # 0
    <3>1. r2.first = r.first
      BY <2>1 DEF Sends
    <3> QED BY <1>1, <1>3, <1>6, <2>1, <3>1 DEF Own, Kind
  <2>2. CASE r.first = 0
    <3>1. r2.first = m
      BY <1>10, <2>2 DEF Sends
    <3> QED BY <1>1, <1>3, <3>1 DEF Own, Kind
  <2> QED BY <2>1, <2>2
<1>11. r2.first # 0 /\ r2.pc = "send" => r.first # 0
  BY DEF Sends
<1>12. r2.pc = "wait" => r2.first # 0 /\ r2.id = m
  BY <1>1 DEF Sends
<1>13. r2.pc \in {"wait", "send", "failed"} /\ (r2.pc # "wait" => r2.blind)
  BY DEF Sends
<1>14. Follows(c, r2, ops2)
  <2>1. r2.first = 0 /\ r2.pc = "send" => DOMAIN r2.want \subseteq Left(r2.rest) /\ ~r2.failed
    <3> SUFFICES ASSUME r2.first = 0 PROVE r.first = 0
      BY <1>3, <1>4, <1>7
    <3> QED BY <1>1 DEF Sends
  <2>2. ASSUME r2.pc = "wait"
        PROVE  /\ Own(c, r2, ops2, m) /\ ops2[m].kind = Kind(r2, ops2) /\ ops2[m].change = r2.rest[1].change
               /\ Kind(r2, ops2) = "create" => DOMAIN r2.want \subseteq Left(r2.rest)
    <3>1. r2.first # 0 /\ m >= r2.first /\ Kind(r2, ops2) = r.rest[1].kind
      BY <1>10, <1>12, <2>2
    <3>2. Own(c, r2, ops2, m)
      BY <1>1, <1>3, <3>1 DEF Own
    <3> QED BY <1>1, <1>3, <1>6, <1>7, <3>1, <3>2
  <2>3. r2.first # 0 => /\ Own(c, r2, ops2, r2.first) /\ Kind(r2, ops2) # "rollback"
                        /\ \A i \in DOMAIN r2.rest : r2.rest[i].kind = Kind(r2, ops2)
                        /\ r2.pc = "send" => Kind(r2, ops2) \notin {"create", "delete"} /\ ~r2.failed
    BY <1>3, <1>4, <1>6, <1>9, <1>10, <1>11
  <2> QED BY <1>3, <1>4, <1>12, <1>13, <2>1, <2>2, <2>3 DEF Follows
<1>15. Watches(c, r2, ops2)
  BY <1>8, <1>12, <1>13 DEF Watches
<1>16. Keeps(c, r2, ops2, x)
  <2> SUFFICES ASSUME r2.first # 0, ~Others(c, r2, ops2), r2.pc \in {"send", "wait"},
                      Kind(r2, ops2) \notin {"create", "delete"}
               PROVE  /\ Meets(x, r2.want, r2.rest)
                      /\ \A i \in DOMAIN ops2 : Going(c, r2, ops2, i) =>
                           /\ Meets(ops2[i].was, r2.want, r2.rest)
                           /\ ops2[i].kind \in {Kind(r2, ops2), "rollback"}
                           /\ ops2[i].kind # "rollback" => Agrees(ops2[i].change, r2.want)
    <3>1. r2.pc # "done" /\ ~(r2.pc = "wait" /\ ops2[r2.id].status = "Completed")
      BY <1>1, <1>12, <1>13 DEF Begins
    <3> QED BY <1>13, <3>1 DEF Keeps
  <2>1. Kind(r2, ops2) = r.rest[1].kind
    BY <1>10
  <2>2. Meets(x, r.want, r.rest)
    <3>1. CASE r.first = 0
      <4>1. x # Absent
        BY <1>3, <2>1
      <4> QED BY <1>7, <3>1, <4>1, MeetsMore
    <3>2. CASE r.first # 0
      <4>1. r2.first = r.first
        BY <3>2 DEF Sends
      <4>2. ~Others(c, r, ops)
        BY <1>1, <1>3, <4>1 DEF Others
      <4> QED BY <1>2, <1>4, <1>6, <3>2, <4>2 DEF Keeps
    <3> QED BY <3>1, <3>2
  <2>3. Agrees(o.change, r.want)
    BY <1>2, <1>3, <1>4 DEF Requests
  <2> QED BY <1>1, <1>3, <1>8, <2>1, <2>2, <2>3
<1> QED BY <1>5, <1>14, <1>15, <1>16 DEF CallFits

-----------------------------------------------------------------------------
LEMMA NothingIs == <<>> \in Partial /\ DOMAIN <<>> = {} /\ <<>> \in Seq(RequestRecord)
<1>1. <<>> = [f \in {} |-> 0]
  OBVIOUS
<1>2. [f \in {} |-> 0] \in [{} -> Nat]
  OBVIOUS
<1>3. {} \in SUBSET Fields
  OBVIOUS
<1> QED BY <1>1, <1>2, <1>3 DEF Partial

LEMMA IdleIs == Idle \in CallRecord /\ Idle.first = 0 /\ Idle.pc = "idle" /\ Idle.rest = <<>>
BY NothingIs DEF Idle, CallRecord

LEMMA IdleFits == ASSUME NEW c, NEW ops, NEW x PROVE CallFits(c, Idle, ops, x)
<1>1. Requests(Idle)
  BY IdleIs DEF Requests
<1>2. Follows(c, Idle, ops)
  BY IdleIs DEF Follows
<1>3. Watches(c, Idle, ops)
  BY IdleIs DEF Watches, Going, Own
<1>4. Keeps(c, Idle, ops, x)
  BY IdleIs DEF Keeps
<1> QED BY <1>1, <1>2, <1>3, <1>4 DEF CallFits

LEMMA InstancesStart == InstancesInit => InstancesInductive
<1> SUFFICES ASSUME InstancesInit PROVE InstancesInductive
  OBVIOUS
<1> DEFINE default == [version |-> CHOOSE v \in StableVersions : TRUE, tier |-> Free,
                       compute |-> DefaultSize, storage |-> DefaultSize]
<1>1. default \in Whole
  <2>1. (CHOOSE v \in StableVersions : TRUE) \in Nat
    BY CloudAssumption
  <2> QED BY <2>1, CloudAssumption DEF Whole, Fields, Free
<1>2. InstancesTyped
  <2>1. inst \in [Names -> Whole \cup {Absent}]
    BY <1>1 DEF InstancesInit
  <2>2. cloudOps \in Seq(OperationRecord)
    BY DEF InstancesInit
  <2>3. call \in [Callers -> CallRecord]
    BY IdleIs DEF InstancesInit
  <2> QED BY <2>1, <2>2, <2>3 DEF InstancesTyped
<1>3. OperationsFit
  BY DEF InstancesInit, OperationsFit, Serial
<1>4. \A c \in Callers : CallFits(c, call[c], cloudOps, inst[call[c].name])
  BY IdleFits DEF InstancesInit
<1> QED BY <1>2, <1>3, <1>4 DEF InstancesInductive

(* The cloud ends an operation *)

LEMMA TypedIs ==
    ASSUME InstancesTyped
    PROVE  /\ inst \in [Names -> Whole \cup {Absent}] /\ cloudOps \in Seq(OperationRecord)
           /\ call \in [Callers -> CallRecord]
           /\ \A i \in DOMAIN cloudOps :
                 /\ cloudOps[i] \in OperationRecord /\ cloudOps[i].on \in Names
                 /\ cloudOps[i].was \in Whole \cup {Absent} /\ cloudOps[i].change \in Partial
                 /\ cloudOps[i].by \in Callers /\ cloudOps[i].subsequent \in Nat
<1>1. /\ inst \in [Names -> Whole \cup {Absent}] /\ cloudOps \in Seq(OperationRecord)
      /\ call \in [Callers -> CallRecord]
  BY DEF InstancesTyped
<1>2. \A i \in DOMAIN cloudOps : cloudOps[i] \in OperationRecord
  BY <1>1
<1> QED BY <1>1, <1>2 DEF OperationRecord

LEMMA CloudStep ==
    ASSUME InstancesInductive, NEW k \in DOMAIN cloudOps, cloudOps' \in Seq(OperationRecord),
           Ended(k, cloudOps, cloudOps', inst[cloudOps[k].on], inst'[cloudOps[k].on]),
           inst' = [inst EXCEPT ![cloudOps[k].on] = inst'[cloudOps[k].on]],
           UNCHANGED call
    PROVE  InstancesInductive'
<1> DEFINE n == cloudOps[k].on
<1>1. InstancesTyped /\ OperationsFit /\ cloudOps[k] \in OperationRecord /\ n \in Names
      /\ cloudOps[k].was \in Whole \cup {Absent} /\ cloudOps[k].status = "InProgress"
      /\ inst[n] \in Whole \cup {Absent}
  <2>1. InstancesTyped /\ OperationsFit
    BY DEF InstancesInductive
  <2>2. cloudOps[k].status = "InProgress"
    BY DEF Ended
  <2> QED BY <2>1, <2>2, TypedIs
<1>2. Effect(cloudOps[k], inst[n]) \in Whole \cup {Absent}
  <2>1. OperationFits(k, cloudOps, inst[n])
    BY <1>1 DEF OperationsFit
  <2>2. /\ cloudOps[k].kind = "create" => "version" \in DOMAIN cloudOps[k].change
        /\ cloudOps[k].kind # "rollback" => (cloudOps[k].kind = "create" <=> inst[n] = Absent)
    BY <1>1, <2>1 DEF OperationFits
  <2> QED BY <1>1, <2>2, EffectIs
<1>3. inst'[n] \in Whole \cup {Absent}
  BY <1>1, <1>2 DEF Ended
<1>4. InstancesTyped'
  BY <1>1, <1>3 DEF InstancesTyped
<1>5. \A m \in Names : m # n => inst'[m] = inst[m]
  BY <1>1 DEF InstancesTyped
<1>6. OperationsFit'
  <2>1. Serial(cloudOps')
    BY <1>1, EndsSerial DEF InstancesTyped, OperationsFit
  <2>2. ASSUME NEW i \in DOMAIN cloudOps' PROVE OperationFits(i, cloudOps', inst'[cloudOps'[i].on])
    <3>1. CASE cloudOps'[i].on = n
      <4>1. i \in DOMAIN cloudOps => OperationFits(i, cloudOps, inst[n])
        BY <1>1, <3>1 DEF OperationsFit, Ended
      <4>2. cloudOps \in Seq(OperationRecord) /\ Serial(cloudOps)
        BY <1>1 DEF InstancesTyped, OperationsFit
      <4>4. Ended(k, cloudOps, cloudOps', inst[n], inst'[n]) /\ cloudOps'[i].on = cloudOps[k].on
        BY <3>1
      <4>5. inst[n] \in Whole \cup {Absent} /\ i \in DOMAIN cloudOps'
        BY <1>1
      <4> HIDE DEF n
      <4>3. OperationFits(i, cloudOps', inst'[n])
        BY <4>1, <4>2, <4>4, <4>5, EndsOperations
      <4> QED BY <3>1, <4>3
    <3>2. CASE cloudOps'[i].on # n
      <4>1. i \in DOMAIN cloudOps /\ i # k /\ cloudOps'[i] = cloudOps[i]
        BY <3>2 DEF Ended
      <4>2. cloudOps[i].on \in Names /\ inst'[cloudOps[i].on] = inst[cloudOps[i].on]
        BY <1>1, <1>5, <3>2, <4>1, TypedIs
      <4>3. OperationFits(i, cloudOps, inst[cloudOps[i].on])
        BY <1>1, <4>1 DEF OperationsFit
      <4>4. \A j \in DOMAIN cloudOps : cloudOps'[j].on = cloudOps[j].on
               /\ cloudOps'[j].by = cloudOps[j].by /\ cloudOps'[j].kind = cloudOps[j].kind
        BY DEF Ended
      <4>5. DOMAIN cloudOps \subseteq DOMAIN cloudOps'
        BY DEF Ended
      <4> QED BY <4>1, <4>2, <4>3, <4>4, <4>5 DEF OperationFits
    <3> QED BY <3>1, <3>2
  <2> QED BY <2>1, <2>2 DEF OperationsFit
<1>7. ASSUME NEW c \in Callers PROVE CallFits(c, call[c], cloudOps', inst'[call[c].name])
  <2>1. call[c] \in CallRecord /\ CallFits(c, call[c], cloudOps, inst[call[c].name])
    BY <1>1 DEF InstancesInductive, InstancesTyped
  <2>2. CASE call[c].first = 0
    BY <2>1, <2>2, Unanswered
  <2>3. CASE call[c].first # 0 /\ call[c].name = n
    <3>1. \A i \in DOMAIN cloudOps : cloudOps[i].on = n => OperationFits(i, cloudOps, inst[n])
      BY <1>1 DEF OperationsFit
    <3>2. CallFits(c, call[c], cloudOps', inst'[n])
      BY <1>1, <1>3, <2>1, <2>3, <3>1, EndsFits DEF InstancesTyped, OperationsFit
    <3> QED BY <2>3, <3>2
  <2>4. CASE call[c].first # 0 /\ call[c].name # n
    <3>1. call[c].name \in Names
      <4>1. Own(c, call[c], cloudOps, call[c].first)
        BY <2>1, <2>4 DEF CallFits, Follows
      <4>2. call[c].first \in DOMAIN cloudOps /\ cloudOps[call[c].first].on = call[c].name
        BY <4>1 DEF Own
      <4> QED BY <1>1, <4>2, TypedIs
    <3>2. inst'[call[c].name] = inst[call[c].name]
      BY <1>5, <2>4, <3>1
    <3>3. /\ DOMAIN cloudOps \subseteq DOMAIN cloudOps'
          /\ \A i \in DOMAIN cloudOps : cloudOps'[i].on = cloudOps[i].on
      BY DEF Ended
    <3>4. \A i \in DOMAIN cloudOps' : cloudOps'[i].on = call[c].name =>
             i \in DOMAIN cloudOps /\ cloudOps'[i] = cloudOps[i]
      BY <2>4 DEF Ended
    <3> QED BY <2>1, <3>2, <3>3, <3>4, Elsewhere
  <2> QED BY <2>2, <2>3, <2>4
<1> QED BY <1>4, <1>6, <1>7 DEF InstancesInductive

LEMMA ChangedIs == ASSUME NEW o PROVE Changed(o) = Effect(o, inst[o.on])
BY DEF Changed, Effect

LEMMA CloudSteps ==
    ASSUME InstancesInductive, NEW i \in DOMAIN cloudOps, Completes(i) \/ Fails(i) \/ FailsHalfWay(i)
    PROVE  InstancesInductive'
<1> DEFINE o == cloudOps[i]
           n == o.on
<1>1. InstancesTyped /\ o \in OperationRecord /\ n \in Names /\ OperationFits(i, cloudOps, inst[n])
      /\ cloudOps \in Seq(OperationRecord) /\ inst \in [Names -> Whole \cup {Absent}]
  <2>1. InstancesTyped /\ OperationsFit
    BY DEF InstancesInductive
  <2> QED BY <2>1, TypedIs DEF OperationsFit
<1>2. DOMAIN cloudOps = 1 .. Len(cloudOps) /\ Len(cloudOps) \in Nat
  BY <1>1
<1>3. UNCHANGED call /\ o.status = "InProgress"
  BY DEF Completes, Fails, FailsHalfWay
<1>4. o.subsequent = 0 \/ o.status # "InProgress"
  BY <1>1 DEF OperationFits
<1>5. CASE Completes(i)
  <2>1. /\ cloudOps' = [cloudOps EXCEPT ![i].status = "Completed"]
        /\ inst' = [inst EXCEPT ![n] = Changed(o)]
    BY <1>5 DEF Completes
  <2> DEFINE p == [o EXCEPT !.status = "Completed"]
  <2>5. p \in OperationRecord /\ p.subsequent = 0
    BY <1>1, <1>3, <1>4 DEF OperationRecord
  <2>6. /\ p.on = o.on /\ p.by = o.by /\ p.kind = o.kind /\ p.change = o.change /\ p.was = o.was
        /\ p.status = "Completed"
    BY <1>1 DEF OperationRecord
  <2>7. cloudOps' = [cloudOps EXCEPT ![i] = p]
    BY <1>1, <2>1
  <2> HIDE DEF p
  <2>2. cloudOps' \in Seq(OperationRecord)
    BY <1>1, <2>5, <2>7
  <2>3. inst'[n] = Effect(o, inst[n]) /\ inst' = [inst EXCEPT ![n] = inst'[n]]
    BY <1>1, <2>1, ChangedIs
  <2>4. Ended(i, cloudOps, cloudOps', inst[n], inst'[n])
    <3>1. /\ DOMAIN cloudOps' = DOMAIN cloudOps /\ cloudOps'[i] = p
          /\ \A j \in DOMAIN cloudOps : j # i => cloudOps'[j] = cloudOps[j]
      BY <1>1, <2>7
    <3> QED BY <1>3, <2>3, <2>5, <2>6, <3>1 DEF Ended
  <2> QED BY <1>3, <2>2, <2>3, <2>4, CloudStep
<1>6. CASE Fails(i)
  <2>1. cloudOps' = [cloudOps EXCEPT ![i].status = "Failed"] /\ inst' = inst
    BY <1>6 DEF Fails
  <2> DEFINE p == [o EXCEPT !.status = "Failed"]
  <2>5. p \in OperationRecord /\ p.subsequent = 0
    BY <1>1, <1>3, <1>4 DEF OperationRecord
  <2>6. /\ p.on = o.on /\ p.by = o.by /\ p.kind = o.kind /\ p.change = o.change /\ p.was = o.was
        /\ p.status = "Failed"
    BY <1>1 DEF OperationRecord
  <2>7. cloudOps' = [cloudOps EXCEPT ![i] = p]
    BY <1>1, <2>1
  <2> HIDE DEF p
  <2>2. cloudOps' \in Seq(OperationRecord)
    BY <1>1, <2>5, <2>7
  <2>3. inst'[n] = inst[n] /\ inst' = [inst EXCEPT ![n] = inst'[n]]
    BY <1>1, <2>1
  <2>4. Ended(i, cloudOps, cloudOps', inst[n], inst'[n])
    <3>1. /\ DOMAIN cloudOps' = DOMAIN cloudOps /\ cloudOps'[i] = p
          /\ \A j \in DOMAIN cloudOps : j # i => cloudOps'[j] = cloudOps[j]
      BY <1>1, <2>7
    <3> QED BY <1>3, <2>3, <2>5, <2>6, <3>1 DEF Ended
  <2> QED BY <1>3, <2>2, <2>3, <2>4, CloudStep
<1>7. CASE FailsHalfWay(i)
  <2> DEFINE failed == [o EXCEPT !.status = "Failed", !.subsequent = Len(cloudOps) + 1]
             back == [on |-> n, by |-> o.by, kind |-> "rollback", change |-> <<>>, was |-> o.was,
                      status |-> "InProgress", subsequent |-> 0]
             mid == [cloudOps EXCEPT ![i] = failed]
  <2>1. /\ cloudOps' = Append(mid, back) /\ inst' = [inst EXCEPT ![n] = Changed(o)]
        /\ o.kind # "rollback"
    <3>1. [Begun(n, o.by, Request("rollback", <<>>)) EXCEPT !.was = o.was] = back
      BY DEF Begun, Request
    <3>2. [cloudOps EXCEPT ![i].status = "Failed", ![i].subsequent = Len(cloudOps) + 1] = mid
      BY <1>1
    <3> QED BY <1>7, <3>1, <3>2 DEF FailsHalfWay
  <2>9. [o EXCEPT !.status = "Failed"] \in OperationRecord
    BY <1>1 DEF OperationRecord
  <2>10. failed = [[o EXCEPT !.status = "Failed"] EXCEPT !.subsequent = Len(cloudOps) + 1]
    OBVIOUS
  <2>11. failed \in OperationRecord
    <3> DEFINE half == [o EXCEPT !.status = "Failed"]
    <3> HIDE DEF half
    <3>1. half \in OperationRecord /\ Len(cloudOps) + 1 \in Nat
      BY <1>2, <2>9 DEF half
    <3>2. [half EXCEPT !.subsequent = Len(cloudOps) + 1] \in OperationRecord
      BY <3>1 DEF OperationRecord
    <3> QED BY <2>10, <3>2 DEF half
  <2>12. back \in OperationRecord
    BY <1>1, NothingIs DEF OperationRecord
  <2>2. failed \in OperationRecord /\ back \in OperationRecord
    BY <2>11, <2>12
  <2>3. /\ failed.on = o.on /\ failed.by = o.by /\ failed.kind = o.kind /\ failed.change = o.change
        /\ failed.was = o.was /\ failed.status = "Failed" /\ failed.subsequent = Len(cloudOps) + 1
    BY <1>1 DEF OperationRecord
  <2>4. /\ back.on = n /\ back.by = o.by /\ back.kind = "rollback" /\ back.was = o.was /\ back.subsequent = 0
    OBVIOUS
  <2> HIDE DEF failed, back
  <2>5. /\ mid \in Seq(OperationRecord) /\ Len(mid) = Len(cloudOps) /\ mid[i] = failed
        /\ \A j \in DOMAIN cloudOps : j # i => mid[j] = cloudOps[j]
    BY <1>1, <2>2
  <2> HIDE DEF mid
  <2>6. /\ cloudOps' \in Seq(OperationRecord) /\ DOMAIN cloudOps' = 1 .. Len(cloudOps) + 1
        /\ cloudOps'[Len(cloudOps) + 1] = back /\ cloudOps'[i] = failed
        /\ \A j \in DOMAIN cloudOps : j # i => cloudOps'[j] = cloudOps[j]
    BY <1>1, <1>2, <2>1, <2>2, <2>5
  <2>7. inst'[n] = Effect(o, inst[n]) /\ inst' = [inst EXCEPT ![n] = inst'[n]]
    BY <1>1, <2>1, ChangedIs
  <2>8. Ended(i, cloudOps, cloudOps', inst[n], inst'[n])
    <3>1. /\ Len(cloudOps) + 1 \notin DOMAIN cloudOps /\ DOMAIN cloudOps \subseteq DOMAIN cloudOps'
          /\ Len(cloudOps) + 1 \in DOMAIN cloudOps'
          /\ \A j \in DOMAIN cloudOps' : j \notin DOMAIN cloudOps => j = Len(cloudOps) + 1
          /\ \A j \in DOMAIN cloudOps' : j <= Len(cloudOps) + 1
      BY <1>2, <2>6
    <3> QED BY <1>3, <2>1, <2>3, <2>4, <2>6, <2>7, <3>1 DEF Ended
  <2> QED BY <1>3, <2>6, <2>7, <2>8, CloudStep
<1> QED BY <1>5, <1>6, <1>7

(* A step of one command *)

LEMMA CallerStep ==
    ASSUME InstancesInductive, UNCHANGED <<inst, cloudOps>>, NEW c \in Callers, NEW r2 \in CallRecord,
           call' = [call EXCEPT ![c] = r2], CallFits(c, r2, cloudOps, inst[r2.name])
    PROVE  InstancesInductive'
<1>1. InstancesTyped /\ OperationsFit /\ call \in [Callers -> CallRecord]
  BY DEF InstancesInductive, InstancesTyped
<1>2. InstancesTyped' /\ OperationsFit'
  BY <1>1 DEF InstancesTyped, OperationsFit
<1>3. ASSUME NEW d \in Callers PROVE CallFits(d, call'[d], cloudOps', inst'[call'[d].name])
  <2>1. CASE d = c
    BY <1>1, <2>1
  <2>2. CASE d # c
    <3>1. call'[d] = call[d] /\ CallFits(d, call[d], cloudOps, inst[call[d].name])
      BY <1>1, <2>2 DEF InstancesInductive
    <3> QED BY <3>1
  <2> QED BY <2>1, <2>2
<1> QED BY <1>2, <1>3 DEF InstancesInductive

(* A command starts with requests of one kind that bring all that it wants. *)
LEMMA CommandStep ==
    ASSUME InstancesInductive, NEW c \in Callers, NEW n \in Names, NEW want,
           NEW requests \in Seq(RequestRecord), Given(want) \in Partial, requests # <<>>,
           \A i \in DOMAIN requests :
              /\ Agrees(requests[i].change, Given(want))
              /\ requests[i].kind = "create" => "version" \in DOMAIN requests[i].change
              /\ requests[i].kind \in {"create", "delete"} => Len(requests) = 1
              /\ \A j \in DOMAIN requests : requests[i].kind = requests[j].kind,
           DOMAIN Given(want) \subseteq Left(requests), Command(c, n, requests, want)
    PROVE  InstancesInductive'
<1> DEFINE given == Given(want)
<1> HIDE DEF given
<1>1. given \in Partial
  BY DEF given
<1> DEFINE r2 == [Idle EXCEPT !.pc = "send", !.name = n, !.rest = requests, !.want = given]
<1>2. /\ r2 \in CallRecord
      /\ r2.pc = "send" /\ r2.name = n /\ r2.rest = requests /\ r2.want = given /\ r2.first = 0 /\ ~r2.failed
  BY <1>1 DEF Idle, CallRecord
<1>3. UNCHANGED <<inst, cloudOps>> /\ call' = [call EXCEPT ![c] = r2]
  BY DEF Command, given
<1> HIDE DEF r2
<1>4. Requests(r2)
  BY <1>2 DEF Requests, given
<1>5. Follows(c, r2, cloudOps)
  BY <1>2 DEF Follows, given
<1>6. Watches(c, r2, cloudOps)
  BY <1>2 DEF Watches, Going, Own
<1>7. Keeps(c, r2, cloudOps, inst[r2.name])
  BY <1>2 DEF Keeps
<1>8. CallFits(c, r2, cloudOps, inst[r2.name])
  BY <1>4, <1>5, <1>6, <1>7 DEF CallFits
<1> QED BY <1>2, <1>3, <1>8, CallerStep

LEMMA GivenIs ==
    ASSUME NEW fields, DOMAIN fields \subseteq Fields, \A f \in DOMAIN fields : fields[f] \in Nat
    PROVE  /\ Given(fields) \in Partial
           /\ DOMAIN Given(fields) = {f \in DOMAIN fields : fields[f] # Unset}
           /\ \A f \in DOMAIN Given(fields) : Given(fields)[f] = fields[f]
<1> DEFINE S == {f \in DOMAIN fields : fields[f] # Unset}
<1>1. Given(fields) = [f \in S |-> fields[f]]
  BY DEF Given
<1>2. S \in SUBSET Fields /\ [f \in S |-> fields[f]] \in [S -> Nat]
  OBVIOUS
<1> QED BY <1>1, <1>2 DEF Partial

(* One request that brings what the command wants *)
LEMMA OneRequest ==
    ASSUME InstancesInductive, NEW c \in Callers, NEW n \in Names, NEW want, NEW kind \in RequestKinds,
           NEW change \in Partial, Given(want) = change,
           kind = "create" => "version" \in DOMAIN change,
           Command(c, n, <<Request(kind, change)>>, want)
    PROVE  InstancesInductive'
<1> DEFINE q == Request(kind, change)
           requests == <<q>>
<1>1. q \in RequestRecord /\ q.kind = kind /\ q.change = change
  BY DEF Request, RequestRecord
<1> HIDE DEF q
<1>2. requests \in Seq(RequestRecord) /\ requests # <<>> /\ DOMAIN requests = {1} /\ requests[1] = q
      /\ Len(requests) = 1
  BY <1>1
<1>3. Command(c, n, requests, want)
  BY DEF q
<1> HIDE DEF requests
<1>4. DOMAIN change \subseteq Left(requests)
  BY <1>1, <1>2 DEF Left
<1>5. Agrees(change, change)
  BY DEF Agrees
<1>6. \A i \in DOMAIN requests :
         /\ Agrees(requests[i].change, Given(want))
         /\ requests[i].kind = "create" => "version" \in DOMAIN requests[i].change
         /\ requests[i].kind \in {"create", "delete"} => Len(requests) = 1
         /\ \A j \in DOMAIN requests : requests[i].kind = requests[j].kind
  BY <1>1, <1>2, <1>5
<1> QED BY <1>2, <1>3, <1>4, <1>6, CommandStep

LEMMA VersionIs == ASSUME NEW channel, NEW v \in GetVersion(channel) PROVE v \in Nat /\ v # Unset
BY CloudAssumption DEF GetVersion, Unset

LEMMA CreateStarts ==
    ASSUME InstancesInductive, NEW c \in Callers, NEW n \in Names, NEW channel, NEW pays \in BOOLEAN,
           NEW tier \in {Unset, Free, Pro}, NEW compute \in Nat, NEW storage \in Nat,
           CreateCloud(c, n, channel, tier, compute, storage, pays)
    PROVE  InstancesInductive'
<1>1. PICK v \in GetVersion(channel), real \in Nat :
         LET fields == [version |-> v, tier |-> real, compute |-> compute, storage |-> storage]
         IN  Command(c, n, <<Request("create", Given(fields))>>, fields)
  <2> DEFINE sized == compute # Unset \/ storage # Unset
             real == IF tier # Unset THEN tier ELSE IF sized \/ pays THEN Pro ELSE Free
  <2>1. real \in Nat
    BY DEF Unset, Free, Pro
  <2> QED BY <2>1 DEF CreateCloud
<1> DEFINE fields == [version |-> v, tier |-> real, compute |-> compute, storage |-> storage]
<1>2. DOMAIN fields \subseteq Fields /\ \A f \in DOMAIN fields : fields[f] \in Nat
  BY VersionIs DEF Fields
<1>3. "version" \in DOMAIN fields /\ fields["version"] # Unset
  BY VersionIs
<1>4. Command(c, n, <<Request("create", Given(fields))>>, fields)
  BY <1>1
<1> HIDE DEF fields
<1>5. Given(fields) \in Partial /\ "version" \in DOMAIN Given(fields)
  BY <1>2, <1>3, GivenIs
<1> QED BY <1>4, <1>5, OneRequest DEF RequestKinds

LEMMA VersionStarts ==
    ASSUME InstancesInductive, NEW c \in Callers, NEW n \in Names, NEW channel,
           InitCloud(c, n, channel) \/ UpgradeCloud(c, n, channel)
    PROVE  InstancesInductive'
<1>1. PICK v \in GetVersion(channel), kind \in {"create", "upgrade"} :
         Command(c, n, <<Request(kind, [version |-> v])>>, [version |-> v])
  BY DEF InitCloud, UpgradeCloud
<1> DEFINE change == [version |-> v]
<1>2. DOMAIN change = {"version"} /\ change["version"] = v
  OBVIOUS
<1>3. Command(c, n, <<Request(kind, change)>>, change)
  BY <1>1
<1>4. change = [f \in {"version"} |-> v]
  OBVIOUS
<1> HIDE DEF change
<1>5. Given(change) = change
  <2>1. {g \in DOMAIN change : change[g] # Unset} = {"version"}
    BY <1>2, VersionIs
  <2> QED BY <1>2, <1>4, <2>1 DEF Given
<1>6. change \in Partial
  BY <1>2, <1>5, GivenIs, VersionIs DEF Fields
<1> QED BY <1>2, <1>3, <1>5, <1>6, OneRequest DEF RequestKinds

LEMMA PlainStarts ==
    ASSUME InstancesInductive, NEW c \in Callers, NEW n \in Names,
           Restart(c, n) \/ BackupInstance(c, n) \/ Restore(c, n) \/ DestroyCloud(c, n)
    PROVE  InstancesInductive'
<1>1. PICK kind \in {"restart", "backup", "restore", "delete"} :
         Command(c, n, <<Request(kind, <<>>)>>, <<>>)
  BY DEF Restart, BackupInstance, Restore, DestroyCloud
<1>2. Given(<<>>) = <<>>
  <2>1. Given(<<>>) \in Partial /\ DOMAIN Given(<<>>) = {}
    BY NothingIs, GivenIs
  <2>2. Given(<<>>) = [f \in {} |-> <<>>[f]]
    BY NothingIs DEF Given
  <2>3. [f \in {} |-> <<>>[f]] = <<>>
    OBVIOUS
  <2> QED BY <2>2, <2>3
<1> QED BY <1>1, <1>2, NothingIs, OneRequest DEF RequestKinds

\* The requests of a resize: for the resource f, of the size s
Sizing(f, s, tier) == Request("resize", Given([g \in {"tier", f} |-> IF g = f THEN s ELSE tier]))
Piece(f, s, tier) == IF s = Unset THEN <<>> ELSE <<Sizing(f, s, tier)>>

LEMMA SizingIs ==
    ASSUME NEW f \in {"compute", "storage"}, NEW s \in Nat, s # Unset, NEW tier \in Nat
    PROVE  LET q == Sizing(f, s, tier)
           IN  /\ q \in RequestRecord /\ q.kind = "resize"
               /\ f \in DOMAIN q.change /\ DOMAIN q.change \subseteq {"tier", f} /\ q.change[f] = s
               /\ "tier" \in DOMAIN q.change <=> tier # Unset
               /\ "tier" \in DOMAIN q.change => q.change["tier"] = tier
<1> DEFINE fields == [g \in {"tier", f} |-> IF g = f THEN s ELSE tier]
<1>1. /\ DOMAIN fields = {"tier", f} /\ fields[f] = s /\ fields["tier"] = tier
      /\ DOMAIN fields \subseteq Fields /\ \A g \in DOMAIN fields : fields[g] \in Nat
  BY DEF Fields
<1>2. Sizing(f, s, tier) = Request("resize", Given(fields))
  BY DEF Sizing
<1> HIDE DEF fields
<1>3. /\ Given(fields) \in Partial
      /\ DOMAIN Given(fields) = {g \in DOMAIN fields : fields[g] # Unset}
      /\ \A g \in DOMAIN Given(fields) : Given(fields)[g] = fields[g]
  BY <1>1, GivenIs
<1>4. Request("resize", Given(fields)) \in RequestRecord /\ Request("resize", Given(fields)).kind = "resize"
      /\ Request("resize", Given(fields)).change = Given(fields)
  BY <1>3 DEF Request, RequestRecord, RequestKinds
<1> QED BY <1>1, <1>2, <1>3, <1>4

LEMMA PiecesStart ==
    ASSUME InstancesInductive, NEW c \in Callers, NEW n \in Names, NEW tier \in Nat, NEW compute \in Nat,
           NEW storage \in Nat, compute # Unset \/ storage # Unset,
           Command(c, n, Piece("compute", compute, tier) \o Piece("storage", storage, tier),
                   [tier |-> tier, compute |-> compute, storage |-> storage])
    PROVE  InstancesInductive'
<1> DEFINE want == [tier |-> tier, compute |-> compute, storage |-> storage]
           qc == Sizing("compute", compute, tier)
           qs == Sizing("storage", storage, tier)
           requests == Piece("compute", compute, tier) \o Piece("storage", storage, tier)
<1>1. DOMAIN want = {"tier", "compute", "storage"} /\ want["tier"] = tier /\ want["compute"] = compute
      /\ want["storage"] = storage /\ DOMAIN want \subseteq Fields /\ \A f \in DOMAIN want : want[f] \in Nat
  BY DEF Fields
<1>2. Command(c, n, requests, want)
  OBVIOUS
<1> HIDE DEF want
<1>3. /\ Given(want) \in Partial
      /\ DOMAIN Given(want) = {g \in DOMAIN want : want[g] # Unset}
      /\ \A g \in DOMAIN Given(want) : Given(want)[g] = want[g]
  BY <1>1, GivenIs
<1>4. compute # Unset =>
        /\ qc \in RequestRecord /\ qc.kind = "resize" /\ Agrees(qc.change, Given(want))
        /\ "compute" \in DOMAIN qc.change /\ (tier # Unset => "tier" \in DOMAIN qc.change)
  <2> SUFFICES ASSUME compute # Unset
               PROVE  /\ qc \in RequestRecord /\ qc.kind = "resize" /\ Agrees(qc.change, Given(want))
                      /\ "compute" \in DOMAIN qc.change /\ (tier # Unset => "tier" \in DOMAIN qc.change)
    OBVIOUS
  <2>1. /\ qc \in RequestRecord /\ qc.kind = "resize"
        /\ "compute" \in DOMAIN qc.change /\ DOMAIN qc.change \subseteq {"tier", "compute"}
        /\ qc.change["compute"] = compute /\ ("tier" \in DOMAIN qc.change <=> tier # Unset)
        /\ "tier" \in DOMAIN qc.change => qc.change["tier"] = tier
    BY SizingIs
  <2> QED BY <1>1, <1>3, <2>1 DEF Agrees
<1>5. storage # Unset =>
        /\ qs \in RequestRecord /\ qs.kind = "resize" /\ Agrees(qs.change, Given(want))
        /\ "storage" \in DOMAIN qs.change /\ (tier # Unset => "tier" \in DOMAIN qs.change)
  <2> SUFFICES ASSUME storage # Unset
               PROVE  /\ qs \in RequestRecord /\ qs.kind = "resize" /\ Agrees(qs.change, Given(want))
                      /\ "storage" \in DOMAIN qs.change /\ (tier # Unset => "tier" \in DOMAIN qs.change)
    OBVIOUS
  <2>1. /\ qs \in RequestRecord /\ qs.kind = "resize"
        /\ "storage" \in DOMAIN qs.change /\ DOMAIN qs.change \subseteq {"tier", "storage"}
        /\ qs.change["storage"] = storage /\ ("tier" \in DOMAIN qs.change <=> tier # Unset)
        /\ "tier" \in DOMAIN qs.change => qs.change["tier"] = tier
    BY SizingIs
  <2> QED BY <1>1, <1>3, <2>1 DEF Agrees
<1> HIDE DEF qc, qs
<1>6. /\ requests \in Seq(RequestRecord) /\ requests # <<>>
      /\ \A i \in DOMAIN requests : requests[i].kind = "resize" /\ Agrees(requests[i].change, Given(want))
      /\ compute # Unset => \E i \in DOMAIN requests : requests[i] = qc
      /\ storage # Unset => \E i \in DOMAIN requests : requests[i] = qs
  <2> DEFINE rc == Piece("compute", compute, tier)
             rs == Piece("storage", storage, tier)
  <2>1. /\ rc \in Seq(RequestRecord) /\ Len(rc) = IF compute = Unset THEN 0 ELSE 1
        /\ compute # Unset => rc[1] = qc
    <3>1. CASE compute = Unset
      BY <3>1 DEF Piece
    <3>2. CASE compute # Unset
      <4>1. rc = <<qc>>
        BY <3>2 DEF Piece, qc
      <4> HIDE DEF rc
      <4> QED BY <1>4, <3>2, <4>1
    <3> QED BY <3>1, <3>2
  <2>2. /\ rs \in Seq(RequestRecord) /\ Len(rs) = IF storage = Unset THEN 0 ELSE 1
        /\ storage # Unset => rs[1] = qs
    <3>1. CASE storage = Unset
      BY <3>1 DEF Piece
    <3>2. CASE storage # Unset
      <4>1. rs = <<qs>>
        BY <3>2 DEF Piece, qs
      <4> HIDE DEF rs
      <4> QED BY <1>5, <3>2, <4>1
    <3> QED BY <3>1, <3>2
  <2>3. requests = rc \o rs
    OBVIOUS
  <2> HIDE DEF rc, rs, requests
  <2>4. /\ requests \in Seq(RequestRecord) /\ Len(requests) = Len(rc) + Len(rs)
        /\ DOMAIN requests = 1 .. Len(requests)
        /\ \A i \in 1 .. Len(requests) : requests[i] = IF i <= Len(rc) THEN rc[i] ELSE rs[i - Len(rc)]
    BY <2>1, <2>2, <2>3
  <2>5. CASE compute # Unset /\ storage # Unset
    <3>1. /\ DOMAIN requests = {1, 2} /\ requests # <<>> /\ requests[1] = qc /\ requests[2] = qs
      <4>1. Len(rc) = 1 /\ Len(rs) = 1
        BY <2>1, <2>2, <2>5
      <4>2. Len(requests) = 2 /\ DOMAIN requests = 1 .. 2
        BY <2>4, <4>1
      <4>3. requests[1] = qc /\ requests[2] = qs
        BY <2>1, <2>2, <2>4, <2>5, <4>1, <4>2
      <4>4. requests # <<>>
        BY <4>2, NothingIs
      <4> QED BY <4>2, <4>3, <4>4
    <3> QED BY <1>4, <1>5, <2>4, <2>5, <3>1
  <2>6. CASE compute # Unset /\ storage = Unset
    <3>1. /\ DOMAIN requests = {1} /\ requests # <<>> /\ requests[1] = qc
      <4>1. Len(rc) = 1 /\ Len(rs) = 0
        BY <2>1, <2>2, <2>6
      <4>2. Len(requests) = 1 /\ DOMAIN requests = 1 .. 1
        BY <2>4, <4>1
      <4>3. requests[1] = qc
        BY <2>1, <2>2, <2>4, <2>6, <4>1, <4>2
      <4>4. requests # <<>>
        BY <4>2, NothingIs
      <4> QED BY <4>2, <4>3, <4>4
    <3> QED BY <1>4, <2>4, <2>6, <3>1
  <2>7. CASE compute = Unset /\ storage # Unset
    <3>1. /\ DOMAIN requests = {1} /\ requests # <<>> /\ requests[1] = qs
      <4>1. Len(rc) = 0 /\ Len(rs) = 1
        BY <2>1, <2>2, <2>7
      <4>2. Len(requests) = 1 /\ DOMAIN requests = 1 .. 1
        BY <2>4, <4>1
      <4>3. requests[1] = qs
        BY <2>1, <2>2, <2>4, <2>7, <4>1, <4>2
      <4>4. requests # <<>>
        BY <4>2, NothingIs
      <4> QED BY <4>2, <4>3, <4>4
    <3> QED BY <1>5, <2>4, <2>7, <3>1
  <2> QED BY <2>5, <2>6, <2>7
<1> HIDE DEF requests
<1>7. DOMAIN Given(want) \subseteq Left(requests)
  <2> SUFFICES ASSUME NEW f \in DOMAIN Given(want) PROVE \E i \in DOMAIN requests : f \in DOMAIN requests[i].change
    BY DEF Left
  <2>1. CASE f = "compute"
    BY <1>1, <1>3, <1>4, <1>6, <2>1
  <2>2. CASE f = "storage"
    BY <1>1, <1>3, <1>5, <1>6, <2>2
  <2>3. CASE f = "tier"
    BY <1>1, <1>3, <1>4, <1>5, <1>6, <2>3
  <2> QED BY <1>1, <1>3, <2>1, <2>2, <2>3
<1> QED BY <1>2, <1>3, <1>6, <1>7, CommandStep

LEMMA ResizeStarts ==
    ASSUME InstancesInductive, NEW c \in Callers, NEW n \in Names, NEW tier \in Nat, NEW compute \in Nat,
           NEW storage \in Nat, Resize(c, n, tier, compute, storage)
    PROVE  InstancesInductive'
<1> DEFINE moved == tier # Unset /\ tier # inst[n].tier
           Sized(s) == IF s = Unset /\ moved THEN DefaultSize ELSE s
<1>1. Sized(compute) \in Nat /\ Sized(storage) \in Nat
  BY CloudAssumption
<1>2. Sized(compute) # Unset \/ Sized(storage) # Unset
  <2>1. {tier, compute, storage} # {Unset} /\ (tier = inst[n].tier => compute # Unset \/ storage # Unset)
    BY DEF Resize
  <2> QED BY <2>1, CloudAssumption DEF Unset
<1>3. Command(c, n, Piece("compute", Sized(compute), tier) \o Piece("storage", Sized(storage), tier),
              [tier |-> tier, compute |-> Sized(compute), storage |-> Sized(storage)])
  BY DEF Resize, Piece, Sizing
<1> HIDE DEF Sized
<1> QED BY <1>1, <1>2, <1>3, PiecesStart

(* The cloud takes up the next request of a command *)
LEMMA SendStep ==
    ASSUME InstancesInductive, NEW c \in Callers, Answered(c) \/ AnswerLost(c)
    PROVE  InstancesInductive'
<1> DEFINE r == call[c]
           r2 == call'[c]
           x == inst[r.name]
           q == Head(r.rest)
           o == [on |-> r.name, by |-> c, kind |-> r.rest[1].kind, change |-> r.rest[1].change, was |-> x,
                 status |-> "InProgress", subsequent |-> 0]
<1>1. /\ InstancesTyped /\ OperationsFit /\ r \in CallRecord /\ CallFits(c, r, cloudOps, x)
      /\ call \in [Callers -> CallRecord] /\ cloudOps \in Seq(OperationRecord)
  BY DEF InstancesInductive, InstancesTyped
<1>2. /\ r.pc = "send" /\ UNCHANGED inst /\ Accepts(r.name, q)
      /\ cloudOps' = Append(cloudOps, Begun(r.name, c, q))
  BY DEF Answered, AnswerLost, Ready, Sent
<1>3. Requests(r) /\ Follows(c, r, cloudOps)
  BY <1>1 DEF CallFits
<1>4. r.rest # <<>> /\ r.rest \in Seq(RequestRecord) /\ r.name \in Names
  BY <1>1, <1>2, <1>3 DEF Requests, Follows, CallRecord
<1>5. /\ q = r.rest[1] /\ 1 \in DOMAIN r.rest /\ r.rest[1] \in RequestRecord
      /\ r.rest[1].kind \in RequestKinds /\ r.rest[1].change \in Partial
      /\ r.rest[1].kind = "create" => "version" \in DOMAIN r.rest[1].change
  <2>1. q = r.rest[1] /\ 1 \in DOMAIN r.rest /\ r.rest[1] \in RequestRecord
    BY <1>4
  <2> QED BY <1>3, <2>1 DEF Requests, RequestRecord
<1>6. cloudOps' = Append(cloudOps, o)
  BY <1>2, <1>5 DEF Begun
<1>7. x \in Whole \cup {Absent}
  BY <1>1, <1>4, TypedIs
<1>8. o \in OperationRecord
  BY <1>4, <1>5, <1>7 DEF OperationRecord
<1>9. /\ o.on = r.name /\ o.by = c /\ o.kind = r.rest[1].kind /\ o.change = r.rest[1].change /\ o.was = x
      /\ o.status = "InProgress" /\ o.subsequent = 0
  OBVIOUS
<1> HIDE DEF o
<1>10. Begins(cloudOps, cloudOps', o)
  BY <1>2, <1>6, <1>8, <1>9 DEF Begins, Accepts, Busy
<1>11. /\ cloudOps' \in Seq(OperationRecord) /\ Len(cloudOps) \in Nat
       /\ DOMAIN cloudOps = 1 .. Len(cloudOps) /\ DOMAIN cloudOps' = 1 .. Len(cloudOps) + 1
       /\ \A i \in DOMAIN cloudOps : cloudOps'[i] = cloudOps[i]
       /\ cloudOps'[Len(cloudOps) + 1] = o
  BY <1>1, <1>10, BeginsIs
<1>12. o.kind = "create" <=> x = Absent
  BY <1>2, <1>5, <1>9 DEF Accepts
<1>13. OperationsFit'
  <2>1. Serial(cloudOps')
    BY <1>1, <1>10, BeginsSerial DEF OperationsFit
  <2>2. ASSUME NEW i \in DOMAIN cloudOps' PROVE OperationFits(i, cloudOps', inst'[cloudOps'[i].on])
    <3>1. CASE i \in DOMAIN cloudOps
      <4>1. OperationFits(i, cloudOps, inst[cloudOps[i].on])
        BY <1>1, <3>1 DEF OperationsFit
      <4>2. OperationFits(i, cloudOps', inst[cloudOps[i].on])
        BY <1>1, <1>10, <3>1, <4>1, BeginsOperations
      <4> QED BY <1>2, <1>11, <3>1, <4>2
    <3>2. CASE i = Len(cloudOps) + 1
      <4>1. cloudOps'[i] = o /\ inst'[o.on] = x
        BY <1>2, <1>9, <1>11, <3>2
      <4> QED BY <1>5, <1>9, <1>12, <4>1 DEF OperationFits
    <3> QED BY <1>11, <3>1, <3>2
  <2> QED BY <2>1, <2>2 DEF OperationsFit
<1>14. /\ \A d \in Callers : d # c => call'[d] = call[d]
       /\ call' \in [Callers -> CallRecord] /\ Sends(c, r, r2, cloudOps, o, x)
  <2>1. CASE Answered(c)
    <3> DEFINE p == [r EXCEPT !.pc = "wait", !.id = Len(cloudOps) + 1,
                              !.first = IF r.first = 0 THEN Len(cloudOps) + 1 ELSE r.first]
    <3>1. call' = [call EXCEPT ![c] = p]
      BY <1>1, <2>1 DEF Answered
    <3>2. /\ p \in CallRecord /\ p.name = r.name /\ p.rest = r.rest /\ p.want = r.want /\ p.failed = r.failed
          /\ p.pc = "wait" /\ p.id = Len(cloudOps) + 1
          /\ p.first = IF r.first = 0 THEN Len(cloudOps) + 1 ELSE r.first
      <4> DEFINE id == Len(cloudOps) + 1
                 first == IF r.first = 0 THEN id ELSE r.first
      <4>1. id \in Nat /\ first \in Nat
        BY <1>1, <1>11 DEF CallRecord
      <4>2. p = [r EXCEPT !.pc = "wait", !.id = id, !.first = first]
        OBVIOUS
      <4> HIDE DEF p, id, first
      <4>3. p \in CallRecord /\ p.name = r.name /\ p.rest = r.rest /\ p.want = r.want /\ p.failed = r.failed
        BY <1>1, <4>1, <4>2 DEF CallRecord
      <4>4. p.pc = "wait" /\ p.id = id /\ p.first = first
        BY <1>1, <4>2 DEF CallRecord
      <4> QED BY <4>3, <4>4 DEF id, first
    <3> HIDE DEF p
    <3>3. r2 = p /\ call' \in [Callers -> CallRecord] /\ \A d \in Callers : d # c => call'[d] = call[d]
      BY <1>1, <3>1, <3>2
    <3> QED BY <1>9, <1>12, <3>2, <3>3 DEF Sends
  <2>2. CASE AnswerLost(c)
    <3>1. PICK pc \in {"send", "failed"} : call' = [call EXCEPT ![c].pc = pc, ![c].blind = TRUE]
      BY <2>2 DEF AnswerLost
    <3> DEFINE p == [r EXCEPT !.pc = pc, !.blind = TRUE]
    <3>2. call' = [call EXCEPT ![c] = p]
      BY <1>1, <3>1
    <3>3. /\ p \in CallRecord /\ p.name = r.name /\ p.rest = r.rest /\ p.want = r.want /\ p.failed = r.failed
          /\ p.pc = pc /\ p.blind /\ p.first = r.first
      BY <1>1 DEF CallRecord
    <3> HIDE DEF p
    <3>4. r2 = p /\ call' \in [Callers -> CallRecord] /\ \A d \in Callers : d # c => call'[d] = call[d]
      BY <1>1, <3>2, <3>3
    <3> QED BY <1>9, <1>12, <3>3, <3>4 DEF Sends
  <2> QED BY <2>1, <2>2
<1>15. InstancesTyped'
  BY <1>1, <1>2, <1>11, <1>14 DEF InstancesTyped
<1>16. ASSUME NEW d \in Callers PROVE CallFits(d, call'[d], cloudOps', inst'[call'[d].name])
  <2>1. CASE d = c
    <3>1. r2 \in CallRecord /\ r2.name = r.name
      BY <1>14 DEF Sends
    <3>2. CallFits(c, r2, cloudOps', x)
      BY <1>1, <1>2, <1>10, <1>14, <3>1, SendsFits
    <3> QED BY <1>2, <2>1, <3>1, <3>2
  <2>2. CASE d # c
    <3>1. call'[d] = call[d] /\ call[d] \in CallRecord /\ o.by # d
      BY <1>1, <1>9, <1>14, <2>2
    <3>2. CallFits(d, call[d], cloudOps, inst[call[d].name])
      BY DEF InstancesInductive
    <3>3. CallFits(d, call[d], cloudOps', inst[call[d].name])
      BY <1>1, <1>10, <3>1, <3>2, BesideIt
    <3> QED BY <1>2, <3>1, <3>3
  <2> QED BY <2>1, <2>2
<1> QED BY <1>13, <1>15, <1>16 DEF InstancesInductive

(* Following *)

LEMMA RefusedStep ==
    ASSUME InstancesInductive, NEW c \in Callers, Refused(c) PROVE InstancesInductive'
<1> DEFINE r == call[c]
           x == inst[r.name]
           r2 == [r EXCEPT !.pc = "failed"]
<1>1. r \in CallRecord /\ CallFits(c, r, cloudOps, x) /\ call \in [Callers -> CallRecord]
  BY DEF InstancesInductive, InstancesTyped
<1>2. r.pc = "send" /\ UNCHANGED <<inst, cloudOps>> /\ call' = [call EXCEPT ![c] = r2]
  BY <1>1 DEF Refused, Ready
<1>3. /\ r2 \in CallRecord /\ r2.name = r.name /\ r2.rest = r.rest /\ r2.want = r.want /\ r2.first = r.first
      /\ r2.blind = r.blind /\ r2.pc = "failed"
  BY <1>1 DEF CallRecord
<1> HIDE DEF r2
<1>4. Requests(r) /\ Follows(c, r, cloudOps) /\ Watches(c, r, cloudOps)
  BY <1>1 DEF CallFits
<1>5. Requests(r2)
  BY <1>3, <1>4 DEF Requests
<1>6. Follows(c, r2, cloudOps)
  BY <1>2, <1>3, <1>4 DEF Follows, Own, Kind
<1>7. Watches(c, r2, cloudOps)
  <2>1. \A i : Going(c, r2, cloudOps, i) <=> Going(c, r, cloudOps, i)
    BY <1>3 DEF Going, Own
  <2> QED BY <1>2, <1>3, <1>4, <2>1 DEF Watches
<1>8. Keeps(c, r2, cloudOps, x)
  BY <1>3 DEF Keeps
<1>9. CallFits(c, r2, cloudOps, inst[r2.name])
  BY <1>3, <1>5, <1>6, <1>7, <1>8 DEF CallFits
<1> QED BY <1>2, <1>3, <1>9, CallerStep

LEMMA FollowStep ==
    ASSUME InstancesInductive, NEW c \in Callers, FollowSubsequent(c) PROVE InstancesInductive'
<1> DEFINE r == call[c]
           x == inst[r.name]
           m == cloudOps[r.id].subsequent
           r2 == [r EXCEPT !.id = m, !.failed = TRUE]
<1>1. /\ r \in CallRecord /\ CallFits(c, r, cloudOps, x) /\ call \in [Callers -> CallRecord]
      /\ InstancesTyped /\ OperationsFit
  BY DEF InstancesInductive, InstancesTyped
<1>2. /\ r.pc = "wait" /\ cloudOps[r.id].status = "Failed" /\ m # 0
      /\ UNCHANGED <<inst, cloudOps>> /\ call' = [call EXCEPT ![c] = r2]
  BY <1>1 DEF FollowSubsequent, Waiting, Followed
<1>3. Requests(r) /\ Follows(c, r, cloudOps) /\ Watches(c, r, cloudOps)
  BY <1>1 DEF CallFits
<1>4. Own(c, r, cloudOps, r.id) /\ r.first # 0
  BY <1>2, <1>3 DEF Follows
<1>5. /\ r.id \in DOMAIN cloudOps /\ cloudOps \in Seq(OperationRecord)
      /\ m \in DOMAIN cloudOps /\ m > r.id /\ m \in Nat /\ r.id \in Nat /\ r.first \in Nat
      /\ cloudOps[m].kind = "rollback" /\ cloudOps[m].on = r.name /\ cloudOps[m].by = c
  <2>1. OperationFits(r.id, cloudOps, inst[cloudOps[r.id].on])
    BY <1>1, <1>4 DEF OperationsFit, Own
  <2>2. r.id \in DOMAIN cloudOps /\ r.id \in Nat /\ r.first \in Nat /\ m \in Nat
    BY <1>1, <1>4, TypedIs DEF Own, CallRecord
  <2> QED BY <1>1, <1>2, <1>4, <2>1, <2>2 DEF OperationFits, Own, InstancesTyped
<1>6. /\ r2 \in CallRecord /\ r2.name = r.name /\ r2.rest = r.rest /\ r2.want = r.want /\ r2.first = r.first
      /\ r2.blind = r.blind /\ r2.pc = "wait" /\ r2.id = m /\ r2.failed
  BY <1>1, <1>2, <1>5 DEF CallRecord
<1> HIDE DEF r2
<1>7. Requests(r2)
  BY <1>2, <1>3, <1>6 DEF Requests
<1>8. \A i : Own(c, r2, cloudOps, i) <=> Own(c, r, cloudOps, i)
  BY <1>6 DEF Own
<1>9. Own(c, r2, cloudOps, m)
  BY <1>4, <1>5, <1>6 DEF Own
<1>10. Follows(c, r2, cloudOps)
  BY <1>2, <1>3, <1>4, <1>5, <1>6, <1>8, <1>9 DEF Follows, Kind
<1>11. Watches(c, r2, cloudOps)
  <2>1. \A i : Going(c, r2, cloudOps, i) <=> Going(c, r, cloudOps, i)
    BY <1>8 DEF Going
  <2>2. \A i \in DOMAIN cloudOps : Going(c, r, cloudOps, i) => i = m
    BY <1>2, <1>3 DEF Watches, Going
  <2> QED BY <1>6, <2>1, <2>2 DEF Watches
<1>12. Keeps(c, r2, cloudOps, x)
  BY <1>6 DEF Keeps
<1>13. CallFits(c, r2, cloudOps, inst[r2.name])
  BY <1>6, <1>7, <1>10, <1>11, <1>12 DEF CallFits
<1> QED BY <1>2, <1>6, <1>13, CallerStep

LEMMA FailStep ==
    ASSUME InstancesInductive, NEW c \in Callers, OperationFailed(c) \/ GivesUp(c)
    PROVE  InstancesInductive'
<1> DEFINE r == call[c]
           x == inst[r.name]
<1>1. r \in CallRecord /\ CallFits(c, r, cloudOps, x) /\ call \in [Callers -> CallRecord]
  BY DEF InstancesInductive, InstancesTyped
<1>2. r.pc = "wait" /\ UNCHANGED <<inst, cloudOps>>
  BY DEF OperationFailed, GivesUp, Waiting
<1>3. Requests(r) /\ Follows(c, r, cloudOps) /\ Watches(c, r, cloudOps)
  BY <1>1 DEF CallFits
<1>4. PICK r2 \in CallRecord :
         /\ call' = [call EXCEPT ![c] = r2]
         /\ r2.name = r.name /\ r2.rest = r.rest /\ r2.want = r.want /\ r2.first = r.first
         /\ r2.pc = "failed"
         /\ r2.blind \/ (cloudOps[r.id].status = "Failed" /\ cloudOps[r.id].subsequent = 0)
  <2>1. CASE OperationFailed(c)
    <3> DEFINE p == [r EXCEPT !.pc = "failed"]
    <3>1. call' = [call EXCEPT ![c] = p] /\ cloudOps[r.id].status = "Failed"
          /\ cloudOps[r.id].subsequent = 0
      BY <1>1, <2>1 DEF OperationFailed, Waiting, Followed
    <3>2. /\ p \in CallRecord /\ p.name = r.name /\ p.rest = r.rest /\ p.want = r.want /\ p.first = r.first
          /\ p.pc = "failed"
      BY <1>1 DEF CallRecord
    <3> QED BY <3>1, <3>2
  <2>2. CASE GivesUp(c)
    <3> DEFINE p == [r EXCEPT !.pc = "failed", !.blind = TRUE]
    <3>1. call' = [call EXCEPT ![c] = p]
      BY <1>1, <2>2 DEF GivesUp
    <3>2. /\ p \in CallRecord /\ p.name = r.name /\ p.rest = r.rest /\ p.want = r.want /\ p.first = r.first
          /\ p.pc = "failed" /\ p.blind
      BY <1>1 DEF CallRecord
    <3> QED BY <3>1, <3>2
  <2> QED BY <2>1, <2>2
<1>5. Requests(r2)
  BY <1>3, <1>4 DEF Requests
<1>6. \A i : Own(c, r2, cloudOps, i) <=> Own(c, r, cloudOps, i)
  BY <1>4 DEF Own
<1>7. Follows(c, r2, cloudOps)
  BY <1>2, <1>3, <1>4, <1>6 DEF Follows, Kind
<1>8. Watches(c, r2, cloudOps)
  <2> SUFFICES ASSUME NEW i \in DOMAIN cloudOps, Going(c, r2, cloudOps, i) PROVE r2.blind
    BY <1>4 DEF Watches
  <2>1. Going(c, r, cloudOps, i)
    BY <1>6 DEF Going
  <2>2. i = r.id \/ cloudOps[r.id].subsequent = i
    BY <1>2, <1>3, <2>1 DEF Watches
  <2>3. i # 0 /\ cloudOps[i].status = "InProgress"
    BY <2>1 DEF Going, Own, InstancesInductive, InstancesTyped
  <2> QED BY <1>4, <2>2, <2>3
<1>9. Keeps(c, r2, cloudOps, x)
  BY <1>4 DEF Keeps
<1>10. CallFits(c, r2, cloudOps, inst[r2.name])
  BY <1>4, <1>5, <1>7, <1>8, <1>9 DEF CallFits
<1> QED BY <1>2, <1>4, <1>10, CallerStep

LEMMA TailIs ==
    ASSUME NEW rest \in Seq(RequestRecord), rest # <<>>
    PROVE  /\ Tail(rest) \in Seq(RequestRecord) /\ Len(rest) \in Nat /\ Len(rest) >= 1 /\ 1 \in DOMAIN rest
           /\ Len(rest) > 1 => Tail(rest) # <<>>
           /\ Len(rest) <= 1 => Tail(rest) = <<>>
           /\ \A i \in DOMAIN Tail(rest) : i + 1 \in DOMAIN rest /\ Tail(rest)[i] = rest[i + 1]
           /\ DOMAIN Tail(rest) # {} => Len(rest) > 1
<1> DEFINE t == Tail(rest)
<1>1. /\ t \in Seq(RequestRecord) /\ Len(rest) \in Nat /\ Len(rest) >= 1 /\ DOMAIN rest = 1 .. Len(rest)
      /\ Len(t) = Len(rest) - 1 /\ DOMAIN t = 1 .. Len(rest) - 1
      /\ \A i \in DOMAIN t : t[i] = rest[i + 1]
  OBVIOUS
<1> HIDE DEF t
<1>2. Len(rest) > 1 => 1 \in DOMAIN t
  BY <1>1
<1>3. Len(rest) > 1 => t # <<>>
  BY <1>2, NothingIs
<1>4. Len(rest) <= 1 => t = <<>>
  BY <1>1
<1>5. /\ 1 \in DOMAIN rest
      /\ DOMAIN t # {} => Len(rest) > 1
      /\ \A i \in DOMAIN t : i + 1 \in DOMAIN rest
  BY <1>1
<1> QED BY <1>1, <1>3, <1>4, <1>5 DEF t

LEMMA CompletedStep ==
    ASSUME InstancesInductive, NEW c \in Callers, OperationCompleted(c) PROVE InstancesInductive'
<1> DEFINE r == call[c]
           x == inst[r.name]
           pc == IF r.failed THEN "failed" ELSE IF Len(r.rest) > 1 THEN "send" ELSE "done"
           r2 == [r EXCEPT !.pc = pc, !.rest = Tail(r.rest)]
<1>1. r \in CallRecord /\ CallFits(c, r, cloudOps, x) /\ call \in [Callers -> CallRecord]
  BY DEF InstancesInductive, InstancesTyped
<1>2. /\ r.pc = "wait" /\ cloudOps[r.id].status = "Completed"
      /\ UNCHANGED <<inst, cloudOps>> /\ call' = [call EXCEPT ![c] = r2]
  BY <1>1 DEF OperationCompleted, Waiting, Followed
<1>3. Requests(r) /\ Follows(c, r, cloudOps) /\ Watches(c, r, cloudOps) /\ Keeps(c, r, cloudOps, x)
  BY <1>1 DEF CallFits
<1>4. r.rest # <<>> /\ r.rest \in Seq(RequestRecord)
  BY <1>1, <1>2, <1>3 DEF Requests, CallRecord
<1>5. /\ Tail(r.rest) \in Seq(RequestRecord) /\ Len(r.rest) \in Nat /\ 1 \in DOMAIN r.rest
      /\ Len(r.rest) > 1 => Tail(r.rest) # <<>>
      /\ Len(r.rest) <= 1 => Tail(r.rest) = <<>>
      /\ \A i \in DOMAIN Tail(r.rest) : i + 1 \in DOMAIN r.rest /\ Tail(r.rest)[i] = r.rest[i + 1]
      /\ DOMAIN Tail(r.rest) # {} => Len(r.rest) > 1
  BY <1>4, TailIs
<1>6. pc \in {"failed", "send", "done"} /\ (pc = "failed" <=> r.failed)
      /\ (pc = "send" => Len(r.rest) > 1) /\ (pc = "done" => Len(r.rest) <= 1)
  BY <1>5
<1> HIDE DEF pc
<1>7. /\ r2 \in CallRecord /\ r2.name = r.name /\ r2.rest = Tail(r.rest) /\ r2.want = r.want
      /\ r2.first = r.first /\ r2.id = r.id /\ r2.failed = r.failed /\ r2.blind = r.blind /\ r2.pc = pc
  BY <1>1, <1>5, <1>6 DEF CallRecord
<1> HIDE DEF r2
<1>8. Requests(r2)
  <2>1. ASSUME NEW i \in DOMAIN Tail(r.rest), NEW j \in DOMAIN Tail(r.rest)
        PROVE  /\ Agrees(Tail(r.rest)[i].change, r.want)
               /\ Tail(r.rest)[i].kind = "create" => "version" \in DOMAIN Tail(r.rest)[i].change
               /\ Tail(r.rest)[i].kind \notin {"create", "delete"}
               /\ Tail(r.rest)[i].kind = Tail(r.rest)[j].kind
    <3>1. /\ i + 1 \in DOMAIN r.rest /\ j + 1 \in DOMAIN r.rest /\ Len(r.rest) > 1
          /\ Tail(r.rest)[i] = r.rest[i + 1] /\ Tail(r.rest)[j] = r.rest[j + 1]
      BY <1>5
    <3>2. \A k, l \in DOMAIN r.rest :
             /\ Agrees(r.rest[k].change, r.want)
             /\ r.rest[k].kind = "create" => "version" \in DOMAIN r.rest[k].change
             /\ r.rest[k].kind \in {"create", "delete"} => Len(r.rest) = 1
             /\ r.rest[k].kind = r.rest[l].kind
      BY <1>3 DEF Requests
    <3>3. Len(r.rest) # 1
      BY <1>5, <3>1
    <3> QED BY <3>1, <3>2, <3>3
  <2>2. pc = "send" => Tail(r.rest) # <<>>
    BY <1>5, <1>6
  <2>3. pc = "done" => Tail(r.rest) = <<>>
    BY <1>5, <1>6
  <2> QED BY <1>6, <1>7, <2>1, <2>2, <2>3 DEF Requests
<1>9. \A i : Own(c, r2, cloudOps, i) <=> Own(c, r, cloudOps, i)
  BY <1>7 DEF Own
<1>10. /\ r.first # 0 /\ Own(c, r, cloudOps, r.first) /\ Own(c, r, cloudOps, r.id)
       /\ Kind(r, cloudOps) # "rollback" /\ r.name \in Names
       /\ cloudOps[r.id].kind = IF r.failed THEN "rollback" ELSE Kind(r, cloudOps)
       /\ \A i \in DOMAIN r.rest : r.rest[i].kind = Kind(r, cloudOps)
  BY <1>2, <1>3 DEF Follows
<1>11. Kind(r2, cloudOps) = Kind(r, cloudOps)
  BY <1>7 DEF Kind
<1>12. Len(r.rest) > 1 => Kind(r, cloudOps) \notin {"create", "delete"}
  <2>1. r.rest[1].kind \in {"create", "delete"} => Len(r.rest) = 1
    BY <1>3, <1>5 DEF Requests
  <2> QED BY <1>5, <1>10, <2>1
<1>13. Follows(c, r2, cloudOps)
  <2>1. \A i \in DOMAIN r2.rest : r2.rest[i].kind = Kind(r, cloudOps)
    BY <1>5, <1>7, <1>10
  <2> QED BY <1>2, <1>6, <1>7, <1>9, <1>10, <1>11, <1>12, <2>1 DEF Follows
\* Nothing of it goes on
<1>14. \A i \in DOMAIN cloudOps : ~Going(c, r2, cloudOps, i)
  <2> SUFFICES ASSUME NEW i \in DOMAIN cloudOps, Going(c, r, cloudOps, i) PROVE FALSE
    BY <1>9 DEF Going
  <2> QED BY <1>2, <1>3 DEF Watches, Going
<1>15. Watches(c, r2, cloudOps)
  BY <1>14 DEF Watches
<1>16. Keeps(c, r2, cloudOps, x)
  <2> SUFFICES ASSUME ~r.failed, ~Others(c, r, cloudOps), pc \in {"send", "done"}
               PROVE  /\ Kind(r, cloudOps) \notin {"create", "delete"} => Meets(x, r.want, r2.rest)
                      /\ pc = "done" => IF Kind(r, cloudOps) = "delete" THEN x = Absent
                                        ELSE Meets(x, r.want, <<>>)
    <3>1. Others(c, r2, cloudOps) <=> Others(c, r, cloudOps)
      BY <1>7 DEF Others
    <3> QED BY <1>6, <1>7, <1>11, <1>14, <3>1 DEF Keeps
  <2>1. IF Kind(r, cloudOps) = "delete" THEN x = Absent ELSE Meets(x, r.want, Tail(r.rest))
    BY <1>2, <1>3, <1>10 DEF Keeps
  <2>2. pc = "done" => Tail(r.rest) = <<>>
    BY <1>5, <1>6
  <2> QED BY <1>7, <2>1, <2>2
<1>17. CallFits(c, r2, cloudOps, inst[r2.name])
  BY <1>7, <1>8, <1>13, <1>15, <1>16 DEF CallFits
<1> QED BY <1>2, <1>7, <1>17, CallerStep

LEMMA InstancesStep == InstancesInductive /\ [InstancesNext]_cloud => InstancesInductive'
<1> SUFFICES ASSUME InstancesInductive, [InstancesNext]_cloud PROVE InstancesInductive'
  OBVIOUS
<1>1. CASE UNCHANGED cloud
  <2>1. UNCHANGED <<inst, cloudOps, call>>
    BY <1>1 DEF cloud
  <2>2. InstancesTyped' /\ OperationsFit'
    BY <2>1 DEF InstancesInductive, InstancesTyped, OperationsFit
  <2>3. \A c \in Callers : CallFits(c, call'[c], cloudOps', inst'[call'[c].name])
    BY <2>1 DEF InstancesInductive
  <2> QED BY <2>2, <2>3 DEF InstancesInductive
<1>2. ASSUME NEW i \in DOMAIN cloudOps, Completes(i) \/ Fails(i) \/ FailsHalfWay(i)
      PROVE  InstancesInductive'
  BY <1>2, CloudSteps
<1>3. ASSUME NEW c \in Callers, NEW n \in Names, NEW channel \in {"stable", "testing"},
             UpgradeCloud(c, n, channel) \/ InitCloud(c, n, channel)
      PROVE  InstancesInductive'
  BY <1>3, VersionStarts
<1>4. ASSUME NEW c \in Callers, NEW n \in Names, NEW channel \in {"stable", "testing"},
             NEW tier \in {Unset, Free, Pro}, NEW compute \in {Unset, DefaultSize + 1},
             NEW storage \in {Unset, DefaultSize + 1}, NEW pays \in BOOLEAN,
             CreateCloud(c, n, channel, tier, compute, storage, pays)
      PROVE  InstancesInductive'
  <2>1. compute \in Nat /\ storage \in Nat
    BY CloudAssumption DEF Unset
  <2> QED BY <1>4, <2>1, CreateStarts
<1>5. ASSUME NEW c \in Callers, NEW n \in Names, NEW tier \in {Unset, Free, Pro},
             NEW compute \in {Unset, DefaultSize + 1}, NEW storage \in {Unset, DefaultSize + 1},
             Resize(c, n, tier, compute, storage)
      PROVE  InstancesInductive'
  <2>1. compute \in Nat /\ storage \in Nat /\ tier \in Nat
    BY CloudAssumption DEF Unset, Free, Pro
  <2> QED BY <1>5, <2>1, ResizeStarts
<1>6. ASSUME NEW c \in Callers, NEW n \in Names,
             Restart(c, n) \/ BackupInstance(c, n) \/ Restore(c, n) \/ DestroyCloud(c, n)
      PROVE  InstancesInductive'
  BY <1>6, PlainStarts
<1>7. ASSUME NEW c \in Callers,
             Answered(c) \/ Refused(c) \/ AnswerLost(c)
             \/ FollowSubsequent(c) \/ OperationFailed(c) \/ OperationCompleted(c) \/ GivesUp(c)
      PROVE  InstancesInductive'
  BY <1>7, SendStep, RefusedStep, FollowStep, FailStep, CompletedStep
<1>8. CASE InstancesNext
  BY <1>2, <1>3, <1>4, <1>5, <1>6, <1>7, <1>8 DEF InstancesNext
<1> QED BY <1>1, <1>8

LEMMA InstancesTell == InstancesInductive => ReportsAreTrue
<1> SUFFICES ASSUME InstancesInductive, NEW c \in Callers
             PROVE  LET now == inst[call[c].name]
                    IN /\ call[c].pc = "done" =>
                             \/ Later(c)
                             \/ IF cloudOps[call[c].id].kind = "delete" THEN now = Absent
                                ELSE now # Absent /\ \A f \in DOMAIN call[c].want : now[f] = call[c].want[f]
                       /\ call[c].pc = "failed" /\ ~call[c].blind =>
                             \A i \in DOMAIN cloudOps :
                                 /\ cloudOps[i].by = c /\ cloudOps[i].on = call[c].name
                                 /\ i >= call[c].first /\ call[c].first # 0
                                 => cloudOps[i].status # "InProgress"
  BY DEF ReportsAreTrue
<1> DEFINE r == call[c]
           x == inst[r.name]
<1>1. Requests(r) /\ Follows(c, r, cloudOps) /\ Watches(c, r, cloudOps) /\ Keeps(c, r, cloudOps, x)
  BY DEF InstancesInductive, CallFits
<1>2. ASSUME r.pc = "done", ~Later(c)
      PROVE  IF cloudOps[r.id].kind = "delete" THEN x = Absent
             ELSE x # Absent /\ \A f \in DOMAIN r.want : x[f] = r.want[f]
  <2>1. ~Others(c, r, cloudOps)
    BY <1>2 DEF Others, Later
  <2>2. r.first # 0 /\ ~r.failed /\ cloudOps[r.id].kind = Kind(r, cloudOps)
    BY <1>1, <1>2 DEF Follows
  <2>3. IF Kind(r, cloudOps) = "delete" THEN x = Absent ELSE Meets(x, r.want, <<>>)
    BY <1>1, <1>2, <2>1, <2>2 DEF Keeps
  <2>4. Left(<<>>) = {}
    BY NothingIs DEF Left
  <2> QED BY <2>2, <2>3, <2>4 DEF Meets
<1>3. ASSUME r.pc = "failed", ~r.blind, NEW i \in DOMAIN cloudOps,
             cloudOps[i].by = c, cloudOps[i].on = r.name, i >= r.first, r.first # 0
      PROVE  cloudOps[i].status # "InProgress"
  <2>1. ~Going(c, r, cloudOps, i)
    BY <1>1, <1>3 DEF Watches
  <2> QED BY <1>3, <2>1 DEF Going, Own
<1> QED BY <1>2, <1>3

(* A command that reports success has all that it asked for, unless          *)
(* somebody else has had an operation on the instance since; one that        *)
(* reports the failure of an operation leaves nothing that it asked for      *)
(* going on, unless it lost an answer or stopped watching                    *)
(* (wait_for_operation, resize_cloud_cmd). *)
THEOREM ReportsHold == InstancesSpec => []ReportsAreTrue
BY InstancesStart, InstancesStep, InstancesTell, PTL DEF InstancesSpec

-----------------------------------------------------------------------------
(* The accounts *)

TaskRecord ==
    [pc : {"idle", "ok", "failed", "session", "create", "save", "reinit", "verify", "loop", "stash"},
     op : {"none", "login", "logout", "init"}, profile : Profiles \cup {None},
     environ : {None, Bad}, key : Keys \cup {None, Bad}, dir : Dirs \cup {None},
     todo : SUBSET Profiles, users : SUBSET Dirs, force : BOOLEAN, ask : BOOLEAN,
     skipped : SUBSET Profiles, removed : SUBSET Profiles]

\* What a command with the variables r knows at each of its points, where the keys of `good`
\* do not expire
Knows(r, good) ==
    /\ r.op = "login" /\ r.pc \notin {"idle", "ok", "failed"} => r.profile \in Profiles
    /\ r.op = "login" /\ r.pc = "save" => r.key \in good
    /\ r.op = "login" /\ r.pc = "verify" /\ r.environ # None => r.key = r.environ
    /\ r.op = "init" /\ r.pc = "stash" => r.profile \in Profiles /\ r.dir \in Dirs
    /\ r.op = "logout" /\ r.pc = "ok" => r.skipped = {} /\ r.todo = {}

TasksKnow == task \in [Tasks -> TaskRecord] /\ \A t \in Tasks : Knows(task[t], lasting)

ProfilesHold ==
    /\ file \in [Profiles -> Keys \cup {None}] /\ live \subseteq Keys /\ lasting \subseteq Keys
    /\ profileOf \in [Dirs -> Profiles \cup {None}]
    /\ \A f \in Profiles : file[f] # None => file[f] \in lasting
    /\ \A d \in Dirs : profileOf[d] # None => file[profileOf[d]] # None \/ profileOf[d] \in consented

AccountsInductive == TasksKnow /\ ProfilesHold

(* A step of one command leaves the variables of the others alone, and the  *)
(* keys that do not expire only grow. *)
LEMMA TaskMoves ==
    ASSUME TasksKnow, NEW t \in Tasks, NEW r \in TaskRecord, lasting \subseteq lasting',
           task' = [task EXCEPT ![t] = r], Knows(r, lasting')
    PROVE  TasksKnow'
<1>1. ASSUME NEW u \in Tasks PROVE Knows(task'[u], lasting')
  BY DEF TasksKnow, Knows
<1> QED BY <1>1 DEF TasksKnow

(* The initial states satisfy the invariant. *)
LEMMA AccountsStart == AccountsInit => AccountsInductive
<1> SUFFICES ASSUME AccountsInit PROVE AccountsInductive
  OBVIOUS
<1>1. Resting \in TaskRecord /\ Knows(Resting, lasting)
  BY DEF Resting, TaskRecord, Knows
<1>2. TasksKnow
  BY <1>1 DEF AccountsInit, TasksKnow
<1> QED
  BY <1>2 DEF AccountsInit, AccountsInductive, ProfilesHold

(* Every step keeps the invariant: for each action, what it leaves the      *)
(* command knowing (<2>1), and the profiles and projects (<2>2). *)
LEMMA AccountsStep ==
    ASSUME AccountsInductive, [AccountsNext]_accounts
    PROVE  AccountsInductive'
<1> USE DEF AccountsInductive
<1>0. TasksKnow /\ ProfilesHold /\ \A t \in Tasks : task[t] \in TaskRecord /\ Knows(task[t], lasting)
  BY DEF TasksKnow
<1>1. ASSUME NEW k \in Keys, Revoke(k) PROVE AccountsInductive'
  BY <1>0, <1>1 DEF Revoke, TasksKnow, ProfilesHold, Knows
<1>2. ASSUME NEW t \in Tasks, NEW f \in Profiles, NEW option \in {None, Bad}, NEW environ \in {None, Bad},
             Login(t, f, option, environ)
      PROVE  AccountsInductive'
  <2> DEFINE r == [Resting EXCEPT !.op = "login", !.profile = f, !.environ = environ,
                        !.pc = IF SecretKey(option, environ, f) \in live THEN "ok" ELSE "session"]
  <2>1. r \in TaskRecord /\ Knows(r, lasting')
    BY DEF Resting, TaskRecord, Knows
  <2>2. ProfilesHold' /\ lasting' = lasting /\ task' = [task EXCEPT ![t] = r]
    BY <1>2 DEF Login, ProfilesHold, keys
  <2> HIDE DEF r
  <2> QED BY <1>0, <2>1, <2>2, TaskMoves
<1>3. ASSUME NEW t \in Tasks, NEW fs \in SUBSET Profiles, NEW force \in BOOLEAN, NEW ask \in BOOLEAN,
             Logout(t, fs, force, ask)
      PROVE  AccountsInductive'
  <2> DEFINE r == [Resting EXCEPT !.op = "logout", !.todo = {f \in fs : file[f] # None},
                                  !.users = {d \in Dirs : profileOf[d] \in fs},
                                  !.force = force, !.ask = ask,
                                  !.pc = IF \A f \in fs : file[f] = None THEN "ok" ELSE "loop"]
  <2>1. r \in TaskRecord /\ Knows(r, lasting')
    BY DEF Resting, TaskRecord, Knows
  <2>2. ProfilesHold' /\ lasting' = lasting /\ task' = [task EXCEPT ![t] = r]
    BY <1>3 DEF Logout, ProfilesHold, keys
  <2> HIDE DEF r
  <2> QED BY <1>0, <2>1, <2>2, TaskMoves
<1>4. ASSUME NEW t \in Tasks, NEW d \in Dirs, NEW f \in Profiles, InitProject(t, d, f)
      PROVE  AccountsInductive'
  <2> DEFINE r == [Resting EXCEPT !.op = "init", !.pc = "stash", !.profile = f, !.dir = d]
  <2>1. r \in TaskRecord /\ Knows(r, lasting')
    BY DEF Resting, TaskRecord, Knows
  <2>2. ProfilesHold' /\ lasting' = lasting /\ task' = [task EXCEPT ![t] = r]
    BY <1>4 DEF InitProject, ProfilesHold, keys
  <2> HIDE DEF r
  <2> QED BY <1>0, <2>1, <2>2, TaskMoves
<1>5. ASSUME NEW t \in Tasks, NEW f \in Profiles, NEW agreed \in BOOLEAN, RemoveKey(t, f, agreed),
             TaskAt(t, "logout", "loop"), agreed \/ ~Needed(t, f), UNCHANGED <<keys, profileOf, logins>>
      PROVE  AccountsInductive'
  <2> DEFINE r == IF file[f] = None THEN [task[t] EXCEPT !.pc = "failed"]
                  ELSE [task[t] EXCEPT !.todo = @ \ {f}, !.removed = @ \cup {f}]
  <2>1. r \in TaskRecord /\ Knows(r, lasting')
    <3>0. [task[t] EXCEPT !.pc = "failed"] \in TaskRecord
      BY <1>0 DEF TaskRecord
    <3>1. r \in TaskRecord
      <4>1. [task[t] EXCEPT !.todo = @ \ {f}, !.removed = @ \cup {f}] \in TaskRecord
        BY <1>0 DEF TaskRecord
      <4> QED BY <3>0, <4>1
    <3>2. Knows(r, lasting')
      BY <1>0, <1>5 DEF TaskRecord, Knows, TaskAt
    <3> QED BY <3>1, <3>2
  <2>2. lasting' = lasting /\ task' = [task EXCEPT ![t] = r]
    BY <1>0, <1>5 DEF RemoveKey, keys, TasksKnow
  <2>3. ~agreed /\ f \notin consented' => \A d \in Dirs : profileOf[d] # f
    BY <1>5 DEF RemoveKey, Needed, UsersOf
  <2>4. ProfilesHold'
    BY <1>0, <1>5, <2>3 DEF RemoveKey, ProfilesHold, keys
  <2> HIDE DEF r
  <2> QED BY <1>0, <2>1, <2>2, <2>4, TaskMoves
<1>7. ASSUME NEW t \in Tasks, NEW f \in Profiles, SkipUsed(t, f) PROVE AccountsInductive'
  <2> DEFINE r == [task[t] EXCEPT !.todo = @ \ {f}, !.skipped = @ \cup {f}]
  <2>1. r \in TaskRecord /\ Knows(r, lasting')
    <3>1. r \in TaskRecord
      BY <1>0 DEF TaskRecord
    <3>2. Knows(r, lasting')
      BY <1>0, <1>7 DEF SkipUsed, TaskRecord, Knows, TaskAt
    <3> QED BY <3>1, <3>2
  <2>2. ProfilesHold' /\ lasting' = lasting /\ task' = [task EXCEPT ![t] = r]
    BY <1>7 DEF SkipUsed, ProfilesHold, keys
  <2> HIDE DEF r
  <2> QED BY <1>0, <2>1, <2>2, TaskMoves
<1>8. ASSUME NEW t \in Tasks, NEW k \in Keys, Session(t, k) PROVE AccountsInductive'
  <2> DEFINE r == [task[t] EXCEPT !.pc = "create", !.key = k]
  <2>1. r \in TaskRecord /\ Knows(r, lasting')
    <3>1. r \in TaskRecord
      BY <1>0 DEF TaskRecord
    <3>2. Knows(r, lasting')
      BY <1>0, <1>8 DEF Session, TaskRecord, Knows, TaskAt
    <3> QED BY <3>1, <3>2
  <2>2. ProfilesHold' /\ lasting' = lasting /\ task' = [task EXCEPT ![t] = r]
    BY <1>8 DEF Session, ProfilesHold
  <2> HIDE DEF r
  <2> QED BY <1>0, <2>1, <2>2, TaskMoves
<1>9. ASSUME NEW t \in Tasks, NEW k \in Keys, CreateSecretKey(t, k) PROVE AccountsInductive'
  <2> DEFINE r == [task[t] EXCEPT !.pc = "save", !.key = k]
  <2>1. r \in TaskRecord /\ Knows(r, lasting')
    <3>1. r \in TaskRecord
      BY <1>0 DEF TaskRecord
    <3>2. Knows(r, lasting')
      BY <1>0, <1>9 DEF CreateSecretKey, TaskRecord, Knows, TaskAt
    <3> QED BY <3>1, <3>2
  <2>2. ProfilesHold' /\ lasting \subseteq lasting' /\ task' = [task EXCEPT ![t] = r]
    BY <1>9 DEF CreateSecretKey, ProfilesHold
  <2> HIDE DEF r
  <2> QED BY <1>0, <2>1, <2>2, TaskMoves
<1>10. ASSUME NEW t \in Tasks, WriteConfig(t) PROVE AccountsInductive'
  <2> DEFINE r == [task[t] EXCEPT !.pc = "reinit"]
  <2>0. task[t].profile \in Profiles /\ task[t].key \in lasting /\ TaskAt(t, "login", "save")
    BY <1>0, <1>10 DEF WriteConfig, Knows, TaskAt
  <2>1. r \in TaskRecord /\ Knows(r, lasting')
    <3>1. r \in TaskRecord
      BY <1>0 DEF TaskRecord
    <3>2. Knows(r, lasting')
      BY <1>0, <2>0 DEF TaskRecord, Knows, TaskAt
    <3> QED BY <3>1, <3>2
  <2>2. lasting' = lasting /\ task' = [task EXCEPT ![t] = r]
    BY <1>10 DEF WriteConfig, To, keys
  <2>3. ProfilesHold'
    BY <2>0, <1>10, AccountsAssumption DEF WriteConfig, ProfilesHold, keys
  <2> HIDE DEF r
  <2> QED BY <1>0, <2>1, <2>2, <2>3, TaskMoves
<1>11. ASSUME NEW t \in Tasks, Reinit(t) PROVE AccountsInductive'
  <2> DEFINE k == SecretKey(None, task[t].environ, task[t].profile)
             r == [task[t] EXCEPT !.pc = "verify", !.key = k]
  <2>1. k \in Keys \cup {None, Bad} /\ (task[t].environ # None => k = task[t].environ)
    BY <1>0, <1>11 DEF Reinit, SecretKey, ProfilesHold, TaskRecord, Knows, TaskAt
  <2>2. ProfilesHold' /\ lasting' = lasting /\ task' = [task EXCEPT ![t] = r]
    BY <1>11 DEF Reinit, ProfilesHold, keys
  <2> HIDE DEF k
  <2>3. r \in TaskRecord /\ Knows(r, lasting')
    <3>1. r \in TaskRecord
      <4>1. task[t] \in TaskRecord
        BY <1>0
      <4> QED BY <2>1, <4>1 DEF TaskRecord
    <3>2. Knows(r, lasting')
      BY <1>0, <1>11, <2>1 DEF Reinit, TaskRecord, Knows, TaskAt
    <3> QED BY <3>1, <3>2
  <2> HIDE DEF r
  <2> QED BY <1>0, <2>2, <2>3, TaskMoves
\* The end of a command
<1>12. ASSUME NEW t \in Tasks, NEW pc \in {"ok", "failed"}, Ends(t, pc),
              task[t].op = "logout" /\ pc = "ok" => task[t].skipped = {} /\ task[t].todo = {},
              UNCHANGED keys, ProfilesHold'
       PROVE  AccountsInductive'
  <2> DEFINE r == [Resting EXCEPT !.op = task[t].op, !.pc = pc,
                                  !.todo = task[t].todo, !.skipped = task[t].skipped]
  <2>1. r \in TaskRecord /\ Knows(r, lasting')
    <3>1. r \in TaskRecord
      <4>1. Resting \in TaskRecord /\ task[t] \in TaskRecord
        BY <1>0 DEF Resting, TaskRecord
      <4> QED BY <4>1 DEF TaskRecord
    <3>2. Knows(r, lasting')
      BY <1>0, <1>12 DEF Resting, TaskRecord, Knows
    <3> QED BY <3>1, <3>2
  <2>2. lasting' = lasting /\ task' = [task EXCEPT ![t] = r]
    BY <1>12 DEF Ends, keys
  <2> HIDE DEF r
  <2> QED BY <1>0, <1>12, <2>1, <2>2, TaskMoves
<1>13. ASSUME NEW t \in Tasks, Verify(t) \/ LoginFails(t) \/ Exit(t) PROVE AccountsInductive'
  <2>1. ProfilesHold' /\ UNCHANGED keys
    BY <1>13 DEF Verify, LoginFails, Exit, ProfilesHold, keys
  <2>2. \E pc \in {"ok", "failed"} :
           Ends(t, pc) /\ (task[t].op = "logout" /\ pc = "ok" => task[t].skipped = {} /\ task[t].todo = {})
    BY <1>13 DEF Verify, LoginFails, Exit, TaskAt
  <2> QED BY <1>12, <2>1, <2>2
<1>14. ASSUME NEW t \in Tasks, WriteStash(t) PROVE AccountsInductive'
  <2>1. task[t].profile \in Profiles /\ task[t].dir \in Dirs /\ task[t].op = "init"
    BY <1>0, <1>14 DEF WriteStash, Knows, TaskAt
  <2>2. ProfilesHold'
    BY <1>14, <2>1 DEF WriteStash, ProfilesHold, keys
  <2> QED BY <1>12, <1>14, <2>1, <2>2 DEF WriteStash
<1>15. CASE UNCHANGED accounts
  BY <1>0, <1>15 DEF accounts, TasksKnow, ProfilesHold, Knows
<1>16. ASSUME NEW t \in Tasks, NEW f \in Profiles, RemoveUnused(t, f) \/ RemoveUsed(t, f)
       PROVE  AccountsInductive'
  BY <1>5, <1>16 DEF RemoveUnused, RemoveUsed
<1> HIDE DEF AccountsInductive
<1> QED
  BY <1>1, <1>2, <1>3, <1>4, <1>7, <1>8, <1>9, <1>10, <1>11, <1>13, <1>14, <1>15, <1>16
  DEF AccountsNext, LogoutProfile, LogoutAll

(* What profiles hold are keys that do not expire; no project's profile is  *)
(* logged out unseen; and `logout` that succeeds left nothing. *)
THEOREM AccountsHold == AccountsSpec => []AccountsInv
<1>1. AccountsInductive /\ [AccountsNext]_accounts => AccountsInductive'
  BY AccountsStep
<1>2. AccountsInductive => AccountsInv
  BY DEF AccountsInductive, TasksKnow, ProfilesHold, Knows, AccountsInv, TaskAt
<1> QED BY AccountsStart, <1>1, <1>2, PTL DEF AccountsSpec

(* A `login` that reports success leaves its user logged in: no other step  *)
(* than the last of `login` says so, and the key it checked is the file's. *)
THEOREM SuccessfulLoginsLast == AccountsSpec => LoginLasts
<1>1. /\ AccountsInductive /\ [AccountsNext]_accounts
      => \A t \in Tasks :
            TaskAt(t, "login", "verify") /\ task'[t].pc = "ok" =>
                \/ SecretKey(None, task[t].environ, task[t].profile) \in live \cap lasting
                \/ file[task[t].profile] # task[t].key
  <2> SUFFICES ASSUME AccountsInductive, [AccountsNext]_accounts, NEW t \in Tasks,
                      TaskAt(t, "login", "verify"), task'[t].pc = "ok",
                      file[task[t].profile] = task[t].key
               PROVE  SecretKey(None, task[t].environ, task[t].profile) \in live \cap lasting
    OBVIOUS
  <2>0. task \in [Tasks -> TaskRecord] /\ Knows(task[t], lasting) /\ task[t] \in TaskRecord
    BY DEF AccountsInductive, TasksKnow
  <2>1. \A u \in Tasks \ {t} : \A r : task' = [task EXCEPT ![u] = r] => task'[t] = task[t]
    BY <2>0
  <2>2. Verify(t)
    <3> USE DEF TaskAt, Over
    <3>1. ASSUME NEW u \in Tasks, NEW r, task' = [task EXCEPT ![u] = r]
          PROVE  u = t /\ r.pc = "ok"
      BY <2>0, <2>1, <3>1
    <3>2. ASSUME NEW u \in Tasks, NEW f \in Profiles
          PROVE  /\ \A option, environ \in {None, Bad} : ~Login(u, f, option, environ)
                 /\ \A d \in Dirs : ~InitProject(u, d, f)
                 /\ ~RemoveUnused(u, f) /\ ~RemoveUsed(u, f) /\ ~SkipUsed(u, f)
      BY <3>1, <2>0 DEF Login, InitProject, RemoveUnused, RemoveUsed, RemoveKey, SkipUsed
    <3>3. ASSUME NEW u \in Tasks, NEW fs, NEW force, NEW ask PROVE ~Logout(u, fs, force, ask)
      BY <3>1 DEF Logout
    <3>4. ASSUME NEW u \in Tasks, NEW k \in Keys PROVE ~Session(u, k) /\ ~CreateSecretKey(u, k)
      BY <3>1 DEF Session, CreateSecretKey
    <3>5. ASSUME NEW u \in Tasks
          PROVE  ~WriteConfig(u) /\ ~Reinit(u) /\ ~Exit(u) /\ ~WriteStash(u)
      BY <3>1 DEF WriteConfig, To, Reinit, Exit, WriteStash, Ends
    <3>6. ASSUME NEW u \in Tasks, LoginFails(u) PROVE FALSE
      BY <3>1, <3>6 DEF LoginFails, Ends, Resting
    <3>7. ASSUME NEW u \in Tasks, Verify(u) PROVE u = t
      BY <3>1, <3>7 DEF Verify, Ends
    <3>8. task' # task
      OBVIOUS
    <3> QED
      BY <3>2, <3>3, <3>4, <3>5, <3>6, <3>7, <3>8
      DEF AccountsNext, accounts, Revoke, LogoutProfile, LogoutAll
  <2>3. task[t].key \in live
    BY <2>0, <2>2 DEF Verify, Ends
  <2>4. task[t].environ = None /\ task[t].profile \in Profiles
    BY <2>0, <2>3, AccountsAssumption DEF AccountsInductive, ProfilesHold, TaskRecord, Knows, TaskAt
  <2> QED
    BY <2>3, <2>4, AccountsAssumption DEF AccountsInductive, ProfilesHold, SecretKey
<1>2. AccountsInductive /\ [AccountsNext]_accounts => AccountsInductive'
  BY AccountsStep
<1> QED BY AccountsStart, <1>1, <1>2, PTL DEF AccountsSpec, LoginLasts

=============================================================================
