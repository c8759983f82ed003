--------------------------- MODULE CommandsProofs ---------------------------
(***************************************************************************)
(* Proofs about commands beside each other: the locks that they take       *)
(* (CommandLocks), for any number of commands and hooks; and the commands  *)
(* that put a file in place by renaming it, for any number of edits of a   *)
(* migration (Edits), in a project, where they take its lock, and of dumps *)
(* and restores (Dumps).                                                   *)
(***************************************************************************)
EXTENDS CommandLocks, Edits, Dumps, FiniteSetTheorems, TLAPS

-----------------------------------------------------------------------------
(* CommandLocks *)

(* How far each plan goes, and what it comes to where.                      *)
PlanLength(k) ==
    IF k \in {"read", "write", "destroy"} THEN 4
    ELSE IF k \in {"watch", "branch", "init"} THEN 6 ELSE IF k = "purge" THEN 3 ELSE 2
Comes(k, n, s) ==
    /\ s # "drop"
    /\ s = "work" =>
         \/ k \in {"read", "write"} /\ n = 4
         \/ k \in {"watch", "branch", "init"} /\ n = 6
         \/ k \in {"inst", "backup"} /\ n = 2
         \/ k = "destroy" /\ n = 3
         \/ k = "purge" /\ n = 2
    /\ s = "look" =>
         \/ k \in {"read", "write", "watch", "branch", "unlink", "purge"} /\ n = 1
         \/ k = "branch" /\ n = 4
         \/ k = "init" /\ n = 3
         \/ k = "destroy" /\ n = 2
    /\ s = "readInstance" => <<k, n>> \in {<<"read", 2>>, <<"backup", 1>>}
    /\ s = "writeInstance" =>
         \/ k \in {"write", "watch", "branch"} /\ n = 2
         \/ k = "branch" /\ n = 5
         \/ k = "init" /\ n = 4
         \/ k \in {"inst", "destroy"} /\ n = 1
    /\ s = "readProject" => k = "read" /\ n = 3
    /\ s = "writeProject" =>
         \/ k \in {"write", "watch", "branch"} /\ n = 3
         \/ k = "init" /\ n = 2
    /\ s = "refuse" => k = "init" /\ n = 1
    /\ s = "link" => k = "init" /\ n = 5
    /\ s = "unlink" => <<k, n>> \in {<<"unlink", 2>>, <<"purge", 3>>, <<"destroy", 4>>}
    /\ s = "weaken" => k = "watch" /\ n = 4
    /\ s = "free" => k = "watch" /\ n = 5

LEMMA PlanLengths ==
    /\ Kinds = {"read", "write", "watch", "branch", "init", "unlink", "purge", "inst", "destroy", "backup"}
    /\ \A k \in Kinds : Len(Plans[k]) = PlanLength(k)
<1>1. Kinds = {"read", "write", "watch", "branch", "init", "unlink", "purge", "inst", "destroy", "backup"}
  BY DEF Kinds, Plans
<1>2. \A k \in {"read", "write", "destroy"} : Len(Plans[k]) = 4
  BY DEF Plans
<1>3. \A k \in {"watch", "branch", "init"} : Len(Plans[k]) = 6
  BY DEF Plans
<1>4. \A k \in {"unlink", "inst", "backup"} : Len(Plans[k]) = 2
  BY DEF Plans
<1>5. Len(Plans["purge"]) = 3
  BY DEF Plans
<1> QED BY <1>1, <1>2, <1>3, <1>4, <1>5 DEF PlanLength

LEMMA PlanSteps ==
    ASSUME NEW k \in Kinds, NEW n \in 1 .. PlanLength(k)
    PROVE  Comes(k, n, Plans[k][n])
<1> DEFINE p == Plans[k]
<1>1. CASE k = "read"
  <2>1. p = <<"look", "readInstance", "readProject", "work">> /\ n \in 1 .. 4
    BY <1>1 DEF Plans, PlanLength
  <2> HIDE DEF p
  <2>2. \/ n = 1 /\ p[n] = "look"
        \/ n = 2 /\ p[n] = "readInstance"
        \/ n = 3 /\ p[n] = "readProject"
        \/ n = 4 /\ p[n] = "work"
    BY <2>1
  <2>3. Comes(k, n, p[n])
    BY <1>1, <2>2 DEF Comes
  <2> QED BY <2>3 DEF p
<1>2. CASE k = "write"
  <2>1. p = <<"look", "writeInstance", "writeProject", "work">> /\ n \in 1 .. 4
    BY <1>2 DEF Plans, PlanLength
  <2> HIDE DEF p
  <2>2. \/ n = 1 /\ p[n] = "look"
        \/ n = 2 /\ p[n] = "writeInstance"
        \/ n = 3 /\ p[n] = "writeProject"
        \/ n = 4 /\ p[n] = "work"
    BY <2>1
  <2>3. Comes(k, n, p[n])
    BY <1>2, <2>2 DEF Comes
  <2> QED BY <2>3 DEF p
<1>3. CASE k = "watch"
  <2>1. p = <<"look", "writeInstance", "writeProject", "weaken", "free", "work">> /\ n \in 1 .. 6
    BY <1>3 DEF Plans, PlanLength
  <2> HIDE DEF p
  <2>2. \/ n = 1 /\ p[n] = "look"
        \/ n = 2 /\ p[n] = "writeInstance"
        \/ n = 3 /\ p[n] = "writeProject"
        \/ n = 4 /\ p[n] = "weaken"
        \/ n = 5 /\ p[n] = "free"
        \/ n = 6 /\ p[n] = "work"
    BY <2>1
  <2>3. Comes(k, n, p[n])
    BY <1>3, <2>2 DEF Comes
  <2> QED BY <2>3 DEF p
<1>4. CASE k = "branch"
  <2>1. p = <<"look", "writeInstance", "writeProject", "look", "writeInstance", "work">> /\ n \in 1 .. 6
    BY <1>4 DEF Plans, PlanLength
  <2> HIDE DEF p
  <2>2. \/ n = 1 /\ p[n] = "look"
        \/ n = 2 /\ p[n] = "writeInstance"
        \/ n = 3 /\ p[n] = "writeProject"
        \/ n = 4 /\ p[n] = "look"
        \/ n = 5 /\ p[n] = "writeInstance"
        \/ n = 6 /\ p[n] = "work"
    BY <2>1
  <2>3. Comes(k, n, p[n])
    BY <1>4, <2>2 DEF Comes
  <2> QED BY <2>3 DEF p
<1>5. CASE k = "init"
  <2>1. p = <<"refuse", "writeProject", "look", "writeInstance", "link", "work">> /\ n \in 1 .. 6
    BY <1>5 DEF Plans, PlanLength
  <2> HIDE DEF p
  <2>2. \/ n = 1 /\ p[n] = "refuse"
        \/ n = 2 /\ p[n] = "writeProject"
        \/ n = 3 /\ p[n] = "look"
        \/ n = 4 /\ p[n] = "writeInstance"
        \/ n = 5 /\ p[n] = "link"
        \/ n = 6 /\ p[n] = "work"
    BY <2>1
  <2>3. Comes(k, n, p[n])
    BY <1>5, <2>2 DEF Comes
  <2> QED BY <2>3 DEF p
<1>6. CASE k = "unlink"
  <2>1. p = <<"look", "unlink">> /\ n \in 1 .. 2
    BY <1>6 DEF Plans, PlanLength
  <2> HIDE DEF p
  <2>2. \/ n = 1 /\ p[n] = "look"
        \/ n = 2 /\ p[n] = "unlink"
    BY <2>1
  <2>3. Comes(k, n, p[n])
    BY <1>6, <2>2 DEF Comes
  <2> QED BY <2>3 DEF p
<1>7. CASE k = "inst"
  <2>1. p = <<"writeInstance", "work">> /\ n \in 1 .. 2
    BY <1>7 DEF Plans, PlanLength
  <2> HIDE DEF p
  <2>2. \/ n = 1 /\ p[n] = "writeInstance"
        \/ n = 2 /\ p[n] = "work"
    BY <2>1
  <2>3. Comes(k, n, p[n])
    BY <1>7, <2>2 DEF Comes
  <2> QED BY <2>3 DEF p
<1>8. CASE k = "destroy"
  <2>1. p = <<"writeInstance", "look", "work", "unlink">> /\ n \in 1 .. 4
    BY <1>8 DEF Plans, PlanLength
  <2> HIDE DEF p
  <2>2. \/ n = 1 /\ p[n] = "writeInstance"
        \/ n = 2 /\ p[n] = "look"
        \/ n = 3 /\ p[n] = "work"
        \/ n = 4 /\ p[n] = "unlink"
    BY <2>1
  <2>3. Comes(k, n, p[n])
    BY <1>8, <2>2 DEF Comes
  <2> QED BY <2>3 DEF p
<1>9. CASE k = "backup"
  <2>1. p = <<"readInstance", "work">> /\ n \in 1 .. 2
    BY <1>9 DEF Plans, PlanLength
  <2> HIDE DEF p
  <2>2. \/ n = 1 /\ p[n] = "readInstance"
        \/ n = 2 /\ p[n] = "work"
    BY <2>1
  <2>3. Comes(k, n, p[n])
    BY <1>9, <2>2 DEF Comes
  <2> QED BY <2>3 DEF p
<1>10. CASE k = "purge"
  <2>1. p = <<"look", "work", "unlink">> /\ n \in 1 .. 3
    BY <1>10 DEF Plans, PlanLength
  <2> HIDE DEF p
  <2>2. \/ n = 1 /\ p[n] = "look"
        \/ n = 2 /\ p[n] = "work"
        \/ n = 3 /\ p[n] = "unlink"
    BY <2>1
  <2>3. Comes(k, n, p[n])
    BY <1>10, <2>2 DEF Comes
  <2> QED BY <2>3 DEF p
<1> QED BY <1>1, <1>2, <1>3, <1>4, <1>5, <1>6, <1>7, <1>8, <1>9, <1>10, PlanLengths

Guards == {"none", "Shared", "Exclusive"}
LEMMA GuardsCompatible ==
    /\ Guards = I!Guards /\ Guards = P!Guards
    /\ \A g, h \in Guards : I!Compatible(g, h) <=> g = "none" \/ h = "none" \/ (g = "Shared" /\ h = "Shared")
BY DEF Guards, I!Guards, P!Guards, I!Compatible

----------------------------------------------------------------------------
(* The inductive invariant *)

\* The guard on the instance lock that a command of kind k has at place n, if it saw the stash (s)
HoldsAt(k, n, s, g, hook) ==
    /\ k \in Writers => g # "Shared"
    /\ n = 1 => s
    /\ \/ k = "inst" /\ n = 2
       \/ k = "destroy" /\ n \in 2 .. 4
       \/ k = "write" /\ n \in 3 .. 4 /\ s
       \/ k = "branch" /\ n = 6 /\ s
       \/ k = "init" /\ n \in 5 .. 6 /\ s
       => g = "Exclusive"
    /\ \/ k = "watch" /\ n \in 3 .. 6 /\ s
       \/ k = "read" /\ n \in 3 .. 4 /\ s /\ ~hook
       \/ k = "backup" /\ n = 2 /\ ~hook
       => g # "none"

CommandOK(c) ==
    /\ kind[c] = "none" => at[c] = 0 /\ saw[c] /\ instance[c] = "none" /\ project[c] = "none"
    /\ kind[c] # "none" => at[c] <= PlanLength(kind[c])
    /\ HoldsAt(kind[c], at[c], saw[c], instance[c], c \in Hooks)

ParentOK(c) ==
    parent[c] # Nobody =>
        /\ c \in Hooks /\ kind[c] # "none"
        /\ parent[c] \notin Hooks /\ kind[parent[c]] \in ProjectKinds /\ Working(parent[c])

LocksInv ==
    /\ kind \in [Commands -> Kinds \cup {"none"}] /\ at \in [Commands -> Nat]
    /\ saw \in [Commands -> BOOLEAN] /\ stash \in BOOLEAN
    /\ parent \in [Commands -> Commands \cup {Nobody}]
    /\ instance \in [Commands -> Guards] /\ project \in [Commands -> Guards]
    /\ \A c \in Commands : CommandOK(c) /\ ParentOK(c)
    /\ \A c, d \in Commands : c # d => I!Compatible(instance[c], instance[d])

LEMMA LocksStart == Init => LocksInv
BY HooksAssumption, GuardsCompatible
DEF Init, LocksInv, CommandOK, ParentOK, HoldsAt, I!PromiseInit, P!PromiseInit, Guards, Writers

\* What a command is, and comes to next
LEMMA CommandSteps ==
    ASSUME LocksInv, NEW c \in Commands, Step(c) # "drop"
    PROVE  /\ kind[c] \in Kinds /\ at[c] \in 1 .. PlanLength(kind[c])
           /\ Comes(kind[c], at[c], Step(c))
           /\ Advance(c) <=> at' = [at EXCEPT ![c] = IF @ = PlanLength(kind[c]) THEN 0 ELSE @ + 1]
<1>1. kind[c] \in Kinds /\ at[c] \in 1 .. PlanLength(kind[c]) /\ Step(c) = Plans[kind[c]][at[c]]
  <2>1. at[c] # 0 /\ at[c] \in Nat /\ Step(c) = Plans[kind[c]][at[c]]
    BY DEF Step, LocksInv
  <2> QED BY <2>1 DEF LocksInv, CommandOK, PlanLength
<1> QED BY <1>1, PlanSteps, PlanLengths DEF Advance

(* A command that is not at work goes on: the others keep what they have,   *)
(* but that a stash may vanish with its lock file. *)
LEMMA CommandMoves ==
    ASSUME LocksInv, NEW c \in Commands, kind[c] # "none", ~Working(c) \/ \A h \in Hooks : parent[h] # c,
           kind' = kind, parent' = parent, stash' \in BOOLEAN,
           NEW n \in 0 .. PlanLength(kind[c]), at' = [at EXCEPT ![c] = n],
           NEW s \in BOOLEAN, saw' = [saw EXCEPT ![c] = s],
           NEW g \in Guards, instance' = [instance EXCEPT ![c] = g],
           \A d \in Commands \ {c} : I!Compatible(g, instance[d]),
           project' \in [Commands -> Guards],
           \A d \in Commands \ {c} : project'[d] \in {project[d], "none"},
           HoldsAt(kind[c], n, s, g, c \in Hooks)
    PROVE  LocksInv'
<1>1. ASSUME NEW d \in Commands PROVE CommandOK(d)'
  BY DEF LocksInv, CommandOK
<1>2. ASSUME NEW d \in Commands PROVE ParentOK(d)'
  <2>1. parent[d] # Nobody => parent[d] # c
    BY DEF LocksInv, ParentOK
  <2> QED BY <2>1 DEF LocksInv, ParentOK, Working, Step
<1>3. ASSUME NEW d \in Commands, NEW e \in Commands, d # e
      PROVE  I!Compatible(instance'[d], instance'[e])
  BY <1>3, GuardsCompatible DEF LocksInv
<1>4. n \in Nat
  BY DEF PlanLength
<1> QED BY <1>1, <1>2, <1>3, <1>4 DEF LocksInv, I!Compatible

LEMMA StepMoves ==
    ASSUME LocksInv, NEW c \in Commands, Moves(c) \/ Finish(c), Step(c) # "drop"
    PROVE  LocksInv'
<1> DEFINE k == kind[c]
           n == IF at[c] = PlanLength(k) THEN 0 ELSE at[c] + 1
<1>1. /\ k \in Kinds /\ k # "none" /\ at[c] \in 1 .. PlanLength(k) /\ Comes(k, at[c], Step(c))
      /\ Advance(c) <=> at' = [at EXCEPT ![c] = n]
  BY CommandSteps, PlanLengths
<1>2. n \in 0 .. PlanLength(k) /\ 0 \in 0 .. PlanLength(k)
  BY <1>1 DEF PlanLength
<1>3. /\ saw[c] \in BOOLEAN /\ saw = [saw EXCEPT ![c] = saw[c]] /\ stash \in BOOLEAN
      /\ instance[c] \in Guards /\ instance = [instance EXCEPT ![c] = instance[c]]
      /\ \A d \in Commands \ {c} : I!Compatible(instance[c], instance[d])
      /\ project \in [Commands -> Guards] /\ HoldsAt(k, at[c], saw[c], instance[c], c \in Hooks)
  BY DEF LocksInv, CommandOK
<1>4. \A s \in BOOLEAN, g \in Guards :
         HoldsAt(k, at[c], saw[c], instance[c], c \in Hooks) /\ g \in {instance[c], "none", "Exclusive"}
            => HoldsAt(k, 0, s, g, c \in Hooks)
  BY DEF HoldsAt, Guards
<1>14. ASSUME NEW m \in 0 .. PlanLength(k), at' = [at EXCEPT ![c] = m],
              UNCHANGED <<kind, parent>>, stash' \in BOOLEAN,
              NEW s \in BOOLEAN, saw' = [saw EXCEPT ![c] = s],
              NEW g \in Guards, instance' = [instance EXCEPT ![c] = g],
              \A d \in Commands \ {c} : I!Compatible(g, instance[d]),
              project' \in [Commands -> Guards],
              \A d \in Commands \ {c} : project'[d] \in {project[d], "none"},
              HoldsAt(k, m, s, g, c \in Hooks),
              Step(c) # "work" \/ \A h \in Hooks : parent[h] # c
       PROVE  LocksInv'
  <2>1. ~Working(c) \/ \A h \in Hooks : parent[h] # c
    BY <1>14 DEF Working
  <2>2. kind' = kind /\ parent' = parent /\ kind[c] # "none"
        /\ HoldsAt(kind[c], m, s, g, c \in Hooks)
    BY <1>1, <1>14
  <2>3. m \in 0 .. PlanLength(kind[c])
    OBVIOUS
  <2> QED BY <1>14, <2>1, <2>2, <2>3, CommandMoves, ZenonT(60)
<1> HIDE DEF k, n
\* The stash and the instance lock are left alone
<1>15. ASSUME NEW m \in {0, n}, at' = [at EXCEPT ![c] = m],
              UNCHANGED <<kind, parent, saw, instance>>, stash' \in BOOLEAN,
              project' \in [Commands -> Guards],
              \A d \in Commands \ {c} : project'[d] \in {project[d], "none"},
              HoldsAt(k, n, saw[c], instance[c], c \in Hooks) \/ m = 0,
              Step(c) # "work" \/ \A h \in Hooks : parent[h] # c
       PROVE  LocksInv'
  <2>1. HoldsAt(k, m, saw[c], instance[c], c \in Hooks) /\ m \in 0 .. PlanLength(k)
    BY <1>2, <1>3, <1>4, <1>15
  <2>2. saw' = [saw EXCEPT ![c] = saw[c]] /\ instance' = [instance EXCEPT ![c] = instance[c]]
    BY <1>3, <1>15
  <2> QED BY <1>3, <1>14, <1>15, <2>1, <2>2
<1>5. CASE Look(c)
  <2>1. saw' = [saw EXCEPT ![c] = stash] /\ at' = [at EXCEPT ![c] = n] /\ Step(c) = "look"
        /\ UNCHANGED <<kind, parent, stash, instance, project>>
    BY <1>1, <1>5 DEF Look, locks
  <2>2. HoldsAt(k, n, stash, instance[c], c \in Hooks)
    BY <1>1, <1>3, <2>1 DEF HoldsAt, Comes, n, PlanLength, Writers
  <2> QED BY <1>2, <1>3, <1>14, <2>1, <2>2
<1>6. CASE Refuse(c)
  <2>1. Step(c) = "refuse" /\ UNCHANGED <<kind, parent, saw, stash, instance, project>>
        /\ (at' = [at EXCEPT ![c] = n] \/ at' = [at EXCEPT ![c] = 0])
    BY <1>1, <1>6 DEF Refuse, Fail, locks, place
  <2>2. HoldsAt(k, n, saw[c], instance[c], c \in Hooks) /\ HoldsAt(k, 0, saw[c], instance[c], c \in Hooks)
    BY <1>1, <1>3, <2>1 DEF HoldsAt, Comes, n, PlanLength, Writers
  <2> QED BY <1>3, <1>15, <2>1, <2>2
<1>7. CASE Locked(c)
  <2>1. /\ Step(c) \in LockSteps /\ at' = [at EXCEPT ![c] = n]
        /\ UNCHANGED <<kind, parent, saw, stash>>
    BY <1>1, <1>7 DEF Locked, place
  <2>2. CASE Nothing(c) /\ UNCHANGED locks
    <3>1. HoldsAt(k, n, saw[c], instance[c], c \in Hooks)
      BY <1>1, <1>3, <2>1, <2>2 DEF Nothing, HoldsAt, Comes, n, PlanLength, Writers, LockSteps,
         InstanceSteps, ProjectSteps, Guards
    <3>2. UNCHANGED <<instance, project>>
      BY <2>2 DEF locks
    <3> QED BY <1>3, <1>15, <2>1, <3>1, <3>2 DEF LockSteps, InstanceSteps, ProjectSteps
  <2>3. CASE ~Nothing(c) /\ Step(c) \in InstanceSteps /\ I!Grant(c, Mode(Step(c))) /\ UNCHANGED project
    <3> DEFINE g == Mode(Step(c))
    <3>1. /\ g \in Guards /\ instance' = [instance EXCEPT ![c] = g]
          /\ \A d \in Commands \ {c} : I!Compatible(g, instance[d])
      BY <2>3 DEF I!Grant, Mode, Guards
    <3>2. HoldsAt(k, n, saw[c], g, c \in Hooks)
      BY <1>1, <1>3, <2>3 DEF HoldsAt, Comes, n, PlanLength, Writers, InstanceSteps, Mode
    <3> HIDE DEF g
    <3> QED BY <1>2, <1>3, <1>14, <2>1, <2>3, <3>1, <3>2 DEF InstanceSteps
  <2>4. CASE ~Nothing(c) /\ Step(c) \in ProjectSteps /\ P!Grant(c, Mode(Step(c))) /\ UNCHANGED instance
    <3>1. /\ project' \in [Commands -> Guards]
          /\ \A d \in Commands \ {c} : project'[d] = project[d]
      BY <1>3, <2>4 DEF P!Grant, Mode, Guards
    <3>2. HoldsAt(k, n, saw[c], instance[c], c \in Hooks)
      BY <1>1, <1>3, <2>4 DEF HoldsAt, Comes, n, PlanLength, Writers, ProjectSteps
    <3> QED BY <1>3, <1>15, <2>1, <2>4, <3>1, <3>2 DEF ProjectSteps
  <2> QED BY <1>7, <2>2, <2>3, <2>4 DEF Locked
<1>8. CASE TimedOut(c)
  <2>1. Step(c) \in LockSteps /\ at' = [at EXCEPT ![c] = 0]
        /\ UNCHANGED <<kind, parent, saw, stash, instance, project>>
    BY <1>8 DEF TimedOut, Fail, place, locks
  <2> QED BY <1>3, <1>15, <2>1 DEF LockSteps, InstanceSteps, ProjectSteps
<1>9. CASE WriteStash(c)
  <2>1. Step(c) = "link" /\ UNCHANGED <<kind, parent, saw, instance, project>> /\ stash' \in BOOLEAN
        /\ (at' = [at EXCEPT ![c] = n] \/ at' = [at EXCEPT ![c] = 0])
    BY <1>1, <1>3, <1>9 DEF WriteStash, Fail, locks, place
  <2>2. HoldsAt(k, n, saw[c], instance[c], c \in Hooks)
    BY <1>1, <1>3, <2>1 DEF HoldsAt, Comes, n, PlanLength, Writers
  <2> QED BY <1>3, <1>15, <2>1, <2>2
<1>10. CASE RemoveStash(c)
  <2>1. /\ Step(c) = "unlink" /\ at' = [at EXCEPT ![c] = n] /\ stash' \in BOOLEAN
        /\ UNCHANGED <<kind, parent, saw, instance>>
        /\ project' \in [Commands -> Guards]
        /\ \A d \in Commands \ {c} : project'[d] \in {project[d], "none"}
    BY <1>1, <1>3, <1>10 DEF RemoveStash, place, Guards
  <2>2. HoldsAt(k, n, saw[c], instance[c], c \in Hooks)
    BY <1>1, <1>3, <2>1 DEF HoldsAt, Comes, n, PlanLength, Writers
  <2> QED BY <1>3, <1>15, <2>1, <2>2
<1>11. CASE WatchWeakens(c)
  <2>1. /\ Step(c) = "weaken" /\ at' = [at EXCEPT ![c] = n]
        /\ UNCHANGED <<kind, parent, saw, stash, project>>
    BY <1>1, <1>11 DEF WatchWeakens, place
  <2>2. CASE instance[c] # "none" /\ I!Weaken(c)
    <3>1. instance' = [instance EXCEPT ![c] = "Shared"] /\ instance[c] = "Exclusive" /\ "Shared" \in Guards
      BY <2>2 DEF I!Weaken, Guards
    <3>2. \A d \in Commands \ {c} : I!Compatible("Shared", instance[d])
      BY <1>3, <3>1, GuardsCompatible DEF LocksInv
    <3>3. HoldsAt(k, n, saw[c], "Shared", c \in Hooks)
      BY <1>1, <1>3, <2>1 DEF HoldsAt, Comes, n, PlanLength, Writers
    <3> QED BY <1>2, <1>3, <1>14, <2>1, <3>1, <3>2, <3>3
  <2>3. CASE UNCHANGED instance
    <3>1. HoldsAt(k, n, saw[c], instance[c], c \in Hooks)
      BY <1>1, <1>3, <2>1 DEF HoldsAt, Comes, n, PlanLength, Writers
    <3> QED BY <1>3, <1>15, <2>1, <2>3, <3>1
  <2> QED BY <1>11, <2>2, <2>3 DEF WatchWeakens
<1>12. CASE WatchFreesProject(c)
  <2>1. /\ Step(c) = "free" /\ at' = [at EXCEPT ![c] = n]
        /\ UNCHANGED <<kind, parent, saw, stash, instance>>
        /\ project' \in [Commands -> Guards]
        /\ \A d \in Commands \ {c} : project'[d] = project[d]
    BY <1>1, <1>3, <1>12 DEF WatchFreesProject, place, Guards
  <2>2. HoldsAt(k, n, saw[c], instance[c], c \in Hooks)
    BY <1>1, <1>3, <2>1 DEF HoldsAt, Comes, n, PlanLength, Writers
  <2> QED BY <1>3, <1>15, <2>1, <2>2
<1>13. CASE Finish(c)
  <2>1. Step(c) = "work" /\ UNCHANGED <<kind, parent, saw, stash, instance, project>>
        /\ (at' = [at EXCEPT ![c] = n] \/ at' = [at EXCEPT ![c] = 0])
        /\ \A h \in Hooks : parent[h] # c
    BY <1>1, <1>13 DEF Finish, Fail, Working, locks, place
  <2>2. HoldsAt(k, n, saw[c], instance[c], c \in Hooks)
    BY <1>1, <1>3, <2>1 DEF HoldsAt, Comes, n, PlanLength, Writers
  <2> QED BY <1>3, <1>15, <2>1, <2>2
<1> QED
  BY <1>5, <1>6, <1>7, <1>8, <1>9, <1>10, <1>11, <1>12, <1>13 DEF Moves, DropLocks

\* A command that begins or ends is the parent of nobody afterwards
LEMMA CommandBeginsOrEnds ==
    ASSUME LocksInv, NEW c \in Commands, UNCHANGED stash,
           NEW k \in Kinds \cup {"none"}, kind' = [kind EXCEPT ![c] = k],
           NEW n \in 0 .. 1, at' = [at EXCEPT ![c] = n], k = "none" <=> n = 0,
           saw' = [saw EXCEPT ![c] = TRUE],
           instance' = [instance EXCEPT ![c] = "none"], project' = [project EXCEPT ![c] = "none"],
           parent' \in [Commands -> Commands \cup {Nobody}],
           \A d \in Commands \ {c} : parent'[d] \in {parent[d], Nobody} /\ parent'[d] # c,
           \/ parent'[c] = Nobody
           \/ /\ k # "none" /\ c \in Hooks /\ parent'[c] \in (Commands \ Hooks) \ {c}
              /\ kind[parent'[c]] \in ProjectKinds /\ Working(parent'[c])
    PROVE  LocksInv'
<1>1. ASSUME NEW d \in Commands PROVE CommandOK(d)'
  <2>1. CASE d = c
    BY <2>1 DEF LocksInv, CommandOK, HoldsAt, PlanLength
  <2>2. CASE d # c
    BY <2>2 DEF LocksInv, CommandOK
  <2> QED BY <2>1, <2>2
<1>2. ASSUME NEW d \in Commands PROVE ParentOK(d)'
  <2> SUFFICES ASSUME NEW e \in Commands, e = parent'[d], e # Nobody
               PROVE  /\ d \in Hooks /\ kind'[d] # "none" /\ e \notin Hooks
                      /\ kind'[e] \in ProjectKinds /\ Working(e)'
    BY DEF ParentOK
  <2>1. e # c => (Working(e) => Working(e)') /\ kind'[e] = kind[e]
    BY DEF Working, Step, LocksInv
  <2>2. CASE d = c
    <3>1. kind'[c] = k
      BY DEF LocksInv
    <3> QED BY <2>1, <2>2, <3>1
  <2>3. CASE d # c
    <3>1. parent[d] = e /\ e # c /\ kind'[d] = kind[d]
      BY <2>3 DEF LocksInv
    <3>2. d \in Hooks /\ kind[d] # "none" /\ e \notin Hooks /\ kind[e] \in ProjectKinds /\ Working(e)
      BY <3>1 DEF LocksInv, ParentOK
    <3> QED BY <2>1, <3>1, <3>2
  <2> QED BY <2>2, <2>3
<1>3. ASSUME NEW d \in Commands, NEW e \in Commands, d # e
      PROVE  I!Compatible(instance'[d], instance'[e])
  BY <1>3, GuardsCompatible DEF LocksInv, Guards
<1>4. project' \in [Commands -> Guards] /\ instance' \in [Commands -> Guards]
  BY DEF LocksInv, Guards
<1>5. /\ kind' \in [Commands -> Kinds \cup {"none"}] /\ at' \in [Commands -> Nat]
      /\ saw' \in [Commands -> BOOLEAN] /\ stash' \in BOOLEAN
  BY DEF LocksInv
<1> QED BY <1>1, <1>2, <1>3, <1>4, <1>5 DEF LocksInv, I!Compatible

LEMMA LocksStep ==
    ASSUME LocksInv, [Next]_vars
    PROVE  LocksInv'
<1>1. ASSUME NEW c \in Commands, NEW k \in Kinds, Launch(c, k) PROVE LocksInv'
  <2>1. /\ kind[c] = "none" /\ at[c] = 0 /\ saw[c] /\ instance[c] = "none" /\ project[c] = "none"
    BY <1>1 DEF Launch, LocksInv, CommandOK
  <2>2. /\ saw' = [saw EXCEPT ![c] = TRUE] /\ instance' = [instance EXCEPT ![c] = "none"]
        /\ project' = [project EXCEPT ![c] = "none"]
    BY <1>1, <2>1 DEF Launch, locks, LocksInv
  <2>3. \A d \in Commands : parent[d] # c
    BY <2>1, HooksAssumption DEF LocksInv, ParentOK, ProjectKinds
  <2>6. /\ kind' = [kind EXCEPT ![c] = k] /\ at' = [at EXCEPT ![c] = 1] /\ UNCHANGED stash
        /\ k \in Kinds \cup {"none"} /\ (k = "none" <=> 1 = 0) /\ k # "none" /\ 1 \in 0 .. 1
    BY <1>1, PlanLengths DEF Launch
  <2>4. CASE UNCHANGED parent
    <3>1. parent'[c] = Nobody /\ parent' \in [Commands -> Commands \cup {Nobody}]
      BY <2>1, <2>4 DEF LocksInv, ParentOK
    <3>2. \A d \in Commands \ {c} : parent'[d] \in {parent[d], Nobody} /\ parent'[d] # c
      BY <2>3, <2>4
    <3> QED BY <2>2, <2>6, <3>1, <3>2, CommandBeginsOrEnds
  <2>5. ASSUME c \in Hooks, NEW b \in Commands \ Hooks, Working(b), kind[b] \in ProjectKinds,
               parent' = [parent EXCEPT ![c] = b]
        PROVE  LocksInv'
    <3>1. /\ parent' \in [Commands -> Commands \cup {Nobody}] /\ parent'[c] = b /\ b # c
          /\ \A d \in Commands \ {c} : parent'[d] = parent[d]
      BY <2>5 DEF LocksInv
    <3>2. \A d \in Commands \ {c} : parent'[d] \in {parent[d], Nobody} /\ parent'[d] # c
      BY <2>3, <3>1
    <3>3. /\ parent'[c] \in (Commands \ Hooks) \ {c} /\ kind[parent'[c]] \in ProjectKinds
          /\ Working(parent'[c])
      BY <2>5, <3>1
    <3> QED BY <2>2, <2>5, <2>6, <3>1, <3>2, <3>3, CommandBeginsOrEnds
  <2> QED BY <1>1, <2>4, <2>5 DEF Launch
<1>2. ASSUME NEW c \in Commands, Killed(c) PROVE LocksInv'
  <2>1. /\ parent' \in [Commands -> Commands \cup {Nobody}] /\ parent'[c] = Nobody
        /\ \A d \in Commands \ {c} : parent'[d] \in {parent[d], Nobody} /\ parent'[d] # c
    BY <1>2, HooksAssumption DEF Killed, LocksInv
  <2>2. /\ kind' = [kind EXCEPT ![c] = "none"] /\ at' = [at EXCEPT ![c] = 0] /\ UNCHANGED stash
        /\ saw' = [saw EXCEPT ![c] = TRUE] /\ instance' = [instance EXCEPT ![c] = "none"]
        /\ project' = [project EXCEPT ![c] = "none"] /\ 0 \in 0 .. 1
    BY <1>2 DEF Killed, Fail
  <2> QED BY <2>1, <2>2, CommandBeginsOrEnds
<1>3. ASSUME NEW c \in Commands, DropLocks(c) PROVE LocksInv'
  <2>1. at[c] = 0 /\ Step(c) = "drop" /\ at = [at EXCEPT ![c] = 0] /\ saw = [saw EXCEPT ![c] = saw[c]]
    <3>1. at[c] # 0 => Step(c) # "drop"
      <4> SUFFICES ASSUME at[c] # 0 PROVE Step(c) # "drop"
        OBVIOUS
      <4>1. kind[c] \in Kinds /\ at[c] \in 1 .. PlanLength(kind[c])
        BY <1>3 DEF DropLocks, LocksInv, CommandOK, PlanLength
      <4> QED BY <4>1, PlanSteps DEF Step, Comes
    <3> QED BY <1>3, <3>1 DEF DropLocks, LocksInv
  <2>2. ~Working(c) /\ \A d \in Commands : parent[d] # c
    BY <2>1, HooksAssumption DEF Working, LocksInv, ParentOK
  <2>6. ASSUME kind' = kind, parent' = parent, stash' \in BOOLEAN, kind[c] # "none", saw' = saw, at' = at,
               NEW g \in Guards, instance' = [instance EXCEPT ![c] = g],
               \A d \in Commands \ {c} : I!Compatible(g, instance[d]),
               project' \in [Commands -> Guards],
               \A d \in Commands \ {c} : project'[d] \in {project[d], "none"},
               HoldsAt(kind[c], 0, saw[c], g, c \in Hooks)
        PROVE  LocksInv'
    <3> DEFINE s == saw[c]
    <3>1. s \in BOOLEAN /\ saw' = [saw EXCEPT ![c] = s] /\ HoldsAt(kind[c], 0, s, g, c \in Hooks)
      BY <2>1, <2>6 DEF LocksInv
    <3>2. at' = [at EXCEPT ![c] = 0] /\ 0 \in 0 .. PlanLength(kind[c])
      BY <2>1, <2>6 DEF PlanLength
    <3> HIDE DEF s
    <3> QED BY <2>2, <2>6, <3>1, <3>2, CommandMoves, ZenonT(60)
  <2>3. CASE P!Release(c) /\ UNCHANGED <<place, instance, at, stash>>
    <3>1. /\ project' \in [Commands -> Guards]
          /\ \A d \in Commands \ {c} : project'[d] = project[d]
      BY <2>3 DEF P!Release, LocksInv, Guards
    <3>2. /\ instance[c] \in Guards /\ instance' = [instance EXCEPT ![c] = instance[c]]
          /\ \A d \in Commands \ {c} : I!Compatible(instance[c], instance[d])
          /\ HoldsAt(kind[c], 0, saw[c], instance[c], c \in Hooks) /\ saw[c] \in BOOLEAN /\ stash \in BOOLEAN
      BY <2>1, <2>3 DEF LocksInv, CommandOK
    <3>3. /\ kind' = kind /\ parent' = parent /\ stash' \in BOOLEAN /\ kind[c] # "none"
          /\ saw' = saw /\ at' = at
      BY <1>3, <2>3, <3>2 DEF place, DropLocks
    <3> QED BY <2>6, <3>1, <3>2, <3>3
  <2>4. CASE I!Release(c) /\ UNCHANGED <<place, project, at, stash>>
    <3>1. /\ instance' = [instance EXCEPT ![c] = "none"] /\ "none" \in Guards
          /\ \A d \in Commands \ {c} : I!Compatible("none", instance[d])
      BY <2>4, GuardsCompatible DEF I!Release, LocksInv, Guards
    <3>2. /\ HoldsAt(kind[c], 0, saw[c], "none", c \in Hooks) /\ saw[c] \in BOOLEAN /\ stash \in BOOLEAN
          /\ project \in [Commands -> Guards]
      BY DEF LocksInv, HoldsAt
    <3>3. /\ kind' = kind /\ parent' = parent /\ stash' \in BOOLEAN /\ kind[c] # "none"
          /\ saw' = saw /\ at' = at /\ project' = project
      BY <1>3, <2>4, <3>2 DEF place, DropLocks
    <3> QED BY <2>6, <3>1, <3>2, <3>3
  <2>5. CASE /\ project[c] = "none" /\ instance[c] = "none" /\ kind' = [kind EXCEPT ![c] = "none"]
             /\ saw' = [saw EXCEPT ![c] = TRUE] /\ parent' = [parent EXCEPT ![c] = Nobody]
             /\ UNCHANGED <<locks, at, stash>>
    <3>1. /\ parent' \in [Commands -> Commands \cup {Nobody}] /\ parent'[c] = Nobody
          /\ \A d \in Commands \ {c} : parent'[d] = parent[d]
          /\ instance' = [instance EXCEPT ![c] = "none"] /\ project' = [project EXCEPT ![c] = "none"]
      BY <2>5 DEF LocksInv, locks
    <3>2. /\ at' = [at EXCEPT ![c] = 0] /\ UNCHANGED stash /\ 0 \in 0 .. 1
          /\ instance' = [instance EXCEPT ![c] = "none"]
          /\ \A d \in Commands \ {c} : parent'[d] \in {parent[d], Nobody} /\ parent'[d] # c
      BY <2>1, <2>2, <2>5, <3>1
    <3> QED BY <2>5, <3>1, <3>2, CommandBeginsOrEnds
  <2> QED BY <1>3, <2>3, <2>4, <2>5 DEF DropLocks
<1>4. CASE UNCHANGED vars
  <2>1. UNCHANGED <<kind, at, saw, parent, stash, instance, project>>
    BY <1>4 DEF vars
  <2> QED BY <2>1 DEF LocksInv, CommandOK, ParentOK, Working, Step, I!Compatible
<1>5. ASSUME NEW c \in Commands, Moves(c) \/ Finish(c), ~DropLocks(c) PROVE LocksInv'
  <2>1. Step(c) # "drop"
    BY <1>5 DEF Moves, Finish, Working, Look, Refuse, Locked, TimedOut, WriteStash, RemoveStash,
       WatchWeakens, WatchFreesProject, LockSteps, InstanceSteps, ProjectSteps
  <2> QED BY <1>5, <2>1, StepMoves
<1> QED BY <1>1, <1>2, <1>3, <1>4, <1>5 DEF Next, Moves

----------------------------------------------------------------------------

(* A command that changes the instance works on it alone, but for its own   *)
(* reading hooks, or orphaned ones, for commands that found no stash when   *)
(* they looked, and for an unlink that destroys the instance, without any   *)
(* lock on it. *)
THEOREM WritersDoWorkAlone == Spec => []WritersWorkAlone
<1>1. LocksInv /\ [Next]_vars => LocksInv'
  BY LocksStep
<1>2. LocksInv => TypeOK
  <2> SUFFICES ASSUME LocksInv PROVE TypeOK
    OBVIOUS
  <2>1. ASSUME NEW c \in Commands, kind[c] # "none" PROVE at[c] <= Len(Plans[kind[c]])
    BY <2>1, PlanLengths DEF LocksInv, CommandOK
  <2> QED BY <2>1, GuardsCompatible DEF TypeOK, LocksInv, CommandOK, ParentOK
<1>3. LocksInv => WritersWorkAlone
  <2> SUFFICES ASSUME LocksInv, NEW c \in Commands, NEW d \in Commands, c # d, Working(c), Working(d),
                      kind[c] \in Writers, kind[d] # "purge", ~Blind(c), ~Blind(d)
               PROVE  d \in Hooks /\ kind[d] \in {"read", "backup"} /\ parent[d] \in {c, Nobody}
    BY <1>2 DEF WritersWorkAlone
  <2>1. ASSUME NEW e \in Commands, Working(e), ~FoundNoStash(e)
        PROVE  /\ kind[e] \in Kinds /\ (kind[e] \in Writers => instance[e] = "Exclusive")
               /\ \/ instance[e] # "none" \/ kind[e] = "purge"
                  \/ e \in Hooks /\ kind[e] \in {"read", "backup"}
    <3>1. kind[e] \in Kinds /\ Comes(kind[e], at[e], "work") /\ at[e] \in Nat
          /\ HoldsAt(kind[e], at[e], saw[e], instance[e], e \in Hooks)
      BY <2>1, CommandSteps DEF Working, LocksInv, CommandOK
    <3> QED BY <2>1, <3>1, PlanLengths DEF Comes, HoldsAt, FoundNoStash, ProjectKinds, Writers
  <2>2. instance[c] = "Exclusive"
    BY <2>1 DEF Blind
  <2>3. \A e \in Commands \ {c} : instance[e] = "none"
    BY <2>2, GuardsCompatible DEF LocksInv
  <2>4. d \in Hooks /\ kind[d] \in {"read", "backup"}
    BY <2>1, <2>3 DEF Blind
  <2>5. ASSUME parent[d] # Nobody PROVE parent[d] = c
    <3>1. /\ parent[d] \in Commands \ Hooks /\ Working(parent[d]) /\ ~FoundNoStash(parent[d])
          /\ kind[parent[d]] # "purge"
      BY <2>5 DEF LocksInv, ParentOK, Blind, ProjectKinds
    <3> QED BY <2>1, <2>3, <3>1
  <2> QED BY <2>4, <2>5
<1> QED BY LocksStart, <1>1, <1>3, PTL DEF Spec

-----------------------------------------------------------------------------
(* Edits *)

AskSteps ==
    {"old", "copy", "copying", "editor", "invalid", "fix", "fixing", "check", "refused", "commit",
     "restore", "restoring"}
BatchSteps == {"load", "direct", "check", "write", "writing", "rename"}
SessionRecord ==
    [pc : {"idle"} \cup AskSteps \cup BatchSteps, mode : {"none", "ask", "batch", "nocheck"},
     data : Contents \cup {Junk}, resumed : BOOLEAN]

\* What an edit r knows at each of its steps of the migration f, the copy c, the temporary
\* file s, and the file b that the copy was made of
EditKnows(r, f, c, s, b) ==
    /\ r.mode = "ask" => /\ r.pc \in AskSteps
                         /\ ~r.resumed /\ r.pc \notin {"old", "copy"} => b = f
                         /\ r.pc \in {"fix", "fixing", "check", "refused", "commit"} =>
                               r.data \in Contents /\ r.data.id = r.data.body
                         /\ r.pc \in {"check", "refused", "commit"} => c = r.data
                         /\ r.pc = "commit" => r.data.body \in Accepted
    /\ r.mode # "ask" => /\ r.pc \in BatchSteps /\ r.mode \in {"batch", "nocheck"}
                         /\ r.pc \in {"check", "write", "writing", "rename"} => r.data \in Contents
                         /\ r.mode = "batch" /\ r.pc \in {"write", "writing", "rename"} =>
                               r.data.body \in Accepted
                         /\ r.mode = "batch" => r.pc # "direct"
                         /\ r.pc = "rename" => s = Fixed(r.data)

EditsTyped ==
    /\ file \in Contents \cup {Junk} /\ copy \in Contents \cup {Junk, Absent}
    /\ scratch \in Contents \cup {Junk, Absent} /\ child \in Texts \cup {Absent}
    /\ session \in [Editors -> SessionRecord]

EditsInductive ==
    /\ EditsTyped /\ EditsInv
    /\ \A p, q \in Editors : p # q => session[p].pc = "idle" \/ session[q].pc = "idle"
    /\ \A p \in Editors : \/ session[p].pc = "idle"
                          \/ child = Absent /\ EditKnows(session[p], file, copy, scratch, base)

(* A text whose id is its hash is not the junk of a half-written file. *)
LEMMA SoundContents ==
    /\ \A c \in Contents : Sound(c) <=> c.id = c.body
    /\ \A c \in Contents : Fixed(c) \in Contents /\ Sound(Fixed(c)) /\ Fixed(c).body = c.body
    /\ \A c \in Contents : Sound(c) => Fixed(c) = c
<1>1. Absent \notin Texts /\ Junk \notin Contents
  BY AbsentAssumption DEF Contents, Junk
<1>2. ASSUME NEW c \in Contents
      PROVE  Fixed(c) \in Contents /\ Fixed(c).id = Fixed(c).body /\ Fixed(c).body = c.body
  BY DEF Contents, Fixed
<1>3. ASSUME NEW c \in Contents, c.id = c.body PROVE Fixed(c) = c
  BY <1>3 DEF Contents, Fixed
<1> QED BY <1>1, <1>2, <1>3 DEF Sound

(* The one edit that runs takes a step, and no migration was created later. *)
LEMMA EditMoves ==
    ASSUME EditsInductive, NEW p \in Editors, session[p].pc # "idle",
           NEW r \in SessionRecord, session' = [session EXCEPT ![p] = r], child' = child,
           file' \in Contents \cup {Junk}, copy' \in Contents \cup {Junk, Absent},
           scratch' \in Contents \cup {Junk, Absent},
           author' = "checked" => Sound(file') /\ file'.body \in Accepted,
           author' \in {"unchecked", "forced"} => Sound(file'),
           r.pc = "idle" \/ EditKnows(r, file', copy', scratch', base')
    PROVE  EditsInductive'
<1>1. child = Absent /\ \A q \in Editors \ {p} : session[q].pc = "idle"
  BY DEF EditsInductive
<1>2. session'[p] = r /\ \A q \in Editors \ {p} : session'[q] = session[q]
  BY DEF EditsInductive, EditsTyped
<1>3. EditsTyped'
  BY <1>1 DEF EditsInductive, EditsTyped
<1>4. EditsInv'
  BY <1>1 DEF EditsInv
<1>5. ASSUME NEW q \in Editors
      PROVE  \/ session'[q].pc = "idle"
             \/ child' = Absent /\ EditKnows(session'[q], file', copy', scratch', base')
  BY <1>1, <1>2
<1> QED BY <1>1, <1>2, <1>3, <1>4, <1>5 DEF EditsInductive

(* The initial states satisfy the invariant. *)
LEMMA EditsStart == EditsInit => EditsInductive
<1> SUFFICES ASSUME EditsInit PROVE EditsInductive
  OBVIOUS
<1>1. Gone \in SessionRecord /\ Gone.pc = "idle"
  BY DEF Gone, SessionRecord
<1>2. file \in Contents
  BY EditsAssumption DEF EditsInit, Contents
<1>3. author = "hand" /\ child = Absent
  BY DEF EditsInit
<1>4. EditsInv
  BY <1>3 DEF EditsInv
<1> QED BY <1>1, <1>2, <1>4 DEF EditsInit, EditsInductive, EditsTyped

(* Every step keeps the invariant: <1>1 and <1>2 are what an edit knows and *)
(* what the step of an edit has to show; then one step for each action. *)
LEMMA EditsStep ==
    ASSUME InProject, EditsInductive, [EditsNext]_edits
    PROVE  EditsInductive'
<1>1. ASSUME NEW p \in Editors, session[p].pc # "idle"
      PROVE  /\ session[p] \in SessionRecord /\ session \in [Editors -> SessionRecord]
             /\ EditKnows(session[p], file, copy, scratch, base)
             /\ file \in Contents \cup {Junk} /\ copy \in Contents \cup {Junk, Absent}
             /\ scratch \in Contents \cup {Junk, Absent}
             /\ author = "checked" => Sound(file) /\ file.body \in Accepted
             /\ author \in {"unchecked", "forced"} => Sound(file)
  BY <1>1 DEF EditsInductive, EditsTyped, EditsInv
\* The file stays
<1>2. ASSUME NEW p \in Editors, session[p].pc # "idle", UNCHANGED <<file, child, author>>,
             NEW r \in SessionRecord, session' = [session EXCEPT ![p] = r],
             copy' \in Contents \cup {Junk, Absent}, scratch' \in Contents \cup {Junk, Absent},
             r.pc = "idle" \/ EditKnows(r, file, copy', scratch', base')
      PROVE  EditsInductive'
  <2>1. /\ author' = "checked" => Sound(file') /\ file'.body \in Accepted
        /\ author' \in {"unchecked", "forced"} => Sound(file')
        /\ file' \in Contents \cup {Junk} /\ child' = child
        /\ r.pc = "idle" \/ EditKnows(r, file', copy', scratch', base')
    BY <1>1, <1>2
  <2> QED BY <1>2, <2>1, EditMoves
\* The edit ends, and nothing else changes
<1>3. Gone \in SessionRecord /\ Gone.pc = "idle"
  BY DEF Gone, SessionRecord
<1>4. ASSUME NEW p \in Editors, session[p].pc # "idle", End(p), UNCHANGED <<file, child, author>>,
             copy' \in Contents \cup {Junk, Absent}, scratch' \in Contents \cup {Junk, Absent}
      PROVE  EditsInductive'
  BY <1>2, <1>3, <1>4 DEF End
\* The edit goes on, to a step whose knowledge it has
<1>5. ASSUME NEW p \in Editors, session[p].pc # "idle", UNCHANGED <<file, child, author>>,
             copy' \in Contents \cup {Junk, Absent}, scratch' \in Contents \cup {Junk, Absent},
             NEW to \in AskSteps \cup BatchSteps, Move(p, to),
             EditKnows([session[p] EXCEPT !.pc = to], file, copy', scratch', base')
      PROVE  EditsInductive'
  <2> DEFINE r == [session[p] EXCEPT !.pc = to]
  <2>1. r \in SessionRecord /\ session' = [session EXCEPT ![p] = r]
    BY <1>1, <1>5 DEF SessionRecord, Move
  <2>2. EditKnows(r, file, copy', scratch', base')
    BY <1>5
  <2> HIDE DEF r
  <2> QED BY <1>2, <1>5, <2>1, <2>2
<1>6. ASSUME NEW p \in Editors, NEW mode \in {"ask", "batch", "nocheck"}, BeginEdit(p, mode)
      PROVE  EditsInductive'
  <2> DEFINE r == [Gone EXCEPT !.mode = mode,
                     !.pc = CASE mode = "ask" -> IF copy = Absent THEN "copy" ELSE "old"
                              [] mode = "batch" -> "load"
                              [] mode = "nocheck" -> "direct"]
  <2>1. session' = [session EXCEPT ![p] = r] /\ child = Absent
        /\ UNCHANGED <<file, copy, scratch, child, base, author>>
        /\ session[p].pc = "idle" /\ \A q \in Editors \ {p} : session[q].pc = "idle"
    BY <1>6 DEF BeginEdit, Opened, Unlocked, In
  <2>2. r \in SessionRecord /\ EditKnows(r, file, copy, scratch, base)
    <3>1. CASE mode = "ask"
      BY <3>1 DEF Gone, SessionRecord, EditKnows, AskSteps, BatchSteps
    <3>2. CASE mode = "batch"
      BY <3>2 DEF Gone, SessionRecord, EditKnows, AskSteps, BatchSteps
    <3>3. CASE mode = "nocheck"
      BY <3>3 DEF Gone, SessionRecord, EditKnows, AskSteps, BatchSteps
    <3> QED BY <3>1, <3>2, <3>3
  <2> HIDE DEF r
  <2>3. session'[p] = r /\ \A q \in Editors \ {p} : session'[q] = session[q]
    BY <2>1 DEF EditsInductive, EditsTyped
  <2>4. EditsTyped'
    BY <2>1, <2>2 DEF EditsInductive, EditsTyped
  <2>5. EditsInv'
    BY <2>1 DEF EditsInductive, EditsInv
  <2>6. ASSUME NEW q \in Editors
        PROVE  \/ session'[q].pc = "idle"
               \/ child' = Absent /\ EditKnows(session'[q], file', copy', scratch', base')
    BY <2>1, <2>2, <2>3
  <2> QED BY <2>1, <2>3, <2>4, <2>5, <2>6 DEF EditsInductive
<1>7. ASSUME NEW p \in Editors, AnswerOld(p) PROVE EditsInductive'
  <2>1. session[p].pc = "old" /\ UNCHANGED <<file, copy, scratch, child, base, author>>
    BY <1>7 DEF AnswerOld, In
  <2>2. session[p].mode = "ask"
    BY <1>1, <2>1 DEF EditKnows, BatchSteps
  <2>3. CASE Move(p, "copy")
    <3>1. EditKnows([session[p] EXCEPT !.pc = "copy"], file, copy, scratch, base)
      BY <1>1, <2>1, <2>2 DEF EditKnows, SessionRecord, AskSteps
    <3>2. "copy" \in AskSteps \cup BatchSteps
      BY DEF AskSteps
    <3> QED BY <1>1, <1>5, <2>1, <2>3, <3>1, <3>2
  <2>4. CASE session' = [session EXCEPT ![p].pc = "editor", ![p].resumed = TRUE]
    <3> DEFINE r == [session[p] EXCEPT !.pc = "editor", !.resumed = TRUE]
    <3>1. r \in SessionRecord /\ session' = [session EXCEPT ![p] = r]
      BY <1>1, <2>1, <2>4 DEF SessionRecord, AskSteps
    <3>2. EditKnows(r, file, copy, scratch, base)
      BY <1>1, <2>1, <2>2 DEF EditKnows, SessionRecord, AskSteps
    <3> HIDE DEF r
    <3> QED BY <1>1, <1>2, <2>1, <3>1, <3>2
  <2> QED BY <1>7, <2>3, <2>4 DEF AnswerOld
<1>8. ASSUME NEW p \in Editors, CopyBegins(p) PROVE EditsInductive'
  <2>1. /\ session[p].pc \in {"copy", "restore"} /\ copy' = Junk /\ base' = file
        /\ UNCHANGED <<file, scratch, child, author>>
    BY <1>8 DEF CopyBegins, In
  <2>2. session[p].mode = "ask" /\ session[p].pc # "idle"
    BY <1>1, <2>1 DEF EditKnows, BatchSteps
  <2>3. PICK to \in {"copying", "restoring"} : Move(p, to)
    BY <1>8 DEF CopyBegins
  <2>4. EditKnows([session[p] EXCEPT !.pc = to], file, copy', scratch', base')
    BY <1>1, <2>1, <2>2 DEF EditKnows, SessionRecord, AskSteps
  <2>5. to \in AskSteps \cup BatchSteps
    BY DEF AskSteps
  <2> QED BY <1>1, <1>5, <2>1, <2>2, <2>3, <2>4, <2>5
<1>9. ASSUME NEW p \in Editors, Copied(p) PROVE EditsInductive'
  <2>1. /\ session[p].pc \in {"copying", "restoring"} /\ copy' = file
        /\ UNCHANGED <<file, scratch, child, base, author>>
    BY <1>9 DEF Copied, In
  <2>2. session[p].mode = "ask" /\ session[p].pc # "idle"
    BY <1>1, <2>1 DEF EditKnows, BatchSteps
  <2>3. CASE End(p)
    BY <1>1, <1>4, <2>1, <2>2, <2>3
  <2>4. CASE Move(p, "editor")
    <3>1. EditKnows([session[p] EXCEPT !.pc = "editor"], file, copy', scratch', base')
      BY <1>1, <2>1, <2>2 DEF EditKnows, SessionRecord, AskSteps
    <3>2. "editor" \in AskSteps \cup BatchSteps
      BY DEF AskSteps
    <3> QED BY <1>1, <1>5, <2>1, <2>2, <2>4, <3>1, <3>2
  <2> QED BY <1>9, <2>3, <2>4 DEF Copied
<1>10. ASSUME NEW p \in Editors, Save(p) PROVE EditsInductive'
  <2>1. session[p].pc = "editor" /\ copy # Absent /\ UNCHANGED <<file, scratch, session, child, base, author>>
    BY <1>10 DEF Save, In
  <2>2. copy' \in Contents \cup {Junk}
    BY <1>1, <1>10, <2>1 DEF Save, Contents
  <2>3. session[p].mode = "ask"
    BY <1>1, <2>1 DEF EditKnows, BatchSteps
  <2>4. EditKnows(session[p], file, copy', scratch', base')
    BY <1>1, <2>1, <2>3 DEF EditKnows
  <2>5. session' = [session EXCEPT ![p] = session[p]]
    BY <1>1, <2>1
  <2> QED BY <1>1, <1>2, <2>1, <2>2, <2>4, <2>5
<1>11. ASSUME NEW p \in Editors, Close(p) PROVE EditsInductive'
  <2>1. session[p].pc = "editor" /\ UNCHANGED <<file, copy, scratch, child, base, author>>
    BY <1>11 DEF Close, In
  <2>2. session[p].mode = "ask"
    BY <1>1, <2>1 DEF EditKnows, BatchSteps
  <2>3. CASE End(p)
    BY <1>1, <1>4, <2>1, <2>3
  <2>4. CASE Move(p, "invalid")
    <3>1. EditKnows([session[p] EXCEPT !.pc = "invalid"], file, copy', scratch', base')
      BY <1>1, <2>1, <2>2 DEF EditKnows, SessionRecord, AskSteps
    <3>2. "invalid" \in AskSteps \cup BatchSteps
      BY DEF AskSteps
    <3> QED BY <1>1, <1>5, <2>1, <2>4, <3>1, <3>2
  <2>5. ASSUME copy \notin {Junk, Absent},
               session' = [session EXCEPT ![p].data = Fixed(copy),
                                          ![p].pc = IF Sound(copy) THEN "check" ELSE "fix"]
        PROVE  EditsInductive'
    <3> DEFINE to == IF Sound(copy) THEN "check" ELSE "fix"
               r == [session[p] EXCEPT !.data = Fixed(copy), !.pc = to]
    <3>1. copy \in Contents
      BY <1>1, <2>1, <2>5
    <3>2. /\ Fixed(copy) \in Contents /\ Fixed(copy).id = Fixed(copy).body
          /\ Sound(copy) => Fixed(copy) = copy
      BY <3>1, SoundContents
    <3>3. to \in {"check", "fix"} /\ (to = "check" => copy = Fixed(copy))
      BY <3>2
    <3> HIDE DEF to
    <3>4. r \in SessionRecord /\ session' = [session EXCEPT ![p] = r]
      BY <1>1, <2>1, <2>5, <3>2, <3>3 DEF SessionRecord, AskSteps, to
    <3>5. r.data = Fixed(copy) /\ r.pc = to /\ r.mode = "ask" /\ r.resumed = session[p].resumed
      BY <1>1, <2>1, <2>2 DEF SessionRecord
    <3> HIDE DEF r
    <3>6. EditKnows(r, file, copy, scratch, base)
      BY <1>1, <2>1, <2>2, <3>2, <3>3, <3>5 DEF EditKnows, AskSteps
    <3> QED BY <1>1, <1>2, <2>1, <3>4, <3>6
  <2> QED BY <1>11, <2>3, <2>4, <2>5 DEF Close
<1>12. ASSUME NEW p \in Editors, FixBegins(p) PROVE EditsInductive'
  <2>1. /\ session[p].pc = "fix" /\ copy' = Junk /\ Move(p, "fixing")
        /\ UNCHANGED <<file, scratch, child, base, author>>
    BY <1>12 DEF FixBegins, In
  <2>2. session[p].mode = "ask"
    BY <1>1, <2>1 DEF EditKnows, BatchSteps
  <2>3. EditKnows([session[p] EXCEPT !.pc = "fixing"], file, copy', scratch', base')
    BY <1>1, <2>1, <2>2 DEF EditKnows, SessionRecord, AskSteps
  <2>4. "fixing" \in AskSteps \cup BatchSteps
    BY DEF AskSteps
  <2> QED BY <1>1, <1>5, <2>1, <2>3, <2>4
<1>13. ASSUME NEW p \in Editors, FixEnds(p) PROVE EditsInductive'
  <2>1. /\ session[p].pc = "fixing" /\ copy' = session[p].data /\ Move(p, "check")
        /\ UNCHANGED <<file, scratch, child, base, author>>
    BY <1>13 DEF FixEnds, In
  <2>2. session[p].mode = "ask"
    BY <1>1, <2>1 DEF EditKnows, BatchSteps
  <2>3. EditKnows([session[p] EXCEPT !.pc = "check"], file, copy', scratch', base')
    BY <1>1, <2>1, <2>2 DEF EditKnows, SessionRecord, AskSteps
  <2>4. "check" \in AskSteps \cup BatchSteps /\ session[p].data \in Contents
    BY <1>1, <2>1, <2>2 DEF AskSteps, EditKnows
  <2> QED BY <1>1, <1>5, <2>1, <2>3, <2>4
<1>14. ASSUME NEW p \in Editors, Check(p) PROVE EditsInductive'
  <2>1. session[p].pc = "check" /\ UNCHANGED <<file, copy, scratch, child, base, author>>
    BY <1>14 DEF Check, In
  <2>2. CASE End(p)
    BY <1>1, <1>4, <2>1, <2>2
  <2>3. ASSUME session[p].mode = "ask", NEW to \in {"commit", "refused"}, Move(p, to),
               to = "commit" => session[p].data.body \in Accepted
        PROVE  EditsInductive'
    <3>1. EditKnows([session[p] EXCEPT !.pc = to], file, copy', scratch', base')
      BY <1>1, <2>1, <2>3 DEF EditKnows, SessionRecord, AskSteps
    <3>2. to \in AskSteps \cup BatchSteps
      BY DEF AskSteps
    <3> QED BY <1>1, <1>5, <2>1, <2>3, <3>1, <3>2
  <2>4. ASSUME session[p].mode # "ask", Move(p, "write"), session[p].data.body \in Accepted
        PROVE  EditsInductive'
    <3>1. EditKnows([session[p] EXCEPT !.pc = "write"], file, copy', scratch', base')
      BY <1>1, <2>1, <2>4 DEF EditKnows, SessionRecord, BatchSteps
    <3>2. "write" \in AskSteps \cup BatchSteps
      BY DEF BatchSteps
    <3> QED BY <1>1, <1>5, <2>1, <2>4, <3>1, <3>2
  <2> QED BY <1>14, <2>2, <2>3, <2>4 DEF Check
<1>15. ASSUME NEW p \in Editors, Answer(p) PROVE EditsInductive'
  <2>1. /\ session[p].pc \in {"invalid", "refused"}
        /\ UNCHANGED <<file, copy, scratch, child, base, author>>
    BY <1>15 DEF Answer, In
  <2>2. session[p].mode = "ask" /\ session[p].pc # "idle"
    BY <1>1, <2>1 DEF EditKnows, BatchSteps
  <2>3. ASSUME NEW to \in {"editor", "restore"}, Move(p, to) PROVE EditsInductive'
    <3>1. EditKnows([session[p] EXCEPT !.pc = to], file, copy', scratch', base')
      BY <1>1, <2>1, <2>2 DEF EditKnows, SessionRecord, AskSteps
    <3>2. to \in AskSteps \cup BatchSteps
      BY DEF AskSteps
    <3> QED BY <1>1, <1>5, <2>1, <2>2, <2>3, <3>1, <3>2
  <2>4. CASE End(p)
    BY <1>1, <1>4, <2>1, <2>2, <2>4
  <2> QED BY <1>15, <2>3, <2>4 DEF Answer
\* A file that is put in place, and the edit ends
<1>16. ASSUME NEW p \in Editors, session[p].pc # "idle", End(p), UNCHANGED child,
              file' \in Contents, Sound(file'), file'.body \in Accepted \/ author' # "checked",
              copy' \in Contents \cup {Junk, Absent}, scratch' \in Contents \cup {Junk, Absent}
       PROVE  EditsInductive'
  <2>1. session' = [session EXCEPT ![p] = Gone] /\ file' \in Contents \cup {Junk} /\ child' = child
    BY <1>16 DEF End
  <2>2. /\ author' = "checked" => Sound(file') /\ file'.body \in Accepted
        /\ author' \in {"unchecked", "forced"} => Sound(file')
    BY <1>16
  <2> HIDE DEF Gone
  <2> QED BY <1>3, <1>16, <2>1, <2>2, EditMoves
<1>17. ASSUME NEW p \in Editors, ForceInto(p) \/ Take(p) PROVE EditsInductive'
  <2>1. /\ session[p].pc \in {"refused", "commit"} /\ End(p) /\ file' = copy /\ copy' = Absent
        /\ UNCHANGED <<scratch, child>> /\ author' \in {"forced", "checked"}
        /\ author' = "checked" => session[p].pc = "commit"
    BY <1>17 DEF ForceInto, Take, Replace, In
  <2>2. session[p].mode = "ask" /\ session[p].pc # "idle"
    BY <1>1, <2>1 DEF EditKnows, BatchSteps
  <2>3. copy \in Contents /\ copy.id = copy.body /\ (session[p].pc = "commit" => copy.body \in Accepted)
    BY <1>1, <2>1, <2>2 DEF EditKnows
  <2>4. Sound(copy)
    BY <2>3, SoundContents
  <2> QED BY <1>1, <1>16, <2>1, <2>2, <2>3, <2>4
<1>18. ASSUME NEW p \in Editors, EditDirectly(p) PROVE EditsInductive'
  <2>1. session[p].pc = "direct" /\ UNCHANGED <<copy, scratch, session, child, base>> /\ author' = "hand"
    BY <1>18 DEF EditDirectly, In
  <2>2. file' \in Contents \cup {Junk}
    BY <1>1, <1>18, <2>1 DEF EditDirectly, Contents
  <2>3. session[p].mode # "ask"
    BY <1>1, <2>1 DEF EditKnows, AskSteps
  <2>4. EditKnows(session[p], file', copy', scratch', base')
    BY <1>1, <2>1, <2>3 DEF EditKnows
  <2>5. session' = [session EXCEPT ![p] = session[p]] /\ child' = child
        /\ copy' \in Contents \cup {Junk, Absent} /\ scratch' \in Contents \cup {Junk, Absent}
    BY <1>1, <2>1
  <2>6. author' # "checked" /\ author' \notin {"unchecked", "forced"} /\ session[p].pc # "idle"
    BY <2>1
  <2> QED BY <1>1, <2>2, <2>4, <2>5, <2>6, EditMoves
<1>19. ASSUME NEW p \in Editors, Load(p) PROVE EditsInductive'
  <2>1. session[p].pc \in {"direct", "load"} /\ UNCHANGED <<file, copy, scratch, child, base, author>>
    BY <1>19 DEF Load, In
  <2>2. session[p].mode # "ask" /\ session[p].pc # "idle"
    BY <1>1, <2>1 DEF EditKnows, AskSteps
  <2>3. CASE file = Junk
    <3>1. End(p)
      BY <1>19, <2>3 DEF Load
    <3> QED BY <1>1, <1>4, <2>1, <2>2, <3>1
  <2>4. CASE file # Junk
    <3> DEFINE to == IF session[p].pc = "load" THEN "check" ELSE "write"
               r == [session[p] EXCEPT !.data = file, !.pc = to]
    <3>1. file \in Contents /\ to \in {"check", "write"} /\ (to = "write" => session[p].mode # "batch")
      BY <1>1, <2>1, <2>2, <2>4 DEF EditKnows
    <3>2. session' = [session EXCEPT ![p] = r]
      BY <1>1, <1>19, <2>1, <2>4 DEF Load, In
    <3> HIDE DEF to
    <3>3. /\ r \in SessionRecord /\ r.data = file /\ r.pc = to /\ r.mode = session[p].mode
      BY <1>1, <2>1, <3>1 DEF SessionRecord, AskSteps, BatchSteps
    <3> HIDE DEF r
    <3>4. EditKnows(r, file, copy', scratch', base')
      BY <1>1, <2>1, <2>2, <3>1, <3>3 DEF EditKnows, BatchSteps
    <3> QED BY <1>1, <1>2, <2>1, <2>2, <3>2, <3>3, <3>4
  <2> QED BY <2>3, <2>4
<1>20. ASSUME NEW p \in Editors, WriteScratch(p) PROVE EditsInductive'
  <2>1. session[p].pc = "write" /\ UNCHANGED <<file, copy, child, base, author>>
    BY <1>20 DEF WriteScratch, In
  <2>2. session[p].mode # "ask"
    BY <1>1, <2>1 DEF EditKnows, AskSteps
  <2>3. CASE End(p) /\ UNCHANGED scratch
    BY <1>1, <1>4, <2>1, <2>3
  <2>4. CASE Move(p, "writing") /\ scratch' = Junk
    <3>1. EditKnows([session[p] EXCEPT !.pc = "writing"], file, copy', scratch', base')
      BY <1>1, <2>1, <2>2 DEF EditKnows, SessionRecord, BatchSteps
    <3>2. "writing" \in AskSteps \cup BatchSteps
      BY DEF BatchSteps
    <3> QED BY <1>1, <1>5, <2>1, <2>4, <3>1, <3>2
  <2> QED BY <1>20, <2>3, <2>4 DEF WriteScratch
<1>21. ASSUME NEW p \in Editors, ScratchWritten(p) PROVE EditsInductive'
  <2>1. /\ session[p].pc = "writing" /\ Move(p, "rename") /\ scratch' = Fixed(session[p].data)
        /\ UNCHANGED <<file, copy, child, base, author>>
    BY <1>21 DEF ScratchWritten, In
  <2>2. session[p].mode # "ask" /\ session[p].data \in Contents
    BY <1>1, <2>1 DEF EditKnows, AskSteps
  <2>3. scratch' \in Contents
    BY <2>1, <2>2, SoundContents
  <2>4. EditKnows([session[p] EXCEPT !.pc = "rename"], file, copy', scratch', base')
    BY <1>1, <2>1, <2>2 DEF EditKnows, SessionRecord, BatchSteps
  <2>5. "rename" \in AskSteps \cup BatchSteps
    BY DEF BatchSteps
  <2> QED BY <1>1, <1>5, <2>1, <2>3, <2>4, <2>5
<1>22. ASSUME NEW p \in Editors, RenameScratch(p) PROVE EditsInductive'
  <2>1. /\ session[p].pc = "rename" /\ End(p) /\ file' = scratch /\ scratch' = Absent
        /\ UNCHANGED <<copy, child>>
        /\ author' = IF session[p].mode = "batch" THEN "checked" ELSE "unchecked"
    BY <1>22 DEF RenameScratch, In
  <2>2. session[p].mode # "ask"
    BY <1>1, <2>1 DEF EditKnows, AskSteps
  <2>3. /\ session[p].data \in Contents /\ scratch = Fixed(session[p].data)
        /\ session[p].mode = "batch" => session[p].data.body \in Accepted
    BY <1>1, <2>1, <2>2 DEF EditKnows
  <2>4. scratch \in Contents /\ Sound(scratch) /\ scratch.body = session[p].data.body
    BY <2>3, SoundContents
  <2> QED BY <1>1, <1>16, <2>1, <2>3, <2>4
<1>23. ASSUME NEW p \in Editors, Kill(p) PROVE EditsInductive'
  BY <1>1, <1>4, <1>23 DEF Kill, In
<1>24. CASE ByHand
  <2>1. /\ \A p \in Editors : session[p].pc = "idle"
        /\ child = Absent /\ file' \in Contents \cup {Junk} /\ author' = "hand"
        /\ UNCHANGED <<copy, scratch, session, child, base>>
    BY <1>24 DEF ByHand, In
  <2> QED BY <2>1 DEF EditsInductive, EditsTyped, EditsInv
<1>25. CASE CreateNext
  <2>1. /\ \A p \in Editors : session[p].pc = "idle"
        /\ Sound(file) /\ child' = file.id /\ UNCHANGED <<file, copy, scratch, session, base, author>>
    BY <1>25 DEF CreateNext, In
  <2>2. file.id \in Texts
    BY <2>1 DEF EditsInductive, EditsTyped, Sound, Contents
  <2> QED BY <2>1, <2>2 DEF EditsInductive, EditsTyped, EditsInv
<1>26. CASE UNCHANGED edits
  BY <1>26 DEF edits, EditsInductive, EditsTyped, EditsInv
<1> QED
  BY <1>6, <1>7, <1>8, <1>9, <1>10, <1>11, <1>12, <1>13, <1>14, <1>15, <1>17, <1>18, <1>19, <1>20,
     <1>21, <1>22, <1>23, <1>24, <1>25, <1>26 DEF EditsNext

(* What edits of a migration leave in place has the id of its text and was  *)
(* accepted by the server unless the user forced it or asked for no check,  *)
(* whatever killed edits left behind; and no edit changes the id that a     *)
(* later migration names (edit, edit_no_check): in a project, any number of *)
(* edits, by any number of processes. *)
THEOREM EditsLeaveSoundFiles == ASSUME InProject PROVE EditsSpec => []EditsInv
<1>1. EditsInductive /\ [EditsNext]_edits => EditsInductive'
  BY EditsStep
<1>2. EditsInductive => EditsInv
  BY DEF EditsInductive
<1> QED BY EditsStart, <1>1, <1>2, PTL DEF EditsSpec

(* An edit begun afresh replaces the very file that it was copied from      *)
(* (edit): in a project, where the lock keeps other edits away. *)
THEOREM EditsReplaceWhatTheyRead == ASSUME InProject PROVE EditsSpec => ReplacesWhatWasRead
<1> DEFINE Right == copy # Absent /\ copy' = Absent =>
                       file = base \/ \E p \in Editors : session[p].resumed /\ session'[p] = Gone
<1>1. EditsInductive /\ [EditsNext]_edits => EditsInductive'
  BY EditsStep
<1>2. EditsInductive /\ [EditsNext]_edits => [Right]_edits
  <2> SUFFICES ASSUME EditsInductive, EditsNext, copy # Absent, copy' = Absent
               PROVE  file = base \/ \E p \in Editors : session[p].resumed /\ session'[p] = Gone
    BY DEF edits
  <2>1. Absent \notin Contents \cup {Junk} /\ file \in Contents \cup {Junk}
    BY AbsentAssumption DEF EditsInductive, EditsTyped
  <2>2. ASSUME NEW p \in Editors, ForceInto(p) \/ Take(p)
        PROVE  file = base \/ (session[p].resumed /\ session'[p] = Gone)
    <3>1. session[p].pc \in {"refused", "commit"} /\ End(p)
      BY <2>2 DEF ForceInto, Take, Replace, In
    <3>2. session[p] \in SessionRecord /\ EditKnows(session[p], file, copy, scratch, base)
          /\ session'[p] = Gone
      BY <3>1 DEF EditsInductive, EditsTyped, End
    <3> QED BY <3>1, <3>2 DEF EditKnows, BatchSteps, SessionRecord
  <2>3. ASSUME NEW p \in Editors, FixEnds(p) PROVE FALSE
    <3>1. session[p].pc = "fixing" /\ copy' = session[p].data
      BY <2>3 DEF FixEnds, In
    <3>2. session[p] \in SessionRecord
      BY DEF EditsInductive, EditsTyped
    <3> QED BY <2>1, <3>1, <3>2 DEF SessionRecord
  <2>4. ASSUME NEW p \in Editors, Save(p) PROVE FALSE
    <3>1. copy \in Contents \cup {Junk}
      BY DEF EditsInductive, EditsTyped
    <3>2. copy' \in Contents \cup {Junk}
      BY <2>4, <3>1 DEF Save, Contents
    <3> QED BY <2>1, <3>2
  <2>5. ASSUME NEW p \in Editors, CopyBegins(p) \/ Copied(p) \/ FixBegins(p) PROVE FALSE
    BY <2>1, <2>5 DEF CopyBegins, Copied, FixBegins
  <2>6. \E p \in Editors : \/ ForceInto(p) \/ Take(p) \/ FixEnds(p) \/ Save(p)
                           \/ CopyBegins(p) \/ Copied(p) \/ FixBegins(p)
    BY DEF EditsNext, BeginEdit, AnswerOld, Close, Check, Answer, EditDirectly, Load, WriteScratch,
           ScratchWritten, RenameScratch, Kill, ByHand, CreateNext
  <2> QED BY <2>2, <2>3, <2>4, <2>5, <2>6
<1> QED BY EditsStart, <1>1, <1>2, PTL DEF EditsSpec, ReplacesWhatWasRead

-----------------------------------------------------------------------------
(* Dumps and restores *)

Making == {"blocks", "commit", "renaming"}
Writes == Making \cup {"settle"}
DumpRecord ==
    [pc : {"idle", "next", "open"} \cup Writes, db : Databases \cup {None}, todo : SUBSET Databases,
     inode : Nat, over : BOOLEAN, all : BOOLEAN, busy : BOOLEAN]
FileRecord == [db : Databases, packets : 0 .. Blocks, cut : BOOLEAN]

\* A file after whose last packet a dump is committed
Ends(f, busy) == ~f.cut /\ f.packets + (IF busy THEN 1 ELSE 0) = Blocks

\* What a dump r knows at each of its steps of the file it writes, in the files fs, of which u
\* are damaged without anybody knowing
DumpKnows(r, fs, u) ==
    /\ r.pc \in Writes \cup {"open"} => r.db \in Databases
    /\ r.pc \notin Writes => r.inode = 0 /\ ~r.busy
    /\ r.pc \in Writes => r.inode \in DOMAIN fs /\ r.inode # 0 /\ fs[r.inode].db = r.db
    /\ r.busy => fs[r.inode].packets < Blocks
    /\ r.pc = "blocks" => ~fs[r.inode].cut
    /\ r.pc \in {"commit", "renaming", "settle"} => r.inode \in u \/ Ends(fs[r.inode], r.busy)

Files(fs, n) == fs \in [1 .. n -> FileRecord]

\* A database's files, where f is the one under its final name and t the temporary one
Named(d, f, t, fs) ==
    /\ f # 0 => f \in DOMAIN fs /\ fs[f].db = d
    /\ t # 0 => t \in DOMAIN fs /\ fs[t].db = d

\* The temporary file of a database that no two dumps met on is the one its dump writes, and
\* the dump that has looked for its file is not deceived
Owns(r, f, t) ==
    /\ r.pc \in Making => t = r.inode /\ f # r.inode
    /\ r.pc = "renaming" => f = 0

DumpsTyped ==
    /\ dump \in [Dumpers -> DumpRecord] /\ final \in [Databases -> Nat] /\ temp \in [Databases -> Nat]
    /\ \E n \in Nat : Files(inodes, n)

\* What DumpsAreWhole says of a database
FinalIsWhole(d) ==
    final[d] # 0 => \/ final[d] \in unseen \/ Whole(d, final[d])
                    \/ \E p \in Dumpers : At(p, "settle") /\ dump[p].inode = final[d]

FilesInductive ==
    /\ DumpsTyped /\ DumpsAreWhole
    /\ \A p \in Dumpers : DumpKnows(dump[p], inodes, unseen)
    /\ \A p, q \in Dumpers : p # q /\ dump[p].inode # 0 /\ dump[q].inode # 0 =>
          /\ dump[p].inode # dump[q].inode
          /\ dump[p].db # dump[q].db \/ dump[p].db \in crossed
    /\ \A d \in Databases : Named(d, final[d], temp[d], inodes)
    /\ \A p \in Dumpers : dump[p].inode # 0 /\ dump[p].db \notin crossed =>
          Owns(dump[p], final[dump[p].db], temp[dump[p].db])

(* A dump takes a step in which no file gets a name or loses one: it writes *)
(* at most in its own file, which it may leave; if that was to be finished  *)
(* after it got its final name, it is finished. *)
LEMMA DumpMoves ==
    ASSUME FilesInductive, NEW p \in Dumpers, NEW r \in DumpRecord, dump' = [dump EXCEPT ![p] = r],
           NEW f, \/ inodes' = inodes
                  \/ /\ inodes' = [inodes EXCEPT ![dump[p].inode] = f] /\ f \in FileRecord
                     /\ dump[p].inode \in DOMAIN inodes /\ f.db = dump[p].db,
           UNCHANGED <<final, temp, crossed>>, unseen \subseteq unseen',
           r.inode = 0 \/ (r.inode = dump[p].inode /\ r.db = dump[p].db),
           r.pc \in Making => dump[p].pc \in Making,
           r.pc = "renaming" => dump[p].pc = "renaming" \/ final[dump[p].db] = 0,
           DumpKnows(r, inodes', unseen'),
           dump[p].pc = "settle" => \/ r.pc = "settle" /\ r.inode = dump[p].inode
                                    \/ dump[p].inode \in unseen'
                                    \/ Ends(inodes'[dump[p].inode], FALSE)
    PROVE  FilesInductive'
<1>1. PICK n \in Nat : inodes \in [1 .. n -> FileRecord]
  BY DEF FilesInductive, DumpsTyped, Files
<1>2. /\ inodes' \in [1 .. n -> FileRecord] /\ DOMAIN inodes' = DOMAIN inodes
      /\ \A i \in DOMAIN inodes : /\ inodes'[i].db = inodes[i].db
                                  /\ i # dump[p].inode => inodes'[i] = inodes[i]
  <2>1. CASE inodes' = inodes
    BY <1>1, <2>1
  <2>2. CASE inodes' # inodes
    <3>1. /\ inodes' = [inodes EXCEPT ![dump[p].inode] = f] /\ f \in FileRecord /\ dump[p].inode \in 1 .. n
          /\ f.db = dump[p].db
      BY <1>1, <2>2
    <3>2. inodes[dump[p].inode].db = dump[p].db
      <4>1. dump[p].inode # 0 /\ DumpKnows(dump[p], inodes, unseen)
        BY <3>1 DEF FilesInductive
      <4> QED BY <4>1 DEF DumpKnows
    <3> QED BY <1>1, <3>1, <3>2
  <2> QED BY <2>1, <2>2
<1>3. /\ dump \in [Dumpers -> DumpRecord] /\ dump'[p] = r
      /\ \A q \in Dumpers \ {p} : dump'[q] = dump[q]
  BY DEF FilesInductive, DumpsTyped
<1>4. DumpsTyped'
  BY <1>2, <1>3 DEF FilesInductive, DumpsTyped, Files
<1>5. ASSUME NEW q \in Dumpers PROVE DumpKnows(dump'[q], inodes', unseen')
  <2>1. CASE q = p
    BY <1>3, <2>1
  <2>2. CASE q # p
    <3>1. DumpKnows(dump[q], inodes, unseen) /\ dump'[q] = dump[q]
      BY <1>3, <2>2 DEF FilesInductive
    <3>2. dump[q].inode # 0 /\ dump[q].inode \in DOMAIN inodes /\ inodes' # inodes =>
             dump[q].inode # dump[p].inode
      <4>1. inodes' # inodes => dump[p].inode # 0
        BY <1>1
      <4> QED BY <2>2, <4>1 DEF FilesInductive
    <3>3. dump[q].inode \in DOMAIN inodes /\ dump[q].inode # 0 =>
             inodes'[dump[q].inode] = inodes[dump[q].inode]
      BY <1>2, <3>2
    <3>4. dump[q].busy => dump[q].pc \in Writes
      BY <3>1 DEF DumpKnows
    <3> QED BY <1>2, <3>1, <3>3, <3>4 DEF DumpKnows, Writes, Making
  <2> QED BY <2>1, <2>2
<1>6. ASSUME NEW q \in Dumpers, NEW s \in Dumpers, q # s, dump'[q].inode # 0, dump'[s].inode # 0
      PROVE  /\ dump'[q].inode # dump'[s].inode
             /\ dump'[q].db # dump'[s].db \/ dump'[q].db \in crossed'
  <2>1. /\ dump'[q].inode = dump[q].inode /\ dump'[q].db = dump[q].db
        /\ dump'[s].inode = dump[s].inode /\ dump'[s].db = dump[s].db
    BY <1>3, <1>6
  <2> QED BY <1>6, <2>1 DEF FilesInductive
<1>7. \A d \in Databases : Named(d, final'[d], temp'[d], inodes')
  BY <1>2 DEF FilesInductive, Named
<1>8. ASSUME NEW q \in Dumpers, dump'[q].inode # 0, dump'[q].db \notin crossed'
      PROVE  Owns(dump'[q], final'[dump'[q].db], temp'[dump'[q].db])
  <2>1. /\ dump'[q].inode = dump[q].inode /\ dump'[q].db = dump[q].db
        /\ dump'[q].pc \in Making => dump[q].pc \in Making
        /\ dump'[q].pc = "renaming" => dump[q].pc = "renaming" \/ final[dump[q].db] = 0
    BY <1>3, <1>8
  <2>2. Owns(dump[q], final[dump[q].db], temp[dump[q].db])
    BY <1>8, <2>1 DEF FilesInductive
  <2> QED BY <2>1, <2>2 DEF Owns
<1>9. ASSUME NEW d \in Databases \ crossed', final'[d] # 0
      PROVE  FinalIsWhole(d)'
  <2> DEFINE i == final[d]
  <2>1. /\ i # 0 /\ i \in DOMAIN inodes /\ inodes[i].db = d /\ final'[d] = i
        /\ \/ i \in unseen \/ Whole(d, i)
           \/ \E q \in Dumpers : At(q, "settle") /\ dump[q].inode = i
    BY <1>9 DEF FilesInductive, Named, DumpsAreWhole
  <2> HIDE DEF i
  <2>2. CASE i = dump[p].inode
    <3>1. DumpKnows(dump[p], inodes, unseen) /\ dump[p].pc \in Writes
      BY <2>1, <2>2 DEF FilesInductive, DumpKnows
    <3>2. dump[p].db = d
      BY <2>1, <2>2, <3>1 DEF DumpKnows
    <3>3. dump[p].pc = "settle"
      <4>1. Owns(dump[p], final[dump[p].db], temp[dump[p].db])
        BY <1>9, <2>1, <2>2, <3>2 DEF FilesInductive
      <4> QED BY <2>2, <3>1, <3>2, <4>1 DEF Owns, Writes, Making, i
    <3>4. CASE r.pc = "settle" /\ r.inode = dump[p].inode
      BY <1>3, <2>1, <2>2, <3>4 DEF At, FinalIsWhole
    <3>5. CASE i \in unseen'
      BY <2>1, <3>5 DEF FinalIsWhole
    <3>6. CASE Ends(inodes'[i], FALSE)
      <4>1. inodes'[i].packets = Blocks /\ ~inodes'[i].cut /\ inodes'[i].db = d
        BY <1>2, <2>1, <3>6, DumpsAssumption DEF Ends, FileRecord
      <4> QED BY <2>1, <4>1 DEF Whole, FinalIsWhole
    <3> QED BY <2>2, <3>3, <3>4, <3>5, <3>6
  <2>3. CASE i # dump[p].inode
    <3>1. inodes'[i] = inodes[i]
      BY <1>2, <2>1, <2>3
    <3>2. CASE i \in unseen \/ Whole(d, i)
      BY <2>1, <3>1, <3>2 DEF Whole, FinalIsWhole
    <3>3. CASE \E q \in Dumpers : At(q, "settle") /\ dump[q].inode = i
      BY <1>3, <2>1, <2>3, <3>3 DEF At, FinalIsWhole
    <3> QED BY <2>1, <3>2, <3>3
  <2> QED BY <2>2, <2>3
<1>10. DumpsAreWhole'
  BY <1>9 DEF DumpsAreWhole, FinalIsWhole
<1> QED BY <1>4, <1>5, <1>6, <1>7, <1>8, <1>10 DEF FilesInductive

(* The initial states satisfy the invariant. *)
LEMMA FilesStart == DumpsInit => FilesInductive
<1> SUFFICES ASSUME DumpsInit PROVE FilesInductive
  OBVIOUS
<1>1. Resting \in DumpRecord /\ Resting.pc = "idle" /\ Resting.inode = 0 /\ ~Resting.busy
  BY DEF Resting, DumpRecord
<1>2. \A p \in Dumpers : dump[p] = Resting
  BY DEF DumpsInit
<1>3. Files(inodes, 0)
  BY DEF DumpsInit, Files
<1>4. DumpsTyped
  BY <1>1, <1>3 DEF DumpsInit, DumpsTyped
<1>5. \A d \in Databases : final[d] = 0 /\ temp[d] = 0
  BY DEF DumpsInit
<1> HIDE DEF Resting
<1>6. \A p \in Dumpers : DumpKnows(dump[p], inodes, unseen)
  BY <1>1, <1>2 DEF DumpKnows, Writes, Making
<1>7. DumpsAreWhole /\ \A d \in Databases : Named(d, final[d], temp[d], inodes)
  BY <1>5 DEF DumpsAreWhole, Named
<1> QED BY <1>1, <1>2, <1>4, <1>6, <1>7 DEF FilesInductive

(* A new file is the next one. *)
LEMMA NewFile ==
    ASSUME NEW n \in Nat, Files(inodes, n)
    PROVE  New = n + 1
<1>1. DOMAIN inodes = 1 .. n
  BY DEF Files
<1>2. Cardinality(1 .. n) = n
  BY FS_Interval
<1> QED BY <1>1, <1>2 DEF New

(* Guard::open makes a new file under the temporary name. *)
LEMMA DumpOpens ==
    ASSUME FilesInductive, NEW p \in Dumpers, Open(p), dump[p].db \in Databases
    PROVE  FilesInductive'
<1> DEFINE d == dump[p].db
           r == [dump[p] EXCEPT !.pc = "blocks", !.inode = New]
           f == [db |-> d, packets |-> 0, cut |-> FALSE]
<1>1. PICK n \in Nat : inodes \in [1 .. n -> FileRecord]
  BY DEF FilesInductive, DumpsTyped, Files
<1>2. New = n + 1
  BY <1>1, NewFile DEF Files
<1>3. /\ f \in FileRecord /\ f.db = d /\ f.packets = 0 /\ f.cut = FALSE
      /\ inodes' = [i \in 1 .. New |-> IF i < New THEN inodes[i] ELSE f]
  BY DumpsAssumption DEF Open, FileRecord
<1> HIDE DEF f
<1>4. /\ inodes' \in [1 .. n + 1 -> FileRecord] /\ DOMAIN inodes = 1 .. n
      /\ \A i \in 1 .. n : inodes'[i] = inodes[i]
      /\ inodes'[n + 1] = f /\ n + 1 \in DOMAIN inodes' /\ n + 1 # 0
      /\ \A i \in DOMAIN inodes : i \in DOMAIN inodes' /\ inodes'[i] = inodes[i]
  BY <1>1, <1>2, <1>3
<1>5. dump \in [Dumpers -> DumpRecord] /\ temp \in [Databases -> Nat] /\ final \in [Databases -> Nat]
  BY DEF FilesInductive, DumpsTyped
<1>6. /\ dump[p].pc = "open" /\ dump[p].inode = 0 /\ ~dump[p].busy
      /\ temp' = [temp EXCEPT ![d] = n + 1] /\ UNCHANGED <<final, unseen>>
      /\ dump' = [dump EXCEPT ![p] = r]
  <2>1. dump[p].pc = "open" /\ DumpKnows(dump[p], inodes, unseen)
    BY DEF FilesInductive, Open, At
  <2> QED BY <1>2, <1>5, <2>1 DEF Open, DumpKnows, Writes, Making
<1>7. r \in DumpRecord /\ r.pc = "blocks" /\ r.inode = n + 1 /\ r.db = d /\ ~r.busy
  <2>1. dump[p] \in DumpRecord /\ New \in Nat
    BY <1>2, <1>5
  <2>2. r \in DumpRecord
    BY <2>1 DEF DumpRecord, Writes, Making
  <2>3. r.pc = "blocks" /\ r.inode = n + 1 /\ r.db = d /\ r.busy = dump[p].busy
    BY <1>2, <2>1 DEF DumpRecord
  <2> QED BY <1>6, <2>2, <2>3
<1> HIDE DEF r
<1>8. dump'[p] = r /\ \A q \in Dumpers \ {p} : dump'[q] = dump[q]
  BY <1>5, <1>6
<1>9. \A q \in Dumpers : dump[q].inode # 0 => dump[q].inode \in 1 .. n
  BY <1>4 DEF FilesInductive, DumpKnows
<1>10. crossed \subseteq crossed' /\ (d \notin crossed' =>
         \A q \in Dumpers \ {p} : dump[q].inode # 0 => dump[q].db # d)
  BY DEF Open
<1>11. d \in crossed' \/ \A q \in Dumpers \ {p} : dump[q].inode # 0 => dump[q].db # d
  BY <1>10
<1>12. DumpsTyped'
  <2>1. temp' \in [Databases -> Nat] /\ final' \in [Databases -> Nat] /\ dump' \in [Dumpers -> DumpRecord]
    BY <1>5, <1>6, <1>7
  <2> QED BY <1>4, <2>1 DEF DumpsTyped, Files
<1>13. ASSUME NEW q \in Dumpers PROVE DumpKnows(dump'[q], inodes', unseen')
  <2>1. CASE q = p
    <3>1. inodes'[r.inode].db = r.db /\ ~inodes'[r.inode].cut /\ r.inode \in DOMAIN inodes' /\ r.inode # 0
      BY <1>3, <1>4, <1>7
    <3>2. DumpKnows(r, inodes', unseen')
      BY <1>7, <3>1 DEF DumpKnows, Writes, Making
    <3> QED BY <1>8, <2>1, <3>2
  <2>2. CASE q # p
    <3>1. DumpKnows(dump[q], inodes, unseen) /\ dump'[q] = dump[q]
      BY <1>8, <2>2 DEF FilesInductive
    <3>2. dump[q].pc \in Writes => inodes'[dump[q].inode] = inodes[dump[q].inode]
                                   /\ dump[q].inode \in DOMAIN inodes'
      BY <1>4, <3>1 DEF DumpKnows
    <3>3. dump[q].busy => dump[q].pc \in Writes
      BY <3>1 DEF DumpKnows
    <3> QED BY <1>6, <3>1, <3>2, <3>3 DEF DumpKnows, Writes, Making
  <2> QED BY <2>1, <2>2
<1>14. ASSUME NEW q \in Dumpers, NEW s \in Dumpers, q # s, dump'[q].inode # 0, dump'[s].inode # 0
      PROVE  /\ dump'[q].inode # dump'[s].inode
             /\ dump'[q].db # dump'[s].db \/ dump'[q].db \in crossed'
  <2>1. CASE q = p
    BY <1>7, <1>8, <1>9, <1>11, <1>14, <2>1
  <2>2. CASE s = p
    BY <1>7, <1>8, <1>9, <1>11, <1>14, <2>2
  <2>3. CASE q # p /\ s # p
    BY <1>8, <1>10, <1>14, <2>3 DEF FilesInductive
  <2> QED BY <2>1, <2>2, <2>3
<1>15. ASSUME NEW b \in Databases PROVE Named(b, final'[b], temp'[b], inodes')
  <2>1. Named(b, final[b], temp[b], inodes) /\ final'[b] = final[b]
    BY <1>6 DEF FilesInductive
  <2>2. temp'[b] = IF b = d THEN n + 1 ELSE temp[b]
    BY <1>5, <1>6
  <2>3. final[b] # 0 => final[b] \in DOMAIN inodes' /\ inodes'[final[b]].db = b
    BY <1>4, <2>1 DEF Named
  <2>4. temp'[b] # 0 => temp'[b] \in DOMAIN inodes' /\ inodes'[temp'[b]].db = b
    <3>1. CASE b = d
      BY <1>3, <1>4, <2>2, <3>1
    <3>2. CASE b # d
      BY <1>4, <2>1, <2>2, <3>2 DEF Named
    <3> QED BY <3>1, <3>2
  <2> QED BY <2>1, <2>3, <2>4 DEF Named
<1>16. ASSUME NEW q \in Dumpers, dump'[q].inode # 0, dump'[q].db \notin crossed'
      PROVE  Owns(dump'[q], final'[dump'[q].db], temp'[dump'[q].db])
  <2>1. CASE q = p
    <3>1. Named(d, final[d], temp[d], inodes)
      BY DEF FilesInductive
    <3> QED BY <1>4, <1>5, <1>6, <1>7, <1>8, <2>1, <3>1 DEF Owns, Named
  <2>2. CASE q # p
    <3>1. dump'[q] = dump[q] /\ dump[q].db # d /\ Owns(dump[q], final[dump[q].db], temp[dump[q].db])
      BY <1>8, <1>10, <1>16, <2>2 DEF FilesInductive
    <3> QED BY <1>5, <1>6, <3>1 DEF Owns
  <2> QED BY <2>1, <2>2
<1>17. ASSUME NEW b \in Databases \ crossed' PROVE FinalIsWhole(b)'
  <2>1. FinalIsWhole(b) /\ final'[b] = final[b] /\ Named(b, final[b], temp[b], inodes)
    BY <1>6, <1>10 DEF FilesInductive, DumpsAreWhole, FinalIsWhole
  <2>2. final[b] # 0 => inodes'[final[b]] = inodes[final[b]]
    BY <1>4, <2>1 DEF Named
  <2>3. \A q \in Dumpers : At(q, "settle") => dump'[q] = dump[q]
    BY <1>6, <1>8 DEF At
  <2> QED BY <1>6, <2>1, <2>2, <2>3 DEF FinalIsWhole, Whole, At
<1>18. DumpsAreWhole'
  BY <1>17 DEF DumpsAreWhole, FinalIsWhole
<1> QED BY <1>12, <1>13, <1>14, <1>15, <1>16, <1>18 DEF FilesInductive

(* Guard::commit gives the temporary file the final name. *)
LEMMA DumpCommits ==
    ASSUME FilesInductive, NEW p \in Dumpers, Commit(p) \/ RenameAfterLook(p), dump[p].db \in Databases, temp[dump[p].db] # 0,
           dump' = [dump EXCEPT ![p].pc = "settle"],
           final' = [final EXCEPT ![dump[p].db] = temp[dump[p].db]],
           temp' = [temp EXCEPT ![dump[p].db] = 0]
    PROVE  FilesInductive'
<1> DEFINE d == dump[p].db
           r == [dump[p] EXCEPT !.pc = "settle"]
<1>1. dump \in [Dumpers -> DumpRecord] /\ temp \in [Databases -> Nat] /\ final \in [Databases -> Nat]
  BY DEF FilesInductive, DumpsTyped
<1>2. /\ dump[p].pc \in {"commit", "renaming"} /\ UNCHANGED <<inodes, crossed, unseen>>
      /\ DumpKnows(dump[p], inodes, unseen)
  BY DEF Commit, RenameAfterLook, At, FilesInductive
<1>3. /\ r \in DumpRecord /\ r.pc = "settle" /\ r.inode = dump[p].inode /\ r.db = d
      /\ r.busy = dump[p].busy /\ dump' = [dump EXCEPT ![p] = r]
  BY <1>1 DEF DumpRecord, Writes, Making
<1> HIDE DEF r
<1>4. dump'[p] = r /\ \A q \in Dumpers \ {p} : dump'[q] = dump[q]
  BY <1>1, <1>3
<1>5. r.inode # 0 /\ DumpKnows(r, inodes, unseen)
  BY <1>2, <1>3 DEF DumpKnows, Writes, Making
<1>6. \A q \in Dumpers : dump'[q].inode = dump[q].inode /\ dump'[q].db = dump[q].db
  BY <1>3, <1>4
<1>7. ASSUME NEW b \in Databases
      PROVE  /\ final'[b] = IF b = d THEN temp[d] ELSE final[b]
             /\ temp'[b] = IF b = d THEN 0 ELSE temp[b]
  <2>1. CASE b = d
    BY <1>1, <2>1
  <2>2. CASE b # d
    BY <1>1, <2>2
  <2> QED BY <2>1, <2>2
<1>8. DumpsTyped'
  <2>1. temp' \in [Databases -> Nat] /\ final' \in [Databases -> Nat] /\ dump' \in [Dumpers -> DumpRecord]
    BY <1>1, <1>3
  <2> QED BY <1>2, <2>1 DEF FilesInductive, DumpsTyped
<1>9. ASSUME NEW q \in Dumpers PROVE DumpKnows(dump'[q], inodes', unseen')
  BY <1>2, <1>4, <1>5 DEF FilesInductive
<1>10. ASSUME NEW q \in Dumpers, NEW s \in Dumpers, q # s, dump'[q].inode # 0, dump'[s].inode # 0
       PROVE  /\ dump'[q].inode # dump'[s].inode
              /\ dump'[q].db # dump'[s].db \/ dump'[q].db \in crossed'
  BY <1>2, <1>6, <1>10 DEF FilesInductive
<1>11. ASSUME NEW b \in Databases PROVE Named(b, final'[b], temp'[b], inodes')
  BY <1>2, <1>7 DEF FilesInductive, Named
<1>12. ASSUME NEW q \in Dumpers, dump'[q].inode # 0, dump'[q].db \notin crossed'
       PROVE  Owns(dump'[q], final'[dump'[q].db], temp'[dump'[q].db])
  <2>1. CASE q = p
    BY <1>3, <1>4, <2>1 DEF Owns, Making
  <2>2. CASE q # p
    <3>1. /\ dump'[q] = dump[q] /\ dump[q].db # d /\ Owns(dump[q], final[dump[q].db], temp[dump[q].db])
      BY <1>2, <1>3, <1>4, <1>5, <1>12, <2>2 DEF FilesInductive
    <3>2. final'[dump[q].db] = final[dump[q].db] /\ temp'[dump[q].db] = temp[dump[q].db]
      BY <1>1, <3>1
    <3> QED BY <3>1, <3>2
  <2> QED BY <2>1, <2>2
<1>13. ASSUME NEW b \in Databases \ crossed' PROVE FinalIsWhole(b)'
  <2>1. CASE b = d
    <3>1. temp[d] = r.inode
      <4>1. Owns(dump[p], final[d], temp[d])
        BY <1>2, <1>3, <1>5, <1>13, <2>1 DEF FilesInductive
      <4> QED BY <1>2, <1>3, <4>1 DEF Owns, Making
    <3>2. At(p, "settle")' /\ dump'[p].inode = final'[b]
      BY <1>3, <1>4, <1>7, <2>1, <3>1 DEF At
    <3> QED BY <3>2 DEF FinalIsWhole
  <2>2. CASE b # d
    <3>1. FinalIsWhole(b) /\ final'[b] = final[b]
      BY <1>2, <1>7, <1>13, <2>2 DEF FilesInductive, DumpsAreWhole, FinalIsWhole
    <3>2. \A q \in Dumpers : At(q, "settle") => dump'[q] = dump[q]
      BY <1>2, <1>4 DEF At
    <3> QED BY <1>2, <3>1, <3>2 DEF FinalIsWhole, Whole, At
  <2> QED BY <2>1, <2>2
<1>14. DumpsAreWhole'
  BY <1>13 DEF DumpsAreWhole, FinalIsWhole
<1> QED BY <1>8, <1>9, <1>10, <1>11, <1>12, <1>14 DEF FilesInductive

(* Every step of a dump keeps the invariant. *)
LEMMA FilesStep ==
    ASSUME FilesInductive, [DumpsNext]_dumping
    PROVE  FilesInductive'
<1>1. /\ dump \in [Dumpers -> DumpRecord] /\ \A p \in Dumpers : DumpKnows(dump[p], inodes, unseen)
      /\ \A i \in DOMAIN inodes : inodes[i] \in FileRecord
  BY DEF FilesInductive, DumpsTyped, Files
<1>2. /\ Resting \in DumpRecord /\ Resting.pc = "idle" /\ Resting.inode = 0 /\ ~Resting.busy
      /\ \A fs, u : DumpKnows(Resting, fs, u)
  BY DEF Resting, DumpRecord, DumpKnows, Writes, Making
\* Only the dump moves
<1>3. ASSUME NEW p \in Dumpers, NEW r \in DumpRecord, dump' = [dump EXCEPT ![p] = r],
             UNCHANGED <<inodes, final, temp, crossed, unseen>>,
             r.inode = 0 \/ (r.inode = dump[p].inode /\ r.db = dump[p].db),
             r.pc \in Making => dump[p].pc \in Making,
             r.pc = "renaming" => dump[p].pc = "renaming" \/ final[dump[p].db] = 0,
             DumpKnows(r, inodes, unseen),
             dump[p].pc = "settle" => ~dump[p].busy
      PROVE  FilesInductive'
  <2>1. dump[p].pc = "settle" => dump[p].inode \in unseen \/ Ends(inodes[dump[p].inode], FALSE)
    BY <1>1, <1>3 DEF DumpKnows, Ends
  <2>2. /\ DumpKnows(r, inodes', unseen') /\ unseen \subseteq unseen'
        /\ dump[p].pc = "settle" => dump[p].inode \in unseen' \/ Ends(inodes'[dump[p].inode], FALSE)
    BY <1>3, <2>1
  <2> QED BY <1>3, <2>2, DumpMoves
\* A packet is written, or a part of one
<1>4. ASSUME NEW p \in Dumpers, dump[p].busy
      PROVE  /\ dump[p].pc \in Writes /\ dump[p].inode \in DOMAIN inodes /\ dump[p].inode # 0
             /\ inodes[dump[p].inode] \in FileRecord /\ inodes[dump[p].inode].db = dump[p].db
             /\ inodes[dump[p].inode].packets < Blocks
  BY <1>1, <1>4 DEF DumpKnows
<1>5. ASSUME NEW p \in Dumpers, NEW dbs \in SUBSET Databases, NEW all \in BOOLEAN, NEW overwrite \in BOOLEAN,
             Dump(p, dbs, all, overwrite)
      PROVE  FilesInductive'
  <2> DEFINE r == [Resting EXCEPT !.pc = "next", !.todo = dbs, !.all = all, !.over = overwrite]
  <2>1. dump' = [dump EXCEPT ![p] = r] /\ UNCHANGED <<inodes, final, temp, crossed, unseen>>
        /\ dump[p].pc = "idle"
    BY <1>5 DEF Dump, At
  <2>2. r \in DumpRecord /\ r.inode = 0 /\ r.pc = "next" /\ ~r.busy
    BY DEF Resting, DumpRecord
  <2> HIDE DEF r
  <2>3. DumpKnows(r, inodes, unseen)
    BY <2>2 DEF DumpKnows, Writes, Making
  <2> QED BY <1>3, <2>1, <2>2, <2>3 DEF Making
<1>6. ASSUME NEW p \in Dumpers, NextDatabase(p) PROVE FilesInductive'
  <2>1. dump[p].pc = "next" /\ UNCHANGED <<inodes, final, temp, crossed, unseen>>
    BY <1>6 DEF NextDatabase, At
  <2>2. dump[p].inode = 0 /\ ~dump[p].busy
    BY <1>1, <2>1 DEF DumpKnows, Writes, Making
  <2>3. CASE dump' = [dump EXCEPT ![p] = Resting]
    <3> HIDE DEF Resting
    <3> QED BY <1>2, <1>3, <2>1, <2>3 DEF Making
  <2>4. ASSUME NEW d \in dump[p].todo,
               dump' = [dump EXCEPT ![p].todo = @ \ {d}, ![p].db = d,
                                    ![p].pc = IF content[d] = None THEN "next" ELSE "open"]
        PROVE  FilesInductive'
    <3> DEFINE to == IF content[d] = None THEN "next" ELSE "open"
               r == [dump[p] EXCEPT !.todo = @ \ {d}, !.db = d, !.pc = to]
    <3>1. to \in {"next", "open"}
      OBVIOUS
    <3>2. dump' = [dump EXCEPT ![p] = r]
      BY <1>1, <2>4
    <3> HIDE DEF to
    <3>3. d \in Databases
      BY <1>1, <2>4 DEF DumpRecord
    <3>4. r \in DumpRecord /\ r.pc = to /\ r.db = d /\ r.inode = 0 /\ r.busy = dump[p].busy
      BY <1>1, <2>2, <3>1, <3>3 DEF DumpRecord, Writes, Making
    <3> HIDE DEF r
    <3>5. DumpKnows(r, inodes, unseen)
      BY <2>2, <3>1, <3>3, <3>4 DEF DumpKnows, Writes, Making
    <3> QED BY <1>3, <2>1, <3>1, <3>2, <3>4, <3>5 DEF Making
  <2> QED BY <1>6, <2>3, <2>4 DEF NextDatabase
<1>7. ASSUME NEW p \in Dumpers, Open(p) PROVE FilesInductive'
  <2>1. dump[p].db \in Databases
    BY <1>1, <1>7 DEF Open, At, DumpKnows
  <2> QED BY <1>7, <2>1, DumpOpens
<1>8. ASSUME NEW p \in Dumpers, FileExists(p) PROVE FilesInductive'
  <2>1. /\ dump[p].pc = "open" /\ UNCHANGED <<inodes, final, temp, crossed, unseen>>
        /\ dump' = [dump EXCEPT ![p] = Resting]
    BY <1>8 DEF FileExists, At
  <2> HIDE DEF Resting
  <2> QED BY <1>2, <1>3, <2>1 DEF Making
<1>9. ASSUME NEW p \in Dumpers, WritePacket(p) PROVE FilesInductive'
  <2> DEFINE r == [dump[p] EXCEPT !.busy = TRUE]
  <2>1. /\ dump[p].pc = "blocks" /\ UNCHANGED <<inodes, final, temp, crossed, unseen>>
        /\ dump' = [dump EXCEPT ![p] = r] /\ inodes[dump[p].inode].packets < Blocks
    BY <1>1, <1>9 DEF WritePacket, At, Inode
  <2>2. /\ r \in DumpRecord /\ r.inode = dump[p].inode /\ r.db = dump[p].db /\ r.pc = "blocks"
    BY <1>1, <2>1 DEF DumpRecord
  <2> HIDE DEF r
  <2>3. DumpKnows(r, inodes, unseen)
    BY <1>1, <2>1, <2>2 DEF DumpKnows, Writes, Making
  <2> QED BY <1>3, <2>1, <2>2, <2>3
<1>10. ASSUME NEW p \in Dumpers, Written(p) PROVE FilesInductive'
  <2> DEFINE i == dump[p].inode
             r == [dump[p] EXCEPT !.busy = FALSE]
             f == [inodes[i] EXCEPT !.packets = @ + 1]
  <2>1. /\ dump[p].busy /\ dump' = [dump EXCEPT ![p] = r]
        /\ UNCHANGED <<final, temp, crossed, unseen>>
    BY <1>1, <1>10 DEF Written
  <2>2. inodes' = [inodes EXCEPT ![i] = f]
    BY <1>4, <1>10, <2>1 DEF Written
  <2>3. f \in FileRecord /\ f.db = dump[p].db /\ f.cut = inodes[i].cut /\ f.packets = inodes[i].packets + 1
    BY <1>4, <2>1, DumpsAssumption DEF FileRecord
  <2> HIDE DEF f
  <2>4. DOMAIN inodes' = DOMAIN inodes /\ inodes'[i] = f /\ i \in DOMAIN inodes
    BY <1>4, <2>1, <2>2
  <2>5. /\ r \in DumpRecord /\ r.inode = i /\ r.db = dump[p].db /\ r.pc = dump[p].pc /\ r.busy = FALSE
    BY <1>1 DEF DumpRecord
  <2> HIDE DEF r
  <2>6. DumpKnows(dump[p], inodes, unseen) /\ dump[p].pc \in Writes
    BY <1>1, <1>4, <2>1
  <2>7. dump[p].pc \in {"commit", "renaming", "settle"} => i \in unseen \/ Ends(f, FALSE)
    <3>1. dump[p].pc \in {"commit", "renaming", "settle"} => i \in unseen \/ Ends(inodes[i], dump[p].busy)
      BY <2>6 DEF DumpKnows
    <3>2. f.packets \in Nat
      BY <2>3, DumpsAssumption DEF FileRecord
    <3>3. Ends(inodes[i], dump[p].busy) => ~inodes[i].cut /\ inodes[i].packets + 1 = Blocks
      BY <2>1 DEF Ends
    <3>4. Ends(inodes[i], dump[p].busy) => Ends(f, FALSE)
      BY <2>3, <3>2, <3>3 DEF Ends
    <3> QED BY <3>1, <3>4
  <2>8. DumpKnows(r, inodes', unseen')
    BY <2>1, <2>3, <2>4, <2>5, <2>6, <2>7 DEF DumpKnows
  <2>9. unseen \subseteq unseen'
    BY <2>1
  <2> QED BY <2>1, <2>2, <2>3, <2>4, <2>5, <2>8, <2>9, DumpMoves
<1>11. ASSUME NEW p \in Dumpers, WriteFails(p) PROVE FilesInductive'
  <2> DEFINE i == dump[p].inode
             f == [inodes[i] EXCEPT !.cut = TRUE]
             to == IF dump[p].pc = "blocks" THEN "commit" ELSE dump[p].pc
             last == [dump[p] EXCEPT !.busy = FALSE, !.pc = to]
  <2>1. /\ dump[p].busy /\ dump[p].pc \in Writes /\ UNCHANGED <<final, temp, crossed>>
        /\ \/ unseen' = unseen \cup {i} /\ dump' = [dump EXCEPT ![p] = last]
           \/ /\ unseen' = unseen /\ dump' = [dump EXCEPT ![p] = Resting]
              /\ inodes[i].packets + 1 # Blocks
    <3>1. [dump EXCEPT ![p].busy = FALSE, ![p].pc = IF @ = "blocks" THEN "commit" ELSE @]
              = [dump EXCEPT ![p] = last]
      BY <1>1
    <3> HIDE DEF last
    <3> QED BY <1>4, <1>11, <3>1 DEF WriteFails, Inode
  <2>2. /\ inodes' = [inodes EXCEPT ![i] = f] /\ i \in DOMAIN inodes /\ i # 0 /\ i \in Nat
    BY <1>1, <1>4, <1>11, <2>1 DEF WriteFails, DumpRecord
  <2>3. f \in FileRecord /\ f.db = dump[p].db
    BY <1>4, <2>1 DEF FileRecord
  <2> HIDE DEF f
  <2>4. DOMAIN inodes' = DOMAIN inodes /\ inodes'[i] = f /\ unseen \subseteq unseen'
    BY <2>1, <2>2
  <2>5. CASE unseen' = unseen \cup {i} /\ dump' = [dump EXCEPT ![p] = last]
    <3>1. /\ last \in DumpRecord /\ last.inode = i /\ last.db = dump[p].db /\ last.pc = to
          /\ last.busy = FALSE /\ to \in {"commit", "renaming", "settle"}
          /\ to \in Making => dump[p].pc \in Making
          /\ to = "renaming" => dump[p].pc = "renaming"
      BY <1>1, <2>1 DEF DumpRecord, Writes, Making
    <3> HIDE DEF last, to
    <3>2. dump[p].db \in Databases
      BY <1>1, <2>1 DEF DumpKnows
    <3>3. DumpKnows(last, inodes', unseen')
      BY <2>2, <2>3, <2>4, <2>5, <3>1, <3>2 DEF DumpKnows, Writes, Making
    <3>4. i \in unseen'
      BY <2>5
    <3> QED BY <2>1, <2>2, <2>3, <2>4, <2>5, <3>1, <3>3, <3>4, DumpMoves
  <2>6. CASE unseen' = unseen /\ dump' = [dump EXCEPT ![p] = Resting] /\ inodes[i].packets + 1 # Blocks
    <3> HIDE DEF Resting
    <3>1. DumpKnows(Resting, inodes', unseen')
      BY <1>2
    <3>2. dump[p].pc = "settle" => i \in unseen'
      BY <1>1, <2>1, <2>6 DEF DumpKnows, Ends
    <3> QED BY <1>2, <2>1, <2>2, <2>3, <2>4, <2>6, <3>1, <3>2, DumpMoves DEF Making
  <2> QED BY <2>1, <2>5, <2>6
<1>12. ASSUME NEW p \in Dumpers, LastPacket(p) PROVE FilesInductive'
  <2> DEFINE r == [dump[p] EXCEPT !.pc = "commit"]
  <2>1. /\ dump[p].pc = "blocks" /\ UNCHANGED <<inodes, final, temp, crossed, unseen>>
        /\ dump' = [dump EXCEPT ![p] = r]
        /\ inodes[dump[p].inode].packets + (IF dump[p].busy THEN 1 ELSE 0) = Blocks
    BY <1>1, <1>12 DEF LastPacket, At, Inode
  <2>2. /\ r \in DumpRecord /\ r.inode = dump[p].inode /\ r.db = dump[p].db /\ r.pc = "commit"
        /\ r.busy = dump[p].busy
    BY <1>1 DEF DumpRecord, Writes, Making
  <2> HIDE DEF r
  <2>3. Ends(inodes[r.inode], r.busy)
    BY <1>1, <2>1, <2>2 DEF DumpKnows, Ends
  <2>4. DumpKnows(r, inodes, unseen)
    BY <1>1, <2>1, <2>2, <2>3 DEF DumpKnows, Writes, Making
  <2> QED BY <1>3, <2>1, <2>2, <2>4 DEF Making
<1>13. ASSUME NEW p \in Dumpers, Commit(p) \/ RenameAfterLook(p) PROVE FilesInductive'
  <2>1. dump[p].pc \in {"commit", "renaming"} /\ UNCHANGED <<inodes, crossed, unseen>>
    BY <1>13 DEF Commit, RenameAfterLook, At
  <2>2. dump[p].db \in Databases
    BY <1>1, <2>1 DEF DumpKnows, Writes, Making
  <2>3. CASE dump' = [dump EXCEPT ![p] = Resting] /\ UNCHANGED <<final, temp>>
    <3> HIDE DEF Resting
    <3> QED BY <1>2, <1>3, <2>1, <2>3 DEF Making
  <2>4. CASE /\ dump' = [dump EXCEPT ![p].pc = "settle"] /\ temp[dump[p].db] # 0
             /\ final' = [final EXCEPT ![dump[p].db] = temp[dump[p].db]]
             /\ temp' = [temp EXCEPT ![dump[p].db] = 0]
    BY <1>13, <2>2, <2>4, DumpCommits
  <2>5. CASE /\ dump' = [dump EXCEPT ![p].pc = "renaming"] /\ UNCHANGED <<final, temp>>
             /\ dump[p].pc = "commit" /\ final[dump[p].db] = 0
    <3> DEFINE r == [dump[p] EXCEPT !.pc = "renaming"]
    <3>1. /\ r \in DumpRecord /\ r.inode = dump[p].inode /\ r.db = dump[p].db /\ r.pc = "renaming"
          /\ r.busy = dump[p].busy /\ dump' = [dump EXCEPT ![p] = r]
      BY <1>1, <2>5 DEF DumpRecord, Writes, Making
    <3> HIDE DEF r
    <3>2. DumpKnows(r, inodes, unseen)
      BY <1>1, <2>5, <3>1 DEF DumpKnows, Writes, Making
    <3>3. r.pc \in Making /\ dump[p].pc \in Making
      BY <2>5, <3>1 DEF Making
    <3> QED BY <1>3, <2>1, <2>5, <3>1, <3>2, <3>3
  <2> QED BY <1>13, <2>3, <2>4, <2>5 DEF Commit, RenameAfterLook, Placed, At
<1>14. ASSUME NEW p \in Dumpers, Settle(p) PROVE FilesInductive'
  <2> DEFINE r == [dump[p] EXCEPT !.pc = "next", !.db = None, !.inode = 0]
  <2>1. /\ dump[p].pc = "settle" /\ ~dump[p].busy /\ UNCHANGED <<inodes, final, temp, crossed, unseen>>
        /\ dump' = [dump EXCEPT ![p] = r]
    BY <1>1, <1>14 DEF Settle, At
  <2>2. r \in DumpRecord /\ r.inode = 0 /\ r.pc = "next" /\ r.busy = dump[p].busy
    BY <1>1 DEF DumpRecord, Writes, Making
  <2> HIDE DEF r
  <2>3. DumpKnows(r, inodes, unseen)
    BY <2>1, <2>2 DEF DumpKnows, Writes, Making
  <2> QED BY <1>3, <2>1, <2>2, <2>3 DEF Making
<1>15. ASSUME NEW p \in Dumpers, Die(p) PROVE FilesInductive'
  <2> DEFINE i == dump[p].inode
             f == [inodes[i] EXCEPT !.cut = TRUE]
  <2>1. UNCHANGED <<final, temp, crossed>> /\ dump' = [dump EXCEPT ![p] = Resting]
    BY <1>15 DEF Die
  <2>2. CASE ~dump[p].busy
    <3>1. inodes' = inodes /\ unseen' = unseen
      BY <1>15, <2>2 DEF Die
    <3> HIDE DEF Resting
    <3> QED BY <1>2, <1>3, <2>1, <2>2, <3>1 DEF Making
  <2>3. CASE dump[p].busy
    <3>1. /\ inodes' = [inodes EXCEPT ![i] = f] /\ i \in DOMAIN inodes
          /\ unseen \subseteq unseen' /\ (dump[p].pc = "settle" => i \in unseen')
      BY <1>4, <1>15, <2>3 DEF Die, At
    <3>2. f \in FileRecord /\ f.db = dump[p].db
      BY <1>4, <2>3 DEF FileRecord
    <3> HIDE DEF f, Resting
    <3>3. DumpKnows(Resting, inodes', unseen')
      BY <1>2
    <3> QED BY <1>2, <2>1, <3>1, <3>2, <3>3, DumpMoves DEF Making
  <2> QED BY <2>2, <2>3
\* Restores and clients of the server change no file of a dump
<1>16. ASSUME UNCHANGED <<inodes, final, temp, dump, crossed, unseen>> PROVE FilesInductive'
  BY <1>16 DEF FilesInductive, DumpsTyped, DumpsAreWhole, Whole, At
<1>17. ASSUME NEW p \in Dumpers, NEW d \in Databases, NEW overwrite \in BOOLEAN,
              DumpDatabase(p, d, overwrite)
       PROVE  FilesInductive'
  BY <1>5, <1>17 DEF DumpDatabase
<1>18. CASE \E d \in Databases : RestoreDatabase(d) \/ \E v \in {None, 0, 1} : Change(d, v)
  BY <1>16, <1>18 DEF RestoreDatabase, Restore, Change
<1>19. CASE RestoreAll \/ NextFile \/ CheckEmpty \/ NextPacket \/ BadFile \/ Refused \/ EndOfFile
            \/ RestoreDies
  BY <1>16, <1>19 DEF RestoreAll, Restore, NextFile, CheckEmpty, NextPacket, BadFile, Refused, EndOfFile,
                      RestoreDies, counts
<1>20. CASE UNCHANGED dumping
  BY <1>16, <1>20 DEF dumping
<1>21. ASSUME NEW p \in Dumpers, DumpAll(p) PROVE FilesInductive'
  BY <1>5, <1>21 DEF DumpAll
<1> QED
  BY <1>6, <1>7, <1>8, <1>9, <1>10, <1>11, <1>12, <1>13, <1>14, <1>15, <1>17, <1>18, <1>19, <1>20,
     <1>21 DEF DumpsNext

(* A file under its final name is a whole dump of the database it is named  *)
(* for, also while others replace it and after failures and deaths at any   *)
(* point, from the end of its dump's last write on, unless two dumps met in *)
(* that file or its last write failed unseen, or was cut off by a kill      *)
(* after the rename (Guard, dump_db): for any number of dumps, of packets   *)
(* and of databases. *)
THEOREM DumpsStayWhole == DumpsSpec => []DumpsAreWhole
<1>1. FilesInductive /\ [DumpsNext]_dumping => FilesInductive'
  BY FilesStep
<1>2. FilesInductive => DumpsAreWhole
  BY DEF FilesInductive
<1> QED BY FilesStart, <1>1, <1>2, PTL DEF DumpsSpec

RestoreRecord ==
    [pc : {"idle", "next", "check", "packets"}, db : Databases \cup {None}, todo : SUBSET Databases,
     existing : SUBSET Databases, all : BOOLEAN, read : Nat, raced : BOOLEAN]

\* What NothingReplaced needs of the commands: the database into which a restore reads a
\* file has been found empty, and stays so unless clients change it
RestoresInductive ==
    /\ dump \in [Dumpers -> DumpRecord] /\ content \in [Databases -> {None, 0, 1}]
    /\ restoring \in RestoreRecord
    /\ restoring.pc \in {"check", "packets"} => restoring.db \in Databases
    /\ restoring.pc = "packets" => content[restoring.db] = 0 \/ restoring.raced

(* The initial states satisfy the invariant. *)
LEMMA RestoresStart == DumpsInit => RestoresInductive
<1>1. Still \in RestoreRecord /\ Still.pc = "idle"
  BY DEF Still, RestoreRecord
<1>2. DumpsInit => dump \in [Dumpers -> DumpRecord]
  BY FilesStart DEF FilesInductive, DumpsTyped
<1> QED BY <1>1, <1>2 DEF DumpsInit, RestoresInductive

(* Every step keeps the invariant. *)
LEMMA RestoresStep ==
    ASSUME FilesInductive, RestoresInductive, [DumpsNext]_dumping
    PROVE  RestoresInductive'
<1> USE DEF RestoresInductive
<1>1. dump' \in [Dumpers -> DumpRecord]
  BY FilesStep DEF FilesInductive, DumpsTyped
<1>2. Still \in RestoreRecord /\ Still.pc = "idle"
  BY DEF Still, RestoreRecord
<1>3. CASE UNCHANGED <<content, restoring>>
  BY <1>1, <1>3
\* The restore ends
<1>4. CASE UNCHANGED content /\ restoring' = Still
  BY <1>1, <1>2, <1>4
<1>5. ASSUME NEW dbs \in SUBSET Databases, NEW all \in BOOLEAN, Restore(dbs, all)
      PROVE  RestoresInductive'
  <2> DEFINE r == [Still EXCEPT !.pc = "next", !.todo = dbs, !.all = all,
                                !.existing = {d \in Databases : content[d] # None}]
  <2>1. restoring' = r /\ UNCHANGED content
    BY <1>5 DEF Restore
  <2>2. r \in RestoreRecord /\ r.pc = "next"
    BY DEF Still, RestoreRecord
  <2> HIDE DEF r
  <2> QED BY <1>1, <2>1, <2>2
<1>6. ASSUME NEW d \in Databases, NEW v \in {None, 0, 1}, Change(d, v) PROVE RestoresInductive'
  <2> DEFINE r == [restoring EXCEPT !.raced = TRUE]
  <2>1. content' = [content EXCEPT ![d] = v]
        /\ restoring' = IF restoring.db = d /\ restoring.pc = "packets" THEN r ELSE restoring
    BY <1>6 DEF Change
  <2>2. r \in RestoreRecord /\ r.pc = restoring.pc /\ r.db = restoring.db /\ r.raced = TRUE
    BY DEF RestoreRecord
  <2> HIDE DEF r
  <2>3. CASE restoring.db = d /\ restoring.pc = "packets"
    BY <1>1, <2>1, <2>2, <2>3
  <2>4. CASE ~(restoring.db = d /\ restoring.pc = "packets")
    BY <1>1, <2>1, <2>4
  <2> QED BY <2>3, <2>4
<1>7. CASE NextFile
  <2>1. CASE UNCHANGED content /\ restoring' = Still
    BY <1>4, <2>1
  <2>2. ASSUME NEW d \in restoring.todo, content' = content \/ content' = [content EXCEPT ![d] = 0],
               restoring' = [restoring EXCEPT !.todo = @ \ {d}, !.db = d, !.pc = "check"]
        PROVE  RestoresInductive'
    <3>1. d \in Databases
      BY DEF RestoreRecord
    <3>2. restoring' \in RestoreRecord /\ restoring'.pc = "check" /\ restoring'.db = d
      BY <2>2, <3>1 DEF RestoreRecord
    <3>3. content' \in [Databases -> {None, 0, 1}]
      BY <2>2
    <3> QED BY <1>1, <3>1, <3>2, <3>3
  <2>3. \/ UNCHANGED content /\ restoring' = Still
        \/ \E d \in restoring.todo :
              /\ content' = content \/ content' = [content EXCEPT ![d] = 0]
              /\ restoring' = [restoring EXCEPT !.todo = @ \ {d}, !.db = d, !.pc = "check"]
    BY <1>7 DEF NextFile
  <2> QED BY <2>1, <2>2, <2>3
<1>8. CASE CheckEmpty
  <2>1. CASE content[restoring.db] = 0
    <3>1. restoring' = [restoring EXCEPT !.pc = "packets", !.read = 0, !.raced = FALSE] /\ UNCHANGED content
          /\ restoring.pc = "check"
      BY <1>8, <2>1 DEF CheckEmpty
    <3>2. restoring' \in RestoreRecord /\ restoring'.pc = "packets" /\ restoring'.db = restoring.db
      BY <3>1 DEF RestoreRecord
    <3> QED BY <1>1, <2>1, <3>1, <3>2
  <2>2. CASE content[restoring.db] # 0
    BY <1>4, <1>8, <2>2 DEF CheckEmpty
  <2> QED BY <2>1, <2>2
<1>9. CASE NextPacket
  <2>1. restoring' = [restoring EXCEPT !.read = @ + 1] /\ UNCHANGED content
    BY <1>9 DEF NextPacket
  <2>2. /\ restoring' \in RestoreRecord /\ restoring'.pc = restoring.pc /\ restoring'.db = restoring.db
        /\ restoring'.raced = restoring.raced
    BY <2>1 DEF RestoreRecord
  <2> QED BY <1>1, <2>1, <2>2
<1>10. CASE EndOfFile
  <2>1. /\ content' = [content EXCEPT ![restoring.db] = 1]
        /\ restoring' = [restoring EXCEPT !.pc = "next"]
    BY <1>10 DEF EndOfFile
  <2>2. restoring' \in RestoreRecord /\ restoring'.pc = "next"
    BY <2>1 DEF RestoreRecord
  <2> QED BY <1>1, <2>1, <2>2
<1>11. CASE BadFile \/ Refused \/ RestoreDies
  BY <1>4, <1>11 DEF BadFile, Refused, RestoreDies
<1>12. CASE RestoreAll \/ \E d \in Databases : RestoreDatabase(d)
  BY <1>5, <1>12 DEF RestoreAll, RestoreDatabase
<1>13. ASSUME NEW p \in Dumpers, NEW d \in Databases, NEW overwrite \in BOOLEAN,
              DumpDatabase(p, d, overwrite) \/ DumpAll(p)
       PROVE  RestoresInductive'
  BY <1>3, <1>13 DEF DumpDatabase, DumpAll, Dump
<1>14. ASSUME NEW p \in Dumpers,
              \/ NextDatabase(p) \/ Open(p) \/ FileExists(p) \/ WritePacket(p) \/ Written(p)
              \/ WriteFails(p) \/ LastPacket(p) \/ Commit(p) \/ RenameAfterLook(p) \/ Settle(p) \/ Die(p)
       PROVE  RestoresInductive'
  BY <1>3, <1>14 DEF NextDatabase, Open, FileExists, WritePacket, Written, WriteFails, LastPacket, Commit,
                     RenameAfterLook, Settle, Die
<1>15. ASSUME NEW p \in Dumpers, DumpAll(p) PROVE RestoresInductive'
  BY <1>3, <1>15 DEF DumpAll, Dump
<1>16. CASE UNCHANGED dumping
  BY <1>3, <1>16 DEF dumping
<1> QED
  BY <1>6, <1>7, <1>8, <1>9, <1>10, <1>11, <1>12, <1>13, <1>14, <1>15, <1>16 DEF DumpsNext

(* A dump without --overwrite-existing replaces no file, not even one made  *)
(* since it looked, but that of a dump beside it where the rename cannot be *)
(* exclusive; and a restore sends a dump only into a database that it found *)
(* empty, and that still is unless clients changed it since (commit,        *)
(* is_non_empty_db). *)
THEOREM NothingIsReplaced == DumpsSpec => NothingReplaced
<1> DEFINE Kept ==
             /\ \A p \in Dumpers :
                   LET d == dump[p].db
                   IN ~dump[p].over /\ ~At(p, "settle") /\ dump'[p].pc = "settle" /\ final[d] # 0 =>
                          At(p, "renaming") /\ d \in crossed
             /\ restoring.pc = "packets" /\ restoring'.pc = "next" =>
                   content[restoring.db] = 0 \/ restoring.raced
           Both == FilesInductive /\ RestoresInductive
<1>1. Both /\ [DumpsNext]_dumping => Both'
  BY FilesStep, RestoresStep
<1>2. Both /\ [DumpsNext]_dumping => [Kept]_dumping
  <2> SUFFICES ASSUME FilesInductive, RestoresInductive, DumpsNext PROVE Kept
    OBVIOUS
  <2>1. dump \in [Dumpers -> DumpRecord]
    BY DEF RestoresInductive
  <2>2. ASSUME NEW p \in Dumpers, ~dump[p].over, ~At(p, "settle"), dump'[p].pc = "settle",
               final[dump[p].db] # 0
        PROVE  At(p, "renaming") /\ dump[p].db \in crossed
    <3>1. ASSUME UNCHANGED dump PROVE FALSE
      BY <2>2, <3>1 DEF At
    <3>2. ASSUME NEW q \in Dumpers, NEW r, dump' = [dump EXCEPT ![q] = r],
                 r.pc # "settle" \/ r.pc = dump[q].pc
          PROVE  FALSE
      <4>1. dump'[p].pc = IF q = p THEN r.pc ELSE dump[p].pc
        BY <2>1, <3>2
      <4> QED BY <2>2, <3>2, <4>1 DEF At
    <3>3. CASE Commit(p)
      <4>1. dump' = [dump EXCEPT ![p] = Resting] \/ dump' = [dump EXCEPT ![p].pc = "renaming"]
        BY <2>2, <3>3 DEF Commit
      <4>2. CASE dump' = [dump EXCEPT ![p] = Resting]
        <5>1. dump'[p].pc = "idle"
          BY <2>1, <4>2 DEF Resting
        <5> QED BY <2>2, <5>1
      <4>3. CASE dump' = [dump EXCEPT ![p].pc = "renaming"]
        <5>1. dump'[p].pc = "renaming"
          BY <2>1, <4>3 DEF DumpRecord
        <5> QED BY <2>2, <5>1
      <4> QED BY <4>1, <4>2, <4>3
    <3>4. CASE RenameAfterLook(p)
      <4>1. dump[p].pc = "renaming" /\ DumpKnows(dump[p], inodes, unseen)
        BY <3>4 DEF RenameAfterLook, At, FilesInductive
      <4>2. dump[p].inode # 0
        BY <4>1 DEF DumpKnows, Writes, Making
      <4>3. dump[p].db \in crossed \/ Owns(dump[p], final[dump[p].db], temp[dump[p].db])
        BY <4>2 DEF FilesInductive
      <4> QED BY <2>2, <4>1, <4>3 DEF Owns, At
    <3>5. ASSUME NEW q \in Dumpers, Commit(q) \/ RenameAfterLook(q) PROVE q = p
      <4>1. PICK r : dump' = [dump EXCEPT ![q] = r]
        <5>1. \/ dump' = [dump EXCEPT ![q] = Resting] \/ dump' = [dump EXCEPT ![q].pc = "settle"]
              \/ dump' = [dump EXCEPT ![q].pc = "renaming"]
          BY <3>5 DEF Commit, RenameAfterLook, Placed
        <5> QED BY <5>1
      <4>2. q # p => dump'[p] = dump[p]
        BY <2>1, <4>1
      <4> QED BY <2>2, <4>2 DEF At
    <3>6. ASSUME NEW q \in Dumpers,
                 \/ NextDatabase(q) \/ Open(q) \/ FileExists(q) \/ WritePacket(q) \/ LastPacket(q)
                 \/ Settle(q)
          PROVE  FALSE
      <4>1. CASE NextDatabase(q)
        <5>1. CASE dump' = [dump EXCEPT ![q] = Resting]
          BY <2>1, <2>2, <5>1 DEF Resting, At
        <5>2. ASSUME NEW d, dump' = [dump EXCEPT ![q].todo = @ \ {d}, ![q].db = d,
                                        ![q].pc = IF content[d] = None THEN "next" ELSE "open"]
              PROVE  FALSE
          <6>1. PICK to : to \in {"next", "open"} /\ to = IF content[d] = None THEN "next" ELSE "open"
            OBVIOUS
          <6>2. dump' = [dump EXCEPT ![q].todo = @ \ {d}, ![q].db = d, ![q].pc = to]
            BY <5>2, <6>1
          <6>3. dump'[q].pc = to /\ (q # p => dump'[p] = dump[p])
            BY <2>1, <6>2 DEF DumpRecord
          <6> QED BY <2>2, <6>1, <6>3 DEF At
        <5> QED BY <4>1, <5>1, <5>2 DEF NextDatabase
      <4>2. CASE Open(q)
        BY <2>1, <2>2, <4>2 DEF Open, At, DumpRecord
      <4>3. CASE FileExists(q)
        BY <2>1, <2>2, <4>3 DEF FileExists, At, Resting
      <4>4. CASE WritePacket(q)
        BY <2>1, <2>2, <4>4 DEF WritePacket, At, DumpRecord
      <4>5. CASE LastPacket(q)
        BY <2>1, <2>2, <4>5 DEF LastPacket, At, DumpRecord
      <4>6. CASE Settle(q)
        BY <2>1, <2>2, <4>6 DEF Settle, At, DumpRecord
      <4> QED BY <3>6, <4>1, <4>2, <4>3, <4>4, <4>5, <4>6
    <3>7. ASSUME NEW q \in Dumpers, WriteFails(q) \/ Written(q) \/ Die(q)
          PROVE  FALSE
      BY <2>1, <2>2, <3>7 DEF WriteFails, Written, Die, Resting, At, DumpRecord
    <3>8. ASSUME NEW q \in Dumpers, NEW dbs, NEW all, NEW overwrite, Dump(q, dbs, all, overwrite)
          PROVE  FALSE
      BY <2>1, <2>2, <3>8 DEF Dump, At, Resting
    <3>9. ASSUME \/ RestoreAll \/ NextFile \/ CheckEmpty \/ NextPacket \/ BadFile \/ Refused
                 \/ EndOfFile \/ RestoreDies
                 \/ \E d \in Databases : RestoreDatabase(d) \/ \E v \in {None, 0, 1} : Change(d, v)
          PROVE  FALSE
      BY <3>1, <3>9 DEF RestoreAll, RestoreDatabase, Restore, Change, NextFile, CheckEmpty, NextPacket,
                        BadFile, Refused, EndOfFile, RestoreDies
    <3> QED BY <3>3, <3>4, <3>5, <3>6, <3>7, <3>8, <3>9 DEF DumpsNext, DumpDatabase, DumpAll
  <2>3. ASSUME restoring.pc = "packets", restoring'.pc = "next"
        PROVE  content[restoring.db] = 0 \/ restoring.raced
    BY <2>3 DEF RestoresInductive
  <2> QED BY <2>2, <2>3
<1> QED BY FilesStart, RestoresStart, <1>1, <1>2, PTL DEF DumpsSpec, NothingReplaced
=============================================================================
