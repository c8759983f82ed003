----------------------------- MODULE MCBranches -----------------------------
(* Branch commands, dumps and restores of branches, and edits of a          *)
(* migration, which share no state: a behaviour is of one of them.          *)
EXTENDS Branches, Dumps, Edits, TLC

VARIABLE matter

Symmetry == Permutations(Names \ {First}) \cup Permutations(Dumpers) \cup Permutations(Databases)

\* Bodies are numbers here, taken in their order: those that are not in `work` and in no
\* file are in no branch either, and which one is created makes no difference
Taken == work \cup UNION {ToSet(f) : f \in files}
InOrder == \A s \in Taken' \ Taken, r \in Bodies \ Taken : s <= r

MCInit ==
    /\ matter \in {"branches", "dumps", "edits"} /\ BranchesInit /\ DumpsInit /\ EditsInit
    /\ matter # "edits" => file = CHOOSE f \in Contents : Sound(f) /\ f.body \in Accepted

MCNext ==
    /\ UNCHANGED matter
    /\ \/ matter = "branches" /\ BranchesNext /\ UNCHANGED <<dumping, edits>>
       \/ matter = "dumps" /\ DumpsNext /\ UNCHANGED <<branching, edits>>
       \/ matter = "edits" /\ EditsNext /\ UNCHANGED <<branching, dumping>>

\* Bound: a third dump, which lets a file appear between the look and the rename of
\* another dump, only where dumps of one database meet and none was restored
ThirdDump ==
    dumps > 2 => /\ \A i, j \in DOMAIN inodes : inodes[i].db = inodes[j].db
                 /\ restores = 0 /\ \A p \in Dumpers : ~dump[p].all

\* Bound: after a command outside the project, which the properties leave out
Strayed == astray => cmd.op # "none"

MCSpec == MCInit /\ [][MCNext]_<<matter, branching, dumping, edits>>
=============================================================================
