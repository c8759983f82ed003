------------------------------ MODULE MCRemote ------------------------------
(* What others carry out for the commands: the migrations of a directory in *)
(* the databases of its server, the dialogue that makes one of them with    *)
(* the server, the operations of the cloud on its instances, and the        *)
(* accounts that commands use there.  The four share no state: a behaviour  *)
(* is of one of them, and the others rest.  Keys of the cloud are numbers,  *)
(* issued in their order: which of the free ones it issues makes no         *)
(* difference to any definition.                                            *)
EXTENDS Migrations, Proposals, CloudInstances, CloudAccounts

VARIABLE matter

MCItems ==
    LET P(prompt, size, safe, input) ==
            [prompt |-> prompt, size |-> size, safe |-> safe, input |-> input]
    IN <<<<P("rename", 1, FALSE, "none"), P("drop", 2, TRUE, "fill")>>,
         <<P("cast", 1, TRUE, "other"), P("drop", 1, TRUE, "none")>>,
         <<P("create", 2, TRUE, "none")>>>>

Symmetry == UNION {Permutations(S) : S \in {Schemas, Callers, Tasks, Profiles}}

KeysInOrder == \A k \in live' \ live, j \in Keys \ live : k <= j

MCInit ==
    /\ matter \in {"directory", "dialogue", "instances", "accounts"}
    /\ MigrationsInit /\ ProposalsInit /\ InstancesInit /\ AccountsInit
    /\ matter = "dialogue" \/ how = "interactive"
    /\ matter = "instances" \/ inst = [name \in Names |-> Absent]

MCNext ==
    /\ UNCHANGED matter
    /\ \/ matter = "directory" /\ MigrationsNext /\ UNCHANGED <<proposals, cloud, accounts>>
       \/ matter = "dialogue" /\ ProposalsNext /\ UNCHANGED <<migrating, cloud, accounts>>
       \/ matter = "instances" /\ InstancesNext /\ UNCHANGED <<migrating, proposals, accounts>>
       \/ matter = "accounts" /\ AccountsNext /\ UNCHANGED <<migrating, proposals, cloud>>

MCSpec == MCInit /\ [][MCNext]_<<matter, migrating, proposals, cloud, accounts>>
=============================================================================
