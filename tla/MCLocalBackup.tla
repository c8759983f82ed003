--------------------------- MODULE MCLocalBackup ---------------------------
(* LocalBackup for TLC: a listing runs beside two backups at most, the      *)
(* third backup beside no listing.  A behaviour is followed until a listing *)
(* hits a live or published backup, after which nothing is promised. *)
EXTENDS LocalBackup

ListsBesideTwo ==
    /\ ~struck
    /\ \/ stage[MaxBackups] = "idle"
       \/ \A l \in Listers : ~scan[l].on

============================================================================
