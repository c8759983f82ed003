--------------------------- MODULE MCCommandLocks ---------------------------
(* CommandLocks for TLC. *)
EXTENDS CommandLocks

============================================================================
