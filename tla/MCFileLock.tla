----------------------------- MODULE MCFileLock -----------------------------
(* FileLock for TLC: three processes on one lock path, p3 inside a hook.    *)
EXTENDS FileLock

CONSTANTS p1, p2, p3

============================================================================
