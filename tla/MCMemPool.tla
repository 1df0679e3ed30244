----------------------------- MODULE MCMemPool -----------------------------
(* Four payloads: enough for cells to be emptied, refilled and added in     *)
(* front of a list whose middle is empty, in every order of release.        *)
EXTENDS MemPool
=============================================================================
