---------------------------- MODULE MCProcessLock ----------------------------
(***************************************************************************)
(* Small instances of ProcessLock: two processes at a time, of users who   *)
(* log in and out and whose environments name directories of their own,    *)
(* and IDs that are used again.                                            *)
(***************************************************************************)
EXTENDS ProcessLock, TLC

Symmetry == Permutations(Procs)
=============================================================================
