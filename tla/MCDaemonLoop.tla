----------------------------- MODULE MCDaemonLoop -----------------------------
(***************************************************************************)
(* Small instances of DaemonLoop: two configurations that come remotely    *)
(* while an administrator writes two more.                                 *)
(***************************************************************************)
EXTENDS DaemonLoop
=============================================================================
