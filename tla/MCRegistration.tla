--------------------------- MODULE MCRegistration ---------------------------
(***************************************************************************)
(* Small instances of Registration: a first registration, and a second and *)
(* third that meet what the earlier ones left behind.                      *)
(***************************************************************************)
EXTENDS Registration

AllFaults == Faults
=============================================================================
