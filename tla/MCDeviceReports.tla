--------------------------- MODULE MCDeviceReports ---------------------------
(***************************************************************************)
(* Small instances of DeviceReports: two values of each kind are enough for *)
(* one that is sent, changed and changed back.                             *)
(***************************************************************************)
EXTENDS DeviceReports

AllFaults == Faults
=============================================================================
