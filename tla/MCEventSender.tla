--------------------------- MODULE MCEventSender ---------------------------
(***************************************************************************)
(* Small instances of EventSender: the table holds more rows than are read *)
(* at a time, and IDs start again when it is emptied.                      *)
(***************************************************************************)
EXTENDS EventSender
=============================================================================
