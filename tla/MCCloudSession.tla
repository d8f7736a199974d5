--------------------------- MODULE MCCloudSession ---------------------------
(* TLC instances of CloudSession: a daemon and one other process, which may *)
(* be a new command after each crash.                                       *)
EXTENDS CloudSession, TLC
=============================================================================
