---------------------------- MODULE MCEventRelay ----------------------------
(* Instances of EventRelay for TLC.                                        *)
EXTENDS EventRelay
=============================================================================
