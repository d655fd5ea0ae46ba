---------------------------- MODULE MCEventInbox ----------------------------
(* Small tables for TLC; the processes are alike. *)
EXTENDS EventInbox, TLC

Alike == Permutations(Processes) \cup Permutations(Events)
=============================================================================
