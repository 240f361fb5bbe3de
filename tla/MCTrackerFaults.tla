-------------------------- MODULE MCTrackerFaults ---------------------------
(***************************************************************************)
(* The values of MCTaskTracker for a tracker whose statements throw.       *)
(***************************************************************************)
EXTENDS MCTaskTracker, TrackerFaults

=============================================================================
