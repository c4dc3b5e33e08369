-------------------------- MODULE MCDirtyExposure --------------------------
(***************************************************************************)
(* The small instances of MCDirtyTracker, with the record of exposure.     *)
(***************************************************************************)
EXTENDS MCDirtyTracker, DirtyExposure
=============================================================================
