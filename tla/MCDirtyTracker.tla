--------------------------- MODULE MCDirtyTracker ---------------------------
(***************************************************************************)
(* Small instances of DirtyTracker: RAM in one region and, where a run     *)
(* wants one, a RAM BAR in another whose range may leave the FlatView.     *)
(***************************************************************************)
EXTENDS DirtyTracker

CONSTANTS ram0, ram1, bar, sysram, barram

RegionsOfRam == [p \in Page |-> sysram]
RegionsOfRamAndBar == [p \in Page |-> IF p = bar THEN barram ELSE sysram]
=============================================================================
