---------------------------- MODULE MCSyncMerge ----------------------------
(* SyncMerge with the clocks of small sets of devices.                     *)
EXTENDS SyncMerge

InStep == [d \in Devices |-> 0]

Symmetry == Permutations(Records)
DeviceSymmetry == Permutations(Records) \cup Permutations(Devices)

(* What is decided stays decided: no deletion comes back, and what a user   *)
(* of the device wrote yields only to what was written after it.           *)
NothingIsUndone == TombstoneStays /\ EditYieldsOnlyToNews
=============================================================================
