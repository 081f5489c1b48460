------------------------ MODULE MCThreadSafeWrapper ------------------------
(***************************************************************************)
(* Bounds for ThreadSafeWrapper.  The item is releasable when its last     *)
(* modification is one of Removing, as the map of device callbacks of the  *)
(* Zigbee subsystem is once its last entry is unregistered.                *)
(***************************************************************************)
EXTENDS ThreadSafeWrapper

CONSTANT Removing

ASSUME RemovingAssumption == Removing \subseteq Mod

LastRemoves(s) == s # <<>> /\ s[Len(s)] \in Removing
=============================================================================
