---------------------------- MODULE MCDeviceHistory ----------------------------
(* Instance of DeviceHistory for TLC.                                      *)
EXTENDS DeviceHistory, TLC

CONSTANT MaxTimeline

(* Bound: how many values are remembered for comparison.                   *)
TimelineBound == Len(timeline) <= MaxTimeline

ValueSymmetry == Permutations(Settable)

=============================================================================
