------------------------------ MODULE MCDeltaMap ------------------------------
(* Instance of DeltaMap for TLC.                                           *)
EXTENDS DeltaMap, TLC

CONSTANTS v1, v2

(* isModified: v2 does not replace v1, every other pair counts.            *)
MCModifies == (Values \X Values) \ {<<v2, v1>>}

(* Past a step that may lose changes the properties claim nothing.         *)
NothingLost == ~lossy

KeySymmetry == Permutations(Keys)

=============================================================================
