--------------------------- MODULE MCBitternCache ---------------------------
(***************************************************************************)
(* Instances of BitternCache for TLC.                                      *)
(***************************************************************************)
EXTENDS CrashSafety, TLC

(* Blocks are interchangeable, and so are requests, whose direction, size  *)
(* and sector are chosen when they are issued.                             *)
Symmetry == Permutations(Blocks) \cup Permutations(Bios)

(* The defect of the writethrough partial write miss, which has a run of   *)
(* its own, is kept out of the runs about the rest of writethrough.        *)
NoPartialWriteMiss ==
    \A b \in Blocks : bcb_state[b] # "S_CLEAN_P_WRITE_MISS_CPT_DEVICE_END"

============================================================================
