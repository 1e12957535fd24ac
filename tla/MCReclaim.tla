------------------------------ MODULE MCReclaim ------------------------------
(* Instances of Reclaim for TLC. *)
EXTENDS Reclaim, TLC

CONSTANTS home, photos,    \* subvolumes
          disk1, disk2     \* drives

DriveSymmetry == Permutations({disk1, disk2})
PoolSymmetry == Permutations({home, photos}) \cup DriveSymmetry
=============================================================================
