------------------------------ MODULE MCPromise ------------------------------
(* Instances of Promise for TLC. *)
EXTENDS Promise

CONSTANTS near, far   \* a drive that stays, and one that makes rounds
==============================================================================
