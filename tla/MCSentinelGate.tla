--------------------------- MODULE MCSentinelGate ---------------------------
(* The instances need no definitions of their own: a run and two lives of the *)
(* sentinel, or one of each, over what an earlier run and sentinel left.      *)
EXTENDS SentinelGate
=============================================================================
