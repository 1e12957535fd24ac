---------------------------- MODULE MCWatchdogRun ----------------------------
(* Two armed pools, one of them with two snapshot roots (so that membership in *)
(* the root set and equality with one root differ), and a root on a pool that  *)
(* is not armed.                                                               *)
EXTENDS WatchdogRun, TLC

CONSTANTS home, data, photos, scratch, \* snapshot roots
          ssd, hdd                     \* armed pools

MCRootsOf == ssd :> {home, data} @@ hdd :> {photos}
=============================================================================
