----------------------------- MODULE MCBackupRun -----------------------------
(* Instances of BackupRun for TLC. *)
EXTENDS BackupRun, TLC

CONSTANTS cron, shell   \* the timer's run and one started by hand

MCRuns == {cron, shell}
RunSymmetry == Permutations(MCRuns)
=============================================================================
