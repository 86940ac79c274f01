----------------------------- MODULE MCTurnLoop -----------------------------
(* TurnLoop on small instances, with the log it keeps read back in full. *)
EXTENDS TurnLoop, LogReplay

\* The reader's state carried beside the log is what reading the log from its
\* last baseline (the history) or from its start (the snapshots) gives.
ReplayIsLog ==
  /\ Flush(replay) = HistoryFromLog(log)
  /\ replay.snapshots = SnapshotsFromLog(log)
=============================================================================
