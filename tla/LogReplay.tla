------------------------------ MODULE LogReplay ------------------------------
(***************************************************************************)
(* Reading a whole log back: `history_from_log` starts from the last       *)
(* baseline and replays the tail (crates/core/src/resume.rs), while the    *)
(* metadata cache folds every event from the first (crates/core/src/       *)
(* meta.rs).  A session is rebuilt by these; TurnLoop carries a reader     *)
(* beside the log instead, and the two are compared.                       *)
(***************************************************************************)
EXTENDS SessionLog

\* Mutant of IsBaseline: a files-only rewind taken for one of the conversation.
IsAnyRewind(e) == e.ev = "Rewound"

IsBaseline(e) == e.ev = "Rewound" /\ e.conversation

\* The place of the last baseline, 0 when there is none.
BaselineAt(log) ==
  CHOOSE at \in 0..Len(log) :
    /\ at # 0 => IsBaseline(log[at])
    /\ \A later \in (at + 1)..Len(log) : ~IsBaseline(log[later])

\* A reader that starts as `base` and consumes the events behind `from`.
ReadFrom(base, log, from) ==
  LET reader[n \in from..Len(log)] ==
        IF n = from THEN base ELSE Apply(reader[n - 1], log[n])
  IN  reader[Len(log)]

\* Only the conversation part of the fold: `history_from_log` knows no snapshots.
ReadTail(log) ==
  LET at == BaselineAt(log)
  IN  ReadFrom([NothingRead EXCEPT !.history = IF at = 0 THEN <<>> ELSE log[at].history],
               log, at)

HistoryFromLog(log) == Flush(ReadTail(log))

\* `SessionMeta::fold`: every event, whatever the baseline.
SnapshotsFromLog(log) == ReadFrom(NothingRead, log, 0).snapshots
=============================================================================
