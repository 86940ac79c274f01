----------------------------- MODULE SessionFile -----------------------------
(***************************************************************************)
(* The bytes of a session's log, rollout.jsonl, and the summary cached     *)
(* beside it, meta.json: RolloutRecorder and read_log_from                 *)
(* (crates/core/src/rollout.rs), SessionMeta (crates/core/src/meta.rs),    *)
(* load_session and summarize (crates/core/src/resume.rs), and what the    *)
(* interface does with a session as it exits                               *)
(* (crates/cli/src/commands/session.rs).                                   *)
(*                                                                         *)
(* Several processes share the directory and nothing locks it.  A line is  *)
(* a few cells, each one or more bytes, so that a write can be cut between *)
(* two of them and an offset can fall between two: the second and third    *)
(* are the halves of one character, the last is the newline.  Reading by   *)
(* line is reading text, and a half character makes it fail.  What a       *)
(* summary says is a fold of the events it has seen, so it is kept as the  *)
(* list of those.                                                          *)
(***************************************************************************)
EXTENDS Naturals, Sequences, FiniteSets

CONSTANTS
  Procs,      \* those that list, resume and write: what lists beside its own session is two
  CutAt,      \* after how many cells a write may be cut short
  MaxLines,   \* bound: appends begun
  MaxCuts,    \* bound: lines cut short
  MaxLosses   \* bound: losses of power

NewLine == 4

ASSUME SessionFileAssumption ==
  /\ CutAt \subseteq 1..(NewLine - 1) /\ CutAt # {}
  /\ MaxLines \in Nat /\ MaxCuts \in Nat /\ MaxLosses \in Nat

VARIABLES
  file,     \* the log: a sequence of cells
  kinds,    \* per event, in the order their appends began: its kind
  cache,    \* meta.json as it was last left, NewMeta if it never was
  rec,      \* per process: its RolloutRecorder
  look,     \* per process: a listing or a load in progress
  gone,     \* the directory has been removed
  cuts, losses,
  \* observability
  acked,    \* events whose append returned Ok, and that no loss of power took back
  mixed     \* a line was begun behind one cut short, or while another recorder was open

fileVars == <<file, kinds, cache, rec, look, gone, cuts, losses, acked, mixed>>

Kinds == {"SessionStart", "TurnStart", "TurnEnd", "Rewound"}
Cell  == [id : 1..MaxLines, part : 1..NewLine]

\* `baseline` is None as 0: both read the log from its first byte.
Meta == [seen : Seq(1..MaxLines), baseline : Nat, scanned : Nat]
NewMeta == [seen |-> <<>>, baseline |-> 0, scanned |-> 0]

Closed == [at |-> "out", meta |-> NewMeta, id |-> 0]
NoLook == [at |-> "none", meta |-> NewMeta]

RecAt == {"out", "starting", "idle", "writing", "written", "failed", "exiting"}

FileTypeOK ==
  /\ file \in Seq(Cell) /\ kinds \in Seq(Kinds) /\ cache \in Meta
  /\ rec \in [Procs -> [at : RecAt, meta : Meta, id : 0..MaxLines]]
  /\ look \in [Procs -> [at : {"none", "refreshed", "loaded"}, meta : Meta]]
  /\ gone \in BOOLEAN /\ mixed \in BOOLEAN /\ acked \subseteq 1..Len(kinds)
  /\ cuts \in 0..MaxCuts /\ losses \in 0..MaxLosses

-----------------------------------------------------------------------------
(* Reading *)

Line(id) == [k \in 1..NewLine |-> [id |-> id, part |-> k]]

Ends(f) == {i \in DOMAIN f : f[i].part = NewLine}

\* Half a character, at a cut or where the reader was told to begin.
BadText(f, from) == \E i \in (from + 1)..Len(f) :
  \/ f[i].part = 2 /\ (i = Len(f) \/ f[i + 1] # [id |-> f[i].id, part |-> 3])
  \/ f[i].part = 3 /\ i = from + 1

\* A line that is one event and nothing else; the last one may lack its newline.
Parses(f, from, i) ==
  /\ i = from + 1 \/ i - 1 \in Ends(f)
  /\ i + NewLine - 2 <= Len(f)
  /\ \A k \in 1..(NewLine - 1) : f[i + k - 1] = Line(f[i].id)[k]
  /\ i + NewLine - 1 <= Len(f) => i + NewLine - 1 \in Ends(f)

\* Mutant of ReadLogFrom: stops at the first line it cannot read.
ReadUpTo(f, from) ==
  LET read[n \in from..Len(f)] ==
        IF n = from THEN <<>>
        ELSE IF \A i \in (from + 1)..n :
                  i \in {from + 1, n} \/ i - 1 \in Ends(f) => Parses(f, from, i)
        THEN Append(read[n - 1], f[n].id) ELSE read[n - 1]
  IN  read[Len(f)]

\* read_log_from, when the text is good: the events of its lines.
ReadLogFrom(f, from) ==
  LET read[n \in from..Len(f)] ==
        IF n = from THEN <<>>
        ELSE IF Parses(f, from, n) THEN Append(read[n - 1], f[n].id) ELSE read[n - 1]
  IN  read[Len(f)]

\* SessionMeta::apply, for the event whose line begins at byte `at`
Applied(m, id, at) ==
  [m EXCEPT !.seen = Append(@, id), !.baseline = IF kinds[id] = "Rewound" THEN at ELSE @]

\* Mutant of Complete: the last line is taken as it is.
AnyLine(f, from) == Len(f)

\* Where the last line ends behind `from`: fold stops before one without its newline.
Complete(f, from) ==
  CHOOSE end \in from..Len(f) :
    /\ end # from => end \in Ends(f)
    /\ \A later \in (end + 1)..Len(f) : later \notin Ends(f)

\* A summary brought up to the line that ends at `end`.
FoldTo(f, m, end) ==
  LET read[n \in m.scanned..end] ==
        IF n = m.scanned THEN m
        ELSE IF Parses(f, m.scanned, n) THEN Applied(read[n - 1], f[n].id, n - 1)
        ELSE read[n - 1]
  IN  [read[end] EXCEPT !.scanned = end]

\* SessionMeta::fold, when the text is good
Fold(f, m) == FoldTo(f, m, Complete(f, m.scanned))

\* Mutant of Usable: whatever the length of the log.
UsableAlways(f, c) == TRUE

\* SessionMeta::read
Usable(f, c) == c.scanned <= Len(f)

From(f, c) == IF Usable(f, c) THEN c ELSE NewMeta

\* SessionMeta::refreshed returns Ok, and what
Refreshable(f, c) == ~BadText(f, From(f, c).scanned)
Refreshed(f, c)   == Fold(f, From(f, c))

\* The cache that is read: deleted, written half or of another version, it is none.
Found == {cache, NewMeta}

Turns(m) == Cardinality({k \in DOMAIN m.seen : kinds[m.seen[k]] = "TurnStart"})

\* history_from_log: the events from the last baseline on
FromBaseline(s) ==
  LET at == CHOOSE at \in 0..Len(s) :
              /\ at # 0 => kinds[s[at]] = "Rewound"
              /\ \A later \in (at + 1)..Len(s) : kinds[s[later]] # "Rewound"
  IN  IF at = 0 THEN s ELSE SubSeq(s, at, Len(s))

-----------------------------------------------------------------------------
FileInit ==
  /\ file = <<>> /\ kinds = <<>> /\ cache = NewMeta
  /\ rec = [p \in Procs |-> Closed] /\ look = [p \in Procs |-> NoLook]
  /\ gone = FALSE /\ cuts = 0 /\ losses = 0
  /\ acked = {} /\ mixed = FALSE

\* summarize and load_session: the cache is read and caught up, and written some time later.
Refresh(p) ==
  /\ rec[p].at = "out" /\ look[p].at = "none" /\ file # <<>> /\ ~gone
  /\ \E c \in Found :
       /\ Refreshable(file, c)
       /\ look' = [look EXCEPT ![p] = [at |-> "refreshed", meta |-> Refreshed(file, c)]]
  /\ UNCHANGED <<file, kinds, cache, rec, gone, cuts, losses, acked, mixed>>

\* A load goes on to read the log from the baseline, and fails if that is no text.
LeaveCache(p) ==
  /\ look[p].at = "refreshed" /\ ~gone
  /\ cache' = look[p].meta
  /\ \/ look' = [look EXCEPT ![p] = NoLook]
     \/ /\ ~BadText(file, look[p].meta.baseline)
        /\ look' = [look EXCEPT ![p].at = "loaded"]
  /\ UNCHANGED <<file, kinds, rec, gone, cuts, losses, acked, mixed>>

\* RolloutRecorder::create, for a new session or for one just loaded; only a session
\* with a turn is offered for resuming.
Open(p) ==
  /\ rec[p].at = "out" /\ ~gone
  /\ \/ kinds = <<>> /\ \A q \in Procs : rec[q] = Closed
     \/ look[p].at = "loaded" /\ Turns(look[p].meta) > 0
  /\ \E c \in Found :
       rec' = [rec EXCEPT ![p] =
         [at |-> "starting", id |-> 0,
          meta |-> IF Refreshable(file, c) THEN Refreshed(file, c) ELSE NewMeta]]
  /\ look' = [look EXCEPT ![p] = NoLook]
  /\ UNCHANGED <<file, kinds, cache, gone, cuts, losses, acked, mixed>>

Beside(p) == \E q \in Procs \ {p} : rec[q].at \notin {"out", "exiting"}

\* RolloutRecorder::append: the log is open for appending, and a reader may see a line
\* that is half there.  The first event of a recorder is its SessionStart.
BeginWrite(p, kind, n) ==
  /\ Len(kinds) < MaxLines /\ ~gone
  /\ rec[p].at = IF kind = "SessionStart" THEN "starting" ELSE "idle"
  /\ \A q \in Procs : rec[q].at # "writing"
  /\ kinds' = Append(kinds, kind)
  /\ file' = file \o SubSeq(Line(Len(kinds')), 1, n)
  /\ rec' = [rec EXCEPT ![p].at = "writing", ![p].id = Len(kinds')]
  /\ mixed' = (mixed \/ Beside(p) \/ (file # <<>> /\ file[Len(file)].part # NewLine))
  /\ UNCHANGED <<cache, look, gone, cuts, losses, acked>>

EndWrite(p) ==
  /\ rec[p].at = "writing"
  /\ file' = IF gone THEN file ELSE file \o SubSeq(Line(rec[p].id), file[Len(file)].part + 1, NewLine)
  /\ rec' = [rec EXCEPT ![p].at = "written"]
  /\ mixed' = (mixed \/ Beside(p))
  /\ UNCHANGED <<kinds, cache, look, gone, cuts, losses, acked>>

\* The disk is full: the error reaches the turn, and the session goes on unless it was
\* its start.
FailWrite(p) ==
  /\ rec[p].at = "writing" /\ cuts < MaxCuts
  /\ rec' = [rec EXCEPT ![p].at = IF kinds[rec[p].id] = "SessionStart" THEN "failed" ELSE "idle",
                        ![p].id = 0]
  /\ cuts' = cuts + 1
  /\ UNCHANGED <<file, kinds, cache, look, gone, losses, acked, mixed>>

\* Mutant of Advanced: an event that moves the baseline is filed under where it ends.
AdvancedFirst(m, id) == Applied([m EXCEPT !.scanned = @ + NewLine], id, m.scanned + NewLine)

\* SessionMeta::append
Advanced(m, id) == [Applied(m, id, m.scanned) EXCEPT !.scanned = @ + NewLine]

\* What it wrote is folded without being read back, and stored where a listing would
\* show something else.
FoldOwn(p) ==
  /\ rec[p].at = "written"
  /\ rec' = [rec EXCEPT ![p] =
       [at |-> "idle", meta |-> Advanced(@.meta, @.id), id |-> 0]]
  /\ cache' = IF ~gone /\ kinds[rec[p].id] \in {"SessionStart", "TurnEnd"}
              THEN rec'[p].meta ELSE cache
  /\ acked' = IF gone THEN acked ELSE acked \cup {rec[p].id}
  /\ UNCHANGED <<file, kinds, look, gone, cuts, losses, mixed>>

\* Drop for RolloutRecorder: as the interface exits, as the conversation is replaced, as
\* a session could not be built, or as the task is aborted in the middle of an append.
Drop(p, next) ==
  /\ rec[p].at \in {"idle", "written", "failed"}
  /\ rec[p].at = "failed" => next = "out"
  /\ cache' = IF gone THEN cache ELSE rec[p].meta
  /\ rec' = [rec EXCEPT ![p] = [Closed EXCEPT !.at = next]]
  /\ UNCHANGED <<file, kinds, look, gone, cuts, losses, acked, mixed>>

\* Mutant of Empty: the summary is believed as it is.
EmptyAsCached(f, c) == Turns(c) = 0

\* session_summary(..).map(turns).unwrap_or(0) is 0
Empty(f, c) == ~Refreshable(f, c) \/ Turns(Refreshed(f, c)) = 0

\* The interface removes a session nothing was said in, else leaves its summary.
Exit(p) ==
  /\ rec[p].at = "exiting"
  /\ rec' = [rec EXCEPT ![p] = Closed]
  /\ \/ gone /\ UNCHANGED <<file, cache, gone>>
     \/ \E c \in Found :
          /\ ~gone /\ ~Empty(file, c)
          /\ cache' = Refreshed(file, c)
          /\ UNCHANGED <<file, gone>>
     \/ \E c \in Found :
          /\ ~gone /\ Empty(file, c)
          /\ file' = <<>> /\ cache' = NewMeta /\ gone' = TRUE
  /\ UNCHANGED <<kinds, look, cuts, losses, acked, mixed>>

\* The process is killed.
Kill(p) ==
  /\ rec[p].at # "out"
  /\ cuts' = IF rec[p].at = "writing" THEN cuts + 1 ELSE cuts
  /\ cuts' <= MaxCuts
  /\ rec' = [rec EXCEPT ![p] = Closed] /\ look' = [look EXCEPT ![p] = NoLook]
  /\ UNCHANGED <<file, kinds, cache, gone, losses, acked, mixed>>

\* The machine stops: flush leaves what was written to the system, which may lose the end
\* of the log, and keep or lose a summary that was written later.
PowerLoss(n) ==
  /\ losses < MaxLosses /\ ~gone
  /\ n < Len(file) /\ n \in {0} \cup {i \in DOMAIN file : file[i].part \in CutAt \cup {NewLine}}
  /\ losses' = losses + 1
  /\ cuts' = IF n \in Ends(file) \cup {0} THEN cuts ELSE cuts + 1
  /\ cuts' <= MaxCuts
  /\ file' = SubSeq(file, 1, n)
  /\ cache' \in {cache, NewMeta}
  /\ rec' = [p \in Procs |-> Closed] /\ look' = [p \in Procs |-> NoLook]
  /\ acked' = {id \in acked : \E e \in Ends(file') : file'[e].id = id}
  /\ UNCHANGED <<kinds, gone, mixed>>

FileNext ==
  \/ \E p \in Procs :
       \/ Refresh(p) \/ LeaveCache(p) \/ Open(p)
       \/ \E kind \in Kinds, n \in CutAt : BeginWrite(p, kind, n)
       \/ EndWrite(p) \/ FailWrite(p) \/ FoldOwn(p)
       \/ \E next \in {"exiting", "out"} : Drop(p, next)
       \/ Exit(p) \/ Kill(p)
  \/ \E n \in 0..Len(file) : PowerLoss(n)

FileSpec == FileInit /\ [][FileNext]_fileVars

-----------------------------------------------------------------------------
Clean == ~gone /\ ~mixed

IsText == ~gone /\ ~BadText(file, 0)

Summaries == {cache} \cup {rec[p].meta : p \in Procs} \cup {look[p].meta : p \in Procs}

\* The cache is derived: caught up from any summary that anyone holds or has left, at
\* whatever point of whatever append, and after a loss of power that took back more of
\* the log than of the cache, the answer is that of a whole scan.
CacheIsDerived ==
  Clean => \A m \in Summaries :
             /\ Refreshable(file, m) = Refreshable(file, NewMeta)
             /\ Refreshable(file, m) => Refreshed(file, m) = Refreshed(file, NewMeta)

\* Reading from the cached baseline rebuilds what reading from the first line does.
LoadIsWhole ==
  Clean /\ Refreshable(file, NewMeta) => \A m \in Summaries :
    FromBaseline(ReadLogFrom(file, Refreshed(file, m).baseline))
      = FromBaseline(ReadLogFrom(file, 0))

\* The summary and what is read from its baseline are those of the whole log, as long as
\* no line was begun behind a cut one or beside another recorder (meta.rs: derived state).
SummaryIsDerived == FileTypeOK /\ CacheIsDerived /\ LoadIsWhole

\* The events that are read back.
Read == LET events == ReadLogFrom(file, 0) IN {events[k] : k \in DOMAIN events}

\* A line cut short costs the next one and no more, whoever writes: every other event
\* whose append returned is still read (rollout.rs: the line is skipped).
CutsCostOneEvent == IsText => Cardinality(acked \ Read) <= cuts

\* A session is removed as the interface exits only if no turn recorded in it can be read
\* back (crates/cli/src/commands/session.rs), whatever was left of its summary, as long as
\* no line was begun behind a cut one or beside another recorder, and the log is text.
OnlyEmptyIsDeleted ==
  Clean /\ IsText => \A c \in Found :
    Empty(file, c) => \A id \in acked \cap Read : kinds[id] # "TurnStart"

\* What was said is not lost: not by a cut, and not by tidying up.
NothingSaidIsLost == CutsCostOneEvent /\ OnlyEmptyIsDeleted
=============================================================================
