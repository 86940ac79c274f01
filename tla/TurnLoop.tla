------------------------------ MODULE TurnLoop ------------------------------
(***************************************************************************)
(* One session of the engine: the turn loop, its rollout log, the abort    *)
(* flag, compaction, rewinding, snapshots, and a process that may die and  *)
(* be resumed (crates/core/src/turn.rs, session.rs, rollout.rs, resume.rs).*)
(*                                                                         *)
(* Every event is flushed as it is appended, and a death wipes whatever    *)
(* was only in memory, so one action spans one append and the in-memory    *)
(* changes that go with it.  The surface's abort (`Cancel`) and a death    *)
(* interleave anywhere.                                                    *)
(***************************************************************************)
EXTENDS SessionLog

CONSTANTS
  MaxSteps,        \* MAX_STEPS_PER_TURN: model calls one turn may make
  KeepRecent,      \* compaction.keep_recent_messages
  MaxTurns,        \* bound: turns in a behaviour
  MaxCalls,        \* bound: tool calls in one reply
  MaxFragments,    \* bound: context fragments in a behaviour
  MaxCompactions,  \* bound: compactions in a behaviour
  MaxRewinds,      \* bound: rewinds in a behaviour
  MaxDeaths,       \* bound: process deaths in a behaviour
  MaxFaults,       \* bound: appends that fail with an I/O error
  MaxEvents        \* bound: all five of the above together

ASSUME TurnLoopAssumption ==
  /\ MaxSteps \in Nat \ {0}
  /\ KeepRecent \in Nat
  /\ MaxTurns \in Nat /\ MaxCalls \in Nat /\ MaxFragments \in Nat
  /\ MaxCompactions \in Nat /\ MaxRewinds \in Nat
  /\ MaxDeaths \in Nat /\ MaxFaults \in Nat /\ MaxEvents \in Nat

VARIABLES
  log,            \* rollout.jsonl: the appended events
  replay,         \* what a reader of `log` has rebuilt (LogReplay reads it whole)
  pc,             \* where the session task is
  history,        \* Session::history
  snapshots,      \* Session::snapshots, by user ordinal
  snapshotTaken,  \* Session::snapshot_taken
  cancelled,      \* Session::flag
  turn,           \* the current turn's id: turns started so far
  step,           \* step of run_steps' loop
  calls,          \* calls of the reply being assembled or dispatched
  done,           \* how many of them have a recorded result
  aborted,        \* a reviewer aborted one of them
  \* observability
  late,           \* requests made in this turn with the abort flag raised
  diverged,       \* halves of the session a failed append split from the log
  used            \* how much of each bound has been spent

disk   == <<log, replay>>
batch  == <<calls, done, aborted>>
memory == <<pc, history, snapshots, snapshotTaken, cancelled, step, batch>>
vars   == <<log, replay, pc, history, snapshots, snapshotTaken, cancelled, turn,
            step, calls, done, aborted, late, diverged, used>>

PC == {"down", "idle", "preparing", "context", "streaming", "calling",
       "snapshotting", "dispatching", "ending", "failing"}

\* The phases of a turn that hold an open tool batch.
InBatch == pc \in {"calling", "snapshotting", "dispatching"}

Spendable == {"fragment", "compaction", "rewind", "death", "fault"}

TypeOK ==
  /\ log \in Seq(Event)
  /\ replay \in Replayed
  /\ pc \in PC
  /\ history \in Seq(Message)
  /\ snapshots \in SUBSET Entry
  /\ snapshotTaken \in BOOLEAN
  /\ cancelled \in BOOLEAN
  /\ turn \in Nat
  /\ step \in 0..(MaxSteps - 1)
  /\ calls \in Seq(CallId)
  /\ done \in Nat
  /\ aborted \in BOOLEAN
  /\ late \in Nat
  /\ diverged \in SUBSET {"history", "snapshots"}
  /\ used \in [Spendable -> Nat]

-----------------------------------------------------------------------------
(* Helpers *)

\* RolloutRecorder::append: the line is on disk, and a reader would fold it.
Log(e) == log' = Append(log, e) /\ replay' = Apply(replay, e)

Limit == [fragment |-> MaxFragments, compaction |-> MaxCompactions,
          rewind |-> MaxRewinds, death |-> MaxDeaths, fault |-> MaxFaults]

\* The bounds allow one more event of this kind.
Room(what) ==
  /\ used[what] < Limit[what]
  /\ used.fragment + used.compaction + used.rewind + used.death + used.fault < MaxEvents

Spend(what) == Room(what) /\ used' = [used EXCEPT ![what] = @ + 1]

Forget == calls' = <<>> /\ done' = 0 /\ aborted' = FALSE

-----------------------------------------------------------------------------
Init ==
  /\ log = <<Plain("SessionStart")>>
  /\ replay = NothingRead
  /\ pc = "idle"
  /\ history = <<>>
  /\ snapshots = {}
  /\ snapshotTaken = FALSE
  /\ cancelled = FALSE
  /\ turn = 0 /\ step = 0
  /\ calls = <<>> /\ done = 0 /\ aborted = FALSE
  /\ late = 0
  /\ diverged = {}
  /\ used = [w \in Spendable |-> 0]

-----------------------------------------------------------------------------
(* A turn *)

\* run_turn up to the first await of run_steps: the abort flag is cleared, the
\* input is logged, then pushed.
StartTurn ==
  /\ pc = "idle" /\ turn < MaxTurns
  /\ turn' = turn + 1
  /\ cancelled' = FALSE
  /\ Log(Say("TurnStart", Input(turn + 1)))
  /\ history' = Append(history, Input(turn + 1))
  /\ snapshotTaken' = FALSE
  /\ step' = 0 /\ late' = 0
  /\ pc' = "preparing"
  /\ UNCHANGED <<snapshots, batch, diverged, used>>

\* Its TurnStart could not be appended: the flag is cleared and nothing is pushed.
StartFails ==
  /\ pc = "idle" /\ Spend("fault")
  /\ cancelled' = FALSE
  /\ UNCHANGED <<disk, pc, history, snapshots, snapshotTaken, turn, step, batch, late,
                 diverged>>

\* split_for_compaction: a tail to keep and more than one message before it.
CanCompact == Len(history) > KeepRecent /\ Len(history) - KeepRecent > 1

\* Mutant of Retained: logs how many messages went, not how many stay.
RemovedInstead == Len(history) - KeepRecent

\* `retained_messages`, as the event says it.
Retained == KeepRecent

\* compact_history once the summary came back: logged, then swapped in.
Compact ==
  /\ CanCompact
  /\ Spend("compaction")
  /\ Log(Compacted(Summary(turn), Retained))
  /\ history' = <<Summary(turn)>> \o LastMessages(history, KeepRecent)
  /\ UNCHANGED <<snapshots, snapshotTaken, cancelled, turn, step, batch, late, diverged>>

\* compact_if_needed: over budget, and the summary succeeded.
CompactBeforeTurn == pc = "preparing" /\ Compact /\ pc' = "context"

\* Under budget, nothing to split, or a summary that failed: not fatal.
SkipCompaction ==
  /\ pc = "preparing" /\ pc' = "context"
  /\ UNCHANGED <<disk, history, snapshots, snapshotTaken, cancelled, turn, step,
                 batch, late, diverged, used>>

\* compact_now, at a person's request.
CompactNow == pc = "idle" /\ Compact /\ UNCHANGED pc

\* One step-context fragment: logged, then pushed as a user message.
AddContext ==
  /\ pc = "context"
  /\ Spend("fragment")
  /\ Log(Say("ContextMessage", Context(turn)))
  /\ history' = Append(history, Context(turn))
  /\ UNCHANGED <<pc, snapshots, snapshotTaken, cancelled, turn, step, batch, late, diverged>>

\* The request is logged at the first step, and later when its settings changed.
Request ==
  /\ pc = "context"
  /\ \/ Log(Plain("ModelRequest"))
     \/ step # 0 /\ UNCHANGED disk
  /\ pc' = "streaming"
  /\ Forget
  /\ late' = IF cancelled THEN late + 1 ELSE late
  /\ UNCHANGED <<history, snapshots, snapshotTaken, cancelled, turn, step, diverged, used>>

\* Mutant of Listening: the stream is read to its end whatever the flag says.
ListensOn == pc = "streaming"

\* The flag is looked at before every chunk.
Listening == pc = "streaming" /\ ~cancelled

\* stream_one_step: a chunk that opens a tool call.
StreamCall ==
  /\ Listening /\ Len(calls) < MaxCalls
  /\ calls' = Append(calls, [turn |-> turn, step |-> step, index |-> Len(calls) + 1])
  /\ UNCHANGED <<disk, pc, history, snapshots, snapshotTaken, cancelled, turn, step,
                 done, aborted, late, diverged, used>>

\* Mutant of AfterReply: a reply without calls opens a batch like any other.
AlwaysABatch == "calling"

\* A reply without calls ends the turn.
AfterReply == IF calls = <<>> THEN "ending" ELSE "calling"

\* The stream finished, or the flag was seen and what was assembled is the
\* reply: its calls are dispatched in both cases.
Respond ==
  /\ pc = "streaming"
  /\ Log(Say("ModelResponse", Reply(turn, calls)))
  /\ history' = Append(history, Reply(turn, calls))
  /\ pc' = AfterReply
  /\ UNCHANGED <<snapshots, snapshotTaken, cancelled, turn, step, batch, late,
                 diverged, used>>

\* A provider error that is not, or no longer, retried.
StreamFails ==
  /\ pc = "streaming" /\ pc' = "failing"
  /\ Forget
  /\ UNCHANGED <<disk, history, snapshots, snapshotTaken, cancelled, turn, step,
                 late, diverged, used>>

\* The next call of the batch.  The abort flag is not looked at here.  A call
\* that may write, the turn's first, takes the snapshot before it runs.
BeginCall ==
  /\ pc = "calling" /\ done < Len(calls)
  /\ Log(CallStart(calls[done + 1]))
  /\ \/ pc' = "dispatching"
     \/ ~snapshotTaken /\ pc' = "snapshotting"
  /\ UNCHANGED <<history, snapshots, snapshotTaken, cancelled, turn, step, batch, late,
                 diverged, used>>

\* Mutant of Here: numbered by the next input instead of this turn's.
HereCountsAhead == UserCount(history)

\* checkpoint_before: numbered by the user messages in the history, saturating.
Here == IF UserCount(history) = 0 THEN 0 ELSE UserCount(history) - 1

TakeSnapshot ==
  /\ pc = "snapshotting" /\ pc' = "dispatching"
  /\ snapshotTaken' = TRUE
  /\ \/ \* no store, nothing to record, or a store that failed
        UNCHANGED <<disk, snapshots, diverged, used>>
     \/ /\ Log(Checkpoint(Here, turn))
        /\ snapshots' = Insert(snapshots, Here, turn)
        /\ UNCHANGED <<diverged, used>>
     \/ \* taken, but the append failed: only warned about
        /\ Spend("fault")
        /\ snapshots' = Insert(snapshots, Here, turn)
        /\ diverged' = diverged \cup {"snapshots"}
        /\ UNCHANGED disk
  /\ UNCHANGED <<history, cancelled, turn, step, batch, late>>

\* Mutant of AfterBatch: one step too many.
OneStepTooMany(stopping) ==
  IF stopping THEN pc' = "ending" /\ UNCHANGED step
  ELSE IF step = MaxSteps THEN pc' = "failing" /\ UNCHANGED step
  ELSE pc' = "context" /\ step' = step + 1

\* What follows a batch whose results were pushed.
AfterBatch(stopping) ==
  IF stopping THEN pc' = "ending" /\ UNCHANGED step
  ELSE IF step + 1 = MaxSteps THEN pc' = "failing" /\ UNCHANGED step
  ELSE pc' = "context" /\ step' = step + 1

\* Mutant of BatchOver: an abort leaves the batch before its last call.
BatchOverOnAbort(abort) == abort \/ done + 1 >= Len(calls)

\* Every call of the reply is dispatched, whatever became of the ones before.
BatchOver(abort) == done + 1 >= Len(calls)

\* dispatch answered: its result is logged, and the last one of a batch pushes
\* the batch as one tool message.
EndCall ==
  /\ pc = "dispatching"
  /\ Log(CallEnd(calls[done + 1]))
  /\ \E abort \in BOOLEAN :
       IF ~BatchOver(abort)
       THEN /\ done' = done + 1 /\ aborted' = (aborted \/ abort)
            /\ pc' = "calling"
            /\ UNCHANGED <<calls, history, step>>
       ELSE /\ history' = Append(history, Results(SubSeq(calls, 1, done + 1)))
            /\ AfterBatch(aborted \/ abort \/ cancelled)
            /\ Forget
  /\ UNCHANGED <<snapshots, snapshotTaken, cancelled, turn, late, diverged, used>>

EndTurn ==
  /\ pc = "ending" /\ pc' = "idle"
  /\ Log(Plain("TurnEnd"))
  /\ UNCHANGED <<history, snapshots, snapshotTaken, cancelled, turn, step, batch, late,
                 diverged, used>>

FailTurn ==
  /\ pc = "failing" /\ pc' = "idle"
  /\ Log(Plain("Error"))
  /\ UNCHANGED <<history, snapshots, snapshotTaken, cancelled, turn, step, batch, late,
                 diverged, used>>

\* An append failed inside run_steps, or its own TurnEnd or Error did.  Results
\* already logged for an open batch never reach the history.
AppendFails ==
  /\ pc \in {"preparing", "context", "streaming", "calling", "dispatching", "ending", "failing"}
  /\ Spend("fault")
  /\ pc' = IF pc \in {"ending", "failing"} THEN "idle" ELSE "failing"
  /\ diverged' = IF InBatch /\ done > 0 THEN diverged \cup {"history"} ELSE diverged
  /\ Forget
  /\ UNCHANGED <<disk, history, snapshots, snapshotTaken, cancelled, turn, step, late>>

-----------------------------------------------------------------------------
(* Rewinding *)

\* Mutant of Survivors: the turn wound back keeps its snapshot.
SurvivorsAndOne(at) == RetainBelow(snapshots, Ordinal(history, at) + 1)

\* The turns that go take their snapshots with them.
Survivors(at) == RetainBelow(snapshots, Ordinal(history, at))

\* rewind_to_user_turn at the user message in position `at`: the files are
\* restored first (a failure changes nothing), then the conversation is cut,
\* then the event is logged -- or the append fails and the cut stays.
Rewind(at, conversation) ==
  /\ pc = "idle"
  /\ IsUser(history[at])
  /\ history' = IF conversation THEN SubSeq(history, 1, at - 1) ELSE history
  /\ snapshots' = IF conversation THEN Survivors(at) ELSE snapshots
  /\ \/ /\ Log(Rewound(conversation, SubSeq(history, 1, at - 1)))
        /\ Spend("rewind")
        /\ diverged' = IF conversation THEN diverged \ {"history"} ELSE diverged
     \/ /\ UNCHANGED disk
        /\ Room("rewind") /\ Room("fault")
        /\ used' = [used EXCEPT !["rewind"] = @ + 1, !["fault"] = @ + 1]
        /\ diverged' = IF conversation THEN {"history", "snapshots"} ELSE diverged
  /\ UNCHANGED <<pc, snapshotTaken, cancelled, turn, step, batch, late>>

-----------------------------------------------------------------------------
(* The surface and the process *)

\* Session::cancel, from another task.
Cancel ==
  /\ pc # "down" /\ ~cancelled
  /\ cancelled' = TRUE
  /\ UNCHANGED <<disk, pc, history, snapshots, snapshotTaken, turn, step, batch, late,
                 diverged, used>>

\* The process is killed, or quits between turns: only the log survives.
Die ==
  /\ pc # "down"
  /\ Spend("death")
  /\ pc' = "down"
  /\ history' = <<>> /\ snapshots' = {} /\ snapshotTaken' = FALSE
  /\ cancelled' = FALSE /\ step' = 0 /\ late' = 0 /\ diverged' = {}
  /\ Forget
  /\ UNCHANGED <<disk, turn>>

\* load_session and SessionBuilder::build: rebuilt from the log.
Resume ==
  /\ pc = "down" /\ pc' = "idle"
  /\ Log(Plain("SessionStart"))
  /\ history' = Flush(replay)
  /\ snapshots' = replay.snapshots
  /\ UNCHANGED <<snapshotTaken, cancelled, turn, step, batch, late, diverged, used>>

-----------------------------------------------------------------------------
TurnStep ==
  \/ SkipCompaction \/ CompactBeforeTurn \/ AddContext \/ Request
  \/ StreamCall \/ Respond \/ StreamFails
  \/ BeginCall \/ TakeSnapshot \/ EndCall
  \/ EndTurn \/ FailTurn \/ AppendFails

BetweenTurns ==
  \/ StartFails \/ CompactNow
  \/ \E at \in 1..Len(history), conversation \in BOOLEAN : Rewind(at, conversation)

Next == StartTurn \/ TurnStep \/ BetweenTurns \/ Cancel \/ Die \/ Resume

Spec == Init /\ [][Next]_vars

\* The session task is polled until its turn ends: every await of a turn
\* returns (a stream ends or fails, a tool call answers).  Nothing obliges a
\* person to prompt, cancel, rewind or resume.
FairSpec == Spec /\ WF_vars(TurnStep)
-----------------------------------------------------------------------------
(* Properties *)

\* The promise of crates/core/src/resume.rs:3 (invariant 6): what a reader
\* rebuilds from the log is what the live session holds.  While a batch is open
\* the log is ahead by exactly the results recorded so far.  Only the appends
\* that `diverged` records ever break it.
ReplayMatchesHistory ==
  pc # "down" /\ "history" \notin diverged =>
    IF InBatch
    THEN replay.history = history /\ replay.results = SubSeq(calls, 1, done)
    ELSE Flush(replay) = history

\* The snapshots a resumed session would offer are the live ones.
SnapshotsSurviveRestart ==
  pc # "down" /\ "snapshots" \notin diverged => replay.snapshots = snapshots

\* Every tool call of a reply is answered by the tool message right after it.
CallsAnswered(h) ==
  \A i \in 1..Len(h) :
    h[i].kind = "reply" /\ h[i].parts # <<>> =>
      i < Len(h) /\ h[i + 1] = Results(h[i].parts)

\* Cancels, aborts, compactions and rewinds never separate a call from its
\* answer; only a death or a failed append in the middle of a batch does.
NothingLeftUnanswered ==
  pc # "down" /\ ~InBatch /\ used.death = 0 /\ used.fault = 0 =>
    CallsAnswered(history)

\* Until something is compacted or an append fails, the ordinal a snapshot is filed under is that
\* of a user message of the very turn the snapshot was taken in.
SnapshotsNameTheirTurn ==
  used.compaction = 0 /\ used.fault = 0 =>
    \A s \in snapshots :
      \E at \in 1..Len(history) :
        /\ IsUser(history[at]) /\ Ordinal(history, at) = s.ordinal
        /\ history[at].turn = s.turn

\* An abort lets at most one more step's request out, the one already being built,
\* and no tool call comes of it.
AbortStopsRequests == late <= 1 /\ (late = 1 => calls = <<>>)

\* A started turn comes to an end (or its process dies): the step limit and the
\* finite batch leave no way to go round forever.
TurnEnds == pc \notin {"idle", "down"} ~> pc \in {"idle", "down"}

\* A call of an open batch is left to answer; a reply being streamed has answered
\* none: the bookkeeping of the batch loop of run_steps.
BatchOK ==
  /\ InBatch => done < Len(calls)
  /\ pc = "streaming" => done = 0

\* The inductive strengthening of the two replay invariants.
TurnInv == TypeOK /\ BatchOK /\ ReplayMatchesHistory /\ SnapshotsSurviveRestart
=============================================================================
