---------------------------- MODULE SubagentHost ----------------------------
(***************************************************************************)
(* The coordinator of a session's subagents (crates/subagent/src/host.rs), *)
(* the tools that spawn, collect and kill them (tools.rs of subagent and   *)
(* tasks), and the step context that delivers finished reports (lib.rs).   *)
(*                                                                         *)
(* A parent's turn calls one tool at a time.  Each child is a task of its  *)
(* own on a multi-threaded runtime: it moves between the parent's locks.   *)
(* An abort reaches a child at its next await, so one that already holds   *)
(* its report goes on to publish it.                                       *)
(***************************************************************************)
EXTENDS Naturals, FiniteSets

CONSTANTS
  MaxAgents,      \* bound: the children of a behaviour, recorded ones included
  MaxConcurrent,  \* SubagentLimits::max_concurrent
  Recorded,       \* children restored from the resumed parent's log
  MaxTurns,       \* bound: parent turns
  MaxResets       \* bound: conversations replaced

Agents == 1..MaxAgents

ASSUME SubagentAssumption ==
  /\ MaxAgents \in Nat /\ MaxConcurrent \in Nat \ {0}
  /\ Recorded \in 0..MaxAgents /\ MaxTurns \in Nat /\ MaxResets \in Nat

\* AgentStatus, and a task that was aborted: it ends with a JoinError, not a report.
Statuses == {"completed", "failed", "timed_out", "cancelled"}
Outcomes == Statuses \cup {"lost"}

VARIABLES
  spawned,      \* SubagentHost::next, less one
  conversation, \* parent conversations so far: each reset starts one
  turn,         \* parent turns so far
  on,           \* a parent turn is running
  cancelled,    \* the parent session's abort flag, what parent_cancelled reads
  doing,        \* what the parent's tool call is at, and for which child
  stage,        \* per child: where its task is
  outcome,      \* per child: how it ended
  permits,      \* free permits of the pool
  doomed,       \* children abort() was called on
  aborts,       \* SubagentHost::aborts
  slots,        \* SubagentHost::slots
  held,         \* HeldSlots of the wait in progress
  row,          \* SubagentHost::progress
  \* observability
  parent,       \* per child: the conversation that spawned it
  delivered,    \* children whose report, or loss, the parent's model was told
  dropped       \* children whose report was taken and thrown away

children == <<stage, outcome, permits>>
tables   == <<doomed, aborts, slots, held, row>>
fate     == <<delivered, dropped>>
session  == <<spawned, conversation, turn, on, cancelled, parent>>
vars     == <<spawned, conversation, turn, on, cancelled, doing, stage, outcome, permits,
              doomed, aborts, slots, held, row, parent, delivered, dropped>>

\* `noting` holds its report and has still to publish it.
Stages == {"none", "queued", "opening", "working", "noting", "ended"}

Idle == [at |-> "idle", agent |-> 0]
Doing == [at : {"idle", "spawn_abort", "spawn_row", "spawn_slot", "collect", "within", "kill"},
          agent : Agents \cup {0}]

TypeOK ==
  /\ spawned \in 0..MaxAgents /\ conversation \in 0..MaxResets /\ turn \in 0..MaxTurns
  /\ on \in BOOLEAN /\ cancelled \in BOOLEAN /\ doing \in Doing
  /\ stage \in [Agents -> Stages] /\ outcome \in [Agents -> Outcomes \cup {"none"}]
  /\ permits \in 0..MaxConcurrent
  /\ doomed \subseteq Agents /\ aborts \subseteq Agents
  /\ slots \subseteq Agents /\ held \subseteq Agents
  /\ row \in [Agents -> Statuses \cup {"none", "live"}]
  /\ parent \in [Agents -> 0..MaxResets]
  /\ delivered \subseteq Agents /\ dropped \subseteq Agents

Init ==
  /\ spawned = Recorded /\ conversation = 0 /\ turn = 0
  /\ on = FALSE /\ cancelled = FALSE /\ doing = Idle
  /\ stage = [a \in Agents |-> "none"] /\ outcome = [a \in Agents |-> "none"]
  /\ permits = MaxConcurrent
  /\ doomed = {} /\ aborts = {} /\ slots = {} /\ held = {}
  /\ row = [a \in Agents |-> IF a <= Recorded THEN "completed" ELSE "none"]
  /\ parent = [a \in Agents |-> 0]
  /\ delivered = {} /\ dropped = {}

-----------------------------------------------------------------------------
(* The parent *)

Free == on /\ doing = Idle

\* run_turn clears the flag of the turn before.
StartTurn ==
  /\ ~on /\ turn < MaxTurns
  /\ on' = TRUE /\ turn' = turn + 1 /\ cancelled' = FALSE
  /\ UNCHANGED <<spawned, conversation, parent, doing, children, tables, fate>>

EndTurn ==
  /\ Free
  /\ on' = FALSE
  /\ UNCHANGED <<spawned, conversation, turn, cancelled, parent, doing, children, tables, fate>>

Cancel ==
  /\ ~cancelled /\ cancelled' = TRUE
  /\ UNCHANGED <<spawned, conversation, turn, on, parent, doing, children, tables, fate>>

\* spawn_titled, lock by lock: the task is running before the host has a row for it.
SpawnTask ==
  LET a == spawned + 1
  IN /\ Free /\ spawned < MaxAgents
     /\ spawned' = a
     /\ stage' = [stage EXCEPT ![a] = "queued"]
     /\ parent' = [parent EXCEPT ![a] = conversation]
     /\ doing' = [at |-> "spawn_abort", agent |-> a]
     /\ UNCHANGED <<conversation, turn, on, cancelled, outcome, permits, tables, fate>>

SpawnAbort ==
  /\ doing.at = "spawn_abort"
  /\ aborts' = aborts \cup {doing.agent}
  /\ doing' = [doing EXCEPT !.at = "spawn_row"]
  /\ UNCHANGED <<session, children, doomed, slots, held, row, fate>>

SpawnRow ==
  /\ doing.at = "spawn_row"
  /\ row' = [row EXCEPT ![doing.agent] = "live"]
  /\ doing' = [doing EXCEPT !.at = "spawn_slot"]
  /\ UNCHANGED <<session, children, doomed, aborts, slots, held, fate>>

\* With `wait` the call goes on to collect: it takes the slot it has just filed.
SpawnSlot ==
  /\ doing.at = "spawn_slot"
  /\ \/ slots' = slots \cup {doing.agent} /\ doing' = Idle /\ UNCHANGED held
     \/ held' = {doing.agent} /\ doing' = [doing EXCEPT !.at = "collect"] /\ UNCHANGED slots
  /\ UNCHANGED <<session, children, doomed, aborts, row, fate>>

\* collect_within: one child, or every outstanding one.
StartWait(ids) ==
  /\ Free
  /\ ids \subseteq slots /\ ids # {}
  /\ held' = ids /\ slots' = slots \ ids
  /\ doing' = [at |-> "within", agent |-> 0]
  /\ UNCHANGED <<session, children, doomed, aborts, row, fate>>

Waiting == doing.at \in {"collect", "within"}

\* Mutant of Back: a child still running when the wait ends is let go.
LetGo(pending) == {}

\* return_slot: what did not finish is put back under its own name.
Back(pending) == pending

\* What the model is told of: one lost child fails the whole call.
Told(done) ==
  IF \E a \in done : outcome[a] = "lost" THEN {a \in done : outcome[a] = "lost"} ELSE done

\* Mutant of Forgotten: the handles of all that were waited for.
ForgottenAll(done) == held

\* forget_abort: the handles of those taken.
Forgotten(done) == done

\* The wait is over: some child has finished, and what else is found finished comes along.
FinishWait ==
  /\ Waiting
  /\ \E done \in SUBSET held :
       /\ done # {} /\ \A a \in done : stage[a] = "ended"
       /\ slots' = slots \cup Back(held \ done)
       /\ aborts' = aborts \ Forgotten(done)
       /\ delivered' = delivered \cup Told(done)
       /\ dropped' = dropped \cup (done \ Told(done))
  /\ held' = {} /\ doing' = Idle
  /\ UNCHANGED <<session, children, doomed, row>>

\* The budget of collect_within ran out, or the parent's cancel was polled: HeldSlots is
\* dropped.
GiveUp ==
  /\ Waiting /\ (cancelled \/ doing.at = "within")
  /\ slots' = slots \cup Back(held)
  /\ held' = {} /\ doing' = Idle
  /\ UNCHANGED <<session, children, doomed, aborts, row, fate>>

\* Slots left once the ready ones are taken.
Kept(ready) == slots \ ready

\* collect_ready at a model request: every finished child is taken; a lost one is
\* reported as failed.
DeliverReady ==
  LET ready == {a \in slots : stage[a] = "ended"}
  IN /\ Free /\ ready # {}
     /\ slots' = Kept(ready) /\ aborts' = aborts \ ready
     /\ delivered' = delivered \cup ready
     /\ UNCHANGED <<session, doing, children, doomed, held, row, dropped>>

\* kill_task: the abort first, under its lock, and then the row.
KillAbort(a) ==
  /\ Free /\ a \in aborts
  /\ doomed' = doomed \cup {a}
  /\ doing' = [at |-> "kill", agent |-> a]
  /\ UNCHANGED <<session, children, aborts, slots, held, row, fate>>

\* Mutant of Note: a row that is gone is written anew.
NoteAlways(a, status) == row' = [row EXCEPT ![a] = status]

\* note_finished: a row that is not there stays away.
Note(a, status) == row' = IF row[a] = "none" THEN row ELSE [row EXCEPT ![a] = status]

KillNote ==
  /\ doing.at = "kill"
  /\ Note(doing.agent, "cancelled")
  /\ doing' = Idle
  /\ UNCHANGED <<session, children, doomed, aborts, slots, held, fate>>

\* Slots left after a reset.
Retired == {}

\* reset: the conversation is replaced, and its children with it.
Reset ==
  /\ ~on /\ conversation < MaxResets
  /\ conversation' = conversation + 1 /\ cancelled' = FALSE
  /\ doomed' = doomed \cup aborts \cup slots
  /\ aborts' = {} /\ slots' = Retired
  /\ row' = [a \in Agents |-> "none"]
  /\ UNCHANGED <<spawned, turn, on, parent, doing, children, held, fate>>

-----------------------------------------------------------------------------
(* A child *)

\* A child that abort() was not called on goes on to its next await.
Goes(a, from) == stage[a] = from /\ a \notin doomed

To(a, at, status) ==
  /\ stage' = [stage EXCEPT ![a] = at]
  /\ outcome' = [outcome EXCEPT ![a] = status]

\* Mutant of GiveBack: a child that is stopped keeps its permit.
KeepPermit == permits

\* The permit is dropped with run_one, however that ends.
GiveBack == permits + 1

\* The queued child's poll of the parent's flag.
LeaveQueue(a) ==
  /\ Goes(a, "queued") /\ cancelled
  /\ To(a, "noting", "cancelled")
  /\ UNCHANGED <<session, doing, permits, tables, fate>>

HasPermit == permits > 0

\* A permit; the flag is read once more before the session is built.
Acquire(a) ==
  /\ Goes(a, "queued") /\ HasPermit /\ ~cancelled
  /\ To(a, "opening", "none")
  /\ permits' = permits - 1
  /\ UNCHANGED <<session, doing, tables, fate>>

\* The session is built, or could not be.
Open(a) ==
  /\ Goes(a, "opening")
  /\ \/ To(a, "working", "none") /\ UNCHANGED permits
     \/ To(a, "noting", "failed") /\ permits' = GiveBack
  /\ UNCHANGED <<session, doing, tables, fate>>

\* The child's turn ends: by itself, by the watchdog's cancel, by failing, or at its budget.
TurnEnds(a) ==
  /\ Goes(a, "working")
  /\ \E status \in {"completed", "failed", "timed_out"} : To(a, "noting", status)
  /\ permits' = GiveBack
  /\ UNCHANGED <<session, doing, tables, fate>>

\* Mutant of Published: a child that comes to its end is shown as completed.
PublishedDone(a) == "completed"

Published(a) == outcome[a]

\* The end of run_child: nothing is awaited here, so an abort comes too late.
Publish(a) ==
  /\ stage[a] = "noting"
  /\ Note(a, Published(a))
  /\ stage' = [stage EXCEPT ![a] = "ended"]
  /\ UNCHANGED <<session, doing, outcome, permits, doomed, aborts, slots, held, fate>>

\* The abort lands: no report, and no row is written.
Aborted(a) ==
  /\ a \in doomed /\ stage[a] \in {"queued", "opening", "working"}
  /\ To(a, "ended", "lost")
  /\ permits' = IF stage[a] = "queued" THEN permits ELSE GiveBack
  /\ UNCHANGED <<session, doing, tables, fate>>

-----------------------------------------------------------------------------
ParentStep ==
  \/ StartTurn \/ EndTurn \/ Cancel
  \/ SpawnTask \/ SpawnAbort \/ SpawnRow \/ SpawnSlot
  \/ StartWait(slots) \/ \E a \in Agents : StartWait({a})
  \/ FinishWait \/ GiveUp \/ DeliverReady
  \/ (\E a \in Agents : KillAbort(a)) \/ KillNote \/ Reset

ChildStep(a) ==
  LeaveQueue(a) \/ Acquire(a) \/ Open(a) \/ TurnEnds(a) \/ Publish(a) \/ Aborted(a)

Next == ParentStep \/ \E a \in Agents : ChildStep(a)

Spec == Init /\ [][Next]_vars

\* The runtime runs every task that can go on; a child's turn ends within its budget, a
\* bounded wait within its own, and the poll of the flag comes round.  Nothing is assumed
\* of the model or of the person.
FairSpec ==
  /\ Spec
  /\ \A a \in Agents : WF_vars(ChildStep(a))
  /\ WF_vars(SpawnAbort \/ SpawnRow \/ SpawnSlot \/ KillNote)
  /\ WF_vars(FinishWait)

-----------------------------------------------------------------------------
(* Properties *)

\* Children of the conversation in progress.
Current == {a \in Agents : stage[a] # "none" /\ parent[a] = conversation}

\* The child the parent is in the middle of spawning.
Spawning ==
  IF doing.at \in {"spawn_abort", "spawn_row", "spawn_slot"} THEN {doing.agent} ELSE {}

\* What became of a child is known once and in one place: a child the host still owes the
\* model is in the slots, held by the wait in progress, or being spawned (host.rs:97).
AccountedOnce ==
  LET places == <<slots, held, delivered, dropped, Spawning>>
  IN  \A a \in Current : \E i \in DOMAIN places :
        a \in places[i] /\ \A j \in DOMAIN places \ {i} : a \notin places[j]

\* A conversation that was replaced leaves nothing behind: no child of it is listed,
\* waiting to be collected or stoppable, however late its task ends (host.rs:204).
ResetRetires ==
  \A a \in Agents \ Current :
    /\ a \notin slots \cup held \cup aborts
    /\ row[a] # "none" => a <= Recorded /\ conversation = 0

\* A child still outstanding can be stopped, also while its report is awaited
\* (architecture.md:280).
OutstandingCanBeStopped ==
  \A a \in slots \cup held : a \in aborts

\* A row tells how its child ended, or that someone stopped it.
RowsAreTrue ==
  \A a \in Current :
    /\ row[a] \in Statuses \ {"cancelled"} => stage[a] = "ended" /\ row[a] = outcome[a]
    /\ row[a] = "cancelled" => a \in doomed \/ outcome[a] = "cancelled"

\* Every child ends, those waiting for a permit included, and a wait for one with it.
ChildrenEnd ==
  /\ \A a \in Agents : stage[a] = "queued" ~> stage[a] = "ended"
  /\ doing.at = "collect" ~> doing.at # "collect"

\* The books of the host: a child is in one place, and stoppable while its report
\* is owed, so that none is lost track of between a wait, a kill and a delivery, and one
\* of a replaced conversation is in none.
HostInv == TypeOK /\ AccountedOnce /\ OutstandingCanBeStopped /\ ResetRetires
=============================================================================
