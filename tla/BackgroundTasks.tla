-------------------------- MODULE BackgroundTasks --------------------------
(***************************************************************************)
(* The background commands of a session (crates/tasks/src/commands.rs) and *)
(* the tools that start, read, wait for and stop them (tools.rs, and bash  *)
(* with `background: true`).                                               *)
(*                                                                         *)
(* Callers are agents whose tool calls run at the same time, the parent    *)
(* and its subagents, which share one registry on a multi-threaded         *)
(* runtime.  Every command has a waiter task and pumps.  `slots` and       *)
(* `order` are behind locks of their own; a step that takes one lock and   *)
(* gives it back is one action, a lock kept across steps has an owner.     *)
(*                                                                         *)
(* Output is counted in lines, numbered in the order the pumps read them:  *)
(* how stdout and stderr interleave makes no difference here, nor how long *)
(* a line stays in its pipe.                                               *)
(***************************************************************************)
EXTENDS Naturals, Sequences, FiniteSets, SequencesExt

CONSTANTS
  Callers,        \* agents that call tools
  MaxConcurrent,  \* BackgroundLimits::max_concurrent
  Cap,            \* BackgroundLimits::output_bytes, in lines
  MaxTasks,       \* bound: commands started
  MaxLines,       \* bound: lines one command writes
  MaxCalls        \* bound: tool calls in all

Ids     == 1..MaxTasks
Threads == ({"caller"} \X Callers) \cup ({"waiter"} \X Ids)
Nobody  == <<>>

ASSUME BackgroundAssumption ==
  /\ MaxConcurrent \in Nat \ {0} /\ Cap \in Nat \ {0}
  /\ MaxTasks \in Nat /\ MaxLines \in Nat /\ MaxCalls \in Nat
  /\ IsFiniteSet(Callers)

VARIABLES
  slots,      \* BackgroundTasks::slots
  order,      \* BackgroundTasks::order
  next,       \* BackgroundTasks::next, less one
  slotsLock,  \* who holds the lock of `slots` across steps
  orderLock,  \* who holds the lock of `order` across steps
  call,       \* per caller: the tool call it is in
  calls,      \* tool calls made
  pub,        \* per thread: where its snapshots() or publish() is
  waiter,     \* per command: where its waiter task is
  shell,      \* per command: its shell runs
  kin,        \* per command: something its shell started may run
  pumped,     \* per command: lines its pumps, or note(), put in the slot
  \* observability
  read,       \* per command: how many lines readers were given
  told,       \* per command: how many lines readers were told they missed
  heard       \* commands some message to the watchers showed as ended

tables == <<slots, order, next, slotsLock, orderLock>>
output == <<pumped, read, told>>
world  == <<shell, kin>>
vars   == <<slots, order, next, slotsLock, orderLock, call, calls, pub, waiter, shell,
            kin, pumped, read, told, heard>>

\* Slot.  The sender of the kill channel is held, was sent on, or is gone.
Slots == [state   : {"running", "exited", "killed"},
          pending : Seq(1..MaxLines + 1),
          dropped : Nat,
          kill    : {"held", "sent", "gone"}]

Idle  == [at |-> "idle", task |-> 0, todo |-> {}]
Quiet == [at |-> "quiet", todo |-> <<>>, ended |-> {}]

TypeOK ==
  /\ slots \in [DOMAIN slots -> Slots] /\ DOMAIN slots \subseteq 1..next
  /\ ToSet(order) = DOMAIN slots /\ Len(order) = Cardinality(DOMAIN slots)
  /\ next \in 0..MaxTasks /\ calls \in 0..MaxCalls
  /\ slotsLock \in Threads \cup {Nobody} /\ orderLock \in Threads \cup {Nobody}
  /\ call \in [Callers -> [at : {"idle", "fork", "slots", "insert", "started", "listing",
                                 "draining", "taking"},
                           task : 0..MaxTasks, todo : SUBSET Ids]]
  /\ pub \in [Threads -> [at : {"quiet", "order", "rows", "send"},
                          todo : Seq(Ids), ended : SUBSET Ids]]
  /\ waiter \in [Ids -> {"off", "select", "grace", "exited", "killed", "finished", "gone"}]
  /\ shell \in [Ids -> BOOLEAN] /\ kin \in [Ids -> BOOLEAN]
  /\ pumped \in [Ids -> 0..MaxLines + 1]
  /\ read \in [Ids -> Nat] /\ told \in [Ids -> Nat]
  /\ heard \subseteq Ids
  /\ \A t \in DOMAIN slots : Len(slots[t].pending) <= Cap

Init ==
  /\ slots = <<>> /\ order = <<>> /\ next = 0
  /\ slotsLock = Nobody /\ orderLock = Nobody
  /\ call = [c \in Callers |-> Idle] /\ calls = 0
  /\ pub = [th \in Threads |-> Quiet]
  /\ waiter = [t \in Ids |-> "off"]
  /\ shell = [t \in Ids |-> FALSE] /\ kin = [t \in Ids |-> FALSE]
  /\ pumped = [t \in Ids |-> 0]
  /\ read = [t \in Ids |-> 0] /\ told = [t \in Ids |-> 0] /\ heard = {}

-----------------------------------------------------------------------------
(* The registry *)

Started == DOMAIN slots
Running == {t \in Started : slots[t].state = "running"}

Caller(c) == <<"caller", c>>
Waiter(t) == <<"waiter", t>>
SlotsFree == slotsLock = Nobody
OrderFree == orderLock = Nobody

\* Slot::push: the oldest line goes when the buffer is over its cap.
Push(slot, line) ==
  LET all == Append(slot.pending, line)
      out == IF Len(all) > Cap THEN Len(all) - Cap ELSE 0
  IN  [slot EXCEPT !.pending = SubSeq(all, out + 1, Len(all)), !.dropped = @ + out]

PushTo(t) ==
  /\ pumped' = [pumped EXCEPT ![t] = @ + 1]
  /\ slots' = [slots EXCEPT ![t] = Push(@, pumped[t] + 1)]

\* Mutant of Taken: the count of dropped lines is not reset.
TakenButCount(slot) == [slot EXCEPT !.pending = <<>>]

\* Slot::take_output: what is left in the slot.
Taken(slot) == [slot EXCEPT !.pending = <<>>, !.dropped = 0]

Take(t) ==
  /\ read' = [read EXCEPT ![t] = @ + Len(slots[t].pending)]
  /\ told' = [told EXCEPT ![t] = @ + slots[t].dropped]
  /\ slots' = [slots EXCEPT ![t] = Taken(@)]

-----------------------------------------------------------------------------
(* snapshots(), alone for a list and at the head of every publish() *)

\* Mutant of Asks: the end of a command is not published.
AsksForCallers(th) ==
  pub' = IF th[1] = "waiter" THEN pub ELSE [pub EXCEPT ![th].at = "order"]

Asks(th)   == pub' = [pub EXCEPT ![th].at = "order"]
Settled(c) == pub[Caller(c)].at = "quiet"

LockOrder(th) ==
  /\ pub[th].at = "order" /\ OrderFree
  /\ pub' = [pub EXCEPT ![th] = [at |-> IF order = <<>> THEN "send" ELSE "rows",
                                 todo |-> order, ended |-> {}]]
  /\ orderLock' = IF order = <<>> THEN Nobody ELSE th
  /\ UNCHANGED <<slots, order, next, slotsLock, world, call, calls, waiter, output, heard>>

\* snapshot(id): each row is read under the lock of `slots`, with that of `order` kept.
ReadRow(th) ==
  /\ pub[th].at = "rows" /\ SlotsFree
  /\ LET t == Head(pub[th].todo)  rest == Tail(pub[th].todo)
     IN  /\ pub' = [pub EXCEPT ![th] = [at |-> IF rest = <<>> THEN "send" ELSE "rows",
                                        todo |-> rest,
                                        ended |-> @.ended \cup ({t} \ Running)]]
         /\ orderLock' = IF rest = <<>> THEN Nobody ELSE th
  /\ UNCHANGED <<slots, order, next, slotsLock, world, call, calls, waiter, output, heard>>

Lists(th) == \E c \in Callers : th = Caller(c) /\ call[c].at = "listing"

Send(th) ==
  /\ pub[th].at = "send" /\ ~Lists(th)
  /\ heard' = heard \cup pub[th].ended
  /\ pub' = [pub EXCEPT ![th] = Quiet]
  /\ UNCHANGED <<tables, world, call, calls, waiter, output>>

Publishing == \E th \in Threads : LockOrder(th) \/ ReadRow(th) \/ Send(th)

-----------------------------------------------------------------------------
(* Tool calls *)

Begin(c) == call[c] = Idle /\ calls < MaxCalls /\ calls' = calls + 1

To(c, stage)    == call' = [call EXCEPT ![c].at = stage]
ToTask(c, s, t) == call' = [call EXCEPT ![c].at = s, ![c].task = t]
Return(c)       == call' = [call EXCEPT ![c] = Idle]

\* Mutant of HasRoom: the limit is off by one.
HasRoomAtLimit == Cardinality(Running) <= MaxConcurrent

HasRoom == Cardinality(Running) < MaxConcurrent

\* spawn_with_sandbox, with the lock of `slots` given back between the count and the insert.
CountRunning(c) ==
  /\ Begin(c) /\ SlotsFree
  /\ IF HasRoom THEN To(c, "fork") ELSE UNCHANGED call
  /\ UNCHANGED <<tables, world, pub, waiter, output, heard>>

Fork(c) ==
  /\ call[c].at = "fork"
  /\ next < MaxTasks
  /\ next' = next + 1
  /\ shell' = [shell EXCEPT ![next + 1] = TRUE]
  /\ kin' = [kin EXCEPT ![next + 1] = TRUE]
  /\ ToTask(c, "slots", next + 1)
  /\ UNCHANGED <<slots, order, slotsLock, orderLock, calls, pub, waiter, output, heard>>

ForkFails(c) ==
  /\ call[c].at = "fork"
  /\ Return(c)
  /\ UNCHANGED <<tables, world, calls, pub, waiter, output, heard>>

LockSlots(c) ==
  /\ call[c].at = "slots" /\ SlotsFree
  /\ slotsLock' = Caller(c)
  /\ To(c, "insert")
  /\ UNCHANGED <<slots, order, next, orderLock, world, calls, pub, waiter, output, heard>>

Insert(c) ==
  /\ call[c].at = "insert" /\ OrderFree
  /\ LET t == call[c].task
         new == [state |-> "running", pending |-> <<>>, dropped |-> 0, kill |-> "held"]
     IN  /\ slots' = [u \in Started \cup {t} |-> IF u = t THEN new ELSE slots[u]]
         /\ order' = Append(order, t)
  /\ slotsLock' = Nobody
  /\ To(c, "started")
  /\ Asks(Caller(c))
  /\ UNCHANGED <<next, orderLock, world, calls, waiter, output, heard>>

StartWaiter(c) ==
  /\ call[c].at = "started" /\ Settled(c)
  /\ waiter' = [waiter EXCEPT ![call[c].task] = "select"]
  /\ Return(c)
  /\ UNCHANGED <<tables, world, calls, pub, output, heard>>

\* ListTasks
List(c) ==
  /\ Begin(c)
  /\ To(c, "listing") /\ Asks(Caller(c))
  /\ UNCHANGED <<tables, world, waiter, output, heard>>

Listed(c) ==
  /\ call[c].at = "listing" /\ pub[Caller(c)].at = "send"
  /\ pub' = [pub EXCEPT ![Caller(c)] = Quiet]
  /\ Return(c)
  /\ UNCHANGED <<tables, world, calls, waiter, output, heard>>

\* Mutant of Signalled: the row is settled by the kill, not by the waiter.
SignalledAndSettled(slot) == [slot EXCEPT !.state = "killed", !.kill = "gone"]

\* KillTask: the signal, the rows, and then what the command has left unread.
Signalled(slot) == [slot EXCEPT !.kill = IF @ = "held" THEN "sent" ELSE @]

Kill(c, t) ==
  /\ Begin(c) /\ SlotsFree /\ t \in Started
  /\ slots' = [slots EXCEPT ![t] = Signalled(@)]
  /\ ToTask(c, "taking", t) /\ Asks(Caller(c))
  /\ UNCHANGED <<order, next, slotsLock, orderLock, world, waiter, output, heard>>

\* TaskOutput: the row is read, after a wait for it to end or for the deadline, and then
\* the output, under the lock again.
Look(c, t) ==
  /\ Begin(c) /\ SlotsFree /\ t \in Started
  /\ ToTask(c, "taking", t)
  /\ UNCHANGED <<tables, world, pub, waiter, output, heard>>

\* WaitTasks: the wait goes on until enough commands ended or until its deadline; the rows
\* are then looked at again, one after the other.  A cancelled wait takes nothing.
Wait(c, ids) ==
  /\ Begin(c) /\ ids \in SUBSET Started \ {{}}
  /\ call' = [call EXCEPT ![c] = [at |-> "draining", task |-> 0, todo |-> ids]]
  /\ UNCHANGED <<tables, world, pub, waiter, output, heard>>

Drain(c, t) ==
  /\ call[c].at = "draining" /\ t \in call[c].todo /\ SlotsFree
  /\ LET left == call[c].todo \ {t}
     IN  call' = [call EXCEPT ![c] =
                    IF t \notin Running THEN [at |-> "taking", task |-> t, todo |-> left]
                    ELSE IF left = {}    THEN Idle ELSE [@ EXCEPT !.todo = left]]
  /\ UNCHANGED <<tables, world, calls, pub, waiter, output, heard>>

TakeOutput(c) ==
  /\ call[c].at = "taking" /\ Settled(c) /\ SlotsFree
  /\ Take(call[c].task)
  /\ call' = [call EXCEPT ![c] = IF @.todo = {} THEN Idle
                                 ELSE [@ EXCEPT !.at = "draining", !.task = 0]]
  /\ UNCHANGED <<order, next, slotsLock, orderLock, world, calls, pub, waiter, pumped, heard>>

CallStep(c) ==
  \/ Fork(c) \/ ForkFails(c) \/ LockSlots(c) \/ Insert(c) \/ StartWaiter(c) \/ Listed(c)
  \/ (\E t \in Ids : Drain(c, t)) \/ TakeOutput(c)

-----------------------------------------------------------------------------
(* The waiter, the pumps, and the command itself *)

WaiterTo(t, stage) == waiter' = [waiter EXCEPT ![t] = stage]

\* Mutant of KillGroup: the shell is killed and nothing it started.
KillShell(t) ==
  /\ shell' = [shell EXCEPT ![t] = FALSE]
  /\ UNCHANGED kin

\* SIGKILL to the process group.
KillGroup(t) ==
  /\ shell' = [shell EXCEPT ![t] = FALSE]
  /\ kin' = [kin EXCEPT ![t] = FALSE]

WaitEnds(t) ==
  /\ waiter[t] = "select" /\ ~shell[t]
  /\ WaiterTo(t, "exited")
  /\ UNCHANGED <<tables, world, call, calls, pub, output, heard>>

\* child.wait() itself fails: a line of keke's own says so.
WaitFails(t) ==
  /\ waiter[t] = "select" /\ shell[t] /\ SlotsFree
  /\ PushTo(t)
  /\ WaiterTo(t, "exited")
  /\ UNCHANGED <<order, next, slotsLock, orderLock, world, call, calls, pub, read, told, heard>>

\* terminate(): SIGTERM, and a grace that may be nothing.
Terminate(t) ==
  /\ waiter[t] = "select" /\ slots[t].kill = "sent"
  /\ WaiterTo(t, "grace")
  /\ UNCHANGED <<tables, world, call, calls, pub, output, heard>>

\* Mutant of GraceOver: the grace has no end.
ShellWent(t) == waiter[t] = "grace" /\ ~shell[t]

\* The shell went in time (something it started may not have), or the time is up.
GraceOver(t) == waiter[t] = "grace"

GraceEnds(t) ==
  /\ GraceOver(t)
  /\ KillGroup(t)
  /\ WaiterTo(t, "killed")
  /\ UNCHANGED <<tables, call, calls, pub, output, heard>>

Finish(t) ==
  /\ waiter[t] \in {"exited", "killed"} /\ SlotsFree
  /\ slots' = [slots EXCEPT ![t].state = waiter[t], ![t].kill = "gone"]
  /\ WaiterTo(t, "finished")
  /\ Asks(Waiter(t))
  /\ UNCHANGED <<order, next, slotsLock, orderLock, world, call, calls, output, heard>>

\* The child and its process group are dropped with the task.
DropTree(t) ==
  /\ waiter[t] = "finished" /\ pub[Waiter(t)].at = "quiet"
  /\ KillGroup(t)
  /\ WaiterTo(t, "gone")
  /\ UNCHANGED <<tables, call, calls, pub, output, heard>>

WaiterStep(t) ==
  \/ WaitEnds(t) \/ WaitFails(t) \/ Terminate(t) \/ GraceEnds(t) \/ Finish(t) \/ DropTree(t)

\* A pump reads to the end of its pipe, which a command's end does not bring forward.
Pump(t) ==
  /\ waiter[t] # "off" /\ SlotsFree
  /\ pumped[t] < MaxLines
  /\ PushTo(t)
  /\ UNCHANGED <<order, next, slotsLock, orderLock, world, call, calls, pub, waiter, read,
                 told, heard>>

Exit(t) ==
  /\ shell[t]
  /\ shell' = [shell EXCEPT ![t] = FALSE]
  /\ UNCHANGED <<tables, kin, call, calls, pub, waiter, output, heard>>

Next ==
  \/ \E c \in Callers :
       \/ CountRunning(c) \/ List(c) \/ CallStep(c)
       \/ \E t \in Ids : Kill(c, t) \/ Look(c, t)
       \/ \E ids \in SUBSET Ids : Wait(c, ids)
  \/ Publishing
  \/ \E t \in Ids : WaiterStep(t) \/ Pump(t) \/ Exit(t)

Spec == Init /\ [][Next]_vars

\* What goes on by itself: a call, a publication, a waiter.  Nothing makes a command end or
\* write, an agent call, or child.wait() fail.
Progress ==
  \/ \E c \in Callers : CallStep(c)
  \/ Publishing
  \/ \E t \in Ids : WaitEnds(t) \/ Terminate(t) \/ GraceEnds(t) \/ Finish(t) \/ DropTree(t)

\* Every call and every command makes a bounded number of steps, so that progress somewhere,
\* again and again, is progress everywhere it can be had.
FairSpec == Spec /\ WF_vars(Progress)

-----------------------------------------------------------------------------
(* Properties *)

\* The two locks are taken in both orders: a start holds `slots` and waits for `order`, a
\* reader of the rows holds `order` and waits for `slots`.  Nobody gets on from there.
Inverted ==
  /\ slotsLock # Nobody /\ orderLock # Nobody /\ slotsLock # orderLock

\* Whatever a command said was read once, is still there to be read, or is in the count of
\* what was missed, by however many readers and however late (take_output, push).
OutputAccounted ==
  \A t \in Started :
    LET left == Len(slots[t].pending)
    IN  /\ \A i \in 1..left : slots[t].pending[i] = pumped[t] - left + i
        /\ read[t] + left + told[t] + slots[t].dropped = pumped[t]

\* max_concurrent is checked under one hold of the lock and used under another, so agents
\* that start at the same time can go over it, by one for each of the others and no more.
LimitHolds ==
  LET starting == {c \in Callers : call[c].at \in {"fork", "slots", "insert"}}
  IN  Cardinality(Running) + Cardinality(starting) < MaxConcurrent + Cardinality(Callers)

\* A command that ended stays what it ended as, however a kill and the exit race, and only
\* one that was told to stop reads `killed`.
EndIsFinal ==
  [][\A t \in Started : slots'[t].state # slots[t].state =>
       /\ slots[t].state = "running"
       /\ slots'[t].state = "killed" => slots[t].kill = "sent"]_vars

\* A row that reads `killed` has nothing left running: a kill reaches what the shell started,
\* also when the shell itself went within the grace.
KilledMeansGone ==
  \A t \in Started : slots[t].state = "killed" => ~shell[t] /\ ~kin[t]

\* The watchers are told of every end: by the time the waiter is gone, a message that shows
\* the command ended was sent (publish).
EndIsHeard ==
  \A t \in Started : waiter[t] = "gone" => t \in heard

\* Tool calls return and commands that were told to stop end, whatever they do with SIGTERM,
\* unless the locks are in their circle.
Busy == {Caller(c) : c \in {d \in Callers : call[d] # Idle}}
        \cup {Waiter(t) : t \in {u \in Running : slots[u].kill = "sent"}}

NothingHangs == Busy # {} ~> (Busy = {} \/ Inverted)

\* The registry between two holds of its locks: the limit is passed by one start for each
\* other agent at most, what was killed is gone with all it started, and every end was told.
TasksInv == TypeOK /\ LimitHolds /\ KilledMeansGone /\ EndIsHeard
=============================================================================
