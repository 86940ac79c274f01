------------------------ MODULE BackgroundTasksProofs ------------------------
(***************************************************************************)
(* For any number of agents, commands, lines and calls: the registry of    *)
(* BackgroundTasks is in order, no line a command wrote is lost without    *)
(* being counted, and the end of a command is its last state.              *)
(***************************************************************************)
EXTENDS BackgroundTasks, FiniteSetTheorems, SequenceTheorems, TLAPS

\* A row for each command that was started, under a number given out before.
Slotted ==
  /\ next \in 0..MaxTasks
  /\ Started \subseteq 1..next
  /\ slots \in [Started -> Slots]
  /\ \A t \in Started : Len(slots[t].pending) <= Cap

\* Each once in the order in which they were started.
Ordered ==
  /\ order \in Seq(Ids)
  /\ ToSet(order) = Started /\ Len(order) = Cardinality(Started)

\* The types of the rest.
CallType == [at : {"idle", "fork", "slots", "insert", "started", "listing", "draining",
                   "taking"},
             task : 0..MaxTasks, todo : SUBSET Ids]
PubType  == [at : {"quiet", "order", "rows", "send"}, todo : Seq(Ids), ended : SUBSET Ids]
Stages   == {"off", "select", "grace", "exited", "killed", "finished", "gone"}

Typed ==
  /\ slotsLock \in Threads \cup {Nobody} /\ orderLock \in Threads \cup {Nobody}
  /\ calls \in 0..MaxCalls /\ call \in [Callers -> CallType]
  /\ pub \in [Threads -> PubType]
  /\ waiter \in [Ids -> Stages] /\ shell \in [Ids -> BOOLEAN] /\ kin \in [Ids -> BOOLEAN]
  /\ pumped \in [Ids -> 0..MaxLines + 1]
  /\ read \in [Ids -> Nat] /\ told \in [Ids -> Nat] /\ heard \subseteq Ids

\* Between the fork and the insert a command has no row and is one caller's alone; between
\* the insert and the end of the start it has no waiter; what is read or waited for has a row.
Forked   == {"slots", "insert"}
Handling == {"slots", "insert", "started"}

Calling ==
  /\ \A c \in Callers :
       /\ call[c].at \in Forked => call[c].task \in (1..next) \ Started
       /\ call[c].at = "started" => call[c].task \in Started /\ waiter[call[c].task] = "off"
       /\ call[c].at = "taking" => call[c].task \in Started
       /\ call[c].todo \subseteq Started
  /\ \A c, d \in Callers :
       c # d /\ call[c].at \in Handling /\ call[d].at \in Handling =>
         call[c].task # call[d].task

\* A number without a row has no waiter and no output.
Unborn ==
  \A t \in Ids \ Started : waiter[t] = "off" /\ pumped[t] = 0 /\ read[t] = 0 /\ told[t] = 0

\* There is room for the line of keke's own, which only the waiter's first stage writes.
LastLine == \A t \in Ids : waiter[t] \in {"off", "select"} => pumped[t] <= MaxLines

\* The row says what the waiter did, and the waiter kills on a signal alone.
Lives ==
  \A t \in Started :
    /\ slots[t].state = "running" <=> waiter[t] \notin {"finished", "gone"}
    /\ waiter[t] \in {"grace", "killed"} => slots[t].kill = "sent"
    /\ waiter[t] = "killed" => ~shell[t] /\ ~kin[t]

\* A waiter that settled its row goes on to tell of it, whatever rows it reads on the way.
Telling ==
  /\ \A th \in Threads : pub[th].at = "rows" => pub[th].todo # <<>>
  /\ \A t \in Started : waiter[t] = "finished" =>
       LET p == pub[Waiter(t)]
       IN  \/ p.at = "order"
           \/ p.at = "rows" /\ t \in ToSet(p.todo) \cup p.ended
           \/ p.at = "send" /\ t \in p.ended
           \/ p.at = "quiet" /\ t \in heard

Books ==
  /\ Slotted /\ Ordered /\ Typed /\ Calling /\ Unborn /\ LastLine /\ Lives /\ Telling

IInv == Books /\ OutputAccounted /\ LimitHolds /\ KilledMeansGone /\ EndIsHeard

-----------------------------------------------------------------------------
(* What is done to one row *)

\* A row that is pushed to stays within its cap, counts the line, and keeps the numbering.
LEMMA Pushed ==
  ASSUME NEW slot \in Slots, NEW line \in 1..MaxLines + 1, Len(slot.pending) <= Cap
  PROVE  LET now == Push(slot, line)
         IN  /\ now \in Slots /\ Len(now.pending) <= Cap
             /\ now.state = slot.state /\ now.kill = slot.kill
             /\ Len(now.pending) + now.dropped = Len(slot.pending) + slot.dropped + 1
             /\ (\A i \in 1..Len(slot.pending) :
                   slot.pending[i] = (line - 1) - Len(slot.pending) + i) =>
                \A i \in 1..Len(now.pending) : now.pending[i] = line - Len(now.pending) + i
<1> USE BackgroundAssumption DEF BackgroundAssumption
<1> DEFINE P   == slot.pending
           all == Append(P, line)
           out == IF Len(all) > Cap THEN Len(all) - Cap ELSE 0
           now == Push(slot, line)
<1>1. P \in Seq(1..MaxLines + 1) /\ Len(P) \in Nat /\ slot.dropped \in Nat
  BY DEF Slots
<1>2. /\ all \in Seq(1..MaxLines + 1) /\ Len(all) = Len(P) + 1
      /\ \A i \in 1..Len(P) : all[i] = P[i]
      /\ all[Len(P) + 1] = line
  BY <1>1
<1>3. /\ out \in Nat /\ out <= 1 /\ out + 1 \in 1..Len(all) + 1 /\ Len(all) - out <= Cap
  BY <1>1, <1>2
<1>4. now = [slot EXCEPT !.pending = SubSeq(all, out + 1, Len(all)), !.dropped = @ + out]
  BY DEF Push
<1> HIDE DEF P, all, out, now
<1>5. /\ SubSeq(all, out + 1, Len(all)) \in Seq(1..MaxLines + 1)
      /\ Len(SubSeq(all, out + 1, Len(all))) = Len(all) - out
      /\ \A i \in 1..(Len(all) - out) : SubSeq(all, out + 1, Len(all))[i] = all[i + out]
  BY SMTT(30), <1>1, <1>2, <1>3
<1> DEFINE S == SubSeq(all, out + 1, Len(all))
<1> HIDE DEF S
<1>6. /\ now \in Slots /\ now.pending = S /\ now.dropped = slot.dropped + out
      /\ now.state = slot.state /\ now.kill = slot.kill
  <2>1. slot = [state |-> slot.state, pending |-> slot.pending, dropped |-> slot.dropped,
                kill |-> slot.kill]
        /\ slot.state \in {"running", "exited", "killed"}
        /\ slot.kill \in {"held", "sent", "gone"}
    BY DEF Slots
  <2>2. now = [state |-> slot.state, pending |-> S, dropped |-> slot.dropped + out,
               kill |-> slot.kill]
    BY <1>4, <2>1 DEF S
  <2>3. slot.dropped + out \in Nat /\ S \in Seq(1..MaxLines + 1)
    BY <1>1, <1>3, <1>5 DEF S
  <2> QED BY <2>1, <2>2, <2>3 DEF Slots
<1>7. /\ Len(now.pending) = Len(all) - out
      /\ \A i \in 1..(Len(all) - out) : now.pending[i] = all[i + out]
  BY <1>5, <1>6 DEF S
<1>8. Len(now.pending) + now.dropped = Len(P) + slot.dropped + 1
  BY <1>1, <1>2, <1>3, <1>6, <1>7
<1>9. ASSUME \A i \in 1..Len(P) : P[i] = (line - 1) - Len(P) + i,
             NEW i \in 1..Len(now.pending)
      PROVE  now.pending[i] = line - Len(now.pending) + i
  <2>1. i + out \in 1..Len(P) + 1 /\ now.pending[i] = all[i + out]
    BY <1>1, <1>2, <1>3, <1>7
  <2>a. Len(now.pending) = Len(P) + 1 - out
    BY <1>1, <1>2, <1>3, <1>7
  <2>2. CASE i + out = Len(P) + 1
    <3>1. now.pending[i] = line
      BY <1>2, <2>1, <2>2
    <3>2. line - Len(now.pending) + i = line
      BY <1>1, <1>3, <2>a, <2>2
    <3> QED BY <3>1, <3>2
  <2>3. CASE i + out \in 1..Len(P)
    <3>1. now.pending[i] = (line - 1) - Len(P) + (i + out)
      BY <1>2, <1>9, <2>1, <2>3
    <3>2. (line - 1) - Len(P) + (i + out) = line - Len(now.pending) + i
      BY <1>1, <1>3, <2>a, <2>3
    <3> QED BY <3>1, <3>2
  <2>4. i + out = Len(P) + 1 \/ i + out \in 1..Len(P)
    BY <1>1, <2>1
  <2> QED BY <2>2, <2>3, <2>4
<1> QED BY <1>3, <1>6, <1>7, <1>8, <1>9, <1>2 DEF P, now

\* What a signal, a reader and an end do to a row.
LEMMA Settling ==
  ASSUME NEW slot \in Slots
  PROVE  /\ Signalled(slot) \in Slots /\ Taken(slot) \in Slots
         /\ Signalled(slot).pending = slot.pending /\ Signalled(slot).dropped = slot.dropped
         /\ Signalled(slot).state = slot.state
         /\ slot.kill = "sent" => Signalled(slot).kill = "sent"
         /\ Taken(slot).pending = <<>> /\ Taken(slot).dropped = 0
         /\ Taken(slot).state = slot.state /\ Taken(slot).kill = slot.kill
<1>1. ASSUME NEW none \in Seq(1..MaxLines + 1), NEW zero \in Nat
      PROVE  LET now == [slot EXCEPT !.pending = none, !.dropped = zero]
             IN  /\ now \in Slots /\ now.pending = none /\ now.dropped = zero
                 /\ now.state = slot.state /\ now.kill = slot.kill
  BY DEF Slots
<1>2. ASSUME NEW kill \in {"held", "sent", "gone"}
      PROVE  LET now == [slot EXCEPT !.kill = kill]
             IN  /\ now \in Slots /\ now.pending = slot.pending
                 /\ now.dropped = slot.dropped /\ now.state = slot.state /\ now.kill = kill
  BY DEF Slots
<1>3. <<>> \in Seq(1..MaxLines + 1) /\ slot.kill \in {"held", "sent", "gone"}
  BY DEF Slots
<1>4. /\ Taken(slot) \in Slots /\ Taken(slot).pending = <<>> /\ Taken(slot).dropped = 0
      /\ Taken(slot).state = slot.state /\ Taken(slot).kill = slot.kill
  BY <1>1, <1>3 DEF Taken
<1>5. /\ Signalled(slot) \in Slots /\ Signalled(slot).pending = slot.pending
      /\ Signalled(slot).dropped = slot.dropped /\ Signalled(slot).state = slot.state
      /\ slot.kill = "sent" => Signalled(slot).kill = "sent"
  BY <1>2, <1>3 DEF Signalled
<1> QED BY <1>4, <1>5

\* What has a row is a number of a command.
LEMMA RowsAreIds ==
  ASSUME Books
  PROVE  Started \subseteq Ids
BY BackgroundAssumption DEF BackgroundAssumption, Books, Slotted, Ids

\* Callers and waiters publish as threads of their own.
LEMMA ThreadsApart ==
  /\ \A c \in Callers : Caller(c) \in Threads
  /\ \A t \in Ids : Waiter(t) \in Threads
  /\ \A c \in Callers, t \in Ids : Caller(c) # Waiter(t)
  /\ \A t, u \in Ids : t # u => Waiter(t) # Waiter(u)
BY DEF Caller, Waiter, Threads

-----------------------------------------------------------------------------
(* What a step does to the rows *)

\* No row comes, goes, or changes its state, and a signal stays.
SameLives ==
  /\ Started' = Started
  /\ \A t \in Started : /\ slots'[t].state = slots[t].state
                        /\ slots[t].kill = "sent" => slots'[t].kill = "sent"

Fitting == slots' \in [Started -> Slots] /\ \A t \in Started : Len(slots'[t].pending) <= Cap

\* One row is replaced.
LEMMA OneRow ==
  ASSUME Slotted, NEW t \in Started, NEW new \in Slots, Len(new.pending) <= Cap,
         slots' = [slots EXCEPT ![t] = new]
  PROVE  /\ Started' = Started /\ Fitting /\ slots'[t] = new
         /\ \A u \in Started : u # t => slots'[u] = slots[u]
BY DEF Slotted, Started, Fitting

\* A pump, or the line of keke itself, moves one row and no life.
LEMMA PushToRow ==
  ASSUME Slotted, Typed, NEW t \in Started, pumped[t] <= MaxLines, PushTo(t)
  PROVE  /\ SameLives /\ Fitting
         /\ slots'[t] = Push(slots[t], pumped[t] + 1)
         /\ \A u \in Started : u # t => slots'[u] = slots[u]
<1> USE BackgroundAssumption DEF BackgroundAssumption
<1>1. t \in Ids /\ pumped[t] + 1 \in 1..MaxLines + 1
  BY SMTT(30) DEF Slotted, Typed, Ids
<1>2. slots[t] \in Slots /\ Len(slots[t].pending) <= Cap
  BY DEF Slotted
<1> DEFINE new == Push(slots[t], pumped[t] + 1)
<1>3. new \in Slots /\ Len(new.pending) <= Cap
      /\ new.state = slots[t].state /\ new.kill = slots[t].kill
  BY <1>1, <1>2, Pushed
<1>4. slots' = [slots EXCEPT ![t] = new]
  BY DEF PushTo
<1> HIDE DEF new
<1>5. /\ Started' = Started /\ Fitting /\ slots'[t] = new
      /\ \A u \in Started : u # t => slots'[u] = slots[u]
  BY <1>3, <1>4, OneRow
<1>6. SameLives
  BY <1>3, <1>5 DEF SameLives
<1> QED BY <1>5, <1>6 DEF new

\* So does a reader.
LEMMA TakeRow ==
  ASSUME Slotted, NEW t \in Started, Take(t)
  PROVE  /\ SameLives /\ Fitting
         /\ slots'[t] = Taken(slots[t])
         /\ \A u \in Started : u # t => slots'[u] = slots[u]
<1> USE BackgroundAssumption DEF BackgroundAssumption
<1> DEFINE new == Taken(slots[t])
<1>1. slots[t] \in Slots
  BY DEF Slotted
<1>2. new \in Slots /\ Len(new.pending) <= Cap
      /\ new.state = slots[t].state /\ new.kill = slots[t].kill
  BY <1>1, Settling
<1>3. slots' = [slots EXCEPT ![t] = new]
  BY DEF Take
<1> HIDE DEF new
<1>4. /\ Started' = Started /\ Fitting /\ slots'[t] = new
      /\ \A u \in Started : u # t => slots'[u] = slots[u]
  BY <1>2, <1>3, OneRow
<1>5. SameLives
  BY <1>2, <1>4 DEF SameLives
<1> QED BY <1>4, <1>5 DEF new

\* A signal leaves the output and the state.
LEMMA KillRow ==
  ASSUME Slotted, NEW c \in Callers, NEW t \in Ids, Kill(c, t)
  PROVE  /\ t \in Started /\ SameLives /\ Fitting
         /\ \A u \in Started : /\ slots'[u].pending = slots[u].pending
                               /\ slots'[u].dropped = slots[u].dropped
<1> DEFINE new == Signalled(slots[t])
<1>1. t \in Started /\ slots[t] \in Slots /\ Len(slots[t].pending) <= Cap
  BY DEF Slotted, Kill
<1>2. /\ new \in Slots /\ new.pending = slots[t].pending /\ new.dropped = slots[t].dropped
      /\ new.state = slots[t].state
      /\ slots[t].kill = "sent" => new.kill = "sent"
  BY <1>1, Settling
<1>3. slots' = [slots EXCEPT ![t] = new]
  BY DEF Kill
<1> HIDE DEF new
<1>4. /\ Started' = Started /\ Fitting /\ slots'[t] = new
      /\ \A u \in Started : u # t => slots'[u] = slots[u]
  BY <1>1, <1>2, <1>3, OneRow
<1> QED BY <1>1, <1>2, <1>4 DEF SameLives

\* An end settles the row of its waiter, whose output stays.
LEMMA FinishRow ==
  ASSUME Slotted, Typed, Unborn, NEW t \in Ids, Finish(t)
  PROVE  /\ t \in Started /\ Started' = Started /\ Fitting
         /\ slots'[t].state = waiter[t]
         /\ slots'[t].pending = slots[t].pending /\ slots'[t].dropped = slots[t].dropped
         /\ \A u \in Started : u # t => slots'[u] = slots[u]
<1> DEFINE new == [slots[t] EXCEPT !.state = waiter[t], !.kill = "gone"]
<1>1. t \in Started /\ waiter[t] \in {"exited", "killed"}
  BY DEF Finish, Unborn
<1>2. slots[t] \in Slots /\ Len(slots[t].pending) <= Cap
  BY <1>1 DEF Slotted
<1>3. /\ new \in Slots /\ new.state = waiter[t]
      /\ new.pending = slots[t].pending /\ new.dropped = slots[t].dropped
  BY <1>1, <1>2 DEF Slots
<1>4. slots' = [slots EXCEPT ![t] = new]
  BY DEF Finish
<1> HIDE DEF new
<1> QED BY <1>1, <1>2, <1>3, <1>4, OneRow

\* An insert makes one row, for the command that was forked.
LEMMA InsertRow ==
  ASSUME Slotted, Calling, NEW c \in Callers, Insert(c)
  PROVE  /\ call[c].task \in (1..next) \ Started /\ call[c].at = "insert"
         /\ Started' = Started \cup {call[c].task}
         /\ slots' \in [Started' -> Slots]
         /\ slots'[call[c].task] =
              [state |-> "running", pending |-> <<>>, dropped |-> 0, kill |-> "held"]
         /\ \A u \in Started : slots'[u] = slots[u]
<1> DEFINE t   == call[c].task
           new == [state |-> "running", pending |-> <<>>, dropped |-> 0, kill |-> "held"]
<1>1. t \in (1..next) \ Started /\ call[c].at = "insert"
  BY DEF Insert, Calling, Forked
<1>2. slots' = [u \in Started \cup {t} |-> IF u = t THEN new ELSE slots[u]]
  BY DEF Insert
<1>3. new \in Slots
  <2>1. <<>> \in Seq(1..MaxLines + 1)
    OBVIOUS
  <2> QED BY <2>1 DEF Slots
<1> HIDE DEF t, new
<1>4. Started' = Started \cup {t}
  BY <1>2 DEF Started
<1>5. slots' \in [Started \cup {t} -> Slots]
  BY <1>2, <1>3 DEF Slotted
<1>6. slots'[t] = new /\ \A u \in Started : slots'[u] = slots[u]
  BY <1>1, <1>2
<1> QED BY <1>1, <1>4, <1>5, <1>6 DEF t, new

\* What is pumped has a row, with room for the line.
LEMMA PumpRow ==
  ASSUME Books, NEW t \in Ids, Pump(t) \/ WaitFails(t)
  PROVE  t \in Started /\ pumped[t] <= MaxLines /\ PushTo(t)
<1>1. waiter[t] # "off" /\ PushTo(t)
  BY DEF Pump, WaitFails
<1>2. pumped[t] <= MaxLines
  <2>1. pumped[t] \in Nat /\ MaxLines \in Nat
    BY BackgroundAssumption DEF BackgroundAssumption, Books, Typed
  <2> QED BY <2>1 DEF Pump, WaitFails, Books, LastLine
<1> QED BY <1>1, <1>2 DEF Books, Unborn

\* What a call takes the output of has a row.
LEMMA TakenRow ==
  ASSUME Books, NEW c \in Callers, TakeOutput(c)
  PROVE  call[c].task \in Started /\ Take(call[c].task)
BY DEF Books, Calling, TakeOutput

\* Every step is one of these.
LEMMA Steps ==
  ASSUME Next
  PROVE  \/ \E th \in Threads : LockOrder(th)
         \/ \E th \in Threads : ReadRow(th)
         \/ \E th \in Threads : Send(th)
         \/ \E c \in Callers : CountRunning(c)
         \/ \E c \in Callers : Fork(c)
         \/ \E c \in Callers : ForkFails(c)
         \/ \E c \in Callers : LockSlots(c)
         \/ \E c \in Callers : Insert(c)
         \/ \E c \in Callers : StartWaiter(c)
         \/ \E c \in Callers : List(c)
         \/ \E c \in Callers : Listed(c)
         \/ \E c \in Callers : TakeOutput(c)
         \/ \E c \in Callers, t \in Ids : Kill(c, t)
         \/ \E c \in Callers, t \in Ids : Look(c, t)
         \/ \E c \in Callers, t \in Ids : Drain(c, t)
         \/ \E c \in Callers, ids \in SUBSET Ids : Wait(c, ids)
         \/ \E t \in Ids : WaitEnds(t)
         \/ \E t \in Ids : WaitFails(t)
         \/ \E t \in Ids : Terminate(t)
         \/ \E t \in Ids : GraceEnds(t)
         \/ \E t \in Ids : Finish(t)
         \/ \E t \in Ids : DropTree(t)
         \/ \E t \in Ids : Pump(t)
         \/ \E t \in Ids : Exit(t)
<1>1. CASE \E c \in Callers : CallStep(c)
  BY <1>1 DEF CallStep
<1>2. CASE Publishing
  BY <1>2 DEF Publishing
<1>3. CASE \E t \in Ids : WaiterStep(t)
  BY <1>3 DEF WaiterStep
<1> QED BY <1>1, <1>2, <1>3 DEF Next

\* Every step but an insert and an end leaves the lives of the rows as they are.
LEMMA Rows ==
  ASSUME Books, Next
  PROVE  \/ SameLives /\ Fitting
         \/ \E c \in Callers : Insert(c)
         \/ \E t \in Ids : Finish(t)
<1>1. CASE \/ \E th \in Threads : LockOrder(th) \/ ReadRow(th) \/ Send(th)
           \/ \E c \in Callers : CountRunning(c) \/ Fork(c) \/ ForkFails(c) \/ LockSlots(c) \/
                 StartWaiter(c) \/ List(c) \/ Listed(c)
           \/ \E t \in Ids : WaitEnds(t) \/ Terminate(t) \/ GraceEnds(t) \/ DropTree(t) \/
                 Exit(t)
           \/ \E c \in Callers, t \in Ids : Look(c, t) \/ Drain(c, t)
           \/ \E c \in Callers, ids \in SUBSET Ids : Wait(c, ids)
  <2>1. UNCHANGED slots
    BY <1>1 DEF Asks, Begin, CountRunning, Drain, DropTree, Exit, Fork, ForkFails,
       GraceEnds, KillGroup, List, Listed, LockOrder, LockSlots, Look, ReadRow, Return,
       Send, StartWaiter, Terminate, To, ToTask, Wait, WaitEnds, WaiterTo, tables,
       world, output
  <2> QED BY <2>1 DEF SameLives, Fitting, Books, Slotted, Started
<1>2. CASE \E t \in Ids : Pump(t) \/ WaitFails(t)
  BY <1>2, PumpRow, PushToRow DEF Books
<1>3. CASE \E c \in Callers : TakeOutput(c)
  BY <1>3, TakenRow, TakeRow DEF Books
<1>4. CASE \E c \in Callers, t \in Ids : Kill(c, t)
  BY <1>4, KillRow DEF Books
<1>5. CASE \E c \in Callers : Insert(c)
  BY <1>5
<1>6. CASE \E t \in Ids : Finish(t)
  BY <1>6
<1> QED BY <1>1, <1>2, <1>3, <1>4, <1>5, <1>6, Steps

-----------------------------------------------------------------------------
(* What a step does to a call and to a publication *)

\* A call is replaced.
LEMMA OneCall ==
  ASSUME call \in [Callers -> CallType], NEW c \in Callers, NEW new \in CallType,
         call' = [call EXCEPT ![c] = new]
  PROVE  /\ call' \in [Callers -> CallType] /\ call'[c] = new
         /\ \A d \in Callers : d # c => call'[d] = call[d]
OBVIOUS

\* A call goes on with what it is about.
LEMMA CallGoes ==
  ASSUME call \in [Callers -> CallType], NEW c \in Callers,
         NEW s \in {"idle", "fork", "slots", "insert", "started", "listing", "draining",
                    "taking"}, To(c, s)
  PROVE  /\ call' \in [Callers -> CallType]
         /\ call'[c].at = s /\ call'[c].task = call[c].task /\ call'[c].todo = call[c].todo
         /\ \A d \in Callers : d # c => call'[d] = call[d]
<1> DEFINE new == [call[c] EXCEPT !.at = s]
<1>1. new \in CallType /\ new.at = s /\ new.task = call[c].task /\ new.todo = call[c].todo
  BY DEF CallType
<1>2. call' = [call EXCEPT ![c] = new]
  BY DEF To
<1> HIDE DEF new
<1> QED BY <1>1, <1>2, OneCall

\* A call takes up a command.
LEMMA CallTakes ==
  ASSUME call \in [Callers -> CallType], NEW c \in Callers, NEW t \in Ids,
         NEW s \in {"slots", "taking"}, ToTask(c, s, t)
  PROVE  /\ call' \in [Callers -> CallType]
         /\ call'[c].at = s /\ call'[c].task = t /\ call'[c].todo = call[c].todo
         /\ \A d \in Callers : d # c => call'[d] = call[d]
<1> DEFINE new == [call[c] EXCEPT !.at = s, !.task = t]
<1>1. t \in 0..MaxTasks
  BY BackgroundAssumption DEF BackgroundAssumption, Ids
<1>2. new \in CallType /\ new.at = s /\ new.task = t /\ new.todo = call[c].todo
  BY <1>1 DEF CallType
<1>3. call' = [call EXCEPT ![c] = new]
  BY DEF ToTask
<1> HIDE DEF new
<1> QED BY <1>2, <1>3, OneCall

\* A call returns.
LEMMA CallReturns ==
  ASSUME call \in [Callers -> CallType], NEW c \in Callers, Return(c)
  PROVE  /\ call' \in [Callers -> CallType] /\ call'[c] = Idle
         /\ \A d \in Callers : d # c => call'[d] = call[d]
<1>1. Idle \in CallType
  BY BackgroundAssumption DEF BackgroundAssumption, Idle, CallType
<1> QED BY <1>1, OneCall DEF Return

\* A wait takes up the commands left to it, one at a time.
LEMMA CallDrains ==
  ASSUME call \in [Callers -> CallType], NEW c \in Callers, NEW t \in Ids, Drain(c, t)
  PROVE  /\ call' \in [Callers -> CallType]
         /\ call'[c].at \in {"taking", "draining", "idle"}
         /\ call'[c].at = "taking" => call'[c].task = t
         /\ call'[c].todo \subseteq call[c].todo
         /\ \A d \in Callers : d # c => call'[d] = call[d]
<1> DEFINE left == call[c].todo \ {t}
           new == IF t \notin Running THEN [at |-> "taking", task |-> t, todo |-> left]
                  ELSE IF left = {}   THEN Idle ELSE [call[c] EXCEPT !.todo = left]
<1>1. call[c] \in CallType /\ call[c].todo \subseteq Ids /\ call[c].at = "draining"
  BY DEF CallType, Drain
<1>2. t \in 0..MaxTasks /\ 0 \in 0..MaxTasks
  BY BackgroundAssumption DEF BackgroundAssumption, Ids
<1>3. CASE t \notin Running
  BY <1>1, <1>2, <1>3, OneCall DEF Drain, CallType
<1>4. CASE t \in Running /\ left = {}
  <2>1. Idle \in CallType
    BY <1>2 DEF Idle, CallType
  <2>2. call' = [call EXCEPT ![c] = Idle]
    BY <1>4 DEF Drain
  <2> QED BY <2>1, <2>2, OneCall DEF Idle
<1>5. CASE t \in Running /\ left # {}
  <2> DEFINE more == [call[c] EXCEPT !.todo = left]
  <2>1. more \in CallType /\ more.at = "draining" /\ more.todo = left
    BY <1>1 DEF CallType
  <2>2. call' = [call EXCEPT ![c] = more]
    BY <1>5 DEF Drain
  <2> HIDE DEF more
  <2> QED BY <2>1, <2>2, OneCall
<1> QED BY <1>3, <1>4, <1>5

\* A reader is done, or takes up the next of a wait.
LEMMA CallTaken ==
  ASSUME call \in [Callers -> CallType], NEW c \in Callers, TakeOutput(c)
  PROVE  /\ call' \in [Callers -> CallType]
         /\ call'[c].at \in {"draining", "idle"} /\ call'[c].todo \subseteq call[c].todo
         /\ \A d \in Callers : d # c => call'[d] = call[d]
<1>1. 0 \in 0..MaxTasks
  BY BackgroundAssumption DEF BackgroundAssumption
<1>2. CASE call[c].todo = {}
  <2>1. Idle \in CallType
    BY <1>1 DEF Idle, CallType
  <2>2. call' = [call EXCEPT ![c] = Idle]
    BY <1>2 DEF TakeOutput
  <2> QED BY <2>1, <2>2, OneCall DEF Idle
<1>3. CASE call[c].todo # {}
  <2> DEFINE more == [call[c] EXCEPT !.at = "draining", !.task = 0]
  <2>1. more \in CallType /\ more.at = "draining" /\ more.todo = call[c].todo
    BY <1>1 DEF CallType
  <2>2. call' = [call EXCEPT ![c] = more]
    BY <1>3 DEF TakeOutput
  <2> HIDE DEF more
  <2> QED BY <2>1, <2>2, OneCall
<1> QED BY <1>2, <1>3

\* A thread that publishes starts by the order.
LEMMA Asked ==
  ASSUME pub \in [Threads -> PubType], NEW th \in Threads, Asks(th)
  PROVE  /\ pub' \in [Threads -> PubType] /\ pub'[th].at = "order"
         /\ \A u \in Threads : u # th => pub'[u] = pub[u]
<1> DEFINE new == [pub[th] EXCEPT !.at = "order"]
<1>1. new \in PubType /\ new.at = "order"
  BY DEF PubType
<1>2. pub' = [pub EXCEPT ![th] = new]
  BY DEF Asks
<1> HIDE DEF new
<1> QED BY <1>1, <1>2

\* What a sequence holds once something is appended to it, or its head is taken.
LEMMA AppendAdds ==
  ASSUME NEW S, NEW s \in Seq(S), NEW e \in S
  PROVE  ToSet(Append(s, e)) = ToSet(s) \cup {e}
<1>1. /\ Len(Append(s, e)) = Len(s) + 1 /\ Len(s) \in Nat
      /\ \A i \in 1..Len(s) : Append(s, e)[i] = s[i]
      /\ Append(s, e)[Len(s) + 1] = e
      /\ DOMAIN Append(s, e) = 1..Len(s) + 1 /\ DOMAIN s = 1..Len(s)
  OBVIOUS
<1>2. 1..Len(s) + 1 = (1..Len(s)) \cup {Len(s) + 1}
  BY <1>1
<1> QED BY <1>1, <1>2 DEF ToSet

\* A sequence holds its head and what its tail holds.
LEMMA TailKeeps ==
  ASSUME NEW S, NEW s \in Seq(S), s # <<>>
  PROVE  /\ Head(s) \in S /\ Tail(s) \in Seq(S)
         /\ ToSet(s) = {Head(s)} \cup ToSet(Tail(s))
<1>1. /\ Len(s) \in Nat \ {0} /\ Head(s) = s[1] /\ Tail(s) \in Seq(S)
      /\ Len(Tail(s)) = Len(s) - 1 /\ \A i \in 1..Len(s) - 1 : Tail(s)[i] = s[i + 1]
      /\ DOMAIN s = 1..Len(s) /\ DOMAIN Tail(s) = 1..Len(s) - 1
  OBVIOUS
<1>2. ASSUME NEW x \in ToSet(s)
      PROVE  x = Head(s) \/ x \in ToSet(Tail(s))
  <2> PICK i \in 1..Len(s) : x = s[i]
    BY <1>1 DEF ToSet
  <2>1. CASE i = 1
    BY <1>1, <2>1
  <2>2. CASE i # 1
    <3>1. i - 1 \in 1..Len(s) - 1 /\ Tail(s)[i - 1] = x
      BY <1>1, <2>2
    <3> QED BY <1>1, <3>1 DEF ToSet
  <2> QED BY <2>1, <2>2
<1>3. ToSet(Tail(s)) \subseteq ToSet(s)
  <2>1. \A i \in 1..Len(s) - 1 : i + 1 \in 1..Len(s)
    BY <1>1
  <2> QED BY <1>1, <2>1 DEF ToSet
<1>4. Head(s) \in S /\ Head(s) \in ToSet(s)
  BY <1>1 DEF ToSet
<1> QED BY <1>1, <1>2, <1>3, <1>4

-----------------------------------------------------------------------------
(* What every step keeps *)

\* Rows are made under numbers given out, and stay within their cap.
LEMMA SlottedStep ==
  ASSUME Books, Next
  PROVE  Slotted'
<1> USE BackgroundAssumption DEF BackgroundAssumption, Books, Slotted
<1>1. next' \in 0..MaxTasks /\ next <= next'
  <2>1. CASE \/ \E th \in Threads : LockOrder(th) \/ ReadRow(th) \/ Send(th)
             \/ \E c \in Callers : CountRunning(c) \/ ForkFails(c) \/ LockSlots(c) \/
                   Insert(c) \/ StartWaiter(c) \/ List(c) \/ Listed(c) \/ TakeOutput(c)
             \/ \E t \in Ids : WaitEnds(t) \/ WaitFails(t) \/ Terminate(t) \/ GraceEnds(t) \/
                   Finish(t) \/ DropTree(t) \/ Pump(t) \/ Exit(t)
             \/ \E c \in Callers, t \in Ids : Kill(c, t) \/ Look(c, t) \/ Drain(c, t)
             \/ \E c \in Callers, ids \in SUBSET Ids : Wait(c, ids)
    <3>1. UNCHANGED next
      BY ZenonT(60), <2>1 DEF Asks, Begin, CountRunning, Drain, DropTree, Exit, Finish, ForkFails,
         GraceEnds, GraceOver, Insert, Kill, KillGroup, List, Listed, LockOrder,
         LockSlots, Look, Pump, PushTo, ReadRow, Return, Send, Signalled, StartWaiter,
         Take, TakeOutput, Taken, Terminate, To, ToTask, Wait, WaitEnds, WaitFails,
         WaiterTo, tables, world, output
    <3> QED BY <3>1
  <2>2. CASE \E c \in Callers : Fork(c)
    BY <2>2 DEF Fork
  <2> QED BY <2>1, <2>2, Steps
<1>2. CASE SameLives /\ Fitting
  <2>1. Started' = Started /\ slots' \in [Started' -> Slots]
    BY <1>2 DEF SameLives, Fitting
  <2> QED BY <1>1, <1>2, <2>1 DEF Fitting
<1>3. CASE \E c \in Callers : Insert(c)
  <2> PICK c \in Callers : Insert(c)
    BY <1>3
  <2> DEFINE t == call[c].task
  <2>1. /\ t \in (1..next) \ Started /\ Started' = Started \cup {t}
        /\ slots' \in [Started' -> Slots]
        /\ slots'[t].pending = <<>> /\ \A u \in Started : slots'[u] = slots[u]
    BY InsertRow
  <2>2. Started' \subseteq 1..next'
    <3>1. next \in Nat /\ next' \in Nat /\ Started \subseteq 1..next
      BY <1>1
    <3> HIDE DEF t, Books, Slotted
    <3> QED BY <1>1, <2>1, <3>1
  <2>3. \A u \in Started' : Len(slots'[u].pending) <= Cap
    BY <2>1
  <2> QED BY <1>1, <2>1, <2>2, <2>3
<1>4. CASE \E t \in Ids : Finish(t)
  <2>1. Started' = Started /\ Fitting
    BY <1>4, FinishRow
  <2> QED BY <1>1, <2>1 DEF Fitting
<1> QED BY <1>2, <1>3, <1>4, Rows

\* The order has each row once.
LEMMA OrderedStep ==
  ASSUME Books, Next
  PROVE  Ordered'
<1> USE DEF Books, Ordered
<1>1. CASE \E c \in Callers : Insert(c)
  <2> PICK c \in Callers : Insert(c)
    BY <1>1
  <2> DEFINE t == call[c].task
  <2>1. /\ t \in (1..next) \ Started /\ Started' = Started \cup {t}
        /\ order' = Append(order, t)
    BY InsertRow DEF Insert
  <2>2. t \in Ids /\ IsFiniteSet(Started)
    <3>1. Started \subseteq 1..next /\ next \in Nat /\ 1..next \subseteq Ids
      BY BackgroundAssumption DEF BackgroundAssumption, Slotted, Ids
    <3>2. IsFiniteSet(1..next)
      BY <3>1, FS_Interval
    <3> QED BY <2>1, <3>1, <3>2, FS_Subset
  <2>3. Cardinality(Started') = Cardinality(Started) + 1
    BY <2>1, <2>2, FS_AddElement
  <2>4. order' \in Seq(Ids) /\ Len(order') = Len(order) + 1
    BY <2>1, <2>2
  <2>5. ToSet(order') = ToSet(order) \cup {t}
    BY <2>1, <2>2, AppendAdds
  <2> QED BY <2>1, <2>3, <2>4, <2>5
<1>2. CASE ~ \E c \in Callers : Insert(c)
  <2>1. UNCHANGED order
    BY ZenonT(60), <1>2, Steps DEF Asks, Begin, CountRunning, Drain, DropTree, Exit, Finish, Fork,
       ForkFails, GraceEnds, GraceOver, Kill, KillGroup, List, Listed, LockOrder,
       LockSlots, Look, Pump, PushTo, ReadRow, Return, Send, Signalled, StartWaiter,
       Take, TakeOutput, Taken, Terminate, To, ToTask, Wait, WaitEnds, WaitFails,
       WaiterTo, tables, world, output
  <2>2. Started' = Started
    BY <1>2, Rows, FinishRow DEF SameLives
  <2> QED BY <2>1, <2>2
<1> QED BY <1>1, <1>2

\* The calls keep their types.
LEMMA CallTypedStep ==
  ASSUME Books, Next
  PROVE  call' \in [Callers -> CallType] /\ calls' \in 0..MaxCalls
<1> USE BackgroundAssumption DEF BackgroundAssumption, Books, Typed
<1>1. CASE \/ \E th \in Threads : LockOrder(th) \/ ReadRow(th) \/ Send(th)
           \/ \E t \in Ids : WaitEnds(t) \/ WaitFails(t) \/ Terminate(t) \/ GraceEnds(t) \/
                 Finish(t) \/ DropTree(t) \/ Pump(t) \/ Exit(t)
  <2>1. UNCHANGED <<call, calls>>
    BY <1>1 DEF Asks, DropTree, Exit, Finish, GraceEnds, GraceOver, KillGroup,
       LockOrder, Pump, PushTo, ReadRow, Send, Terminate, WaitEnds, WaitFails, WaiterTo,
       tables, world, output
  <2> QED BY <2>1
<1>2. CASE \E c \in Callers : CountRunning(c)
  BY <1>2, CallGoes DEF CountRunning, Begin
<1>3. CASE \E c \in Callers : Fork(c)
  <2>1. next + 1 \in Ids
    <3>1. next \in 0..MaxTasks /\ next < MaxTasks
      BY <1>3 DEF Fork, Slotted
    <3> QED BY <3>1 DEF Ids
  <2> QED BY <1>3, <2>1, CallTakes DEF Fork
<1>4. CASE \E c \in Callers : ForkFails(c)
  BY <1>4, CallReturns DEF ForkFails
<1>5. CASE \E c \in Callers : LockSlots(c)
  BY <1>5, CallGoes DEF LockSlots
<1>6. CASE \E c \in Callers : Insert(c)
  BY <1>6, CallGoes DEF Insert
<1>7. CASE \E c \in Callers : StartWaiter(c)
  BY <1>7, CallReturns DEF StartWaiter
<1>8. CASE \E c \in Callers : List(c)
  BY <1>8, CallGoes DEF List, Begin
<1>9. CASE \E c \in Callers : Listed(c)
  BY <1>9, CallReturns DEF Listed
<1>10. CASE \E c \in Callers : TakeOutput(c)
  BY <1>10, CallTaken DEF TakeOutput
<1>11. CASE \E c \in Callers, t \in Ids : Kill(c, t)
  BY <1>11, CallTakes DEF Kill, Begin
<1>12. CASE \E c \in Callers, t \in Ids : Look(c, t)
  BY <1>12, CallTakes DEF Look, Begin
<1>13. CASE \E c \in Callers, t \in Ids : Drain(c, t)
  BY <1>13, CallDrains DEF Drain
<1>14. CASE \E c \in Callers, ids \in SUBSET Ids : Wait(c, ids)
  <2> PICK c \in Callers, ids \in SUBSET Ids : Wait(c, ids)
    BY <1>14
  <2> DEFINE new == [at |-> "draining", task |-> 0, todo |-> ids]
  <2>1. new \in CallType /\ call' = [call EXCEPT ![c] = new]
    BY DEF Wait, CallType
  <2> HIDE DEF new
  <2> QED BY <2>1, OneCall DEF Wait, Begin
<1> QED BY <1>1, <1>2, <1>3, <1>4, <1>5, <1>6, <1>7, <1>8, <1>9, <1>10, <1>11, <1>12,
     <1>13, <1>14, Steps

\* So does what is published.
LEMMA PubTypedStep ==
  ASSUME Books, Next
  PROVE  /\ pub' \in [Threads -> PubType]
         /\ \A th \in Threads : pub'[th].at = "rows" => pub'[th].todo # <<>>
<1> USE  DEF Books, Typed, PubType, Telling, Quiet
<1>1. CASE \/ \E c \in Callers : CountRunning(c) \/ Fork(c) \/ ForkFails(c) \/ LockSlots(c) \/
                 StartWaiter(c) \/ TakeOutput(c)
           \/ \E t \in Ids : WaitEnds(t) \/ WaitFails(t) \/ Terminate(t) \/ GraceEnds(t) \/
                 DropTree(t) \/ Pump(t) \/ Exit(t)
           \/ \E c \in Callers, t \in Ids : Look(c, t) \/ Drain(c, t)
           \/ \E c \in Callers, ids \in SUBSET Ids : Wait(c, ids)
  <2>1. UNCHANGED <<pub>>
    BY ZenonT(60), <1>1 DEF Begin, CountRunning, Drain, DropTree, Exit, Fork, ForkFails, GraceEnds,
       GraceOver, KillGroup, LockSlots, Look, Pump, PushTo, Return, StartWaiter, Take,
       TakeOutput, Taken, Terminate, To, ToTask, Wait, WaitEnds, WaitFails, WaiterTo,
       tables, world, output
  <2> QED BY <2>1
<1>2. CASE \E th \in Threads : LockOrder(th)
  <2>1. order \in Seq(Ids)
    BY DEF Ordered
  <2> QED BY <1>2, <2>1 DEF LockOrder
<1>3. CASE \E th \in Threads : ReadRow(th)
  <2> PICK th \in Threads : ReadRow(th)
    BY <1>3
  <2>1. /\ pub[th].todo \in Seq(Ids) /\ pub[th].todo # <<>>
        /\ pub[th].ended \subseteq Ids
    BY DEF ReadRow
  <2>2. Head(pub[th].todo) \in Ids /\ Tail(pub[th].todo) \in Seq(Ids)
    BY <2>1, TailKeeps
  <2>3. pub' = [pub EXCEPT ![th] =
                  [at |-> IF Tail(pub[th].todo) = <<>> THEN "send" ELSE "rows",
                   todo |-> Tail(pub[th].todo),
                   ended |-> pub[th].ended \cup ({Head(pub[th].todo)} \ Running)]]
    BY DEF ReadRow
  <2> QED BY <2>1, <2>2, <2>3
<1>4. CASE \E th \in Threads : Send(th)
  BY <1>4 DEF Send
<1>5. CASE \E c \in Callers : Insert(c)
  BY ZenonT(60), <1>5, ThreadsApart, Asked DEF Insert
<1>6. CASE \E c \in Callers : List(c)
  BY <1>6, ThreadsApart, Asked DEF List
<1>7. CASE \E c \in Callers : Listed(c)
  BY <1>7, ThreadsApart DEF Listed
<1>8. CASE \E c \in Callers, t \in Ids : Kill(c, t)
  BY <1>8, ThreadsApart, Asked DEF Kill
<1>9. CASE \E t \in Ids : Finish(t)
  BY ZenonT(60), <1>9, ThreadsApart, Asked DEF Finish
<1> QED BY <1>1, <1>2, <1>3, <1>4, <1>5, <1>6, <1>7, <1>8, <1>9, Steps

\* And everything else.
LEMMA RestTypedStep ==
  ASSUME Books, Next
  PROVE  /\ slotsLock' \in Threads \cup {Nobody} /\ orderLock' \in Threads \cup {Nobody}
         /\ waiter' \in [Ids -> Stages]
         /\ shell' \in [Ids -> BOOLEAN] /\ kin' \in [Ids -> BOOLEAN]
         /\ pumped' \in [Ids -> 0..MaxLines + 1]
         /\ read' \in [Ids -> Nat] /\ told' \in [Ids -> Nat] /\ heard' \subseteq Ids
<1> USE BackgroundAssumption DEF BackgroundAssumption, Books, Typed, Stages, tables,
      world, output
<1>1. CASE \/ \E c \in Callers : CountRunning(c) \/ ForkFails(c) \/ List(c) \/ Listed(c)
           \/ \E c \in Callers, t \in Ids : Kill(c, t) \/ Look(c, t) \/ Drain(c, t)
           \/ \E c \in Callers, ids \in SUBSET Ids : Wait(c, ids)
  <2>1. UNCHANGED <<slotsLock, orderLock, waiter, shell, kin, pumped, read, told, heard>>
    BY <1>1 DEF Asks, Begin, CountRunning, Drain, ForkFails, Kill, List, Listed, Look,
       Return, Signalled, To, ToTask, Wait, tables, world, output
  <2> QED BY <2>1
<1>2. CASE \E th \in Threads : LockOrder(th)
  BY <1>2 DEF LockOrder
<1>3. CASE \E th \in Threads : ReadRow(th)
  BY <1>3 DEF ReadRow
<1>4. CASE \E th \in Threads : Send(th)
  <2>1. \A th \in Threads : pub[th].ended \subseteq Ids
    BY DEF PubType
  <2> QED BY <1>4, <2>1 DEF Send, tables, world, output
<1>5. CASE \E c \in Callers : Fork(c)
  BY <1>5 DEF Fork, ToTask
<1>6. CASE \E c \in Callers : LockSlots(c)
  BY <1>6, ThreadsApart DEF LockSlots
<1>7. CASE \E c \in Callers : Insert(c)
  BY <1>7 DEF Insert, To, Asks
<1>8. CASE \E c \in Callers : StartWaiter(c)
  BY <1>8 DEF StartWaiter, Return
<1>9. CASE \E c \in Callers : TakeOutput(c)
  <2> PICK c \in Callers : TakeOutput(c)
    BY <1>9
  <2> DEFINE t == call[c].task
  <2>1. t \in Started /\ Take(t)
    BY TakenRow
  <2>2. Len(slots[t].pending) \in Nat /\ slots[t].dropped \in Nat
    <3>1. slots[t] \in Slots
      BY <2>1 DEF Slotted
    <3> HIDE DEF t
    <3> QED BY <3>1 DEF Slots
  <2>3. read' \in [Ids -> Nat] /\ told' \in [Ids -> Nat]
    <3>1. read[t] \in Nat /\ told[t] \in Nat
      BY <2>1, RowsAreIds
    <3>2. read \in [Ids -> Nat] /\ told \in [Ids -> Nat] /\ t \in Ids
      BY <2>1, RowsAreIds
    <3> HIDE DEF t, Books, Typed
    <3> QED BY SMTT(60), <2>1, <2>2, <3>1, <3>2 DEF Take
  <2> QED BY <2>3 DEF TakeOutput
<1>10. CASE \E t \in Ids : WaitEnds(t)
  BY <1>10 DEF WaitEnds, WaiterTo
<1>11. CASE \E t \in Ids : WaitFails(t)
  <2> PICK t \in Ids : WaitFails(t)
    BY <1>11
  <2>1. pumped' \in [Ids -> 0..MaxLines + 1]
    BY PumpRow DEF PushTo
  <2> QED BY <2>1 DEF WaitFails, WaiterTo
<1>12. CASE \E t \in Ids : Terminate(t)
  BY <1>12 DEF Terminate, WaiterTo
<1>13. CASE \E t \in Ids : GraceEnds(t)
  BY <1>13 DEF GraceEnds, KillGroup, WaiterTo, GraceOver
<1>14. CASE \E t \in Ids : Finish(t)
  BY <1>14 DEF Finish, WaiterTo, Asks
<1>15. CASE \E t \in Ids : DropTree(t)
  BY <1>15 DEF DropTree, KillGroup, WaiterTo
<1>16. CASE \E t \in Ids : Pump(t)
  <2> PICK t \in Ids : Pump(t)
    BY <1>16
  <2>1. pumped' \in [Ids -> 0..MaxLines + 1]
    BY PumpRow DEF PushTo
  <2> QED BY <2>1 DEF Pump
<1>17. CASE \E t \in Ids : Exit(t)
  BY <1>17 DEF Exit
<1> QED BY <1>1, <1>2, <1>3, <1>4, <1>5, <1>6, <1>7, <1>8, <1>9, <1>10, <1>11, <1>12,
     <1>13, <1>14, <1>15, <1>16, <1>17, Steps

-----------------------------------------------------------------------------
(* What the calls, the waiters and the watchers know *)

\* Only an insert makes a row.
LEMMA RowsStay ==
  ASSUME Books, Next, \A c \in Callers : ~ Insert(c)
  PROVE  Started' = Started
BY Rows, FinishRow DEF SameLives, Books

\* A call moves, and what it goes on with is as it must be.
LEMMA OneCaller ==
  ASSUME Books, NEW c \in Callers,
         \A d \in Callers : d # c => call'[d] = call[d],
         Started' = Started, 1..next \subseteq 1..next',
         \A d \in Callers : d # c /\ call[d].at = "started" =>
           waiter'[call[d].task] = "off",
         call'[c].at \in Forked => call'[c].task \in (1..next') \ Started,
         call'[c].at = "started" =>
           call'[c].task \in Started /\ waiter'[call'[c].task] = "off",
         call'[c].at = "taking" => call'[c].task \in Started,
         call'[c].todo \subseteq Started,
         call'[c].at \in Handling =>
           \A d \in Callers : d # c /\ call[d].at \in Handling =>
             call'[c].task # call[d].task
  PROVE  Calling'
<1> USE DEF Books, Calling
<1>1. ASSUME NEW d \in Callers
      PROVE  /\ call'[d].at \in Forked => call'[d].task \in (1..next') \ Started'
             /\ call'[d].at = "started" =>
                  call'[d].task \in Started' /\ waiter'[call'[d].task] = "off"
             /\ call'[d].at = "taking" => call'[d].task \in Started'
             /\ call'[d].todo \subseteq Started'
  <2>1. CASE d = c
    BY <2>1
  <2>2. CASE d # c
    BY <2>2
  <2> QED BY <2>1, <2>2
<1>2. ASSUME NEW d \in Callers, NEW e \in Callers, d # e,
             call'[d].at \in Handling, call'[e].at \in Handling
      PROVE  call'[d].task # call'[e].task
  <2>1. CASE d = c
    BY <1>2, <2>1
  <2>2. CASE e = c
    BY <1>2, <2>2
  <2>3. CASE d # c /\ e # c
    BY <1>2, <2>3
  <2> QED BY <2>1, <2>2, <2>3
<1> QED BY <1>1, <1>2 DEF Forked, Handling

\* Callers keep apart, and what they look at has a row.
LEMMA CallingStep ==
  ASSUME Books, Next
  PROVE  Calling'
<1>1. CASE \/ \E th \in Threads : LockOrder(th) \/ ReadRow(th) \/ Send(th)
           \/ \E t \in Ids : Exit(t)
  <2>1. UNCHANGED <<call, next, slots, waiter>>
    BY <1>1 DEF Exit, LockOrder, ReadRow, Send, tables, world, output
  <2> QED BY <2>1 DEF Books, Calling, Started
<1>2. CASE \E c \in Callers : CountRunning(c)
  <2> PICK c \in Callers : CountRunning(c)
    BY <1>2
  <2>1. UNCHANGED <<next, slots, waiter>>
    BY DEF CountRunning, tables, world
  <2>2. CASE HasRoom
    <3>1. /\ call'[c].at = "fork" /\ call'[c].todo = call[c].todo
          /\ \A d \in Callers : d # c => call'[d] = call[d]
      BY <2>2, CallGoes DEF CountRunning, Books, Typed
    <3> QED BY <2>1, <3>1, OneCaller DEF Books, Calling, Handling, Forked, Started
  <2>3. CASE ~HasRoom
    <3>1. UNCHANGED call
      BY <2>3 DEF CountRunning
    <3> QED BY <2>1, <3>1 DEF Books, Calling, Started
  <2> QED BY <2>2, <2>3
<1>3. CASE \E c \in Callers : Fork(c)
  <2> PICK c \in Callers : Fork(c)
    BY <1>3
  <2>1. next' = next + 1 /\ next \in Nat /\ next + 1 \in Ids /\ UNCHANGED <<slots, waiter>>
    BY BackgroundAssumption DEF BackgroundAssumption, Fork, Books, Slotted, Ids
  <2>2. /\ call'[c].at = "slots" /\ call'[c].task = next + 1
        /\ call'[c].todo = call[c].todo
        /\ \A d \in Callers : d # c => call'[d] = call[d]
    BY <2>1, CallTakes DEF Fork, Books, Typed
  <2>3. /\ next + 1 \in (1..next') \ Started /\ 1..next \subseteq 1..next'
        /\ next + 1 \notin 1..next
    BY <2>1 DEF Books, Slotted
  <2>4. \A d \in Callers : call[d].at \in Handling => call[d].task \in 1..next
    BY DEF Books, Calling, Slotted, Handling, Forked
  <2> QED BY <2>1, <2>2, <2>3, <2>4, OneCaller DEF Books, Calling, Handling, Forked, Started
<1>4. CASE \E c \in Callers : ForkFails(c)
  <2> PICK c \in Callers : ForkFails(c)
    BY <1>4
  <2>1. UNCHANGED <<next, slots, waiter>>
    BY DEF ForkFails, tables, world
  <2>2. /\ call'[c].at = "idle" /\ call'[c].todo = {}
        /\ \A d \in Callers : d # c => call'[d] = call[d]
    BY CallReturns DEF ForkFails, Books, Typed, Idle
  <2> QED BY <2>1, <2>2, OneCaller DEF Books, Calling, Handling, Forked, Started
<1>5. CASE \E c \in Callers : LockSlots(c)
  <2> PICK c \in Callers : LockSlots(c)
    BY <1>5
  <2>1. UNCHANGED <<next, slots, waiter>>
    BY DEF LockSlots
  <2>2. /\ call'[c].at = "insert" /\ call[c].at = "slots" /\ call'[c].task = call[c].task
        /\ call'[c].todo = call[c].todo
        /\ \A d \in Callers : d # c => call'[d] = call[d]
    BY CallGoes DEF LockSlots, Books, Typed
  <2> QED BY <2>1, <2>2, OneCaller DEF Books, Calling, Handling, Forked, Started
<1>6. CASE \E c \in Callers : Insert(c)
  <2> PICK c \in Callers : Insert(c)
    BY <1>6
  <2> DEFINE t == call[c].task
  <2>1. /\ UNCHANGED <<next, waiter>> /\ call[c].at = "insert"
        /\ t \in (1..next) \ Started /\ Started' = Started \cup {t}
    BY InsertRow DEF Insert, Books
  <2>2. /\ call'[c].at = "started" /\ call'[c].task = t /\ call'[c].todo = call[c].todo
        /\ \A d \in Callers : d # c => call'[d] = call[d]
    BY CallGoes DEF Insert, Books, Typed
  <2>3. waiter[t] = "off"
    BY <2>1, BackgroundAssumption DEF BackgroundAssumption, Books, Unborn, Slotted, Ids
  <2> HIDE DEF t
  <2>4. \A d \in Callers : d # c /\ call[d].at \in Handling => call[d].task # t
    BY <2>1 DEF Books, Calling, Handling, t
  <2>5. ASSUME NEW d \in Callers
        PROVE  /\ call'[d].at \in Forked => call'[d].task \in (1..next') \ Started'
               /\ call'[d].at = "started" =>
                    call'[d].task \in Started' /\ waiter'[call'[d].task] = "off"
               /\ call'[d].at = "taking" => call'[d].task \in Started'
               /\ call'[d].todo \subseteq Started'
    <3>1. CASE d = c
      BY <2>1, <2>2, <2>3, <3>1 DEF Books, Calling, Forked
    <3>2. CASE d # c
      BY <2>1, <2>2, <2>4, <3>2 DEF Books, Calling, Forked, Handling
    <3> QED BY <3>1, <3>2
  <2>6. ASSUME NEW d \in Callers, NEW e \in Callers, d # e,
               call'[d].at \in Handling, call'[e].at \in Handling
        PROVE  call'[d].task # call'[e].task
    <3>1. CASE d = c
      BY <2>2, <2>4, <2>6, <3>1
    <3>2. CASE e = c
      BY <2>2, <2>4, <2>6, <3>2
    <3>3. CASE d # c /\ e # c
      BY <2>2, <2>6, <3>3 DEF Books, Calling
    <3> QED BY <3>1, <3>2, <3>3
  <2> QED BY <2>5, <2>6 DEF Calling
<1>7. CASE \E c \in Callers : StartWaiter(c)
  <2> PICK c \in Callers : StartWaiter(c)
    BY <1>7
  <2>1. UNCHANGED <<next, slots>> /\ waiter' = [waiter EXCEPT ![call[c].task] = "select"]
    BY DEF StartWaiter, tables, world
  <2>2. /\ call'[c].at = "idle" /\ call'[c].todo = {} /\ call[c].at = "started"
        /\ \A d \in Callers : d # c => call'[d] = call[d]
    BY CallReturns DEF StartWaiter, Books, Typed, Idle
  <2>3. \A d \in Callers : d # c /\ call[d].at = "started" => waiter'[call[d].task] = "off"
    <3>1. \A d \in Callers : d # c /\ call[d].at = "started" =>
            call[d].task # call[c].task /\ call[d].task \in Ids /\ waiter[call[d].task] = "off"
      BY <2>2, RowsAreIds DEF Books, Calling, Handling
    <3> QED BY <2>1, <3>1 DEF Books, Typed
  <2> QED BY <2>1, <2>2, <2>3, OneCaller DEF Books, Calling, Handling, Forked, Started
<1>8. CASE \E c \in Callers : List(c)
  <2> PICK c \in Callers : List(c)
    BY <1>8
  <2>1. UNCHANGED <<next, slots, waiter>>
    BY DEF List, tables, world
  <2>2. /\ call'[c].at = "listing" /\ call'[c].task = call[c].task /\ call'[c].todo = call[c].todo
        /\ \A d \in Callers : d # c => call'[d] = call[d]
    BY CallGoes DEF List, Begin, Books, Typed
  <2> QED BY <2>1, <2>2, OneCaller DEF Books, Calling, Handling, Forked, Started
<1>9. CASE \E c \in Callers : Listed(c)
  <2> PICK c \in Callers : Listed(c)
    BY <1>9
  <2>1. UNCHANGED <<next, slots, waiter>>
    BY DEF Listed, tables, world
  <2>2. /\ call'[c].at = "idle" /\ call'[c].todo = {}
        /\ \A d \in Callers : d # c => call'[d] = call[d]
    BY CallReturns DEF Listed, Books, Typed, Idle
  <2> QED BY <2>1, <2>2, OneCaller DEF Books, Calling, Handling, Forked, Started
<1>10. CASE \E c \in Callers : TakeOutput(c)
  <2> PICK c \in Callers : TakeOutput(c)
    BY <1>10
  <2>1. UNCHANGED <<next, waiter>> /\ Started' = Started
    BY TakenRow, TakeRow DEF TakeOutput, Books, SameLives
  <2>2. /\ call'[c].at \in {"draining", "idle"} /\ call'[c].todo \subseteq call[c].todo
        /\ \A d \in Callers : d # c => call'[d] = call[d]
    BY CallTaken DEF Books, Typed
  <2> QED BY <2>1, <2>2, OneCaller DEF Books, Calling, Handling, Forked
<1>11. CASE \E c \in Callers, t \in Ids : Kill(c, t)
  <2> PICK c \in Callers, t \in Ids : Kill(c, t)
    BY <1>11
  <2>1. UNCHANGED <<next, waiter>> /\ t \in Started /\ Started' = Started
    BY KillRow DEF Kill, Books, SameLives
  <2>2. /\ call'[c].at = "taking" /\ call'[c].task = t /\ call'[c].todo = call[c].todo
        /\ \A d \in Callers : d # c => call'[d] = call[d]
    BY CallTakes DEF Kill, Books, Typed
  <2> QED BY <2>1, <2>2, OneCaller DEF Books, Calling, Handling, Forked
<1>12. CASE \E c \in Callers, t \in Ids : Look(c, t)
  <2> PICK c \in Callers, t \in Ids : Look(c, t)
    BY <1>12
  <2>1. UNCHANGED <<next, slots, waiter>> /\ t \in Started
    BY DEF Look, tables, world
  <2>2. /\ call'[c].at = "taking" /\ call'[c].task = t /\ call'[c].todo = call[c].todo
        /\ \A d \in Callers : d # c => call'[d] = call[d]
    BY CallTakes DEF Look, Books, Typed
  <2> QED BY <2>1, <2>2, OneCaller DEF Books, Calling, Handling, Forked, Started
<1>13. CASE \E c \in Callers, t \in Ids : Drain(c, t)
  <2> PICK c \in Callers, t \in Ids : Drain(c, t)
    BY <1>13
  <2>1. UNCHANGED <<next, slots, waiter>> /\ t \in call[c].todo
    BY DEF Drain, tables, world
  <2>2. /\ call'[c].at \in {"taking", "draining", "idle"}
        /\ call'[c].at = "taking" => call'[c].task = t
        /\ call'[c].todo \subseteq call[c].todo
        /\ \A d \in Callers : d # c => call'[d] = call[d]
    BY CallDrains DEF Books, Typed
  <2> QED BY <2>1, <2>2, OneCaller DEF Books, Calling, Handling, Forked, Started
<1>14. CASE \E c \in Callers, ids \in SUBSET Ids : Wait(c, ids)
  <2> PICK c \in Callers, ids \in SUBSET Ids : Wait(c, ids)
    BY <1>14
  <2>1. UNCHANGED <<next, slots, waiter>> /\ ids \subseteq Started
    BY DEF Wait, tables, world
  <2>2. /\ call'[c].at = "draining" /\ call'[c].todo = ids
        /\ \A d \in Callers : d # c => call'[d] = call[d]
    BY DEF Wait, Books, Typed
  <2> QED BY <2>1, <2>2, OneCaller DEF Books, Calling, Handling, Forked, Started
<1>15. CASE \E t \in Ids : WaitEnds(t)
  <2> PICK t \in Ids : WaitEnds(t)
    BY <1>15
  <2>1. Started' = Started
    BY DEF WaitEnds, WaiterTo, tables, Started
  <2>2. UNCHANGED <<call, next>> /\ \A u \in Ids : waiter[u] = "off" => waiter'[u] = "off"
    BY DEF WaitEnds, WaiterTo, tables, output, Books, Typed
  <2> QED BY <2>1, <2>2, RowsAreIds DEF Books, Calling
<1>16. CASE \E t \in Ids : WaitFails(t)
  <2> PICK t \in Ids : WaitFails(t)
    BY <1>16
  <2>1. Started' = Started
    BY PumpRow, PushToRow DEF Books, SameLives
  <2>2. UNCHANGED <<call, next>> /\ \A u \in Ids : waiter[u] = "off" => waiter'[u] = "off"
    BY DEF WaitFails, WaiterTo, Books, Typed
  <2> QED BY <2>1, <2>2, RowsAreIds DEF Books, Calling
<1>17. CASE \E t \in Ids : Terminate(t)
  <2> PICK t \in Ids : Terminate(t)
    BY <1>17
  <2>1. Started' = Started
    BY DEF Terminate, WaiterTo, tables, Started
  <2>2. UNCHANGED <<call, next>> /\ \A u \in Ids : waiter[u] = "off" => waiter'[u] = "off"
    BY DEF Terminate, WaiterTo, tables, output, Books, Typed
  <2> QED BY <2>1, <2>2, RowsAreIds DEF Books, Calling
<1>18. CASE \E t \in Ids : GraceEnds(t)
  <2> PICK t \in Ids : GraceEnds(t)
    BY <1>18
  <2>1. Started' = Started
    BY DEF GraceEnds, KillGroup, WaiterTo, GraceOver, tables, Started
  <2>2. UNCHANGED <<call, next>> /\ \A u \in Ids : waiter[u] = "off" => waiter'[u] = "off"
    BY DEF GraceEnds, KillGroup, WaiterTo, GraceOver, tables, output, Books, Typed
  <2> QED BY <2>1, <2>2, RowsAreIds DEF Books, Calling
<1>19. CASE \E t \in Ids : Finish(t)
  <2> PICK t \in Ids : Finish(t)
    BY <1>19
  <2>1. Started' = Started
    BY FinishRow DEF Books
  <2>2. UNCHANGED <<call, next>> /\ \A u \in Ids : waiter[u] = "off" => waiter'[u] = "off"
    BY DEF Finish, WaiterTo, Books, Typed
  <2> QED BY <2>1, <2>2, RowsAreIds DEF Books, Calling
<1>20. CASE \E t \in Ids : DropTree(t)
  <2> PICK t \in Ids : DropTree(t)
    BY <1>20
  <2>1. Started' = Started
    BY DEF DropTree, KillGroup, WaiterTo, tables, Started
  <2>2. UNCHANGED <<call, next>> /\ \A u \in Ids : waiter[u] = "off" => waiter'[u] = "off"
    BY DEF DropTree, KillGroup, WaiterTo, tables, output, Books, Typed
  <2> QED BY <2>1, <2>2, RowsAreIds DEF Books, Calling
<1>21. CASE \E t \in Ids : Pump(t)
  <2> PICK t \in Ids : Pump(t)
    BY <1>21
  <2>1. Started' = Started
    BY PumpRow, PushToRow DEF Books, SameLives
  <2>2. UNCHANGED <<call, next>> /\ \A u \in Ids : waiter[u] = "off" => waiter'[u] = "off"
    BY DEF Pump, Books, Typed
  <2> QED BY <2>1, <2>2, RowsAreIds DEF Books, Calling
<1> QED BY <1>1, <1>2, <1>3, <1>4, <1>5, <1>6, <1>7, <1>8, <1>9, <1>10, <1>11, <1>12,
     <1>13, <1>14, <1>15, <1>16, <1>17, <1>18, <1>19, <1>20, <1>21, Steps

\* No row goes.
LEMMA RowsGrow ==
  ASSUME Books, Next
  PROVE  Started \subseteq Started'
BY Rows, InsertRow, FinishRow DEF SameLives, Books

\* What has no row does nothing.
LEMMA UnbornStep ==
  ASSUME Books, Next
  PROVE  Unborn'
<1>1. CASE \/ \E th \in Threads : LockOrder(th) \/ ReadRow(th) \/ Send(th)
           \/ \E c \in Callers : CountRunning(c) \/ Fork(c) \/ ForkFails(c) \/ LockSlots(c) \/
                 Insert(c) \/ List(c) \/ Listed(c)
           \/ \E t \in Ids : Exit(t)
           \/ \E c \in Callers, t \in Ids : Kill(c, t) \/ Look(c, t) \/ Drain(c, t)
           \/ \E c \in Callers, ids \in SUBSET Ids : Wait(c, ids)
  <2>1. UNCHANGED <<waiter, pumped, read, told>>
    BY ZenonT(60), <1>1 DEF Asks, Begin, CountRunning, Drain, Exit, Fork, ForkFails, Insert, Kill,
       List, Listed, LockOrder, LockSlots, Look, ReadRow, Return, Send, Signalled, To,
       ToTask, Wait, tables, world, output
  <2> QED BY <2>1, RowsGrow DEF Books, Unborn
<1>2. CASE \E c \in Callers : StartWaiter(c)
  <2> PICK c \in Callers : StartWaiter(c)
    BY <1>2
  <2> DEFINE u == call[c].task
  <2>1. u \in Started /\ waiter' = [waiter EXCEPT ![u] = "select"]
        /\ UNCHANGED <<pumped, read, told>>
    BY DEF StartWaiter, output, Books, Calling
  <2> HIDE DEF u
  <2> QED BY <2>1, RowsGrow DEF Books, Unborn, Typed
<1>3. CASE \E c \in Callers : TakeOutput(c)
  <2> PICK c \in Callers : TakeOutput(c)
    BY <1>3
  <2> DEFINE u == call[c].task
  <2>1. u \in Started /\ Take(u)
    BY TakenRow
  <2>2. UNCHANGED <<waiter, pumped>>
    BY DEF TakeOutput
  <2>3. \A t \in Ids \ {u} : read'[t] = read[t] /\ told'[t] = told[t]
    BY <2>1 DEF Take, Books, Typed
  <2> HIDE DEF u
  <2> QED BY <2>1, <2>2, <2>3, RowsGrow DEF Books, Unborn
<1>4. CASE \E t \in Ids : WaitEnds(t)
  <2> PICK t \in Ids : WaitEnds(t)
    BY <1>4
  <2>1. t \in Started /\ waiter' = [waiter EXCEPT ![t] = "exited"]
        /\ UNCHANGED <<pumped, read, told>>
    BY DEF WaitEnds, WaiterTo, tables, output, Books, Unborn
  <2> QED BY <2>1, RowsGrow DEF Books, Unborn, Typed
<1>5. CASE \E t \in Ids : WaitFails(t)
  <2> PICK t \in Ids : WaitFails(t)
    BY <1>5
  <2>1. t \in Started /\ pumped' = [pumped EXCEPT ![t] = pumped[t] + 1]
    BY PumpRow DEF PushTo
  <2>2. waiter' = [waiter EXCEPT ![t] = "exited"] /\ UNCHANGED <<read, told>>
    BY DEF WaitFails, WaiterTo
  <2> QED BY <2>1, <2>2, RowsGrow DEF Books, Unborn, Typed
<1>6. CASE \E t \in Ids : Terminate(t)
  <2> PICK t \in Ids : Terminate(t)
    BY <1>6
  <2>1. t \in Started /\ waiter' = [waiter EXCEPT ![t] = "grace"]
        /\ UNCHANGED <<pumped, read, told>>
    BY DEF Terminate, WaiterTo, tables, output, Books, Unborn
  <2> QED BY <2>1, RowsGrow DEF Books, Unborn, Typed
<1>7. CASE \E t \in Ids : GraceEnds(t)
  <2> PICK t \in Ids : GraceEnds(t)
    BY <1>7
  <2>1. t \in Started /\ waiter' = [waiter EXCEPT ![t] = "killed"]
        /\ UNCHANGED <<pumped, read, told>>
    BY DEF GraceEnds, KillGroup, WaiterTo, GraceOver, tables, output, Books, Unborn
  <2> QED BY <2>1, RowsGrow DEF Books, Unborn, Typed
<1>8. CASE \E t \in Ids : Finish(t)
  <2> PICK t \in Ids : Finish(t)
    BY <1>8
  <2>1. t \in Started /\ waiter' = [waiter EXCEPT ![t] = "finished"]
        /\ UNCHANGED <<pumped, read, told>>
    BY DEF Finish, WaiterTo, Asks, tables, output, Books, Unborn
  <2> QED BY <2>1, RowsGrow DEF Books, Unborn, Typed
<1>9. CASE \E t \in Ids : DropTree(t)
  <2> PICK t \in Ids : DropTree(t)
    BY <1>9
  <2>1. t \in Started /\ waiter' = [waiter EXCEPT ![t] = "gone"]
        /\ UNCHANGED <<pumped, read, told>>
    BY DEF DropTree, KillGroup, WaiterTo, tables, output, Books, Unborn
  <2> QED BY <2>1, RowsGrow DEF Books, Unborn, Typed
<1>10. CASE \E t \in Ids : Pump(t)
  <2> PICK t \in Ids : Pump(t)
    BY <1>10
  <2>1. t \in Started /\ pumped' = [pumped EXCEPT ![t] = pumped[t] + 1]
    BY PumpRow DEF PushTo
  <2>2. UNCHANGED <<waiter, read, told>>
    BY DEF Pump
  <2> QED BY <2>1, <2>2, RowsGrow DEF Books, Unborn, Typed
<1> QED BY <1>1, <1>2, <1>3, <1>4, <1>5, <1>6, <1>7, <1>8, <1>9, <1>10, Steps

\* The last line has room.
LEMMA LastLineStep ==
  ASSUME Books, Next
  PROVE  LastLine'
<1>1. CASE \/ \E th \in Threads : LockOrder(th) \/ ReadRow(th) \/ Send(th)
           \/ \E c \in Callers : CountRunning(c) \/ Fork(c) \/ ForkFails(c) \/ LockSlots(c) \/
                 Insert(c) \/ List(c) \/ Listed(c) \/ TakeOutput(c)
           \/ \E t \in Ids : Exit(t)
           \/ \E c \in Callers, t \in Ids : Kill(c, t) \/ Look(c, t) \/ Drain(c, t)
           \/ \E c \in Callers, ids \in SUBSET Ids : Wait(c, ids)
  <2>1. UNCHANGED <<waiter, pumped>>
    BY ZenonT(60), <1>1 DEF Asks, Begin, CountRunning, Drain, Exit, Fork, ForkFails, Insert, Kill,
       List, Listed, LockOrder, LockSlots, Look, ReadRow, Return, Send, Signalled, Take,
       TakeOutput, Taken, To, ToTask, Wait, tables, world, output
  <2> QED BY <2>1 DEF Books, LastLine
<1>2. CASE \E c \in Callers : StartWaiter(c)
  <2> PICK c \in Callers : StartWaiter(c)
    BY <1>2
  <2>1. UNCHANGED pumped /\ waiter' = [waiter EXCEPT ![call[c].task] = "select"]
        /\ waiter[call[c].task] = "off" /\ call[c].task \in Ids
    BY RowsAreIds DEF StartWaiter, output, Books, Calling
  <2> QED BY <2>1 DEF Books, Typed, LastLine
<1>3. CASE \E t \in Ids : WaitEnds(t)
  <2> PICK t \in Ids : WaitEnds(t)
    BY <1>3
  <2>1. UNCHANGED pumped /\ waiter' = [waiter EXCEPT ![t] = "exited"]
    BY DEF WaitEnds, WaiterTo, tables, output
  <2> QED BY <2>1 DEF Books, Typed, LastLine
<1>4. CASE \E t \in Ids : WaitFails(t)
  <2> PICK t \in Ids : WaitFails(t)
    BY <1>4
  <2>1. /\ pumped' = [pumped EXCEPT ![t] = pumped[t] + 1]
        /\ waiter' = [waiter EXCEPT ![t] = "exited"]
    BY DEF WaitFails, PushTo, WaiterTo
  <2>2. waiter'[t] = "exited"
    BY <2>1 DEF Books, Typed
  <2>3. \A u \in Ids \ {t} : pumped'[u] = pumped[u] /\ waiter'[u] = waiter[u]
    BY <2>1 DEF Books, Typed
  <2> QED BY <2>2, <2>3 DEF Books, LastLine
<1>5. CASE \E t \in Ids : Terminate(t)
  <2> PICK t \in Ids : Terminate(t)
    BY <1>5
  <2>1. UNCHANGED pumped /\ waiter' = [waiter EXCEPT ![t] = "grace"]
    BY DEF Terminate, WaiterTo, tables, output
  <2> QED BY <2>1 DEF Books, Typed, LastLine
<1>6. CASE \E t \in Ids : GraceEnds(t)
  <2> PICK t \in Ids : GraceEnds(t)
    BY <1>6
  <2>1. UNCHANGED pumped /\ waiter' = [waiter EXCEPT ![t] = "killed"]
    BY DEF GraceEnds, KillGroup, WaiterTo, GraceOver, tables, output
  <2> QED BY <2>1 DEF Books, Typed, LastLine
<1>7. CASE \E t \in Ids : Finish(t)
  <2> PICK t \in Ids : Finish(t)
    BY <1>7
  <2>1. UNCHANGED pumped /\ waiter' = [waiter EXCEPT ![t] = "finished"]
    BY DEF Finish, WaiterTo, Asks, tables, output
  <2> QED BY <2>1 DEF Books, Typed, LastLine
<1>8. CASE \E t \in Ids : DropTree(t)
  <2> PICK t \in Ids : DropTree(t)
    BY <1>8
  <2>1. UNCHANGED pumped /\ waiter' = [waiter EXCEPT ![t] = "gone"]
    BY DEF DropTree, KillGroup, WaiterTo, tables, output
  <2> QED BY <2>1 DEF Books, Typed, LastLine
<1>9. CASE \E t \in Ids : Pump(t)
  <2> PICK t \in Ids : Pump(t)
    BY <1>9
  <2>1. pumped' = [pumped EXCEPT ![t] = pumped[t] + 1] /\ UNCHANGED waiter /\ pumped[t] < MaxLines
    BY DEF Pump, PushTo
  <2>2. pumped[t] \in Nat /\ MaxLines \in Nat
    BY BackgroundAssumption DEF BackgroundAssumption, Books, Typed
  <2>3. pumped'[t] <= MaxLines /\ \A u \in Ids \ {t} : pumped'[u] = pumped[u]
    BY <2>1, <2>2 DEF Books, Typed
  <2> QED BY <2>1, <2>3 DEF Books, LastLine
<1> QED BY <1>1, <1>2, <1>3, <1>4, <1>5, <1>6, <1>7, <1>8, <1>9, Steps

\* The rows say what the waiters did.
LEMMA LivesStep ==
  ASSUME Books, Next
  PROVE  Lives'
<1>1. CASE \/ \E th \in Threads : LockOrder(th) \/ ReadRow(th) \/ Send(th)
           \/ \E c \in Callers : CountRunning(c) \/ ForkFails(c) \/ LockSlots(c) \/ List(c) \/
                 Listed(c)
           \/ \E c \in Callers, t \in Ids : Look(c, t) \/ Drain(c, t)
           \/ \E c \in Callers, ids \in SUBSET Ids : Wait(c, ids)
  <2>1. UNCHANGED <<slots, waiter, shell, kin>>
    BY <1>1 DEF Asks, Begin, CountRunning, Drain, ForkFails, List, Listed, LockOrder,
       LockSlots, Look, ReadRow, Return, Send, To, ToTask, Wait, tables, world, output
  <2> QED BY <2>1 DEF Books, Lives, Started
<1>2. CASE \E c \in Callers : Fork(c)
  <2> PICK c \in Callers : Fork(c)
    BY <1>2
  <2>1. SameLives /\ UNCHANGED waiter
    BY DEF Fork, SameLives, Started
  <2>2. /\ shell' = [shell EXCEPT ![next + 1] = TRUE] /\ kin' = [kin EXCEPT ![next + 1] = TRUE]
        /\ next + 1 \notin Started
    BY DEF Fork, Books, Slotted
  <2>3. \A t \in Started : shell'[t] = shell[t] /\ kin'[t] = kin[t]
    BY <2>2, RowsAreIds DEF Books, Typed
  <2> QED BY <2>1, <2>3 DEF Books, Lives, SameLives
<1>3. CASE \E c \in Callers : Insert(c)
  <2> PICK c \in Callers : Insert(c)
    BY <1>3
  <2> DEFINE u == call[c].task
  <2>1. /\ u \in (1..next) \ Started /\ Started' = Started \cup {u}
        /\ slots'[u].state = "running" /\ \A t \in Started : slots'[t] = slots[t]
    BY InsertRow DEF Books
  <2>2. UNCHANGED <<waiter, shell, kin>>
    BY DEF Insert, world
  <2> HIDE DEF u
  <2>3. waiter[u] = "off"
    BY <2>1, BackgroundAssumption DEF BackgroundAssumption, Books, Unborn, Slotted, Ids
  <2> QED BY <2>1, <2>2, <2>3 DEF Books, Lives
<1>4. CASE \E c \in Callers : StartWaiter(c)
  <2> PICK c \in Callers : StartWaiter(c)
    BY <1>4
  <2> DEFINE u == call[c].task
  <2>1. /\ SameLives /\ UNCHANGED <<shell, kin>> /\ waiter[u] = "off" /\ u \in Started
        /\ waiter' = [waiter EXCEPT ![u] = "select"]
    BY DEF StartWaiter, tables, world, SameLives, Started, Books, Calling
  <2> HIDE DEF u
  <2> QED BY <2>1 DEF Books, Typed, Lives, SameLives
<1>5. CASE \E c \in Callers : TakeOutput(c)
  <2> PICK c \in Callers : TakeOutput(c)
    BY <1>5
  <2>1. SameLives
    BY TakenRow, TakeRow DEF Books
  <2>2. UNCHANGED <<waiter, shell, kin>>
    BY DEF TakeOutput, world
  <2> QED BY <2>1, <2>2 DEF Books, Lives, SameLives
<1>6. CASE \E c \in Callers, t \in Ids : Kill(c, t)
  <2> PICK c \in Callers, t \in Ids : Kill(c, t)
    BY <1>6
  <2>1. SameLives
    BY KillRow DEF Books
  <2>2. UNCHANGED <<waiter, shell, kin>>
    BY DEF Kill, world
  <2> QED BY <2>1, <2>2 DEF Books, Lives, SameLives
<1>7. CASE \E t \in Ids : WaitEnds(t)
  <2> PICK t \in Ids : WaitEnds(t)
    BY <1>7
  <2>1. SameLives /\ UNCHANGED <<shell, kin>> /\ waiter[t] = "select"
        /\ waiter' = [waiter EXCEPT ![t] = "exited"]
    BY DEF WaitEnds, WaiterTo, tables, world, output, SameLives, Started
  <2> QED BY <2>1 DEF Books, Typed, Lives, SameLives
<1>8. CASE \E t \in Ids : WaitFails(t)
  <2> PICK t \in Ids : WaitFails(t)
    BY <1>8
  <2>1. SameLives
    BY PumpRow, PushToRow DEF Books
  <2>2. /\ UNCHANGED <<shell, kin>> /\ waiter[t] = "select"
        /\ waiter' = [waiter EXCEPT ![t] = "exited"]
    BY DEF WaitFails, WaiterTo, world
  <2> QED BY <2>1, <2>2 DEF Books, Typed, Lives, SameLives
<1>9. CASE \E t \in Ids : Terminate(t)
  <2> PICK t \in Ids : Terminate(t)
    BY <1>9
  <2>1. SameLives /\ UNCHANGED <<shell, kin>> /\ waiter[t] = "select"
        /\ slots[t].kill = "sent" /\ waiter' = [waiter EXCEPT ![t] = "grace"]
    BY DEF Terminate, WaiterTo, tables, world, output, SameLives, Started
  <2> QED BY <2>1 DEF Books, Typed, Lives, SameLives
<1>10. CASE \E t \in Ids : GraceEnds(t)
  <2> PICK t \in Ids : GraceEnds(t)
    BY <1>10
  <2>1. SameLives /\ waiter[t] = "grace" /\ waiter' = [waiter EXCEPT ![t] = "killed"]
        /\ shell' = [shell EXCEPT ![t] = FALSE] /\ kin' = [kin EXCEPT ![t] = FALSE]
    BY DEF GraceEnds, KillGroup, WaiterTo, GraceOver, tables, world, output, SameLives,
       Started
  <2> QED BY <2>1 DEF Books, Typed, Lives, SameLives
<1>11. CASE \E t \in Ids : Finish(t)
  <2> PICK t \in Ids : Finish(t)
    BY <1>11
  <2>1. /\ t \in Started /\ Started' = Started /\ slots'[t].state = waiter[t]
        /\ \A u \in Started : u # t => slots'[u] = slots[u]
    BY FinishRow DEF Books
  <2>2. /\ UNCHANGED <<shell, kin>> /\ waiter[t] \in {"exited", "killed"}
        /\ waiter' = [waiter EXCEPT ![t] = "finished"]
    BY DEF Finish, WaiterTo, world
  <2> QED BY <2>1, <2>2 DEF Books, Typed, Lives
<1>12. CASE \E t \in Ids : DropTree(t)
  <2> PICK t \in Ids : DropTree(t)
    BY <1>12
  <2>1. SameLives /\ waiter[t] = "finished" /\ waiter' = [waiter EXCEPT ![t] = "gone"]
        /\ shell' = [shell EXCEPT ![t] = FALSE] /\ kin' = [kin EXCEPT ![t] = FALSE]
    BY DEF DropTree, KillGroup, WaiterTo, tables, world, output, SameLives, Started
  <2> QED BY <2>1 DEF Books, Typed, Lives, SameLives
<1>13. CASE \E t \in Ids : Pump(t)
  <2> PICK t \in Ids : Pump(t)
    BY <1>13
  <2>1. SameLives
    BY PumpRow, PushToRow DEF Books
  <2>2. UNCHANGED <<waiter, shell, kin>>
    BY DEF Pump, world
  <2> QED BY <2>1, <2>2 DEF Books, Lives, SameLives
<1>14. CASE \E t \in Ids : Exit(t)
  <2> PICK t \in Ids : Exit(t)
    BY <1>14
  <2>1. SameLives /\ UNCHANGED <<waiter, kin>> /\ shell' = [shell EXCEPT ![t] = FALSE]
    BY DEF Exit, tables, world, output, SameLives, Started
  <2> QED BY <2>1 DEF Books, Typed, Lives, SameLives
<1> QED BY <1>1, <1>2, <1>3, <1>4, <1>5, <1>6, <1>7, <1>8, <1>9, <1>10, <1>11, <1>12,
     <1>13, <1>14, Steps

\* What one publication does leaves the tellings of the others alone.
LEMMA OneTelling ==
  ASSUME Books, NEW th \in Threads, \A u \in Threads : u # th => pub'[u] = pub[u],
         Started' = Started, waiter' = waiter, heard \subseteq heard',
         ASSUME NEW own \in Started, waiter[own] = "finished", th = Waiter(own)
         PROVE  LET p == pub'[Waiter(own)]
                IN  \/ p.at = "order"
                    \/ p.at = "rows" /\ own \in ToSet(p.todo) \cup p.ended
                    \/ p.at = "send" /\ own \in p.ended
                    \/ p.at = "quiet" /\ own \in heard'
  PROVE  \A t \in Started' : waiter'[t] = "finished" =>
           LET p == pub'[Waiter(t)]
           IN  \/ p.at = "order"
               \/ p.at = "rows" /\ t \in ToSet(p.todo) \cup p.ended
               \/ p.at = "send" /\ t \in p.ended
               \/ p.at = "quiet" /\ t \in heard'
<1> SUFFICES ASSUME NEW t \in Started, waiter[t] = "finished"
             PROVE  LET p == pub'[Waiter(t)]
                    IN  \/ p.at = "order"
                        \/ p.at = "rows" /\ t \in ToSet(p.todo) \cup p.ended
                        \/ p.at = "send" /\ t \in p.ended
                        \/ p.at = "quiet" /\ t \in heard'
  OBVIOUS
<1>1. CASE th = Waiter(t)
  BY <1>1
<1>2. CASE th # Waiter(t)
  <2>1. Waiter(t) \in Threads
    BY RowsAreIds, ThreadsApart
  <2> QED BY <1>2, <2>1 DEF Books, Telling
<1> QED BY <1>1, <1>2

\* An end goes on being told until it was.
LEMMA TellingStep ==
  ASSUME Books, Next
  PROVE  \A t \in Started' : waiter'[t] = "finished" =>
           LET p == pub'[Waiter(t)]
           IN  \/ p.at = "order"
               \/ p.at = "rows" /\ t \in ToSet(p.todo) \cup p.ended
               \/ p.at = "send" /\ t \in p.ended
               \/ p.at = "quiet" /\ t \in heard'
<1>1. CASE \/ \E c \in Callers : CountRunning(c) \/ Fork(c) \/ ForkFails(c) \/ LockSlots(c)
           \/ \E t \in Ids : Exit(t)
           \/ \E c \in Callers, t \in Ids : Look(c, t) \/ Drain(c, t)
           \/ \E c \in Callers, ids \in SUBSET Ids : Wait(c, ids)
  <2>1. UNCHANGED <<pub, heard, slots, waiter>>
    BY <1>1 DEF Begin, CountRunning, Drain, Exit, Fork, ForkFails, LockSlots, Look,
       Return, To, ToTask, Wait, tables, world, output
  <2> QED BY <2>1 DEF Books, Telling, Started
<1>2. CASE \E th \in Threads : LockOrder(th)
  <2> PICK th \in Threads : LockOrder(th)
    BY <1>2
  <2>1. /\ pub' = [pub EXCEPT ![th] = [at |-> IF order = <<>> THEN "send" ELSE "rows",
                                      todo |-> order, ended |-> {}]]
        /\ UNCHANGED <<slots, waiter, heard>>
    BY DEF LockOrder
  <2>2. ASSUME NEW t \in Started
        PROVE  order # <<>> /\ t \in ToSet(order)
    BY DEF Books, Ordered, ToSet
  <2>3. /\ pub'[th] = [at |-> IF order = <<>> THEN "send" ELSE "rows",
                      todo |-> order, ended |-> {}]
        /\ \A u \in Threads : u # th => pub'[u] = pub[u]
    BY <2>1 DEF Books, Typed
  <2>4. ASSUME NEW t \in Started
        PROVE  pub'[th].at = "rows" /\ t \in ToSet(pub'[th].todo)
    BY <2>2, <2>3
  <2>5. Started' = Started
    BY <2>1 DEF Started
  <2> QED BY <2>1, <2>3, <2>4, <2>5, OneTelling
<1>3. CASE \E th \in Threads : ReadRow(th)
  <2> PICK th \in Threads : ReadRow(th)
    BY <1>3
  <2> DEFINE p    == pub[th]
             rest == Tail(p.todo)
             now  == [at |-> IF rest = <<>> THEN "send" ELSE "rows", todo |-> rest,
                      ended |-> p.ended \cup ({Head(p.todo)} \ Running)]
  <2>1. p.at = "rows" /\ pub' = [pub EXCEPT ![th] = now] /\ UNCHANGED <<slots, waiter, heard>>
    BY DEF ReadRow
  <2>2. p.todo \in Seq(Ids) /\ p.todo # <<>>
    BY <2>1 DEF Books, Typed, Telling, PubType
  <2>3. rest \in Seq(Ids) /\ ToSet(p.todo) = {Head(p.todo)} \cup ToSet(rest)
    BY <2>2, TailKeeps
  <2>4. rest = <<>> => ToSet(rest) = {}
    BY DEF ToSet
  <2> HIDE DEF rest
  <2>5. pub'[th] = now /\ \A u \in Threads : u # th => pub'[u] = pub[u]
    BY <2>1 DEF Books, Typed
  <2>6. ASSUME NEW t \in Started, waiter[t] = "finished", th = Waiter(t)
        PROVE  \/ now.at = "rows" /\ t \in ToSet(now.todo) \cup now.ended
               \/ now.at = "send" /\ t \in now.ended
    <3>1. t \in ToSet(p.todo) \cup p.ended
      BY <2>1, <2>6 DEF Books, Telling
    <3>2. t \notin Running
      BY <2>6 DEF Books, Lives, Running
    <3> QED BY <2>3, <2>4, <3>1, <3>2
  <2> HIDE DEF now
  <2> QED BY ZenonT(60), <2>1, <2>5, <2>6, OneTelling DEF Started
<1>4. CASE \E th \in Threads : Send(th)
  <2> PICK th \in Threads : Send(th)
    BY <1>4
  <2>1. /\ pub[th].at = "send" /\ pub' = [pub EXCEPT ![th] = Quiet]
        /\ heard' = heard \cup pub[th].ended /\ UNCHANGED <<slots, waiter>>
    BY DEF Send, tables
  <2>2. pub'[th] = Quiet /\ \A u \in Threads : u # th => pub'[u] = pub[u]
    BY <2>1 DEF Books, Typed
  <2>3. ASSUME NEW t \in Started, waiter[t] = "finished", th = Waiter(t)
        PROVE  t \in heard' /\ Quiet.at = "quiet"
    BY <2>1, <2>3 DEF Books, Telling, Quiet
  <2> QED BY ZenonT(60), <2>1, <2>2, <2>3, OneTelling DEF Started
<1>5. CASE \E c \in Callers : Insert(c)
  <2> PICK c \in Callers : Insert(c)
    BY <1>5
  <2> DEFINE n == call[c].task
  <2>1. /\ n \in (1..next) \ Started /\ Started' = Started \cup {n}
        /\ UNCHANGED <<waiter, heard>>
    BY InsertRow DEF Insert, Books
  <2> HIDE DEF n
  <2>2. waiter[n] = "off"
    BY <2>1, BackgroundAssumption DEF BackgroundAssumption, Books, Unborn, Slotted, Ids
  <2>3. \A u \in Threads : u # Caller(c) => pub'[u] = pub[u]
    BY ThreadsApart, Asked DEF Insert, Books, Typed
  <2>4. \A t \in Started : pub'[Waiter(t)] = pub[Waiter(t)]
    BY <2>3, RowsAreIds, ThreadsApart
  <2> QED BY <2>1, <2>2, <2>4 DEF Books, Telling
<1>6. CASE \E c \in Callers : StartWaiter(c)
  <2> PICK c \in Callers : StartWaiter(c)
    BY <1>6
  <2>1. /\ UNCHANGED <<pub, heard, slots>>
        /\ waiter' = [waiter EXCEPT ![call[c].task] = "select"]
    BY DEF StartWaiter, tables
  <2> QED BY <2>1, RowsAreIds DEF Books, Telling, Typed, Started
<1>7. CASE \E c \in Callers : List(c)
  <2> PICK c \in Callers : List(c)
    BY <1>7
  <2>1. UNCHANGED <<waiter, heard>> /\ Started' = Started
    BY DEF List, tables, Started
  <2>2. \A u \in Threads : u # Caller(c) => pub'[u] = pub[u]
    BY ThreadsApart, Asked DEF List, Books, Typed
  <2>3. \A u \in Started : Caller(c) # Waiter(u) /\ Caller(c) \in Threads
    BY RowsAreIds, ThreadsApart
  <2> QED BY <2>1, <2>2, <2>3, OneTelling
<1>8. CASE \E c \in Callers : Listed(c)
  <2> PICK c \in Callers : Listed(c)
    BY <1>8
  <2>1. UNCHANGED <<waiter, heard>> /\ Started' = Started
    BY DEF Listed, tables, Started
  <2>2. \A u \in Threads : u # Caller(c) => pub'[u] = pub[u]
    BY ThreadsApart DEF Listed, Books, Typed
  <2>3. \A u \in Started : Caller(c) # Waiter(u) /\ Caller(c) \in Threads
    BY RowsAreIds, ThreadsApart
  <2> QED BY <2>1, <2>2, <2>3, OneTelling
<1>9. CASE \E c \in Callers : TakeOutput(c)
  <2> PICK c \in Callers : TakeOutput(c)
    BY <1>9
  <2>1. Started' = Started
    BY TakenRow, TakeRow DEF Books, SameLives
  <2> QED BY <2>1 DEF TakeOutput, Books, Telling
<1>10. CASE \E c \in Callers, t \in Ids : Kill(c, t)
  <2> PICK c \in Callers, t \in Ids : Kill(c, t)
    BY <1>10
  <2>1. UNCHANGED <<waiter, heard>> /\ Started' = Started
    BY KillRow DEF Kill, Books, SameLives
  <2>2. \A u \in Threads : u # Caller(c) => pub'[u] = pub[u]
    BY ThreadsApart, Asked DEF Kill, Books, Typed
  <2>3. \A u \in Started : Caller(c) # Waiter(u) /\ Caller(c) \in Threads
    BY RowsAreIds, ThreadsApart
  <2> QED BY <2>1, <2>2, <2>3, OneTelling
<1>11. CASE \E t \in Ids : WaitEnds(t)
  <2> PICK t \in Ids : WaitEnds(t)
    BY <1>11
  <2>1. Started' = Started
    BY DEF WaitEnds, WaiterTo, tables, Started
  <2>2. /\ UNCHANGED <<pub, heard>>
        /\ waiter' = [waiter EXCEPT ![t] = "exited"]
    BY DEF WaitEnds, WaiterTo, output
  <2> QED BY <2>1, <2>2, RowsAreIds DEF Books, Telling, Typed
<1>12. CASE \E t \in Ids : WaitFails(t)
  <2> PICK t \in Ids : WaitFails(t)
    BY <1>12
  <2>1. Started' = Started
    BY PumpRow, PushToRow DEF Books, SameLives
  <2>2. /\ UNCHANGED <<pub, heard>>
        /\ waiter' = [waiter EXCEPT ![t] = "exited"]
    BY DEF WaitFails, WaiterTo, output
  <2> QED BY <2>1, <2>2, RowsAreIds DEF Books, Telling, Typed
<1>13. CASE \E t \in Ids : Terminate(t)
  <2> PICK t \in Ids : Terminate(t)
    BY <1>13
  <2>1. Started' = Started
    BY DEF Terminate, WaiterTo, tables, Started
  <2>2. /\ UNCHANGED <<pub, heard>>
        /\ waiter' = [waiter EXCEPT ![t] = "grace"]
    BY DEF Terminate, WaiterTo, output
  <2> QED BY <2>1, <2>2, RowsAreIds DEF Books, Telling, Typed
<1>14. CASE \E t \in Ids : GraceEnds(t)
  <2> PICK t \in Ids : GraceEnds(t)
    BY <1>14
  <2>1. Started' = Started
    BY DEF GraceEnds, KillGroup, WaiterTo, GraceOver, tables, Started
  <2>2. /\ UNCHANGED <<pub, heard>>
        /\ waiter' = [waiter EXCEPT ![t] = "killed"]
    BY DEF GraceEnds, KillGroup, WaiterTo, GraceOver, output
  <2> QED BY <2>1, <2>2, RowsAreIds DEF Books, Telling, Typed
<1>15. CASE \E t \in Ids : Finish(t)
  <2> PICK t \in Ids : Finish(t)
    BY <1>15
  <2>1. /\ Started' = Started /\ UNCHANGED heard /\ t \in Started
        /\ waiter' = [waiter EXCEPT ![t] = "finished"]
    BY FinishRow DEF Finish, WaiterTo, Books
  <2>2. pub'[Waiter(t)].at = "order" /\ \A u \in Threads : u # Waiter(t) => pub'[u] = pub[u]
    BY ThreadsApart, Asked DEF Finish, Books, Typed
  <2>3. \A u \in Started : u # t =>
          pub'[Waiter(u)] = pub[Waiter(u)] /\ waiter'[u] = waiter[u]
    BY <2>1, <2>2, RowsAreIds, ThreadsApart DEF Books, Typed
  <2> QED BY <2>1, <2>2, <2>3 DEF Books, Telling
<1>16. CASE \E t \in Ids : DropTree(t)
  <2> PICK t \in Ids : DropTree(t)
    BY <1>16
  <2>1. Started' = Started
    BY DEF DropTree, KillGroup, WaiterTo, tables, Started
  <2>2. /\ UNCHANGED <<pub, heard>>
        /\ waiter' = [waiter EXCEPT ![t] = "gone"]
    BY DEF DropTree, KillGroup, WaiterTo, output
  <2> QED BY <2>1, <2>2, RowsAreIds DEF Books, Telling, Typed
<1>17. CASE \E t \in Ids : Pump(t)
  <2> PICK t \in Ids : Pump(t)
    BY <1>17
  <2>1. Started' = Started
    BY PumpRow, PushToRow DEF Books, SameLives
  <2> QED BY <2>1 DEF Pump, Books, Telling
<1> QED BY <1>1, <1>2, <1>3, <1>4, <1>5, <1>6, <1>7, <1>8, <1>9, <1>10, <1>11, <1>12,
     <1>13, <1>14, <1>15, <1>16, <1>17, Steps

-----------------------------------------------------------------------------
(* What matters *)

\* Whatever a command wrote stays accounted for.
LEMMA OutputTypes ==
  ASSUME Books, NEW t \in Started
  PROVE  /\ slots[t] \in Slots /\ Len(slots[t].pending) \in Nat /\ slots[t].dropped \in Nat
         /\ Len(slots[t].pending) <= Cap
         /\ read[t] \in Nat /\ told[t] \in Nat /\ pumped[t] \in Nat /\ t \in Ids
<1>1. slots[t] \in Slots /\ Len(slots[t].pending) <= Cap
  BY DEF Books, Slotted
<1>2. Len(slots[t].pending) \in Nat /\ slots[t].dropped \in Nat
  BY <1>1 DEF Slots
<1>3. t \in Ids
  BY RowsAreIds
<1>4. read[t] \in Nat /\ told[t] \in Nat /\ pumped[t] \in Nat
  BY <1>3, BackgroundAssumption DEF BackgroundAssumption, Books, Typed
<1> QED BY <1>1, <1>2, <1>3, <1>4

\* A line that is pushed is accounted for.
LEMMA PushAccounted ==
  ASSUME Books, OutputAccounted, NEW t \in Started, pumped[t] <= MaxLines, PushTo(t),
         UNCHANGED <<read, told>>
  PROVE  OutputAccounted'
<1> USE BackgroundAssumption DEF BackgroundAssumption
<1> DEFINE line == pumped[t] + 1
           now  == slots'[t]
<1>1. /\ Started' = Started /\ now = Push(slots[t], line)
      /\ \A u \in Started : u # t => slots'[u] = slots[u]
  BY PushToRow DEF Books, SameLives
<1>2. pumped' = [pumped EXCEPT ![t] = pumped[t] + 1] /\ pumped \in [Ids -> 0..MaxLines + 1]
  BY DEF PushTo, Books, Typed
<1>3. line \in 1..MaxLines + 1 /\ line - 1 = pumped[t]
  BY OutputTypes
<1>4. \A i \in 1..Len(slots[t].pending) :
        slots[t].pending[i] = (line - 1) - Len(slots[t].pending) + i
  BY <1>3 DEF OutputAccounted
<1> HIDE DEF line
<1>5. /\ now \in Slots
      /\ Len(now.pending) + now.dropped = Len(slots[t].pending) + slots[t].dropped + 1
      /\ \A i \in 1..Len(now.pending) : now.pending[i] = line - Len(now.pending) + i
  <2>1. slots[t] \in Slots /\ Len(slots[t].pending) <= Cap
    BY OutputTypes
  <2>2. LET new == Push(slots[t], line)
        IN  /\ new \in Slots
            /\ Len(new.pending) + new.dropped = Len(slots[t].pending) + slots[t].dropped + 1
            /\ \A i \in 1..Len(new.pending) : new.pending[i] = line - Len(new.pending) + i
    BY <1>3, <1>4, <2>1, Pushed
  <2> QED BY <1>1, <2>2
<1>6. Len(now.pending) \in Nat /\ now.dropped \in Nat
  BY <1>5 DEF Slots
<1>7. pumped'[t] = line /\ \A u \in Started : u # t => pumped'[u] = pumped[u]
  BY <1>2, RowsAreIds DEF line
<1>8. read[t] + Len(now.pending) + told[t] + now.dropped = line
  <2>1. read[t] + Len(slots[t].pending) + told[t] + slots[t].dropped = pumped[t]
    BY DEF OutputAccounted
  <2>2. /\ Len(slots[t].pending) \in Nat /\ slots[t].dropped \in Nat
        /\ read[t] \in Nat /\ told[t] \in Nat /\ pumped[t] \in Nat
    BY OutputTypes
  <2>3. pumped[t] = line - 1 /\ line \in Nat
    BY <1>3
  <2>4. Len(now.pending) + now.dropped = Len(slots[t].pending) + slots[t].dropped + 1
    BY <1>5
  <2>5. read[t] + told[t] + (Len(slots[t].pending) + slots[t].dropped) = pumped[t]
    BY <2>1, <2>2
  <2> DEFINE kept == Len(now.pending)
             gone == now.dropped
  <2>6. kept \in Nat /\ gone \in Nat
    BY <1>6
  <2>7. kept + gone = (Len(slots[t].pending) + slots[t].dropped) + 1
    BY <2>4, <2>2, <2>6
  <2> HIDE DEF now, kept, gone
  <2>8. read[t] + told[t] + (kept + gone) = line
    <3> DEFINE was == Len(slots[t].pending) + slots[t].dropped
    <3>1. was \in Nat /\ kept + gone = was + 1 /\ read[t] + told[t] + was = line - 1
      BY SMTT(30), <2>2, <2>3, <2>5, <2>7
    <3> HIDE DEF was
    <3> QED BY <2>2, <2>3, <2>6, <3>1
  <2>9. read[t] + kept + told[t] + gone = read[t] + told[t] + (kept + gone)
    BY <2>2, <2>6
  <2> QED BY <2>8, <2>9 DEF kept, gone
<1>9. ASSUME NEW u \in Started'
      PROVE  LET left == Len(slots'[u].pending)
             IN  /\ \A i \in 1..left : slots'[u].pending[i] = pumped'[u] - left + i
                 /\ read'[u] + left + told'[u] + slots'[u].dropped = pumped'[u]
  <2>1. CASE u = t
    BY <1>5, <1>7, <1>8, <2>1
  <2>2. CASE u # t
    BY <1>1, <1>7, <2>2 DEF OutputAccounted
  <2> QED BY <2>1, <2>2
<1> QED BY <1>9 DEF OutputAccounted

\* No line is lost without being counted.
LEMMA OutputStep ==
  ASSUME Books, OutputAccounted, Next
  PROVE  OutputAccounted'
<1>1. CASE \/ \E th \in Threads : LockOrder(th) \/ ReadRow(th) \/ Send(th)
           \/ \E c \in Callers : CountRunning(c) \/ Fork(c) \/ ForkFails(c) \/ LockSlots(c) \/
                 StartWaiter(c) \/ List(c) \/ Listed(c)
           \/ \E t \in Ids : WaitEnds(t) \/ Terminate(t) \/ GraceEnds(t) \/ DropTree(t) \/
                 Exit(t)
           \/ \E c \in Callers, t \in Ids : Look(c, t) \/ Drain(c, t)
           \/ \E c \in Callers, ids \in SUBSET Ids : Wait(c, ids)
  <2>1. UNCHANGED <<slots, pumped, read, told>>
    BY <1>1 DEF Asks, Begin, CountRunning, Drain, DropTree, Exit, Fork, ForkFails,
       GraceEnds, GraceOver, KillGroup, List, Listed, LockOrder, LockSlots, Look,
       ReadRow, Return, Send, StartWaiter, Terminate, To, ToTask, Wait, WaitEnds,
       WaiterTo, tables, world, output
  <2> QED BY <2>1 DEF OutputAccounted, Started
<1>2. CASE \E c \in Callers : Insert(c)
  <2> PICK c \in Callers : Insert(c)
    BY <1>2
  <2> DEFINE n == call[c].task
  <2>1. /\ n \in (1..next) \ Started /\ Started' = Started \cup {n}
        /\ slots'[n].pending = <<>> /\ slots'[n].dropped = 0
        /\ \A u \in Started : slots'[u] = slots[u]
    BY InsertRow DEF Books
  <2>2. UNCHANGED <<pumped, read, told>>
    BY DEF Insert, output
  <2> HIDE DEF n
  <2>3. pumped[n] = 0 /\ read[n] = 0 /\ told[n] = 0
    BY <2>1, BackgroundAssumption DEF BackgroundAssumption, Books, Unborn, Slotted, Ids
  <2>4. Len(slots'[n].pending) = 0
    BY <2>1
  <2>5. ASSUME NEW u \in Started'
        PROVE  LET left == Len(slots'[u].pending)
               IN  /\ \A i \in 1..left : slots'[u].pending[i] = pumped'[u] - left + i
                   /\ read'[u] + left + told'[u] + slots'[u].dropped = pumped'[u]
    <3>1. CASE u = n
      BY <2>1, <2>2, <2>3, <2>4, <3>1
    <3>2. CASE u # n
      BY <2>1, <2>2, <3>2 DEF OutputAccounted
    <3> QED BY <3>1, <3>2
  <2> QED BY <2>5 DEF OutputAccounted
<1>3. CASE \E c \in Callers : TakeOutput(c)
  <2> PICK c \in Callers : TakeOutput(c)
    BY <1>3
  <2> DEFINE t == call[c].task
  <2>1. t \in Started /\ Take(t) /\ UNCHANGED pumped
    BY TakenRow DEF TakeOutput
  <2> HIDE DEF t
  <2>2. /\ Started' = Started /\ slots'[t] = Taken(slots[t])
        /\ \A u \in Started : u # t => slots'[u] = slots[u]
    BY <2>1, TakeRow DEF Books, SameLives
  <2>3. slots'[t].pending = <<>> /\ slots'[t].dropped = 0
    BY <2>1, <2>2, OutputTypes, Settling
  <2>4. /\ read'[t] = read[t] + Len(slots[t].pending) /\ told'[t] = told[t] + slots[t].dropped
        /\ \A u \in Started : u # t => read'[u] = read[u] /\ told'[u] = told[u]
    <3>1. t \in Ids /\ Started \subseteq Ids /\ read \in [Ids -> Nat] /\ told \in [Ids -> Nat]
      BY <2>1, RowsAreIds DEF Books, Typed
    <3> HIDE DEF Books
    <3> QED BY <2>1, <3>1 DEF Take
  <2>5. read'[t] + 0 + told'[t] + 0 = pumped'[t]
    <3>1. read[t] + Len(slots[t].pending) + told[t] + slots[t].dropped = pumped[t]
      BY <2>1 DEF OutputAccounted
    <3> QED BY <2>1, <2>4, <3>1, OutputTypes
  <2>6. Len(slots'[t].pending) = 0
    BY <2>3
  <2>7. ASSUME NEW u \in Started
        PROVE  LET left == Len(slots'[u].pending)
               IN  /\ \A i \in 1..left : slots'[u].pending[i] = pumped'[u] - left + i
                   /\ read'[u] + left + told'[u] + slots'[u].dropped = pumped'[u]
    <3>1. CASE u = t
      BY <2>3, <2>5, <2>6, <3>1
    <3>2. CASE u # t
      BY <2>1, <2>2, <2>4, <3>2 DEF OutputAccounted
    <3> QED BY <3>1, <3>2
  <2> QED BY <2>2, <2>7 DEF OutputAccounted
<1>4. CASE \E c \in Callers, t \in Ids : Kill(c, t)
  <2> PICK c \in Callers, t \in Ids : Kill(c, t)
    BY <1>4
  <2>1. /\ Started' = Started
        /\ \A u \in Started : /\ slots'[u].pending = slots[u].pending
                              /\ slots'[u].dropped = slots[u].dropped
    BY KillRow DEF Books, SameLives
  <2>2. UNCHANGED <<pumped, read, told>>
    BY DEF Kill, output
  <2> QED BY <2>1, <2>2 DEF OutputAccounted
<1>5. CASE \E t \in Ids : WaitFails(t)
  <2> PICK t \in Ids : WaitFails(t)
    BY <1>5
  <2> QED BY PumpRow, PushAccounted DEF WaitFails
<1>6. CASE \E t \in Ids : Finish(t)
  <2> PICK t \in Ids : Finish(t)
    BY <1>6
  <2>1. /\ Started' = Started
        /\ \A u \in Started : /\ slots'[u].pending = slots[u].pending
                              /\ slots'[u].dropped = slots[u].dropped
    BY FinishRow DEF Books
  <2>2. UNCHANGED <<pumped, read, told>>
    BY DEF Finish, output
  <2> QED BY <2>1, <2>2 DEF OutputAccounted
<1>7. CASE \E t \in Ids : Pump(t)
  <2> PICK t \in Ids : Pump(t)
    BY <1>7
  <2> QED BY PumpRow, PushAccounted DEF Pump
<1> QED BY <1>1, <1>2, <1>3, <1>4, <1>5, <1>6, <1>7, Steps

\* A killed command leaves nothing running.
LEMMA KilledStep ==
  ASSUME Books, KilledMeansGone, Next
  PROVE  KilledMeansGone'
<1>1. CASE \/ \E th \in Threads : LockOrder(th) \/ ReadRow(th) \/ Send(th)
           \/ \E c \in Callers : CountRunning(c) \/ ForkFails(c) \/ LockSlots(c) \/
                 StartWaiter(c) \/ List(c) \/ Listed(c)
           \/ \E t \in Ids : WaitEnds(t) \/ Terminate(t)
           \/ \E c \in Callers, t \in Ids : Look(c, t) \/ Drain(c, t)
           \/ \E c \in Callers, ids \in SUBSET Ids : Wait(c, ids)
  <2>1. UNCHANGED <<slots, shell, kin>>
    BY <1>1 DEF Asks, Begin, CountRunning, Drain, ForkFails, List, Listed, LockOrder,
       LockSlots, Look, ReadRow, Return, Send, StartWaiter, Terminate, To, ToTask, Wait,
       WaitEnds, WaiterTo, tables, world, output
  <2> QED BY <2>1 DEF KilledMeansGone, Started
<1>2. CASE \E c \in Callers : Fork(c)
  <2> PICK c \in Callers : Fork(c)
    BY <1>2
  <2>1. /\ shell' = [shell EXCEPT ![next + 1] = TRUE] /\ kin' = [kin EXCEPT ![next + 1] = TRUE]
        /\ next + 1 \notin Started /\ UNCHANGED slots
    BY DEF Fork, Books, Slotted
  <2>2. \A t \in Started : shell'[t] = shell[t] /\ kin'[t] = kin[t]
    BY <2>1, RowsAreIds DEF Books, Typed
  <2> QED BY <2>1, <2>2 DEF KilledMeansGone, Started
<1>3. CASE \E c \in Callers : Insert(c)
  <2> PICK c \in Callers : Insert(c)
    BY <1>3
  <2>1. /\ Started' = Started \cup {call[c].task} /\ slots'[call[c].task].state = "running"
        /\ \A t \in Started : slots'[t] = slots[t]
    BY InsertRow DEF Books
  <2>2. UNCHANGED <<shell, kin>>
    BY DEF Insert, world
  <2> QED BY <2>1, <2>2 DEF KilledMeansGone
<1>4. CASE \E c \in Callers : TakeOutput(c)
  <2> PICK c \in Callers : TakeOutput(c)
    BY <1>4
  <2>1. SameLives
    BY TakenRow, TakeRow DEF Books
  <2> QED BY <2>1 DEF TakeOutput, world, KilledMeansGone, SameLives
<1>5. CASE \E c \in Callers, t \in Ids : Kill(c, t)
  <2> PICK c \in Callers, t \in Ids : Kill(c, t)
    BY <1>5
  <2>1. SameLives
    BY KillRow DEF Books
  <2> QED BY <2>1 DEF Kill, world, KilledMeansGone, SameLives
<1>6. CASE \E t \in Ids : WaitFails(t)
  <2> PICK t \in Ids : WaitFails(t)
    BY <1>6
  <2>1. SameLives
    BY PumpRow, PushToRow DEF Books
  <2> QED BY <2>1 DEF WaitFails, world, KilledMeansGone, SameLives
<1>7. CASE \E t \in Ids : GraceEnds(t)
  <2> PICK t \in Ids : GraceEnds(t)
    BY <1>7
  <2>1. /\ shell' = [shell EXCEPT ![t] = FALSE] /\ kin' = [kin EXCEPT ![t] = FALSE]
        /\ UNCHANGED slots
    BY DEF GraceEnds, KillGroup, tables
  <2> QED BY <2>1, RowsAreIds DEF Books, Typed, KilledMeansGone, Started
<1>8. CASE \E t \in Ids : Finish(t)
  <2> PICK t \in Ids : Finish(t)
    BY <1>8
  <2>1. /\ t \in Started /\ Started' = Started /\ slots'[t].state = waiter[t]
        /\ \A u \in Started : u # t => slots'[u] = slots[u]
    BY FinishRow DEF Books
  <2>2. UNCHANGED <<shell, kin>>
    BY DEF Finish, world
  <2> QED BY <2>1, <2>2 DEF Books, Lives, KilledMeansGone
<1>9. CASE \E t \in Ids : DropTree(t)
  <2> PICK t \in Ids : DropTree(t)
    BY <1>9
  <2>1. /\ shell' = [shell EXCEPT ![t] = FALSE] /\ kin' = [kin EXCEPT ![t] = FALSE]
        /\ UNCHANGED slots
    BY DEF DropTree, KillGroup, tables
  <2> QED BY <2>1, RowsAreIds DEF Books, Typed, KilledMeansGone, Started
<1>10. CASE \E t \in Ids : Pump(t)
  <2> PICK t \in Ids : Pump(t)
    BY <1>10
  <2>1. SameLives
    BY PumpRow, PushToRow DEF Books
  <2> QED BY <2>1 DEF Pump, world, KilledMeansGone, SameLives
<1>11. CASE \E t \in Ids : Exit(t)
  <2> PICK t \in Ids : Exit(t)
    BY <1>11
  <2>1. shell' = [shell EXCEPT ![t] = FALSE] /\ UNCHANGED <<slots, kin>>
    BY DEF Exit, tables
  <2> QED BY <2>1, RowsAreIds DEF Books, Typed, KilledMeansGone, Started
<1> QED BY <1>1, <1>2, <1>3, <1>4, <1>5, <1>6, <1>7, <1>8, <1>9, <1>10, <1>11, Steps

\* What is gone was heard of.
LEMMA HeardStep ==
  ASSUME Books, EndIsHeard, Next
  PROVE  EndIsHeard'
<1>1. CASE \/ \E th \in Threads : LockOrder(th) \/ ReadRow(th)
           \/ \E c \in Callers : CountRunning(c) \/ Fork(c) \/ ForkFails(c) \/ LockSlots(c) \/
                 List(c) \/ Listed(c)
           \/ \E t \in Ids : Exit(t)
           \/ \E c \in Callers, t \in Ids : Look(c, t) \/ Drain(c, t)
           \/ \E c \in Callers, ids \in SUBSET Ids : Wait(c, ids)
  <2>1. UNCHANGED <<slots, waiter, heard>>
    BY <1>1 DEF Asks, Begin, CountRunning, Drain, Exit, Fork, ForkFails, List, Listed,
       LockOrder, LockSlots, Look, ReadRow, Return, To, ToTask, Wait, tables, world,
       output
  <2> QED BY <2>1 DEF EndIsHeard, Started
<1>2. CASE \E th \in Threads : Send(th)
  <2> PICK th \in Threads : Send(th)
    BY <1>2
  <2>1. heard \subseteq heard' /\ UNCHANGED <<slots, waiter>>
    BY DEF Send, tables
  <2> QED BY <2>1 DEF EndIsHeard, Started
<1>3. CASE \E c \in Callers : Insert(c)
  <2> PICK c \in Callers : Insert(c)
    BY <1>3
  <2> DEFINE n == call[c].task
  <2>1. n \in (1..next) \ Started /\ Started' = Started \cup {n} /\ UNCHANGED <<waiter, heard>>
    BY InsertRow DEF Insert, Books
  <2> HIDE DEF n
  <2>2. waiter[n] = "off"
    BY <2>1, BackgroundAssumption DEF BackgroundAssumption, Books, Unborn, Slotted, Ids
  <2> QED BY <2>1, <2>2 DEF EndIsHeard
<1>4. CASE \E c \in Callers : StartWaiter(c)
  <2> PICK c \in Callers : StartWaiter(c)
    BY <1>4
  <2>1. UNCHANGED <<heard, slots>> /\ waiter' = [waiter EXCEPT ![call[c].task] = "select"]
    BY DEF StartWaiter, tables
  <2> QED BY <2>1, RowsAreIds DEF Books, Typed, EndIsHeard, Started
<1>5. CASE \E c \in Callers : TakeOutput(c)
  <2> PICK c \in Callers : TakeOutput(c)
    BY <1>5
  <2>1. Started' = Started
    BY TakenRow, TakeRow DEF Books, SameLives
  <2> QED BY <2>1 DEF TakeOutput, EndIsHeard
<1>6. CASE \E c \in Callers, t \in Ids : Kill(c, t)
  <2> PICK c \in Callers, t \in Ids : Kill(c, t)
    BY <1>6
  <2>1. Started' = Started
    BY KillRow DEF Books, SameLives
  <2> QED BY <2>1 DEF Kill, EndIsHeard
<1>7. CASE \E t \in Ids : WaitEnds(t)
  <2> PICK t \in Ids : WaitEnds(t)
    BY <1>7
  <2>1. Started' = Started
    BY DEF WaitEnds, WaiterTo, tables, Started
  <2>2. /\ UNCHANGED heard
        /\ waiter' = [waiter EXCEPT ![t] = "exited"]
    BY DEF WaitEnds, WaiterTo
  <2> QED BY <2>1, <2>2, RowsAreIds DEF Books, Typed, EndIsHeard
<1>8. CASE \E t \in Ids : WaitFails(t)
  <2> PICK t \in Ids : WaitFails(t)
    BY <1>8
  <2>1. Started' = Started
    BY PumpRow, PushToRow DEF Books, SameLives
  <2>2. /\ UNCHANGED heard
        /\ waiter' = [waiter EXCEPT ![t] = "exited"]
    BY DEF WaitFails, WaiterTo
  <2> QED BY <2>1, <2>2, RowsAreIds DEF Books, Typed, EndIsHeard
<1>9. CASE \E t \in Ids : Terminate(t)
  <2> PICK t \in Ids : Terminate(t)
    BY <1>9
  <2>1. Started' = Started
    BY DEF Terminate, WaiterTo, tables, Started
  <2>2. /\ UNCHANGED heard
        /\ waiter' = [waiter EXCEPT ![t] = "grace"]
    BY DEF Terminate, WaiterTo
  <2> QED BY <2>1, <2>2, RowsAreIds DEF Books, Typed, EndIsHeard
<1>10. CASE \E t \in Ids : GraceEnds(t)
  <2> PICK t \in Ids : GraceEnds(t)
    BY <1>10
  <2>1. Started' = Started
    BY DEF GraceEnds, KillGroup, WaiterTo, GraceOver, tables, Started
  <2>2. /\ UNCHANGED heard
        /\ waiter' = [waiter EXCEPT ![t] = "killed"]
    BY DEF GraceEnds, WaiterTo
  <2> QED BY <2>1, <2>2, RowsAreIds DEF Books, Typed, EndIsHeard
<1>11. CASE \E t \in Ids : Finish(t)
  <2> PICK t \in Ids : Finish(t)
    BY <1>11
  <2>1. Started' = Started
    BY FinishRow DEF Books
  <2>2. /\ UNCHANGED heard
        /\ waiter' = [waiter EXCEPT ![t] = "finished"]
    BY DEF Finish, WaiterTo
  <2> QED BY <2>1, <2>2, RowsAreIds DEF Books, Typed, EndIsHeard
<1>12. CASE \E t \in Ids : DropTree(t)
  <2> PICK t \in Ids : DropTree(t)
    BY <1>12
  <2>1. /\ waiter[t] = "finished" /\ pub[Waiter(t)].at = "quiet" /\ UNCHANGED <<heard, slots>>
        /\ waiter' = [waiter EXCEPT ![t] = "gone"]
    BY DEF DropTree, WaiterTo, tables
  <2>2. t \in heard
    BY <2>1 DEF Books, Unborn, Telling
  <2> QED BY <2>1, <2>2, RowsAreIds DEF Books, Typed, EndIsHeard, Started
<1>13. CASE \E t \in Ids : Pump(t)
  <2> PICK t \in Ids : Pump(t)
    BY <1>13
  <2>1. Started' = Started
    BY PumpRow, PushToRow DEF Books, SameLives
  <2> QED BY <2>1 DEF Pump, EndIsHeard
<1> QED BY <1>1, <1>2, <1>3, <1>4, <1>5, <1>6, <1>7, <1>8, <1>9, <1>10, <1>11, <1>12,
     <1>13, Steps

\* Callers between the count and the insert.
Starting == {c \in Callers : call[c].at \in {"fork", "slots", "insert"}}

\* What the limit counts is finite.
LEMMA Countable ==
  ASSUME Books
  PROVE  /\ IsFiniteSet(Running) /\ Cardinality(Running) \in Nat
         /\ IsFiniteSet(Starting) /\ Cardinality(Starting) \in Nat
         /\ Cardinality(Callers) \in Nat /\ MaxConcurrent \in Nat
         /\ \A s \in SUBSET Callers :
              /\ IsFiniteSet(s) /\ Cardinality(s) \in Nat
              /\ Cardinality(s) <= Cardinality(Callers)
<1> USE BackgroundAssumption DEF BackgroundAssumption
<1>1. Running \subseteq 1..MaxTasks /\ MaxTasks \in Nat
  BY RowsAreIds DEF Running, Ids
<1>2. IsFiniteSet(Running)
  <2>1. IsFiniteSet(1..MaxTasks)
    BY <1>1, FS_Interval
  <2> QED BY <1>1, <2>1, FS_Subset
<1>3. \A s \in SUBSET Callers : IsFiniteSet(s) /\ Cardinality(s) <= Cardinality(Callers)
  BY FS_Subset
<1>4. Starting \in SUBSET Callers
  BY DEF Starting
<1> QED BY <1>2, <1>3, <1>4, FS_CardinalityType

\* Fewer commands and fewer starts are within the limit as before.
LEMMA FewerKept ==
  ASSUME Books, LimitHolds, Running' \subseteq Running, Starting' \subseteq Starting
  PROVE  LimitHolds'
<1>1. Cardinality(Running') <= Cardinality(Running) /\ Cardinality(Running') \in Nat
  BY Countable, FS_Subset, FS_CardinalityType
<1>2. Cardinality(Starting') <= Cardinality(Starting) /\ Cardinality(Starting') \in Nat
  BY Countable, FS_Subset, FS_CardinalityType
<1>3. Cardinality(Running) + Cardinality(Starting) < MaxConcurrent + Cardinality(Callers)
  BY DEF LimitHolds, Starting
<1>4. Cardinality(Running') + Cardinality(Starting') < MaxConcurrent + Cardinality(Callers)
  BY <1>1, <1>2, <1>3, Countable
<1> QED BY <1>4 DEF LimitHolds, Starting

\* Only an insert makes a command run.
LEMMA RunningShrinks ==
  ASSUME Books, Next, \A c \in Callers : ~ Insert(c)
  PROVE  Running' \subseteq Running
<1>1. CASE SameLives
  BY <1>1 DEF SameLives, Running
<1>2. CASE \E t \in Ids : Finish(t)
  <2> PICK t \in Ids : Finish(t)
    BY <1>2
  <2>1. /\ t \in Started /\ Started' = Started /\ slots'[t].state = waiter[t]
        /\ \A u \in Started : u # t => slots'[u] = slots[u]
    BY FinishRow DEF Books
  <2>2. waiter[t] \in {"exited", "killed"}
    BY DEF Finish
  <2> QED BY <2>1, <2>2 DEF Running
<1> QED BY <1>1, <1>2, Rows

\* A call that was not starting goes on without starting, but for the count.
LEMMA StartingShrinks ==
  ASSUME Books, NEW c \in Callers,
         \A d \in Callers : d # c => call'[d] = call[d],
         call'[c].at \in {"fork", "slots", "insert"} => c \in Starting
  PROVE  Starting' \subseteq Starting
BY DEF Starting

\* Only the count makes a call start.
LEMMA StartingKept ==
  ASSUME Books, Next, \A c \in Callers : ~ Insert(c) /\ ~ CountRunning(c)
  PROVE  Starting' \subseteq Starting
<1>1. CASE \/ \E th \in Threads : LockOrder(th) \/ ReadRow(th) \/ Send(th)
           \/ \E t \in Ids : WaitEnds(t) \/ WaitFails(t) \/ Terminate(t) \/ GraceEnds(t) \/
                 Finish(t) \/ DropTree(t) \/ Pump(t) \/ Exit(t)
  <2>1. UNCHANGED <<call>>
    BY <1>1 DEF Asks, DropTree, Exit, Finish, GraceEnds, GraceOver, KillGroup,
       LockOrder, Pump, PushTo, ReadRow, Send, Terminate, WaitEnds, WaitFails, WaiterTo,
       tables, world, output
  <2> QED BY <2>1 DEF Starting
<1>2. CASE \E c \in Callers : CountRunning(c)
  BY <1>2
<1>3. CASE \E c \in Callers : Fork(c)
  <2> PICK c \in Callers : Fork(c)
    BY <1>3
  <2>1. next + 1 \in Ids /\ c \in Starting
    BY BackgroundAssumption DEF BackgroundAssumption, Fork, Books, Slotted, Ids, Starting
  <2>2. \A d \in Callers : d # c => call'[d] = call[d]
    BY <2>1, CallTakes DEF Fork, Books, Typed
  <2> QED BY <2>1, <2>2, StartingShrinks
<1>4. CASE \E c \in Callers : ForkFails(c)
  <2> PICK c \in Callers : ForkFails(c)
    BY <1>4
  <2>1. /\ call'[c].at = "idle"
        /\ \A d \in Callers : d # c => call'[d] = call[d]
    BY CallReturns DEF ForkFails, Books, Typed, Idle
  <2> QED BY <2>1, StartingShrinks
<1>5. CASE \E c \in Callers : LockSlots(c)
  <2> PICK c \in Callers : LockSlots(c)
    BY <1>5
  <2>1. c \in Starting
    BY DEF LockSlots, Starting
  <2>2. \A d \in Callers : d # c => call'[d] = call[d]
    BY CallGoes DEF LockSlots, Books, Typed
  <2> QED BY <2>1, <2>2, StartingShrinks
<1>6. CASE \E c \in Callers : Insert(c)
  BY <1>6
<1>7. CASE \E c \in Callers : StartWaiter(c)
  <2> PICK c \in Callers : StartWaiter(c)
    BY <1>7
  <2>1. /\ call'[c].at = "idle"
        /\ \A d \in Callers : d # c => call'[d] = call[d]
    BY CallReturns DEF StartWaiter, Books, Typed, Idle
  <2> QED BY <2>1, StartingShrinks
<1>8. CASE \E c \in Callers : List(c)
  <2> PICK c \in Callers : List(c)
    BY <1>8
  <2>1. /\ call'[c].at = "listing"
        /\ \A d \in Callers : d # c => call'[d] = call[d]
    BY CallGoes DEF List, Books, Typed
  <2> QED BY <2>1, StartingShrinks
<1>9. CASE \E c \in Callers : Listed(c)
  <2> PICK c \in Callers : Listed(c)
    BY <1>9
  <2>1. /\ call'[c].at = "idle"
        /\ \A d \in Callers : d # c => call'[d] = call[d]
    BY CallReturns DEF Listed, Books, Typed, Idle
  <2> QED BY <2>1, StartingShrinks
<1>10. CASE \E c \in Callers : TakeOutput(c)
  <2> PICK c \in Callers : TakeOutput(c)
    BY <1>10
  <2>1. /\ call'[c].at \in {"draining", "idle"}
        /\ \A d \in Callers : d # c => call'[d] = call[d]
    BY CallTaken DEF Books, Typed
  <2> QED BY <2>1, StartingShrinks
<1>11. CASE \E c \in Callers, t \in Ids : Kill(c, t)
  <2> PICK c \in Callers, t \in Ids : Kill(c, t)
    BY <1>11
  <2>1. /\ call'[c].at = "taking"
        /\ \A d \in Callers : d # c => call'[d] = call[d]
    BY CallTakes DEF Kill, Books, Typed
  <2> QED BY <2>1, StartingShrinks
<1>12. CASE \E c \in Callers, t \in Ids : Look(c, t)
  <2> PICK c \in Callers, t \in Ids : Look(c, t)
    BY <1>12
  <2>1. /\ call'[c].at = "taking"
        /\ \A d \in Callers : d # c => call'[d] = call[d]
    BY CallTakes DEF Look, Books, Typed
  <2> QED BY <2>1, StartingShrinks
<1>13. CASE \E c \in Callers, t \in Ids : Drain(c, t)
  <2> PICK c \in Callers, t \in Ids : Drain(c, t)
    BY <1>13
  <2>1. /\ call'[c].at \in {"taking", "draining", "idle"}
        /\ \A d \in Callers : d # c => call'[d] = call[d]
    BY CallDrains DEF Books, Typed
  <2> QED BY <2>1, StartingShrinks
<1>14. CASE \E c \in Callers, ids \in SUBSET Ids : Wait(c, ids)
  <2> PICK c \in Callers, ids \in SUBSET Ids : Wait(c, ids)
    BY <1>14
  <2>1. /\ call'[c].at = "draining"
        /\ \A d \in Callers : d # c => call'[d] = call[d]
    BY DEF Wait, Books, Typed
  <2> QED BY <2>1, StartingShrinks
<1> QED BY <1>1, <1>2, <1>3, <1>4, <1>5, <1>6, <1>7, <1>8, <1>9, <1>10, <1>11, <1>12,
     <1>13, <1>14, Steps

\* The limit is passed by one start for each other caller at most.
LEMMA LimitStep ==
  ASSUME Books, LimitHolds, Next
  PROVE  LimitHolds'
<1>1. CASE \E c \in Callers : CountRunning(c)
  <2> PICK c \in Callers : CountRunning(c)
    BY <1>1
  <2>1. UNCHANGED slots
    BY DEF CountRunning, tables
  <2>2. Running' = Running
    BY <2>1 DEF Running, Started
  <2>3. CASE HasRoom
    <3>1. Cardinality(Running') < MaxConcurrent
      BY <2>2, <2>3 DEF HasRoom
    <3>2. Cardinality(Starting') \in Nat /\ Cardinality(Starting') <= Cardinality(Callers)
      <4>1. Starting' \in SUBSET Callers
        BY DEF Starting
      <4> QED BY <4>1, Countable
    <3>3. Cardinality(Running') + Cardinality(Starting') < MaxConcurrent + Cardinality(Callers)
      BY <2>2, <3>1, <3>2, Countable
    <3> QED BY <3>3 DEF LimitHolds, Starting
  <2>4. CASE ~HasRoom
    <3>1. UNCHANGED call
      BY <2>4 DEF CountRunning
    <3>2. Starting' = Starting
      BY <3>1 DEF Starting
    <3> QED BY <2>2, <3>2, FewerKept
  <2> QED BY <2>3, <2>4
<1>2. CASE \E c \in Callers : Insert(c)
  <2> PICK c \in Callers : Insert(c)
    BY <1>2
  <2> DEFINE t == call[c].task
  <2>1. /\ t \notin Started /\ call[c].at = "insert" /\ Started' = Started \cup {t}
        /\ slots'[t].state = "running" /\ \A u \in Started : slots'[u] = slots[u]
    BY InsertRow DEF Books
  <2>2. call'[c].at = "started" /\ \A d \in Callers : d # c => call'[d] = call[d]
    BY CallGoes DEF Insert, Books, Typed
  <2> HIDE DEF t
  <2>3. Running' = Running \cup {t} /\ t \notin Running
    BY <2>1 DEF Running
  <2>4. Starting' = Starting \ {c} /\ c \in Starting
    BY <2>1, <2>2 DEF Starting
  <2>5. Cardinality(Running') = Cardinality(Running) + 1
    BY <2>3, Countable, FS_AddElement
  <2>6. Cardinality(Starting') = Cardinality(Starting) - 1
    BY <2>4, Countable, FS_RemoveElement
  <2>7. Cardinality(Running) + Cardinality(Starting) < MaxConcurrent + Cardinality(Callers)
    BY DEF LimitHolds, Starting
  <2>8. Cardinality(Running') + Cardinality(Starting') < MaxConcurrent + Cardinality(Callers)
    BY <2>5, <2>6, <2>7, Countable
  <2> QED BY <2>8 DEF LimitHolds, Starting
<1>3. CASE \A c \in Callers : ~ Insert(c) /\ ~ CountRunning(c)
  <2>1. Running' \subseteq Running
    BY <1>3, RunningShrinks
  <2>2. Starting' \subseteq Starting
    BY <1>3, StartingKept
  <2> QED BY <2>1, <2>2, FewerKept
<1> QED BY <1>1, <1>2, <1>3

-----------------------------------------------------------------------------
(* The invariant, and what follows from it *)

\* A new session has no commands.
LEMMA InitHolds ==
  ASSUME Init
  PROVE  IInv
<1> USE BackgroundAssumption DEF BackgroundAssumption, Init
<1>1. Started = {} /\ Running = {} /\ ToSet(order) = {}
  BY DEF Started, Running, ToSet
<1>2. Slotted
  BY <1>1 DEF Slotted
<1>3. Ordered
  BY <1>1, FS_EmptySet DEF Ordered
<1>4. Typed
  <2>1. Idle \in CallType
    BY DEF Idle, CallType
  <2>2. Quiet \in PubType
    BY DEF Quiet, PubType
  <2> QED BY <2>1, <2>2 DEF Typed, Stages
<1>5. Calling /\ Unborn /\ LastLine /\ Lives
  BY <1>1 DEF Calling, Unborn, LastLine, Lives, Idle, Forked, Handling
<1>6. Telling
  BY <1>1 DEF Telling, Quiet
<1>7. OutputAccounted /\ KilledMeansGone /\ EndIsHeard
  BY <1>1 DEF OutputAccounted, KilledMeansGone, EndIsHeard
<1>8. LimitHolds
  <2>1. Starting = {}
    BY DEF Starting, Idle
  <2>2. Cardinality(Running) = 0 /\ Cardinality(Starting) = 0
    BY <1>1, <2>1, FS_EmptySet
  <2>3. Cardinality(Callers) \in Nat
    BY FS_CardinalityType
  <2>4. Cardinality(Running) + Cardinality(Starting) < MaxConcurrent + Cardinality(Callers)
    BY <2>2, <2>3
  <2> QED BY <2>4 DEF LimitHolds, Starting
<1> QED BY <1>2, <1>3, <1>4, <1>5, <1>6, <1>7, <1>8 DEF IInv, Books

\* Every step keeps the invariant.
LEMMA StepHolds ==
  ASSUME IInv, [Next]_vars
  PROVE  IInv'
<1>1. CASE Next
  <2>1. Slotted' /\ Ordered' /\ Calling' /\ Unborn' /\ LastLine' /\ Lives'
    BY <1>1, SlottedStep, OrderedStep, CallingStep, UnbornStep, LastLineStep, LivesStep
       DEF IInv
  <2>2. Typed'
    BY <1>1, CallTypedStep, PubTypedStep, RestTypedStep DEF IInv, Typed
  <2>3. Telling'
    BY <1>1, PubTypedStep, TellingStep DEF IInv, Telling
  <2>4. OutputAccounted' /\ LimitHolds' /\ KilledMeansGone' /\ EndIsHeard'
    BY <1>1, OutputStep, LimitStep, KilledStep, HeardStep DEF IInv
  <2> QED BY <2>1, <2>2, <2>3, <2>4 DEF IInv, Books
<1>2. CASE UNCHANGED vars
  BY <1>2 DEF vars, IInv, Books, Slotted, Ordered, Typed, Calling, Unborn, LastLine, Lives,
     Telling, OutputAccounted, LimitHolds, KilledMeansGone, EndIsHeard, Started, Running
<1> QED BY <1>1, <1>2

\* The types follow from it.
LEMMA TypesFollow ==
  ASSUME IInv
  PROVE  TypeOK
<1>1. /\ slots \in [DOMAIN slots -> Slots] /\ DOMAIN slots \subseteq 1..next
      /\ ToSet(order) = DOMAIN slots /\ Len(order) = Cardinality(DOMAIN slots)
      /\ \A t \in DOMAIN slots : Len(slots[t].pending) <= Cap
      /\ next \in 0..MaxTasks
  BY DEF IInv, Books, Slotted, Ordered, Started
<1> QED BY <1>1 DEF TypeOK, IInv, Books, Typed, CallType, PubType, Stages

\* A state that a row leaves was its running, and "killed" follows a signal.
LEMMA EndStep ==
  ASSUME IInv, [Next]_vars
  PROVE  \A t \in Started : slots'[t].state # slots[t].state =>
           /\ slots[t].state = "running"
           /\ slots'[t].state = "killed" => slots[t].kill = "sent"
<1>1. CASE SameLives
  BY <1>1 DEF SameLives
<1>2. CASE \E c \in Callers : Insert(c)
  BY <1>2, InsertRow DEF IInv, Books
<1>3. CASE \E t \in Ids : Finish(t)
  <2> PICK t \in Ids : Finish(t)
    BY <1>3
  <2>1. /\ t \in Started /\ slots'[t].state = waiter[t]
        /\ \A u \in Started : u # t => slots'[u] = slots[u]
    BY FinishRow DEF IInv, Books
  <2>2. waiter[t] \in {"exited", "killed"}
    BY DEF Finish
  <2>3. slots[t].state = "running" /\ (waiter[t] = "killed" => slots[t].kill = "sent")
    BY <2>1, <2>2 DEF IInv, Books, Lives
  <2> QED BY <2>1, <2>3
<1>4. CASE UNCHANGED vars
  BY <1>4 DEF vars
<1> QED BY <1>1, <1>2, <1>3, <1>4, Rows DEF IInv

\* It holds of every behaviour.
LEMMA Invariant == Spec => []IInv
<1>1. Init => IInv
  BY InitHolds
<1>2. IInv /\ [Next]_vars => IInv'
  BY StepHolds
<1> QED BY <1>1, <1>2, PTL DEF Spec

\* The registry is in order for any number of agents and commands: types, the limit with its
\* race, nothing left of what was killed, and every end told of (commands.rs).
THEOREM RegistryIsSound == Spec => []TasksInv
<1>1. IInv => TasksInv
  BY TypesFollow DEF IInv, TasksInv
<1> QED BY <1>1, Invariant, PTL

\* Every line is read once, still kept, or counted as missed (take_output, push).
THEOREM NoLineIsLost == Spec => []OutputAccounted
<1>1. IInv => OutputAccounted
  BY DEF IInv
<1> QED BY <1>1, Invariant, PTL

\* However a kill and an exit race, the end of a command is its last state, and only a
\* signal makes it "killed" (Slot::state).
THEOREM EndsAreFinal == Spec => EndIsFinal
<1>1. IInv /\ [Next]_vars =>
        [\A t \in Started : slots'[t].state # slots[t].state =>
           /\ slots[t].state = "running"
           /\ slots'[t].state = "killed" => slots[t].kill = "sent"]_vars
  BY EndStep
<1> QED BY <1>1, Invariant, PTL DEF Spec, EndIsFinal
=============================================================================
