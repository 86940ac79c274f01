----------------------------- MODULE Scheduler -----------------------------
(***************************************************************************)
(* The standing prompts of a session (crates/schedule): `/loop` and the    *)
(* model's `schedule_prompt` write records, the surface asks what is due.  *)
(* Every operation is one call under the lock of `Schedules`, with the     *)
(* instant it was called at; the prompts themselves are left out, whether  *)
(* one is blank apart.                                                     *)
(***************************************************************************)
EXTENDS Integers, FiniteSets

CONSTANTS
  MinInterval,  \* MIN_INTERVAL
  MaxLifetime,  \* MAX_LIFETIME
  MaxTasks,     \* MAX_TASKS
  Intervals     \* what `/loop` and schedule_prompt may be given

ASSUME SchedulerAssumption ==
  /\ MinInterval \in Nat \ {0} /\ MaxLifetime \in Nat \ {0} /\ MaxTasks \in Nat \ {0}
  /\ Intervals \subseteq Nat

VARIABLES
  sched,  \* Scheduler: its tasks and the last id given.  Beside the code's state,
          \* per task the instant it last fired (`last`), and per id how often
          \* another task fired while this one was due (`passed`)
  now     \* the monotonic clock

Loops == [interval : Nat, next : Nat, born : Nat, fires : Nat, unread : Nat, last : Nat]

\* The tasks in the order of their ids, which is the order they were pushed in.
SchedulerTypeOK ==
  /\ sched.lastId \in Nat /\ now \in Nat
  /\ DOMAIN sched.tasks \subseteq 1..sched.lastId
  /\ sched.tasks \in [DOMAIN sched.tasks -> Loops]
  /\ sched.passed \in [1..sched.lastId -> Nat]
  /\ Cardinality(DOMAIN sched.tasks) <= MaxTasks

NoLoops == [tasks |-> <<>>, lastId |-> 0, passed |-> <<>>]

SchedulerInit == sched = NoLoops /\ now = 0

\* Scheduler::add
Refused(s, interval, blank) ==
  interval < MinInterval \/ Cardinality(DOMAIN s.tasks) >= MaxTasks \/ blank

NewLoop(interval, atOnce) ==
  [interval |-> interval, born |-> now, fires |-> 0, unread |-> 0, last |-> now,
   next |-> IF atOnce THEN now ELSE now + interval]

With(f, k, v) == [x \in DOMAIN f \cup {k} |-> IF x = k THEN v ELSE f[x]]

Added(s, interval, blank, atOnce) ==
  IF Refused(s, interval, blank) THEN s
  ELSE [tasks  |-> With(s.tasks, s.lastId + 1, NewLoop(interval, atOnce)),
        lastId |-> s.lastId + 1,
        passed |-> With(s.passed, s.lastId + 1, 0)]

Only(s, ids) == [s EXCEPT !.tasks = [id \in DOMAIN @ \cap ids |-> @[id]]]

\* Scheduler::remove, for `/loop stop` and kill_task
Removed(s, id) == Only(s, DOMAIN s.tasks \ {id})

\* Scheduler::clear
Cleared(s) == Only(s, {})

\* Scheduler::expire
Expired(s) == Only(s, {id \in DOMAIN s.tasks : now - s.tasks[id].born < MaxLifetime})

\* Scheduler::take_due: the earliest of those due, the first of equals.
Due(s) == {id \in DOMAIN s.tasks : s.tasks[id].next <= now}

Ahead(s, i, j) ==
  \/ s.tasks[i].next < s.tasks[j].next
  \/ s.tasks[i].next = s.tasks[j].next /\ i < j

\* Mutant of Earliest: the first in the list.
FirstListed(s) == CHOOSE i \in Due(s) : \A j \in Due(s) : i <= j

Earliest(s) == CHOOSE i \in Due(s) : \A j \in Due(s) \ {i} : Ahead(s, i, j)

\* Mutant of Rearmed: from the missed deadline.
RearmedFromDeadline(l) ==
  [l EXCEPT !.next = l.next + l.interval, !.fires = @ + 1, !.unread = @ + 1, !.last = now]

Rearmed(l) ==
  [interval |-> l.interval, born |-> l.born, next |-> now + l.interval,
   fires |-> l.fires + 1, unread |-> l.unread + 1, last |-> now]

Fired(s) ==
  LET i == Earliest(s) IN
  [tasks  |-> [s.tasks EXCEPT ![i] = Rearmed(@)],
   lastId |-> s.lastId,
   passed |-> [id \in DOMAIN s.passed |->
      IF id = i THEN 0 ELSE IF id \in Due(s) THEN s.passed[id] + 1 ELSE s.passed[id]]]

\* Scheduler::take_report, for task_output
Reported(s, id) ==
  [s EXCEPT !.tasks = [x \in DOMAIN @ |-> IF x = id THEN [@[x] EXCEPT !.unread = 0] ELSE @[x]]]

\* Mutant of Looked: nothing expires before it is looked at.
LookedLate(s) == {Expired(s)} \cup (IF Due(s) = {} THEN {} ELSE {Fired(s)})

\* App::fire_due_schedules: the expired loops go, and one that is due fires if
\* the surface is free.
Looked(s) ==
  LET live == Expired(s) IN {live} \cup (IF Due(live) = {} THEN {} ELSE {Fired(live)})

\* What `/loop`, the model's tools, `/new` and the clock of the surface do.
SchedulerStep ==
  \/ sched' \in Looked(sched)
  \/ \E i \in Intervals, blank, atOnce \in BOOLEAN :
       LET made == Added(sched, i, blank, atOnce) IN sched' \in {made} \cup Looked(made)
  \/ \E id \in 1..sched.lastId : sched' = Removed(sched, id) \/ sched' = Reported(sched, id)
  \/ sched' = Cleared(sched)

SchedulerNext ==
  \/ SchedulerStep /\ UNCHANGED now
  \/ now' = now + 1 /\ UNCHANGED sched

SchedulerSpec == SchedulerInit /\ [][SchedulerNext]_<<sched, now>>

-----------------------------------------------------------------------------
\* A loop held up by a long turn does not make up for what it slept through:
\* between two firings of one there is always its whole interval (take_due
\* re-arms from now, not from the missed deadline).
FiresAgain(id) ==
  /\ id \in DOMAIN sched.tasks /\ id \in DOMAIN sched'.tasks
  /\ sched.tasks[id].fires > 0 /\ sched'.tasks[id].fires > sched.tasks[id].fires

NoCatchUp ==
  [][\A id \in DOMAIN sched.tasks :
       FiresAgain(id) => now >= sched.tasks[id].last + sched.tasks[id].interval]_<<sched, now>>

\* No loop fires once its week is over: it is dropped before it is looked at.
FiresWithinItsLife ==
  \A id \in DOMAIN sched.tasks : LET l == sched.tasks[id] IN
    l.fires > 0 => l.last - l.born < MaxLifetime

\* Loops that are due together all get their turn: between two firings of one,
\* or before its first, every other one goes ahead of it at most once.
NobodyStarves == \A id \in DOMAIN sched.tasks : sched.passed[id] < MaxTasks

\* The schedule: within its limit, nothing fires once its life is over, and no loop that is
\* due is passed by another twice (Scheduler::take_due).
SchedulerInv == SchedulerTypeOK /\ FiresWithinItsLife /\ NobodyStarves
=============================================================================
