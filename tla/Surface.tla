------------------------------ MODULE Surface ------------------------------
(***************************************************************************)
(* The interactive surface (crates/tui/src/app) over the host of its       *)
(* session: where it thinks the conversation is, the prompt on its screen, *)
(* the plan under review, and the loops it fires when it is free.  One     *)
(* event loop takes keys, updates, its own channel of failures and the     *)
(* clock in any order; each is handled to the end before the next.         *)
(***************************************************************************)
EXTENDS LocalHost, Scheduler

CONSTANTS
  MaxKeys,    \* bound: things the person does
  MaxLoops,   \* bound: loops made
  MaxClock,   \* bound: the clock
  MaxEvents   \* bound: what the person does, updates between start and end, prompts raised, ticks

ASSUME SurfaceAssumption ==
  /\ MaxKeys \in Nat /\ MaxLoops \in Nat /\ MaxClock \in Nat /\ MaxEvents \in Nat

VARIABLES
  turn,      \* App::turn
  slot,      \* Transcript::open_permission, or 0
  cells,     \* the plan cells of the transcript without an answer
  plan,      \* App::plan is some
  local,     \* the surface's own channel of updates: failures, here
  mirrored,  \* prompts sent by send_text, whose failure its task repeats
  sent,      \* prompts given
  keys,      \* things the person did
  \* observability
  cause      \* why the surface is busy though no turn started it

appVars == <<turn, slot, cells, plan, local, mirrored, sent, keys, cause>>
vars    == <<hostVars, sched, now, appVars>>

Busy == turn # "Idle"

TypeOK ==
  /\ HostTypeOK /\ SchedulerTypeOK
  /\ turn \in {"Idle", "Running", "AwaitingPermission"}
  /\ slot \in 0..MaxAsks /\ cells \in Seq(Asks) /\ plan \in BOOLEAN
  /\ local \in Nat /\ mirrored \subseteq Prompts
  /\ sent \in 0..MaxPrompts /\ keys \in 0..MaxKeys
  /\ cause \in {"none", "unfiled", "aside", "overtaken"}

Init ==
  /\ HostInit /\ SchedulerInit
  /\ turn = "Idle" /\ slot = 0 /\ cells = <<>> /\ plan = FALSE
  /\ local = 0 /\ mirrored = {} /\ sent = 0 /\ keys = 0 /\ cause = "none"

-----------------------------------------------------------------------------
\* App::end_turn and App::begin_turn
EndOfTurn   == turn' = "Idle" /\ cause' = "none"
BeginOfTurn == turn' = "Running"

\* A prompt given: its task is spawned and the surface shows a turn.
Give(p) ==
  /\ p = sent + 1 /\ p \in Prompts
  /\ sent' = p
  /\ spawned' = Append(spawned, Prompt(p))
  /\ BeginOfTurn /\ cause' = "none"

Key == keys < MaxKeys /\ keys' = keys + 1

restOfHost == <<inbox, serving, session, handle, owed, asked, turnCh, reqCh, polled, updates,
                settled, said, crossed>>

\* App::submit: busy or not.  The plan review has the keyboard while it is open.
Submit ==
  /\ Key /\ ~plan
  /\ Give(sent + 1)
  /\ UNCHANGED <<restOfHost, flags, waiting, refused, sched, now, slot, cells, plan, local,
                 mirrored>>

\* A slash command whose text is a prompt: send_text.
SendText(p) == Give(p) /\ mirrored' = mirrored \cup {p}

Command ==
  /\ Key /\ ~plan
  /\ SendText(sent + 1)
  /\ UNCHANGED <<restOfHost, flags, waiting, refused, sched, now, slot, cells, plan, local>>

\* Ctrl-C, and Esc: App::interrupt while busy.
Interrupt ==
  /\ Key /\ Busy
  /\ flags' = Cancelled /\ waiting' = {}
  /\ EndOfTurn
  /\ UNCHANGED <<restOfHost, spawned, refused, sched, now, slot, cells, plan, local, mirrored,
                 sent>>

\* App::answer_permission_with_note: the prompt in the slot, or the last plan.
OpenId == IF slot # 0 THEN slot ELSE IF cells # <<>> THEN cells[Len(cells)] ELSE 0

\* Why no turn follows: nobody waits for the answer, or nobody's turn does.
CauseOf(id) ==
  IF \E w \in waiting : w.id = id
  THEN IF \E w \in waiting : w.id = id /\ w.by # 0 THEN "none" ELSE "aside"
  ELSE "unfiled"

GiveAnswer ==
  IF OpenId = 0
  THEN UNCHANGED <<waiting, slot, cells, turn, cause>>
  ELSE /\ waiting' = Answered(OpenId)
       /\ IF slot # 0 THEN slot' = 0 /\ UNCHANGED cells
                      ELSE cells' = SubSeq(cells, 1, Len(cells) - 1) /\ UNCHANGED slot
       /\ BeginOfTurn /\ cause' = CauseOf(OpenId)

\* handle_permission_key: y, a, n or d.
Answer ==
  /\ Key /\ ~plan /\ OpenId # 0
  /\ GiveAnswer
  /\ UNCHANGED <<restOfHost, spawned, flags, refused, sched, now, plan, local, mirrored, sent>>

\* approve_plan_with, request_plan_changes
DecidePlan ==
  /\ Key /\ plan
  /\ GiveAnswer /\ plan' = FALSE
  /\ UNCHANGED <<restOfHost, spawned, flags, refused, sched, now, local, mirrored, sent>>

\* quit_plan: a refusal, and then what Ctrl-C does.
QuitPlan ==
  /\ Key /\ plan
  /\ plan' = FALSE
  /\ IF OpenId = 0 THEN UNCHANGED <<slot, cells>>
     ELSE IF slot # 0 THEN slot' = 0 /\ UNCHANGED cells
     ELSE cells' = SubSeq(cells, 1, Len(cells) - 1) /\ UNCHANGED slot
  /\ IF Busy \/ OpenId # 0
     THEN flags' = Cancelled /\ waiting' = {} /\ EndOfTurn
     ELSE UNCHANGED <<flags, waiting, turn, cause>>
  /\ UNCHANGED <<restOfHost, spawned, refused, sched, now, local, mirrored, sent>>

\* `/new`, or `/provider` before anything was said: start_new_session.
NewSession ==
  /\ Key /\ ~plan
  /\ sched' = Cleared(sched)
  /\ spawned' = Append(spawned, Replacement)
  /\ UNCHANGED <<restOfHost, flags, waiting, refused, now, turn, slot, cells, plan, local,
                 mirrored, sent, cause>>

\* `/compact`, and the requests of the rewind overlay.
AskErrand ==
  /\ Key /\ ~plan
  /\ spawned' = Append(spawned, Errand)
  /\ UNCHANGED <<restOfHost, flags, waiting, refused, sched, now, turn, slot, cells, plan,
                 local, mirrored, sent, cause>>

-----------------------------------------------------------------------------
\* App::apply.
Begun(u) ==
  /\ BeginOfTurn
  /\ cause' = IF settled[u.of] = "failed" THEN "overtaken" ELSE "none"
  /\ UNCHANGED <<slot, cells, plan>>

Prompted(u) ==
  /\ turn' = "AwaitingPermission"
  /\ cause' = CauseOf(u.of)
  /\ \/ u.kind = "ask" /\ slot' = u.of /\ UNCHANGED <<cells, plan>>
     \/ u.kind = "plan" /\ plan' = TRUE /\ cells' = Append(cells, u.of) /\ UNCHANGED slot

Replaced(u) == u.kind = "reset" /\ EndOfTurn /\ cells' = <<>> /\ UNCHANGED <<slot, plan>>

\* Mutant of Applied: a failure is shown and the turn goes on.
AppliedWithoutFailure(u) ==
  \/ u.kind \in {"started", "text"} /\ Begun(u)
  \/ u.kind = "ended" /\ EndOfTurn /\ UNCHANGED <<slot, cells, plan>>
  \/ u.kind = "failed" /\ UNCHANGED <<turn, cause, slot, cells, plan>>
  \/ Prompted(u) \/ Replaced(u)

Applied(u) ==
  \/ u.kind \in {"started", "text"} /\ Begun(u)
  \/ u.kind \in {"ended", "failed"} /\ EndOfTurn /\ UNCHANGED <<slot, cells, plan>>
  \/ Prompted(u) \/ Replaced(u)

Apply ==
  /\ updates # <<>>
  /\ updates' = Tail(updates)
  /\ Applied(Head(updates))
  /\ UNCHANGED <<spawned, inbox, serving, session, flags, handle, owed, waiting, asked, turnCh,
                 reqCh, polled, settled, refused, said, crossed, sched, now, local, mirrored, sent, keys>>

\* The tasks of the commands that failed, and of send_text, say so on the
\* surface's own channel.
Mirror ==
  /\ \/ /\ refused > 0 /\ refused' = refused - 1 /\ UNCHANGED mirrored
     \/ \E p \in mirrored :
          settled[p] = "failed" /\ mirrored' = mirrored \ {p} /\ UNCHANGED refused
  /\ local' = local + 1
  /\ UNCHANGED <<restOfHost, spawned, flags, waiting, sched, now, turn, slot, cells, plan, sent,
                 keys, cause>>

\* Mutant of ApplyLocal: a failure closes the prompt on the screen.
ApplyLocalClosing ==
  /\ local > 0 /\ local' = local - 1
  /\ EndOfTurn /\ slot' = 0
  /\ UNCHANGED <<hostVars, sched, now, cells, plan, mirrored, sent, keys>>

ApplyLocal ==
  /\ local > 0 /\ local' = local - 1
  /\ EndOfTurn
  /\ UNCHANGED <<hostVars, sched, now, slot, cells, plan, mirrored, sent, keys>>

-----------------------------------------------------------------------------
\* Mutant of FireFrom: what is due fires before the expired loops go.
FireFromFirst(s) ==
  IF Busy \/ Due(s) = {}
  THEN sched' = Expired(s) /\ UNCHANGED <<spawned, turn, sent, mirrored, cause>>
  ELSE sched' = Fired(s) /\ SendText(sent + 1)

\* App::fire_due_schedules over the schedule `s`: the expired loops go first,
\* and a loop that is due waits while the surface shows a turn.
FireFrom(s) ==
  LET live == Expired(s) IN
  IF Busy \/ Due(live) = {}
  THEN sched' = live /\ UNCHANGED <<spawned, turn, sent, mirrored, cause>>
  ELSE sched' = Fired(live) /\ SendText(sent + 1)

Wakeup ==
  /\ Expired(sched) # sched \/ (~Busy /\ Due(sched) # {})
  /\ FireFrom(sched)
  /\ UNCHANGED <<restOfHost, flags, waiting, refused, now, slot, cells, plan, local, keys>>

\* `/loop <interval> <prompt>`: due at once, and looked at at once.
StartLoop(interval) ==
  /\ Key /\ ~plan /\ sched.lastId < MaxLoops
  /\ IF Refused(sched, interval, FALSE)
     THEN UNCHANGED <<sched, spawned, turn, sent, mirrored, cause>>
     ELSE FireFrom(Added(sched, interval, FALSE, TRUE))
  /\ UNCHANGED <<restOfHost, flags, waiting, refused, now, slot, cells, plan, local>>

restOfApp == <<turn, slot, cells, plan, local, mirrored, sent, cause>>

\* `/loop stop <id>`
StopLoop(id) ==
  /\ Key /\ ~plan
  /\ sched' = Removed(sched, id)
  /\ UNCHANGED <<hostVars, now, restOfApp>>

\* schedule_prompt, and task_output and kill_task of a loop: calls of a turn.
ModelSchedules(interval) ==
  /\ serving # 0 /\ ~Parked /\ sched.lastId < MaxLoops
  /\ sched' = Added(sched, interval, FALSE, FALSE)
  /\ UNCHANGED <<hostVars, now, restOfApp, keys>>

ModelReads(id) ==
  /\ serving # 0 /\ ~Parked
  /\ \/ sched' = Reported(sched, id)
     \/ sched' = Removed(sched, id)
  /\ UNCHANGED <<hostVars, now, restOfApp, keys>>

Tick ==
  /\ now < MaxClock /\ now' = now + 1
  /\ UNCHANGED <<hostVars, sched, appVars>>

Person ==
  \/ Submit \/ Command \/ Interrupt \/ Answer \/ DecidePlan \/ QuitPlan
  \/ NewSession \/ AskErrand
  \/ \E i \in Intervals : StartLoop(i)
  \/ \E id \in 1..sched.lastId : StopLoop(id)

Model ==
  \/ \E i \in Intervals : ModelSchedules(i)
  \/ \E id \in 1..sched.lastId : ModelReads(id)

EventLoop == Apply \/ ApplyLocal \/ Mirror \/ Wakeup

Host == HostStep /\ UNCHANGED <<sched, now, appVars>>

Within == keys' + said' + asked' + now' <= MaxEvents

Next == (Person \/ Model \/ EventLoop \/ Host \/ Tick) /\ Within

Spec == Init /\ [][Next]_vars

\* The runtime runs every task that is ready, the model ends its turns, and the
\* event loop takes what has come; the person owes nothing.
Fairness ==
  /\ WF_vars(Host /\ Within) /\ WF_vars(EventLoop /\ Within)
  /\ WF_vars((EndTurn \/ FailTurn) /\ UNCHANGED <<sched, now, appVars>>)

FairSpec == Spec /\ Fairness

-----------------------------------------------------------------------------
\* Nothing is under way anywhere, and the surface has been told everything.
Quiet == AtRest /\ local = 0 /\ \A p \in mirrored : settled[p] # "failed"

\* When all is quiet the surface is free, the loops can fire and Ctrl-C means
\* quit; it is left busy only by an answer nobody waits for, by an answer to a
\* command in the background or a subagent, and by an update of a turn that
\* comes in after the turn's failure (begin_turn, end_turn, answer_permission).
BusyHasACause == Quiet /\ Busy => cause # "none"

\* Ctrl-C and the settings reach the session that runs once every replacement
\* has been taken over, unless two were under way together (adopt).
HandleFollows == owed = <<>> /\ ~crossed => handle = session

\* A replaced session has no prompt filed once one that came after it is taken
\* over: what it was parked on is withdrawn (adopt).
OldPromptsGo == \A w \in waiting : w.in >= handle

\* What was given is served and reported to the end, unless a prompt is open.
Settles == <>[](Quiet \/ waiting # {})

\* A turn parked on the prompt raised last can be freed from the keyboard once the
\* surface has been told everything: that prompt is on the screen, whatever ended
\* the turn the surface shows (apply, answer_permission_with_note).
Told == turnCh = <<>> /\ reqCh = <<>> /\ updates = <<>> /\ local = 0

OnScreen(id) == slot = id \/ (cells # <<>> /\ cells[Len(cells)] = id)

ParkedCanBeFreed ==
  \A w \in waiting : Told /\ w.by # 0 /\ w.id = asked => OnScreen(w.id)

\* What the surface holds belongs to the session that runs: its Ctrl-C and settings
\* reach it, and the prompts of the ones it replaced are gone.
SurfaceInv == TypeOK /\ HandleFollows /\ OldPromptsGo
=============================================================================
