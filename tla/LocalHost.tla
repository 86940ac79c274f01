----------------------------- MODULE LocalHost -----------------------------
(***************************************************************************)
(* The host of a session in the surface's process (crates/acp/src/         *)
(* local.rs): the session task and its inbox, the bridge that files the    *)
(* prompts for a person, and the task that merges both onto the stream of  *)
(* updates.  What a turn does between its start and its end is TurnLoop;   *)
(* here it speaks, asks, and ends well or not.                             *)
(*                                                                         *)
(* The runtime has several threads.  A command enters the inbox when the   *)
(* task spawned for it first runs, not when it was given.                  *)
(***************************************************************************)
EXTENDS Naturals, Sequences, SequencesExt

CONSTANTS
  MaxPrompts,   \* bound: prompts given
  MaxAsks,      \* bound: prompts for a person raised
  MaxText,      \* bound: updates the turns emit between start and end
  MaxSessions   \* bound: sessions, the first one included

ASSUME HostAssumption ==
  /\ MaxPrompts \in Nat /\ MaxAsks \in Nat /\ MaxText \in Nat /\ MaxSessions \in Nat \ {0}

VARIABLES
  spawned,  \* commands whose task has not run yet
  inbox,    \* commands: what the session task has not received
  serving,  \* the prompt whose turn runs, or 0
  session,  \* the session that runs, counted from 1
  flags,    \* per session: its cancel flag
  handle,   \* the session whose canceller and switches LocalConversation holds
  owed,     \* sessions whose switches wait for their adopt
  waiting,  \* Approvals::waiting: prompts filed, with the turn that is parked on it
  asked,    \* Approvals::next, less one
  turnCh,   \* updates of the turns, unpublished
  reqCh,    \* prompts for a person, unpublished
  polled,   \* publish found no turn update and now looks for a prompt
  updates,  \* the stream the surface reads
  settled,  \* per prompt: what its future resolved to
  refused,  \* other commands that failed and whose task has not said so
  said,     \* updates emitted between start and end
  \* observability
  crossed   \* a replacement was taken over before one that came earlier

hostVars == <<spawned, inbox, serving, session, flags, handle, owed, waiting, asked, turnCh,
              reqCh, polled, updates, settled, refused, said, crossed>>

Prompts  == 1..MaxPrompts
Asks     == 1..MaxAsks
Sessions == 1..MaxSessions

\* The part of Command that matters here: a prompt, a replacement of the
\* session (NewSession, NewSessionOn), and the rest, which answer their caller.
Prompt(p)   == [kind |-> "prompt", of |-> p]
Replacement == [kind |-> "new", of |-> 0]
Errand      == [kind |-> "errand", of |-> 0]
Commands    == [kind : {"prompt", "new", "errand"}, of : 0..MaxPrompts]

Update(k, of) == [kind |-> k, of |-> of]
Updates == [kind : {"started", "text", "ended", "failed", "ask", "plan", "reset"}, of : Nat]

HostTypeOK ==
  /\ spawned \in Seq(Commands) /\ inbox \in Seq(Commands)
  /\ serving \in 0..MaxPrompts /\ session \in Sessions /\ handle \in Sessions
  /\ flags \in [Sessions -> BOOLEAN] /\ owed \in Seq(Sessions)
  /\ waiting \subseteq [id : Asks, by : 0..MaxPrompts, in : Sessions]
  /\ asked \in 0..MaxAsks /\ said \in 0..MaxText
  /\ turnCh \in Seq(Updates) /\ reqCh \in Seq(Updates) /\ updates \in Seq(Updates)
  /\ polled \in BOOLEAN /\ refused \in Nat /\ crossed \in BOOLEAN
  /\ settled \in [Prompts -> {"open", "ok", "failed"}]

HostInit ==
  /\ spawned = <<>> /\ inbox = <<>> /\ serving = 0 /\ session = 1
  /\ flags = [g \in Sessions |-> FALSE] /\ handle = 1 /\ owed = <<>>
  /\ waiting = {} /\ asked = 0 /\ said = 0
  /\ turnCh = <<>> /\ reqCh = <<>> /\ polled = FALSE /\ updates = <<>>
  /\ settled = [p \in Prompts |-> "open"] /\ refused = 0 /\ crossed = FALSE

Parked == \E w \in waiting : w.by = serving /\ serving # 0

-----------------------------------------------------------------------------
\* The spawned task of a command sends it.
Send(i) ==
  /\ i \in DOMAIN spawned
  /\ inbox' = Append(inbox, spawned[i])
  /\ spawned' = RemoveAt(spawned, i)
  /\ UNCHANGED <<serving, session, flags, handle, owed, waiting, asked, turnCh, reqCh, polled,
                 updates, settled, refused, said, crossed>>

Received(kind) == serving = 0 /\ inbox # <<>> /\ Head(inbox).kind = kind /\ inbox' = Tail(inbox)

\* run_turn up to TurnStarted: a cancel belongs to the turn it interrupted.
Serve ==
  /\ Received("prompt")
  /\ serving' = Head(inbox).of
  /\ flags' = [flags EXCEPT ![session] = FALSE]
  /\ turnCh' = Append(turnCh, Update("started", serving'))
  /\ UNCHANGED <<spawned, session, handle, owed, waiting, asked, reqCh, polled, updates, settled,
                 refused, said, crossed>>

\* An image that cannot be read, or a log that cannot be written: no TurnStarted.
ServeFails ==
  /\ Received("prompt")
  /\ updates' = Append(updates, Update("failed", Head(inbox).of))
  /\ settled' = [settled EXCEPT ![Head(inbox).of] = "failed"]
  /\ \/ UNCHANGED flags
     \/ flags' = [flags EXCEPT ![session] = FALSE]
  /\ UNCHANGED <<spawned, serving, session, handle, owed, waiting, asked, turnCh, reqCh, polled,
                 refused, said, crossed>>

Speak ==
  /\ serving # 0 /\ ~Parked /\ said < MaxText
  /\ said' = said + 1
  /\ turnCh' = Append(turnCh, Update("text", serving))
  /\ UNCHANGED <<spawned, inbox, serving, session, flags, handle, owed, waiting, asked, reqCh,
                 polled, updates, settled, refused, crossed>>

\* Approvals::review, of a call of the turn or (by = 0) of a subagent or a
\* command in the background: filed before it is announced.
Ask(by, kind) ==
  /\ asked < MaxAsks
  /\ by = 0 \/ (serving = by /\ ~Parked)
  /\ asked' = asked + 1
  /\ waiting' = waiting \cup {[id |-> asked + 1, by |-> by, in |-> session]}
  /\ reqCh' = Append(reqCh, Update(kind, asked + 1))
  /\ UNCHANGED <<spawned, inbox, serving, session, flags, handle, owed, turnCh, polled, updates,
                 settled, refused, said, crossed>>

\* run_turn returns: TurnEnded goes by the turn's own channel, a failure
\* straight onto the stream.
EndTurn ==
  /\ serving # 0 /\ ~Parked
  /\ turnCh' = Append(turnCh, Update("ended", serving))
  /\ settled' = [settled EXCEPT ![serving] = "ok"]
  /\ serving' = 0
  /\ UNCHANGED <<spawned, inbox, session, flags, handle, owed, waiting, asked, reqCh, polled,
                 updates, refused, said, crossed>>

FailTurn ==
  /\ serving # 0 /\ ~Parked
  /\ updates' = Append(updates, Update("failed", serving))
  /\ settled' = [settled EXCEPT ![serving] = "failed"]
  /\ serving' = 0
  /\ UNCHANGED <<spawned, inbox, session, flags, handle, owed, waiting, asked, turnCh, reqCh,
                 polled, refused, said, crossed>>

\* NewSession and NewSessionOn: built in full before anything is replaced, then
\* start_over; the switches travel back to the task that asked.
StartOver ==
  /\ Received("new") /\ session < MaxSessions
  /\ session' = session + 1
  /\ updates' = Append(updates, Update("reset", session'))
  /\ owed' = Append(owed, session')
  /\ UNCHANGED <<spawned, serving, flags, handle, waiting, asked, turnCh, reqCh, polled, settled,
                 refused, said, crossed>>

\* A session that cannot be built, a compaction or a rewind that fails.
CommandFails ==
  /\ \E k \in {"new", "errand"} : Received(k)
  /\ refused' = refused + 1
  /\ UNCHANGED <<spawned, serving, session, flags, handle, owed, waiting, asked, turnCh, reqCh,
                 polled, updates, settled, said, crossed>>

RunErrand ==
  /\ Received("errand")
  /\ UNCHANGED <<spawned, serving, session, flags, handle, owed, waiting, asked, turnCh, reqCh,
                 polled, updates, settled, refused, said, crossed>>

\* Mutants of Adopt: the prompts of the session before stay filed; the switches
\* of the new one are dropped.
AdoptKeepingPrompts(i) ==
  /\ i \in DOMAIN owed
  /\ handle' = owed[i]
  /\ owed' = RemoveAt(owed, i)
  /\ crossed' = (crossed \/ i # 1)
  /\ UNCHANGED <<spawned, inbox, serving, session, flags, waiting, asked, turnCh, reqCh, polled,
                 updates, settled, refused, said>>

AdoptNothing(i) ==
  /\ i \in DOMAIN owed
  /\ waiting' = {}
  /\ owed' = RemoveAt(owed, i)
  /\ crossed' = (crossed \/ i # 1)
  /\ UNCHANGED <<spawned, inbox, serving, session, flags, handle, asked, turnCh, reqCh, polled,
                 updates, settled, refused, said>>

\* LocalConversation::adopt, on the task of any replacement that was answered.
Adopt(i) ==
  /\ i \in DOMAIN owed
  /\ waiting' = {}
  /\ handle' = owed[i]
  /\ owed' = RemoveAt(owed, i)
  /\ crossed' = (crossed \/ i # 1)
  /\ UNCHANGED <<spawned, inbox, serving, session, flags, asked, turnCh, reqCh, polled, updates,
                 settled, refused, said>>

\* Mutant of Publish: once a prompt was taken, only prompts are looked for.
PublishStuck ==
  /\ \/ /\ ~polled /\ turnCh # <<>>
        /\ updates' = Append(updates, Head(turnCh)) /\ turnCh' = Tail(turnCh)
        /\ UNCHANGED <<reqCh, polled>>
     \/ /\ turnCh = <<>> \/ polled
        /\ reqCh # <<>>
        /\ polled' = TRUE
        /\ updates' = Append(updates, Head(reqCh)) /\ reqCh' = Tail(reqCh)
        /\ UNCHANGED turnCh
  /\ UNCHANGED <<spawned, inbox, serving, session, flags, handle, owed, waiting, asked, settled,
                 refused, said, crossed>>

\* publish: the select polls the turns' channel first, then the prompts'.
Publish ==
  /\ \/ /\ ~polled /\ turnCh # <<>>
        /\ updates' = Append(updates, Head(turnCh)) /\ turnCh' = Tail(turnCh)
        /\ UNCHANGED <<reqCh, polled>>
     \/ /\ ~polled /\ turnCh = <<>> /\ reqCh # <<>>
        /\ polled' = TRUE /\ UNCHANGED <<turnCh, reqCh, updates>>
     \/ /\ polled
        /\ polled' = FALSE
        /\ updates' = Append(updates, Head(reqCh)) /\ reqCh' = Tail(reqCh)
        /\ UNCHANGED turnCh
  /\ UNCHANGED <<spawned, inbox, serving, session, flags, handle, owed, waiting, asked, settled,
                 refused, said, crossed>>

HostStep ==
  \/ \E i \in DOMAIN spawned : Send(i)
  \/ Serve \/ ServeFails \/ Speak \/ EndTurn \/ FailTurn
  \/ \E by \in {0, serving}, kind \in {"ask", "plan"} : (by = 0 => kind = "ask") /\ Ask(by, kind)
  \/ StartOver \/ CommandFails \/ RunErrand
  \/ \E i \in DOMAIN owed : Adopt(i)
  \/ Publish

-----------------------------------------------------------------------------
\* What the surface calls.  Approvals::answer ignores a prompt not filed.
Answered(id) == {w \in waiting : w.id # id}

\* LocalConversation::cancel: the flag first, then withdraw_all.
Cancelled == [flags EXCEPT ![handle] = TRUE]

\* Nothing is under way or on its way to the surface.
AtRest ==
  /\ spawned = <<>> /\ inbox = <<>> /\ serving = 0 /\ owed = <<>> /\ waiting = {}
  /\ turnCh = <<>> /\ reqCh = <<>> /\ updates = <<>> /\ refused = 0
=============================================================================
