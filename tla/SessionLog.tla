----------------------------- MODULE SessionLog -----------------------------
(***************************************************************************)
(* The rollout log of a session and what a reader rebuilds from it         *)
(* (crates/protocol/src/session.rs, crates/core/src/resume.rs,             *)
(* crates/core/src/meta.rs).                                               *)
(*                                                                         *)
(* A message keeps what the properties tell apart: its kind, the turn that *)
(* produced it, and the tool calls it makes or answers.  Text, images and  *)
(* usage are left out.                                                     *)
(***************************************************************************)
EXTENDS Integers, Sequences, FiniteSets

(***************************************************************************)
(* Messages                                                                *)
(***************************************************************************)

\* A call id names the turn and the step of the reply that made the call.
CallId == [turn : Nat, step : Nat, index : Nat]

\* `parts` are the calls of a reply, or the calls a tool message answers.
Message == [kind  : {"input", "context", "summary", "reply", "results"},
            turn  : Nat,
            parts : Seq(CallId)]

Input(t)          == [kind |-> "input",   turn |-> t, parts |-> <<>>]
Context(t)        == [kind |-> "context", turn |-> t, parts |-> <<>>]
Summary(t)        == [kind |-> "summary", turn |-> t, parts |-> <<>>]
Reply(t, calls)   == [kind |-> "reply",   turn |-> t, parts |-> calls]
Results(answered) == [kind |-> "results", turn |-> answered[1].turn, parts |-> answered]

\* The only thing the code can see of a message's origin: prompts, context
\* fragments and compaction summaries all carry `Role::User`.
IsUser(m) == m.kind \in {"input", "context", "summary"}

\* How many user messages a history holds.
UserCount(h) == Cardinality({i \in 1..Len(h) : IsUser(h[i])})

\* The ordinal, from zero, of the user message at position `at`.
Ordinal(h, at) == Cardinality({i \in 1..(at - 1) : IsUser(h[i])})

(***************************************************************************)
(* The snapshot map, as its set of entries: the ordinal a snapshot is      *)
(* filed under and the turn it was taken in.                               *)
(***************************************************************************)

Entry == [ordinal : Nat, turn : Nat]

Insert(s, k, t) == {x \in s : x.ordinal # k} \cup {[ordinal |-> k, turn |-> t]}

RetainBelow(s, n) == {x \in s : x.ordinal < n}

(***************************************************************************)
(* Events                                                                  *)
(***************************************************************************)

SayEvents == {"TurnStart", "ContextMessage", "ModelResponse"}

PlainEvents == {"SessionStart", "ModelRequest", "TurnEnd", "Error"}

Event ==
  [ev : SayEvents, msg : Message]
    \cup [ev : PlainEvents]
    \cup [ev : {"ToolCallStart", "ToolCallEnd"}, call : CallId]
    \cup [ev : {"Compacted"}, msg : Message, retained : Nat]
    \cup [ev : {"Checkpoint"}, user_turn : Nat, snapshot : Nat]
    \cup [ev : {"Rewound"}, conversation : BOOLEAN, history : Seq(Message)]

Say(name, m)         == [ev |-> name, msg |-> m]
Plain(name)          == [ev |-> name]
CallStart(c)         == [ev |-> "ToolCallStart", call |-> c]
CallEnd(c)           == [ev |-> "ToolCallEnd", call |-> c]
Compacted(m, n)      == [ev |-> "Compacted", msg |-> m, retained |-> n]
Checkpoint(k, t)     == [ev |-> "Checkpoint", user_turn |-> k, snapshot |-> t]
\* A files-only rewind logs no history.
Rewound(both, h)     == [ev |-> "Rewound", conversation |-> both,
                         history |-> IF both THEN h ELSE <<>>]

(***************************************************************************)
(* Replay: the state of a reader that has consumed the log so far.         *)
(* `results` is the open batch of tool results, not yet a message.         *)
(***************************************************************************)

Replayed == [history : Seq(Message), results : Seq(CallId), snapshots : SUBSET Entry]

NothingRead == [history |-> <<>>, results |-> <<>>, snapshots |-> {}]

\* The last n messages, or all of them when there are fewer.
LastMessages(h, n) == SubSeq(h, IF Len(h) > n THEN Len(h) - n + 1 ELSE 1, Len(h))

\* `flush`: close the open batch as one tool message.
Flush(r) == IF r.results = <<>> THEN r.history ELSE Append(r.history, Results(r.results))

Heard(r, h) == [r EXCEPT !.history = h, !.results = <<>>]

\* One event of the log, as `history_from_log` and `SessionMeta::apply` fold it.
Apply(r, e) ==
  CASE e.ev \in SayEvents -> Heard(r, Append(Flush(r), e.msg))
    [] e.ev = "ToolCallEnd" -> [r EXCEPT !.results = Append(@, e.call)]
    [] e.ev = "Compacted" -> Heard(r, <<e.msg>> \o LastMessages(Flush(r), e.retained))
    [] e.ev = "Checkpoint" ->
         [r EXCEPT !.snapshots = Insert(@, e.user_turn, e.snapshot)]
    [] e.ev = "Rewound" /\ e.conversation ->
         [Heard(r, e.history) EXCEPT !.snapshots = RetainBelow(@, UserCount(e.history))]
    [] OTHER -> r
=============================================================================
