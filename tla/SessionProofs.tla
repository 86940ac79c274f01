--------------------------- MODULE SessionProofs ---------------------------
(***************************************************************************)
(* Theorems about a session, for every value of the constants: about its   *)
(* turns and its log of events (TurnLoop), and, from "Walking a log cell   *)
(* by cell" on, about the bytes of that log and the summary kept beside it *)
(* (SessionFile).  The two do not share a variable; a theorem is about the *)
(* specification that it names, Spec or FileSpec.                          *)
(***************************************************************************)
EXTENDS MCTurnLoop, SessionFile, SequenceTheorems, FunctionTheorems, FiniteSetTheorems,
        WellFoundedInduction, TLAPS

-----------------------------------------------------------------------------
(* Lemmas about the log's operators *)

\* Counting the user messages of a history gives a natural number.
LEMMA UserCountType ==
  ASSUME NEW h \in Seq(Message)
  PROVE  UserCount(h) \in Nat
<1>1. IsFiniteSet(1..Len(h))
  BY FS_Interval
<1>2. IsFiniteSet({i \in 1..Len(h) : IsUser(h[i])})
  BY <1>1, FS_Subset
<1>3. QED
  BY <1>2, FS_CardinalityType DEF UserCount

\* So does counting those before a position.
LEMMA OrdinalType ==
  ASSUME NEW h \in Seq(Message), NEW at \in 1..Len(h)
  PROVE  Ordinal(h, at) \in Nat
<1>1. IsFiniteSet(1..(at - 1))
  BY FS_Interval
<1>2. IsFiniteSet({i \in 1..(at - 1) : IsUser(h[i])})
  BY <1>1, FS_Subset
<1>3. QED
  BY <1>2, FS_CardinalityType DEF Ordinal

\* The prefix a rewind keeps holds as many user messages as the ordinal it was
\* asked for: `survived` in SessionMeta::apply is `nth` in rewind_to_user_turn.
LEMMA PrefixCount ==
  ASSUME NEW h \in Seq(Message), NEW at \in 1..Len(h)
  PROVE  UserCount(SubSeq(h, 1, at - 1)) = Ordinal(h, at)
<1>1. Len(SubSeq(h, 1, at - 1)) = at - 1
  OBVIOUS
<1>2. \A i \in 1..(at - 1) : SubSeq(h, 1, at - 1)[i] = h[i]
  OBVIOUS
<1>3. {i \in 1..(at - 1) : IsUser(SubSeq(h, 1, at - 1)[i])}
        = {i \in 1..(at - 1) : IsUser(h[i])}
  BY <1>2
<1>4. QED
  BY <1>1, <1>3 DEF UserCount, Ordinal

\* The messages the loop writes are messages.
LEMMA MessageTypes ==
  ASSUME NEW t \in Nat, NEW cs \in Seq(CallId)
  PROVE  /\ Input(t) \in Message
         /\ Context(t) \in Message
         /\ Summary(t) \in Message
         /\ Reply(t, cs) \in Message
         /\ cs # <<>> => Results(cs) \in Message
<1>1. <<>> \in Seq(CallId)
  OBVIOUS
<1>2. cs # <<>> => cs[1] \in CallId
  OBVIOUS
<1>3. QED
  BY <1>1, <1>2 DEF Message, Input, Context, Summary, Reply, Results, CallId

\* Closing the open batch yields a history.
LEMMA FlushType ==
  ASSUME NEW r \in Replayed
  PROVE  Flush(r) \in Seq(Message)
<1>1. r.history \in Seq(Message) /\ r.results \in Seq(CallId)
  BY DEF Replayed
<1>2. r.results # <<>> => Results(r.results) \in Message
  BY <1>1, MessageTypes
<1>3. QED
  BY <1>1, <1>2 DEF Flush

\* Keeping the tail of a history yields a history.
LEMMA LastMessagesType ==
  ASSUME NEW h \in Seq(Message), NEW n \in Nat
  PROVE  LastMessages(h, n) \in Seq(Message)
BY DEF LastMessages

\* What each kind of event carries.
LEMMA EventFields ==
  ASSUME NEW e \in Event
  PROVE  /\ e.ev \in SayEvents => e.msg \in Message
         /\ e.ev = "ToolCallEnd" => e.call \in CallId
         /\ e.ev = "Compacted" => e.msg \in Message /\ e.retained \in Nat
         /\ e.ev = "Checkpoint" => e.user_turn \in Nat /\ e.snapshot \in Nat
         /\ e.ev = "Rewound" => e.conversation \in BOOLEAN /\ e.history \in Seq(Message)
<1>1. CASE e \in [ev : SayEvents, msg : Message]
  BY <1>1 DEF SayEvents
<1>2. CASE e \in [ev : PlainEvents]
  BY <1>2 DEF SayEvents, PlainEvents
<1>3. CASE e \in [ev : {"ToolCallStart", "ToolCallEnd"}, call : CallId]
  BY <1>3 DEF SayEvents
<1>4. CASE e \in [ev : {"Compacted"}, msg : Message, retained : Nat]
  BY <1>4 DEF SayEvents
<1>5. CASE e \in [ev : {"Checkpoint"}, user_turn : Nat, snapshot : Nat]
  BY <1>5 DEF SayEvents
<1>6. CASE e \in [ev : {"Rewound"}, conversation : BOOLEAN, history : Seq(Message)]
  BY <1>6 DEF SayEvents
<1>7. QED
  BY <1>1, <1>2, <1>3, <1>4, <1>5, <1>6 DEF Event

\* Replacing the history and closing the batch keeps a reader's state typed.
LEMMA HeardType ==
  ASSUME NEW r \in Replayed, NEW h \in Seq(Message)
  PROVE  /\ Heard(r, h) \in Replayed
         /\ Heard(r, h).history = h
         /\ Heard(r, h).results = <<>>
         /\ Heard(r, h).snapshots = r.snapshots
<1>1. <<>> \in Seq(CallId)
  OBVIOUS
<1>2. QED
  BY <1>1 DEF Heard, Replayed

\* Folding any event into a reader's state yields a reader's state.
LEMMA ApplyType ==
  ASSUME NEW r \in Replayed, NEW e \in Event
  PROVE  Apply(r, e) \in Replayed
<1>1. CASE e.ev \in SayEvents
  <2>1. Apply(r, e) = Heard(r, Append(Flush(r), e.msg))
    BY <1>1 DEF Apply, SayEvents
  <2>2. Append(Flush(r), e.msg) \in Seq(Message)
    BY <1>1, EventFields, FlushType
  <2>3. QED
    BY <2>1, <2>2, HeardType
<1>2. CASE e.ev = "ToolCallEnd"
  <2>1. Apply(r, e) = [r EXCEPT !.results = Append(@, e.call)]
    BY <1>2 DEF Apply, SayEvents
  <2>2. Append(r.results, e.call) \in Seq(CallId)
    BY <1>2, EventFields DEF Replayed
  <2>3. QED
    BY <2>1, <2>2 DEF Replayed
<1>3. CASE e.ev = "Compacted"
  <2>1. Apply(r, e) = Heard(r, <<e.msg>> \o LastMessages(Flush(r), e.retained))
    BY <1>3 DEF Apply, SayEvents
  <2>2. <<e.msg>> \o LastMessages(Flush(r), e.retained) \in Seq(Message)
    <3>1. e.msg \in Message /\ e.retained \in Nat
      BY <1>3, EventFields
    <3>2. LastMessages(Flush(r), e.retained) \in Seq(Message)
      BY <3>1, FlushType, LastMessagesType
    <3>3. QED
      BY <3>1, <3>2
  <2>3. QED
    BY <2>1, <2>2, HeardType
<1>4. CASE e.ev = "Checkpoint"
  <2>1. Apply(r, e) = [r EXCEPT !.snapshots = Insert(@, e.user_turn, e.snapshot)]
    BY <1>4 DEF Apply, SayEvents
  <2>2. Insert(r.snapshots, e.user_turn, e.snapshot) \in SUBSET Entry
    BY <1>4, EventFields DEF Insert, Entry, Replayed
  <2>3. QED
    BY <2>1, <2>2 DEF Replayed
<1>5. CASE e.ev = "Rewound" /\ e.conversation
  <2>1. Apply(r, e) = [Heard(r, e.history)
                        EXCEPT !.snapshots = RetainBelow(@, UserCount(e.history))]
    BY <1>5 DEF Apply, SayEvents
  <2>2. Heard(r, e.history) \in Replayed
    BY <1>5, EventFields, HeardType
  <2>3. RetainBelow(Heard(r, e.history).snapshots, UserCount(e.history)) \in SUBSET Entry
    BY <2>2 DEF RetainBelow, Replayed
  <2>4. QED
    BY <2>1, <2>2, <2>3 DEF Replayed
<1>6. CASE /\ e.ev \notin SayEvents
           /\ e.ev \notin {"ToolCallEnd", "Compacted", "Checkpoint"}
           /\ ~(e.ev = "Rewound" /\ e.conversation)
  BY <1>6 DEF Apply
<1>7. QED
  BY <1>1, <1>2, <1>3, <1>4, <1>5, <1>6

\* The events the loop appends are events.
LEMMA EventTypes ==
  /\ \A name \in SayEvents, m \in Message : Say(name, m) \in Event
  /\ \A name \in PlainEvents : Plain(name) \in Event
  /\ \A c \in CallId : CallStart(c) \in Event /\ CallEnd(c) \in Event
  /\ \A m \in Message, n \in Nat : Compacted(m, n) \in Event
  /\ \A k, t \in Nat : Checkpoint(k, t) \in Event
  /\ \A b \in BOOLEAN, h \in Seq(Message) : Rewound(b, h) \in Event
<1>1. \A name \in SayEvents, m \in Message : Say(name, m) \in Event
  BY DEF Say, Event
<1>2. \A name \in PlainEvents : Plain(name) \in Event
  BY DEF Plain, Event
<1>3. \A c \in CallId : CallStart(c) \in Event /\ CallEnd(c) \in Event
  BY DEF CallStart, CallEnd, Event
<1>4. \A m \in Message, n \in Nat : Compacted(m, n) \in Event
  BY DEF Compacted, Event
<1>5. \A k, t \in Nat : Checkpoint(k, t) \in Event
  BY DEF Checkpoint, Event
<1>6. \A b \in BOOLEAN, h \in Seq(Message) : Rewound(b, h) \in Event
  <2>1. <<>> \in Seq(Message)
    OBVIOUS
  <2>2. QED
    BY <2>1 DEF Rewound, Event
<1>7. QED
  BY <1>1, <1>2, <1>3, <1>4, <1>5, <1>6

\* Appending one event keeps the log and its reader typed.
LEMMA LogType ==
  ASSUME TypeOK, NEW e \in Event, Log(e)
  PROVE  log' \in Seq(Event) /\ replay' \in Replayed
BY ApplyType DEF Log, TypeOK

\* What the loop's own events do to a reader.
LEMMA ApplyFacts ==
  ASSUME NEW r \in Replayed
  PROVE  /\ \A name \in SayEvents, m \in Message :
              Apply(r, Say(name, m)) = Heard(r, Append(Flush(r), m))
         /\ \A name \in PlainEvents : Apply(r, Plain(name)) = r
         /\ \A c \in CallId :
              /\ Apply(r, CallStart(c)) = r
              /\ Apply(r, CallEnd(c)) = [r EXCEPT !.results = Append(@, c)]
         /\ \A h : Apply(r, Rewound(FALSE, h)) = r
         /\ \A h : Apply(r, Rewound(TRUE, h))
                    = [Heard(r, h) EXCEPT !.snapshots = RetainBelow(@, UserCount(h))]
<1> USE DEF Apply, SayEvents
<1>1. \A name \in SayEvents, m \in Message :
        Apply(r, Say(name, m)) = Heard(r, Append(Flush(r), m))
  BY DEF Say
<1>2. \A name \in PlainEvents : Apply(r, Plain(name)) = r
  BY DEF Plain, PlainEvents
<1>3. \A c \in CallId : /\ Apply(r, CallStart(c)) = r
                        /\ Apply(r, CallEnd(c)) = [r EXCEPT !.results = Append(@, c)]
  BY DEF CallStart, CallEnd
<1>4. \A h : Apply(r, Rewound(FALSE, h)) = r
  BY DEF Rewound
<1>5. \A h : Apply(r, Rewound(TRUE, h))
              = [Heard(r, h) EXCEPT !.snapshots = RetainBelow(@, UserCount(h))]
  BY DEF Rewound
<1>6. QED
  BY <1>1, <1>2, <1>3, <1>4, <1>5

-----------------------------------------------------------------------------
(* Type correctness *)

\* The empty sequence belongs to every set of sequences.
LEMMA EmptyTypes == <<>> \in Seq(CallId) /\ <<>> \in Seq(Message)
OBVIOUS

LEMMA TypeInit == Init => TypeOK
<1>1. Plain("SessionStart") \in Event
  BY EventTypes DEF PlainEvents
<1>2. NothingRead \in Replayed
  BY DEF NothingRead, Replayed
<1>3. <<Plain("SessionStart")>> \in Seq(Event)
  BY <1>1
<1>4. Init => used \in [Spendable -> Nat]
  BY DEF Init
<1>5. Init => log \in Seq(Event) /\ replay \in Replayed
  BY <1>2, <1>3 DEF Init
<1>6. Init => history \in Seq(Message) /\ calls \in Seq(CallId)
  BY EmptyTypes DEF Init
<1>7. Init => /\ pc \in PC /\ snapshots \in SUBSET Entry
              /\ diverged \in SUBSET {"history", "snapshots"}
              /\ turn \in Nat /\ step \in 0..(MaxSteps - 1) /\ done \in Nat /\ late \in Nat
  BY TurnLoopAssumption DEF Init, PC
<1>8. Init => snapshotTaken \in BOOLEAN /\ cancelled \in BOOLEAN /\ aborted \in BOOLEAN
  BY DEF Init
<1>9. QED
  BY <1>4, <1>5, <1>6, <1>7, <1>8 DEF TypeOK

\* Recording one more result extends the answered prefix of the batch.
LEMMA NextResult ==
  ASSUME NEW cs \in Seq(CallId), NEW n \in Nat, n < Len(cs)
  PROVE  /\ cs[n + 1] \in CallId
         /\ Append(SubSeq(cs, 1, n), cs[n + 1]) = SubSeq(cs, 1, n + 1)
         /\ SubSeq(cs, 1, 0) = <<>>
         /\ SubSeq(cs, 1, Len(cs)) = cs
<1>1. cs[n + 1] \in CallId
  OBVIOUS
<1>2. Append(SubSeq(cs, 1, n), cs[n + 1]) = SubSeq(cs, 1, n + 1)
  OBVIOUS
<1>3. SubSeq(cs, 1, 0) = <<>> /\ SubSeq(cs, 1, Len(cs)) = cs
  OBVIOUS
<1>4. QED
  BY <1>1, <1>2, <1>3

\* The two ways a call ends: others are left, or the batch is over and pushed.
LEMMA EndCallCases ==
  ASSUME TypeOK, BatchOK, EndCall
  PROVE  /\ calls \in Seq(CallId) /\ done \in Nat /\ done < Len(calls)
         /\ calls[done + 1] \in CallId
         /\ \/ /\ done + 1 < Len(calls)
               /\ done' = done + 1 /\ pc' = "calling" /\ aborted' \in BOOLEAN
               /\ UNCHANGED <<calls, history, step>>
            \/ /\ done + 1 = Len(calls)
               /\ history' = Append(history, Results(calls))
               /\ \E stopping \in BOOLEAN : AfterBatch(stopping) /\ (cancelled => stopping)
               /\ Forget
<1>1. calls \in Seq(CallId) /\ done \in Nat /\ done < Len(calls)
  BY DEF EndCall, InBatch, BatchOK, TypeOK
<1>2. calls[done + 1] \in CallId
  BY <1>1, NextResult
<1>3. PICK abort \in BOOLEAN :
        IF ~BatchOver(abort)
        THEN /\ done' = done + 1 /\ aborted' = (aborted \/ abort)
             /\ pc' = "calling"
             /\ UNCHANGED <<calls, history, step>>
        ELSE /\ history' = Append(history, Results(SubSeq(calls, 1, done + 1)))
             /\ AfterBatch(aborted \/ abort \/ cancelled)
             /\ Forget
  BY DEF EndCall
<1>4. CASE done + 1 < Len(calls)
  <2>1. ~BatchOver(abort)
    BY <1>1, <1>4 DEF BatchOver
  <2>2. aborted' = (aborted \/ abort)
    BY <1>3, <2>1
  <2>3. aborted' \in BOOLEAN
    BY <2>2
  <2>4. QED
    BY <1>1, <1>2, <1>3, <1>4, <2>1, <2>3
<1>5. CASE ~(done + 1 < Len(calls))
  <2>1. done + 1 = Len(calls) /\ BatchOver(abort)
    BY <1>1, <1>5 DEF BatchOver
  <2>2. SubSeq(calls, 1, done + 1) = calls
    BY <1>1, <2>1, NextResult
  <2>3. AfterBatch(aborted \/ abort \/ cancelled) /\ Forget
    BY <1>3, <2>1
  <2>4. \E stopping \in BOOLEAN : AfterBatch(stopping) /\ (cancelled => stopping)
    <3>1. (aborted \/ abort \/ cancelled) \in BOOLEAN
      OBVIOUS
    <3>2. QED
      BY <2>3, <3>1
  <2>5. history' = Append(history, Results(calls))
    BY <1>3, <2>1, <2>2
  <2>6. QED
    BY <1>1, <1>2, <2>1, <2>3, <2>4, <2>5
<1>6. QED
  BY <1>4, <1>5

\* Spending a bound keeps the counters typed.
LEMMA SpendType ==
  ASSUME TypeOK, NEW what \in Spendable, Spend(what)
  PROVE  used' \in [Spendable -> Nat]
BY DEF Spend, TypeOK

\* Every step keeps the state typed; answering a call needs the batch to hold one.
LEMMA TypeStep == TypeOK /\ BatchOK /\ [Next]_vars => TypeOK'
<1> SUFFICES ASSUME TypeOK, BatchOK, [Next]_vars
             PROVE  TypeOK'
  OBVIOUS
<1> USE DEF disk, batch
<1>1. CASE StartTurn
  <2>1. Input(turn + 1) \in Message
    BY MessageTypes DEF TypeOK
  <2>2. Say("TurnStart", Input(turn + 1)) \in Event
    BY <2>1, EventTypes DEF SayEvents
  <2>3. log' \in Seq(Event) /\ replay' \in Replayed
    BY <1>1, <2>2, LogType DEF StartTurn
  <2>4. history' \in Seq(Message)
    BY <1>1, <2>1 DEF StartTurn, TypeOK
  <2>5. turn' \in Nat /\ step' \in 0..(MaxSteps - 1) /\ late' \in Nat /\ pc' \in PC
    BY <1>1, TurnLoopAssumption DEF StartTurn, TypeOK, PC
  <2>6. cancelled' \in BOOLEAN /\ snapshotTaken' \in BOOLEAN
    BY <1>1 DEF StartTurn
  <2>7. UNCHANGED <<snapshots, calls, done, aborted, diverged, used>>
    BY <1>1 DEF StartTurn
  <2>8. QED
    BY <2>3, <2>4, <2>5, <2>6, <2>7 DEF TypeOK
<1>2. ASSUME Compact
      PROVE  /\ log' \in Seq(Event) /\ replay' \in Replayed
             /\ history' \in Seq(Message)
             /\ used' \in [Spendable -> Nat]
  <2>1. Summary(turn) \in Message
    BY MessageTypes DEF TypeOK
  <2>2. Compacted(Summary(turn), KeepRecent) \in Event
    BY <2>1, EventTypes, TurnLoopAssumption
  <2>3. log' \in Seq(Event) /\ replay' \in Replayed
    BY <1>2, <2>2, LogType DEF Compact, Retained
  <2>4. LastMessages(history, KeepRecent) \in Seq(Message)
    BY LastMessagesType, TurnLoopAssumption DEF TypeOK
  <2>5. history' \in Seq(Message)
    BY <1>2, <2>1, <2>4 DEF Compact, Retained
  <2>6. used' \in [Spendable -> Nat]
    BY <1>2, SpendType DEF Compact, Spendable
  <2>7. QED
    BY <2>3, <2>5, <2>6
<1>3. CASE CompactBeforeTurn
  BY <1>2, <1>3 DEF CompactBeforeTurn, Compact, TypeOK, PC
<1>4. CASE CompactNow
  BY <1>2, <1>4 DEF CompactNow, Compact, TypeOK, PC
<1>5. CASE SkipCompaction
  BY <1>5 DEF SkipCompaction, TypeOK, PC
<1>6. CASE AddContext
  <2>1. Context(turn) \in Message
    BY MessageTypes DEF TypeOK
  <2>2. Say("ContextMessage", Context(turn)) \in Event
    BY <2>1, EventTypes DEF SayEvents
  <2>3. log' \in Seq(Event) /\ replay' \in Replayed
    BY <1>6, <2>2, LogType DEF AddContext
  <2>4. used' \in [Spendable -> Nat]
    BY <1>6, SpendType DEF AddContext, Spendable
  <2>5. QED
    BY <1>6, <2>1, <2>3, <2>4 DEF AddContext, TypeOK
<1>7. CASE Request
  <2>1. Plain("ModelRequest") \in Event
    BY EventTypes DEF PlainEvents
  <2>2. log' \in Seq(Event) /\ replay' \in Replayed
    BY <1>7, <2>1, LogType DEF Request, TypeOK
  <2>3. calls' = <<>> /\ done' = 0 /\ aborted' = FALSE /\ pc' = "streaming"
    BY <1>7 DEF Request, Forget
  <2>4. late' \in Nat
    BY <1>7 DEF Request, TypeOK
  <2>5. UNCHANGED <<history, snapshots, snapshotTaken, cancelled, turn, step, diverged, used>>
    BY <1>7 DEF Request
  <2>6. QED
    BY <2>2, <2>3, <2>4, <2>5, EmptyTypes DEF TypeOK, PC
<1>8. CASE StreamCall
  <2>1. [turn |-> turn, step |-> step, index |-> Len(calls) + 1] \in CallId
    BY DEF CallId, TypeOK
  <2>2. calls' \in Seq(CallId)
    BY <1>8, <2>1 DEF StreamCall, Listening, TypeOK
  <2>3. QED
    BY <1>8, <2>2 DEF StreamCall, TypeOK
<1>9. CASE Respond
  <2>1. Reply(turn, calls) \in Message
    BY MessageTypes DEF TypeOK
  <2>2. Say("ModelResponse", Reply(turn, calls)) \in Event
    BY <2>1, EventTypes DEF SayEvents
  <2>3. log' \in Seq(Event) /\ replay' \in Replayed
    BY <1>9, <2>2, LogType DEF Respond
  <2>4. QED
    BY <1>9, <2>1, <2>3 DEF Respond, AfterReply, TypeOK, PC
<1>10. CASE StreamFails
  BY <1>10, EmptyTypes DEF StreamFails, Forget, TypeOK, PC
<1>11. CASE BeginCall
  <2>1. calls[done + 1] \in CallId
    BY <1>11 DEF BeginCall, TypeOK
  <2>2. CallStart(calls[done + 1]) \in Event
    BY <2>1, EventTypes
  <2>3. log' \in Seq(Event) /\ replay' \in Replayed
    BY <1>11, <2>2, LogType DEF BeginCall
  <2>4. QED
    BY <1>11, <2>3 DEF BeginCall, TypeOK, PC
<1>12. CASE TakeSnapshot
  <2>1. Here \in Nat
    BY UserCountType DEF Here, TypeOK
  <2>2. Insert(snapshots, Here, turn) \in SUBSET Entry
    BY <2>1 DEF Insert, Entry, TypeOK
  <2>3. Checkpoint(Here, turn) \in Event
    BY <2>1, EventTypes DEF TypeOK
  <2>4. log' \in Seq(Event) /\ replay' \in Replayed
    BY <1>12, <2>3, LogType DEF TakeSnapshot, TypeOK
  <2>5. used' \in [Spendable -> Nat]
    BY <1>12, SpendType DEF TakeSnapshot, Spendable, TypeOK
  <2>6. QED
    BY <1>12, <2>2, <2>4, <2>5 DEF TakeSnapshot, TypeOK, PC
<1>13. CASE EndTurn
  <2>1. Plain("TurnEnd") \in Event
    BY EventTypes DEF PlainEvents
  <2>2. log' \in Seq(Event) /\ replay' \in Replayed
    BY <1>13, <2>1, LogType DEF EndTurn
  <2>3. QED
    BY <1>13, <2>2 DEF EndTurn, TypeOK, PC
<1>14. CASE FailTurn
  <2>1. Plain("Error") \in Event
    BY EventTypes DEF PlainEvents
  <2>2. log' \in Seq(Event) /\ replay' \in Replayed
    BY <1>14, <2>1, LogType DEF FailTurn
  <2>3. QED
    BY <1>14, <2>2 DEF FailTurn, TypeOK, PC
<1>15. CASE AppendFails
  <2>1. used' \in [Spendable -> Nat]
    BY <1>15, SpendType DEF AppendFails, Spendable
  <2>2. QED
    BY <1>15, <2>1, EmptyTypes DEF AppendFails, Forget, TypeOK, PC
<1>16. CASE Cancel
  BY <1>16 DEF Cancel, TypeOK
<1>17. CASE Die
  <2>1. used' \in [Spendable -> Nat]
    BY <1>17, SpendType DEF Die, Spendable
  <2>2. step' \in 0..(MaxSteps - 1) /\ done' \in Nat /\ late' \in Nat /\ pc' \in PC
    BY <1>17, TurnLoopAssumption DEF Die, Forget, PC
  <2>3. /\ history' = <<>> /\ calls' = <<>> /\ aborted' = FALSE /\ snapshots' = {}
        /\ snapshotTaken' = FALSE /\ cancelled' = FALSE /\ diverged' = {}
        /\ UNCHANGED <<log, replay, turn>>
    BY <1>17 DEF Die, Forget
  <2>4. QED
    BY <2>1, <2>2, <2>3, EmptyTypes DEF TypeOK
<1>18. CASE Resume
  <2>1. Plain("SessionStart") \in Event
    BY EventTypes DEF PlainEvents
  <2>2. log' \in Seq(Event) /\ replay' \in Replayed
    BY <1>18, <2>1, LogType DEF Resume
  <2>3. Flush(replay) \in Seq(Message) /\ replay.snapshots \in SUBSET Entry
    BY FlushType DEF TypeOK, Replayed
  <2>4. QED
    BY <1>18, <2>2, <2>3 DEF Resume, TypeOK, PC
<1>19. CASE UNCHANGED vars
  BY <1>19 DEF vars, TypeOK
<1>20. CASE EndCall
  <2>1. log' \in Seq(Event) /\ replay' \in Replayed
    BY <1>20, EndCallCases, LogType, EventTypes DEF EndCall
  <2>2. UNCHANGED <<snapshots, snapshotTaken, cancelled, turn, late, diverged, used>>
    BY <1>20 DEF EndCall
  <2>3. CASE /\ done + 1 < Len(calls)
             /\ done' = done + 1 /\ pc' = "calling" /\ aborted' \in BOOLEAN
             /\ UNCHANGED <<calls, history, step>>
    <3>1. done' \in Nat /\ pc' \in PC
      BY <2>3 DEF TypeOK, PC
    <3>2. QED
      BY <2>1, <2>2, <2>3, <3>1 DEF TypeOK
  <2>4. ASSUME done + 1 = Len(calls), history' = Append(history, Results(calls)),
               NEW stopping \in BOOLEAN, AfterBatch(stopping), Forget
        PROVE  TypeOK'
    <3>1. calls # <<>>
      BY <1>20, EndCallCases
    <3>2. history' \in Seq(Message)
      BY <2>4, <3>1, MessageTypes DEF TypeOK
    <3>3. pc' \in PC /\ step' \in 0..(MaxSteps - 1)
      BY <2>4, TurnLoopAssumption DEF AfterBatch, TypeOK, PC
    <3>4. calls' \in Seq(CallId) /\ done' \in Nat /\ aborted' \in BOOLEAN
      BY <2>4, EmptyTypes DEF Forget
    <3>5. QED
      BY <2>1, <2>2, <3>2, <3>3, <3>4 DEF TypeOK
  <2>5. QED
    BY <1>20, <2>3, <2>4, EndCallCases
<1>21. ASSUME NEW at \in 1..Len(history), NEW conversation \in BOOLEAN,
              Rewind(at, conversation)
       PROVE  TypeOK'
  <2>1. SubSeq(history, 1, at - 1) \in Seq(Message)
    BY DEF TypeOK
  <2>2. Rewound(conversation, SubSeq(history, 1, at - 1)) \in Event
    BY <2>1, EventTypes
  <2>3. log' \in Seq(Event) /\ replay' \in Replayed
    BY <1>21, <2>2, LogType DEF Rewind, TypeOK
  <2>4. history' \in Seq(Message)
    BY <1>21, <2>1 DEF Rewind, TypeOK
  <2>5. snapshots' \in SUBSET Entry
    BY <1>21 DEF Rewind, Survivors, RetainBelow, TypeOK
  <2>6. used' \in [Spendable -> Nat]
    BY SMTT(30), <1>21, SpendType DEF Rewind, Spendable, TypeOK
  <2>7. diverged' \in SUBSET {"history", "snapshots"}
    BY <1>21 DEF Rewind, TypeOK
  <2>8. UNCHANGED <<pc, snapshotTaken, cancelled, turn, step, calls, done, aborted, late>>
    BY <1>21 DEF Rewind
  <2>9. QED
    BY <2>3, <2>4, <2>5, <2>6, <2>7, <2>8 DEF TypeOK
<1>22. CASE StartFails
  <2>1. used' \in [Spendable -> Nat]
    BY <1>22, SpendType DEF StartFails, Spendable
  <2>2. QED
    BY <1>22, <2>1 DEF StartFails, TypeOK
<1>23. QED
  BY <1>1, <1>3, <1>4, <1>5, <1>6, <1>7, <1>8, <1>9, <1>10, <1>11, <1>12, <1>13, <1>14,
     <1>15, <1>16, <1>17, <1>18, <1>19, <1>20, <1>21, <1>22
     DEF Next, TurnStep, BetweenTurns

\* The batch is open only while it holds a call that was not answered.
LEMMA BatchStep == TypeOK /\ BatchOK /\ [Next]_vars => BatchOK'
<1> SUFFICES ASSUME TypeOK, BatchOK, [Next]_vars
             PROVE  BatchOK'
  OBVIOUS
<1> USE DEF BatchOK, InBatch
<1>1. CASE StartTurn
  BY <1>1 DEF StartTurn
<1>2. CASE CompactBeforeTurn \/ SkipCompaction
  BY <1>2 DEF CompactBeforeTurn, SkipCompaction
<1>3. CASE CompactNow \/ AddContext \/ Cancel \/ StartFails
  BY <1>3 DEF CompactNow, Compact, AddContext, Cancel, StartFails, batch
<1>4. CASE Request \/ StreamFails \/ AppendFails
  BY <1>4 DEF Request, StreamFails, AppendFails, Forget
<1>5. CASE StreamCall
  BY <1>5 DEF StreamCall, Listening
<1>6. CASE Respond
  <2>1. calls # <<>> => 0 < Len(calls)
    BY DEF TypeOK
  <2>2. QED
    BY <1>6, <2>1 DEF Respond, AfterReply, batch
<1>7. CASE BeginCall \/ TakeSnapshot
  BY <1>7 DEF BeginCall, TakeSnapshot, batch
<1>8. CASE EndCall
  BY <1>8, EndCallCases DEF AfterBatch
<1>9. CASE EndTurn \/ FailTurn \/ Die \/ Resume
  BY <1>9 DEF EndTurn, FailTurn, Die, Resume
<1>10. CASE \E at \in 1..Len(history), conversation \in BOOLEAN : Rewind(at, conversation)
  BY <1>10 DEF Rewind
<1>11. CASE UNCHANGED vars
  BY <1>11 DEF vars
<1>12. QED
  BY <1>1, <1>2, <1>3, <1>4, <1>5, <1>6, <1>7, <1>8, <1>9, <1>10, <1>11
     DEF Next, TurnStep, BetweenTurns

LEMMA BatchInit == Init => BatchOK
BY DEF Init, BatchOK, InBatch

\* Type correctness: in every run, of any length, every variable has its type.
THEOREM TypeCorrect == Spec => []TypeOK
<1>1. Init => TypeOK /\ BatchOK
  BY TypeInit, BatchInit
<1>2. TypeOK /\ BatchOK /\ [Next]_vars => TypeOK' /\ BatchOK'
  BY TypeStep, BatchStep
<1>3. QED
  BY <1>1, <1>2, PTL DEF Spec

-----------------------------------------------------------------------------
(* What a reader of the log rebuilds is what the session holds *)

\* A reader after each kind of append.
LEMMA SayLog ==
  ASSUME TypeOK, NEW name \in SayEvents, NEW m \in Message, Log(Say(name, m))
  PROVE  /\ replay'.history = Append(Flush(replay), m)
         /\ replay'.results = <<>>
         /\ replay'.snapshots = replay.snapshots
<1>1. replay \in Replayed
  BY DEF TypeOK
<1>2. Apply(replay, Say(name, m)) = Heard(replay, Append(Flush(replay), m))
  BY ZenonT(60), <1>1, ApplyFacts
<1>3. replay' = Heard(replay, Append(Flush(replay), m))
  BY <1>2 DEF Log
<1>4. Append(Flush(replay), m) \in Seq(Message)
  BY <1>1, FlushType
<1>5. QED
  BY <1>1, <1>3, <1>4, HeardType

LEMMA PlainLog ==
  ASSUME TypeOK, NEW name \in PlainEvents, Log(Plain(name))
  PROVE  replay' = replay
BY ApplyFacts DEF Log, TypeOK

LEMMA StartLog ==
  ASSUME TypeOK, NEW c \in CallId, Log(CallStart(c))
  PROVE  replay' = replay
BY ApplyFacts DEF Log, TypeOK

LEMMA EndLog ==
  ASSUME TypeOK, NEW c \in CallId, Log(CallEnd(c))
  PROVE  /\ replay'.history = replay.history
         /\ replay'.results = Append(replay.results, c)
         /\ replay'.snapshots = replay.snapshots
<1>1. replay' = [replay EXCEPT !.results = Append(@, c)]
  BY ApplyFacts DEF Log, TypeOK
<1>2. QED
  BY <1>1 DEF TypeOK, Replayed

LEMMA CompactedLog ==
  ASSUME TypeOK, NEW m \in Message, NEW n \in Nat, Log(Compacted(m, n))
  PROVE  /\ replay'.history = <<m>> \o LastMessages(Flush(replay), n)
         /\ replay'.results = <<>>
         /\ replay'.snapshots = replay.snapshots
<1>1. replay \in Replayed
  BY DEF TypeOK
<1>2. Apply(replay, Compacted(m, n)) = Heard(replay, <<m>> \o LastMessages(Flush(replay), n))
  BY DEF Apply, Compacted, SayEvents
<1>3. replay' = Heard(replay, <<m>> \o LastMessages(Flush(replay), n))
  BY <1>2 DEF Log
<1>4. LastMessages(Flush(replay), n) \in Seq(Message)
  BY <1>1, FlushType, LastMessagesType
<1>5. <<m>> \o LastMessages(Flush(replay), n) \in Seq(Message)
  BY <1>4
<1>6. QED
  BY <1>1, <1>3, <1>5, HeardType

LEMMA CheckpointLog ==
  ASSUME TypeOK, NEW k \in Nat, NEW t \in Nat, Log(Checkpoint(k, t))
  PROVE  /\ replay'.history = replay.history
         /\ replay'.results = replay.results
         /\ replay'.snapshots = Insert(replay.snapshots, k, t)
<1>1. Apply(replay, Checkpoint(k, t)) = [replay EXCEPT !.snapshots = Insert(@, k, t)]
  BY DEF Apply, Checkpoint, SayEvents
<1>2. replay' = [replay EXCEPT !.snapshots = Insert(@, k, t)]
  BY <1>1 DEF Log
<1>3. QED
  BY <1>2 DEF TypeOK, Replayed

LEMMA RewoundLog ==
  ASSUME TypeOK, NEW h \in Seq(Message), Log(Rewound(TRUE, h))
  PROVE  /\ replay'.history = h
         /\ replay'.results = <<>>
         /\ replay'.snapshots = RetainBelow(replay.snapshots, UserCount(h))
<1>1. replay' = [Heard(replay, h) EXCEPT !.snapshots = RetainBelow(@, UserCount(h))]
  BY ApplyFacts DEF Log, TypeOK
<1>2. /\ Heard(replay, h) \in Replayed
      /\ Heard(replay, h).history = h
      /\ Heard(replay, h).results = <<>>
      /\ Heard(replay, h).snapshots = replay.snapshots
  BY HeardType DEF TypeOK
<1>3. QED
  BY <1>1, <1>2 DEF Replayed

LEMMA FilesRewoundLog ==
  ASSUME TypeOK, NEW h, Log(Rewound(FALSE, h))
  PROVE  replay' = replay
BY ApplyFacts DEF Log, TypeOK

\* A closed batch: flushing adds nothing.
LEMMA FlushClosed == \A r : r.results = <<>> => Flush(r) = r.history
BY DEF Flush

\* The replay invariant: every step that writes the history writes an event that
\* says the same to a reader.
LEMMA ReplayStep == TurnInv /\ [Next]_vars => ReplayMatchesHistory'
<1> SUFFICES ASSUME TurnInv, [Next]_vars, pc' # "down", "history" \notin diverged'
             PROVE  IF InBatch'
                    THEN replay'.history = history' /\ replay'.results = SubSeq(calls', 1, done')
                    ELSE Flush(replay)' = history'
  BY DEF ReplayMatchesHistory
<1>0. TypeOK /\ BatchOK /\ ReplayMatchesHistory
  BY DEF TurnInv
<1>1. CASE StartTurn
  <2>1. Flush(replay) = history
    BY <1>0, <1>1 DEF StartTurn, ReplayMatchesHistory, InBatch
  <2>2. Input(turn + 1) \in Message
    BY <1>0, MessageTypes DEF TypeOK
  <2>3. replay'.history = history' /\ replay'.results = <<>>
    BY <1>0, <1>1, <2>1, <2>2, SayLog DEF StartTurn, SayEvents
  <2>4. ~InBatch'
    BY <1>1 DEF StartTurn, InBatch
  <2>5. QED
    BY <2>3, <2>4, FlushClosed
<1>2. ASSUME Compact, ~InBatch, pc # "down"
      PROVE  Flush(replay)' = history'
  <2>1. Flush(replay) = history
    BY <1>0, <1>2 DEF Compact, ReplayMatchesHistory
  <2>2. Summary(turn) \in Message
    BY <1>0, MessageTypes DEF TypeOK
  <2>3. replay'.history = history' /\ replay'.results = <<>>
    BY <1>0, <1>2, <2>1, <2>2, CompactedLog, TurnLoopAssumption DEF Compact, Retained
  <2>4. QED
    BY <2>3, FlushClosed
<1>3. CASE CompactBeforeTurn
  BY <1>2, <1>3 DEF CompactBeforeTurn, InBatch
<1>4. CASE CompactNow
  BY <1>2, <1>4 DEF CompactNow, InBatch
<1>5. CASE SkipCompaction
  BY <1>0, <1>5 DEF SkipCompaction, ReplayMatchesHistory, InBatch, disk
<1>6. CASE AddContext
  <2>1. Flush(replay) = history
    BY <1>0, <1>6 DEF AddContext, ReplayMatchesHistory, InBatch
  <2>2. Context(turn) \in Message
    BY <1>0, MessageTypes DEF TypeOK
  <2>3. replay'.history = history' /\ replay'.results = <<>>
    BY <1>0, <1>6, <2>1, <2>2, SayLog DEF AddContext, SayEvents
  <2>4. ~InBatch'
    BY <1>6 DEF AddContext, InBatch
  <2>5. QED
    BY <2>3, <2>4, FlushClosed
<1>7. CASE Request
  <2>1. replay' = replay
    BY <1>0, <1>7, PlainLog DEF Request, PlainEvents, disk
  <2>2. QED
    BY <1>0, <1>7, <2>1 DEF Request, ReplayMatchesHistory, InBatch
<1>8. CASE StreamCall \/ StreamFails
  BY <1>0, <1>8 DEF StreamCall, Listening, StreamFails, ReplayMatchesHistory, InBatch, disk
<1>9. CASE Respond
  <2>1. Flush(replay) = history
    BY <1>0, <1>9 DEF Respond, ReplayMatchesHistory, InBatch
  <2>2. Reply(turn, calls) \in Message
    BY <1>0, MessageTypes DEF TypeOK
  <2>3. replay'.history = history' /\ replay'.results = <<>>
    BY <1>0, <1>9, <2>1, <2>2, SayLog DEF Respond, SayEvents
  <2>4. SubSeq(calls', 1, done') = <<>>
    BY <1>0, <1>9 DEF Respond, BatchOK, TypeOK, batch
  <2>5. QED
    BY <2>3, <2>4, FlushClosed
<1>10. CASE BeginCall
  <2>1. calls[done + 1] \in CallId
    BY <1>0, <1>10, NextResult DEF BeginCall, TypeOK
  <2>2. replay' = replay
    BY <1>0, <1>10, <2>1, StartLog DEF BeginCall
  <2>3. QED
    BY <1>0, <1>10, <2>2 DEF BeginCall, ReplayMatchesHistory, InBatch, batch
<1>11. CASE TakeSnapshot
  <2>1. Here \in Nat /\ turn \in Nat
    BY <1>0, UserCountType DEF Here, TypeOK
  <2>2. replay'.history = replay.history /\ replay'.results = replay.results
    BY <1>0, <1>11, <2>1, CheckpointLog DEF TakeSnapshot, disk
  <2>3. replay.history = history /\ replay.results = SubSeq(calls, 1, done)
    BY <1>0, <1>11 DEF TakeSnapshot, ReplayMatchesHistory, InBatch
  <2>4. QED
    BY <1>11, <2>2, <2>3 DEF TakeSnapshot, InBatch, batch
<1>12. CASE EndCall
  <2>1. replay.history = history /\ replay.results = SubSeq(calls, 1, done)
    BY <1>0, <1>12 DEF EndCall, ReplayMatchesHistory, InBatch
  <2>2. /\ calls \in Seq(CallId) /\ done \in Nat /\ done < Len(calls)
        /\ calls[done + 1] \in CallId
    BY <1>0, <1>12, EndCallCases
  <2>3. /\ replay'.history = history
        /\ replay'.results = SubSeq(calls, 1, done + 1)
    <3>1. /\ replay'.history = replay.history
          /\ replay'.results = Append(replay.results, calls[done + 1])
      BY <1>0, <1>12, <2>2, EndLog DEF EndCall
    <3>2. Append(SubSeq(calls, 1, done), calls[done + 1]) = SubSeq(calls, 1, done + 1)
      BY <2>2, NextResult
    <3>3. QED
      BY <2>1, <3>1, <3>2
  <2>4. CASE /\ done' = done + 1 /\ pc' = "calling"
             /\ UNCHANGED <<calls, history, step>>
    BY <2>3, <2>4 DEF InBatch
  <2>5. ASSUME done + 1 = Len(calls), history' = Append(history, Results(calls)),
               NEW stopping \in BOOLEAN, AfterBatch(stopping)
        PROVE  ~InBatch' /\ Flush(replay)' = history'
    <3>1. replay'.results = calls /\ calls # <<>>
      BY <2>2, <2>3, <2>5, NextResult
    <3>2. ~InBatch'
      BY <2>5 DEF AfterBatch, InBatch
    <3>3. QED
      BY <2>3, <2>5, <3>1, <3>2 DEF Flush
  <2>6. QED
    BY <1>0, <1>12, <2>4, <2>5, EndCallCases
<1>13. CASE EndTurn \/ FailTurn
  <2>1. replay' = replay
    BY <1>0, <1>13, PlainLog DEF EndTurn, FailTurn, PlainEvents
  <2>2. QED
    BY <1>0, <1>13, <2>1 DEF EndTurn, FailTurn, ReplayMatchesHistory, InBatch
<1>14. CASE AppendFails
  <2>1. ~InBatch' /\ replay' = replay /\ history' = history
    BY <1>14 DEF AppendFails, InBatch, disk
  <2>2. CASE InBatch
    <3>1. done = 0 /\ "history" \notin diverged
      BY <1>0, <1>14, <2>2 DEF AppendFails, TypeOK
    <3>2. replay.results = <<>> /\ replay.history = history
      BY <1>0, <1>14, <2>2, <3>1, NextResult
         DEF AppendFails, ReplayMatchesHistory, TypeOK, BatchOK
    <3>3. QED
      BY <2>1, <3>2, FlushClosed
  <2>3. CASE ~InBatch
    BY <1>0, <1>14, <2>1, <2>3 DEF AppendFails, ReplayMatchesHistory
  <2>4. QED
    BY <2>2, <2>3
<1>15. CASE Cancel \/ StartFails
  BY <1>0, <1>15 DEF Cancel, StartFails, ReplayMatchesHistory, InBatch, disk, batch
<1>16. CASE Die
  BY <1>16 DEF Die
<1>17. CASE Resume
  <2>1. replay' = replay
    BY <1>0, <1>17, PlainLog DEF Resume, PlainEvents
  <2>2. QED
    BY <1>17, <2>1 DEF Resume, InBatch
<1>18. ASSUME NEW at \in 1..Len(history), NEW conversation \in BOOLEAN,
              Rewind(at, conversation)
       PROVE  IF InBatch'
              THEN replay'.history = history' /\ replay'.results = SubSeq(calls', 1, done')
              ELSE Flush(replay)' = history'
  <2>1. ~InBatch' /\ ~InBatch /\ pc # "down"
    BY <1>18 DEF Rewind, InBatch
  <2>2. CASE conversation
    <3>1. Log(Rewound(TRUE, SubSeq(history, 1, at - 1)))
      BY <1>18, <2>2 DEF Rewind
    <3>2. SubSeq(history, 1, at - 1) \in Seq(Message)
      BY <1>0 DEF TypeOK
    <3>3. replay'.history = SubSeq(history, 1, at - 1) /\ replay'.results = <<>>
      BY <1>0, <3>1, <3>2, RewoundLog
    <3>4. history' = SubSeq(history, 1, at - 1)
      BY <1>18, <2>2 DEF Rewind
    <3>5. QED
      BY <2>1, <3>3, <3>4, FlushClosed
  <2>3. CASE ~conversation
    <3>1. replay' = replay /\ history' = history /\ diverged' = diverged
      BY <1>0, <1>18, <2>3, FilesRewoundLog DEF Rewind, disk
    <3>2. QED
      BY <1>0, <2>1, <3>1 DEF ReplayMatchesHistory
  <2>4. QED
    BY <2>2, <2>3
<1>19. CASE UNCHANGED vars
  BY <1>0, <1>19 DEF vars, ReplayMatchesHistory, InBatch
<1>20. QED
  BY <1>1, <1>3, <1>4, <1>5, <1>6, <1>7, <1>8, <1>9, <1>10, <1>11, <1>12, <1>13, <1>14,
     <1>15, <1>16, <1>17, <1>18, <1>19
     DEF Next, TurnStep, BetweenTurns

\* The snapshot map: only a checkpoint and a rewind of the conversation touch it,
\* and the reader counts the survivors of a rewind as the session did.
LEMMA SnapshotStep == TurnInv /\ [Next]_vars => SnapshotsSurviveRestart'
<1> SUFFICES ASSUME TurnInv, [Next]_vars, pc' # "down", "snapshots" \notin diverged'
             PROVE  replay'.snapshots = snapshots'
  BY DEF SnapshotsSurviveRestart
<1>0. TypeOK /\ BatchOK /\ SnapshotsSurviveRestart
  BY DEF TurnInv
<1>1. ASSUME replay'.snapshots = replay.snapshots, snapshots' = snapshots,
             diverged' = diverged, pc # "down"
      PROVE  replay'.snapshots = snapshots'
  BY <1>0, <1>1 DEF SnapshotsSurviveRestart
<1>2. CASE StartTurn
  <2>1. Input(turn + 1) \in Message
    BY <1>0, MessageTypes DEF TypeOK
  <2>2. replay'.snapshots = replay.snapshots
    BY <1>0, <1>2, <2>1, SayLog DEF StartTurn, SayEvents
  <2>3. QED
    BY <1>1, <1>2, <2>2 DEF StartTurn
<1>3. CASE CompactBeforeTurn \/ CompactNow
  <2>1. Summary(turn) \in Message
    BY <1>0, MessageTypes DEF TypeOK
  <2>2. replay'.snapshots = replay.snapshots
    BY <1>0, <1>3, <2>1, CompactedLog, TurnLoopAssumption
       DEF CompactBeforeTurn, CompactNow, Compact, Retained
  <2>3. QED
    BY <1>1, <1>3, <2>2 DEF CompactBeforeTurn, CompactNow, Compact, Retained
<1>4. CASE AddContext
  <2>1. Context(turn) \in Message
    BY <1>0, MessageTypes DEF TypeOK
  <2>2. replay'.snapshots = replay.snapshots
    BY <1>0, <1>4, <2>1, SayLog DEF AddContext, SayEvents
  <2>3. QED
    BY <1>1, <1>4, <2>2 DEF AddContext
<1>5. CASE Respond
  <2>1. Reply(turn, calls) \in Message
    BY <1>0, MessageTypes DEF TypeOK
  <2>2. replay'.snapshots = replay.snapshots
    BY <1>0, <1>5, <2>1, SayLog DEF Respond, SayEvents
  <2>3. QED
    BY <1>1, <1>5, <2>2 DEF Respond
<1>6. CASE SkipCompaction \/ StreamCall \/ StreamFails
  BY <1>1, <1>6 DEF SkipCompaction, StreamCall, StreamFails, disk
<1>7. CASE Request \/ EndTurn \/ FailTurn
  <2>1. replay' = replay
    BY <1>0, <1>7, PlainLog DEF Request, EndTurn, FailTurn, PlainEvents, disk
  <2>2. QED
    BY <1>1, <1>7, <2>1 DEF Request, EndTurn, FailTurn
<1>8. CASE BeginCall
  <2>1. calls[done + 1] \in CallId
    BY <1>0, <1>8, NextResult DEF BeginCall, TypeOK
  <2>2. replay' = replay
    BY <1>0, <1>8, <2>1, StartLog DEF BeginCall
  <2>3. QED
    BY <1>1, <1>8, <2>2 DEF BeginCall
<1>9. CASE TakeSnapshot
  <2>1. Here \in Nat /\ turn \in Nat
    BY <1>0, UserCountType DEF Here, TypeOK
  <2>2. diverged' = diverged /\ replay.snapshots = snapshots
    BY <1>0, <1>9 DEF TakeSnapshot, SnapshotsSurviveRestart
  <2>3. QED
    BY <1>0, <1>9, <2>1, <2>2, CheckpointLog DEF TakeSnapshot, disk
<1>10. CASE EndCall
  <2>1. replay'.snapshots = replay.snapshots
    BY <1>0, <1>10, EndCallCases, EndLog DEF EndCall
  <2>2. QED
    BY <1>1, <1>10, <2>1 DEF EndCall
<1>11. CASE AppendFails
  BY <1>0, <1>11 DEF AppendFails, SnapshotsSurviveRestart, disk
<1>12. CASE Cancel \/ StartFails
  BY <1>1, <1>12 DEF Cancel, StartFails, disk
<1>13. CASE Die
  BY <1>13 DEF Die
<1>14. CASE Resume
  BY <1>0, <1>14, PlainLog DEF Resume, PlainEvents
<1>15. ASSUME NEW at \in 1..Len(history), NEW conversation \in BOOLEAN,
              Rewind(at, conversation)
       PROVE  replay'.snapshots = snapshots'
  <2>1. CASE conversation
    <3>1. SubSeq(history, 1, at - 1) \in Seq(Message)
      BY <1>0 DEF TypeOK
    <3>2. Log(Rewound(TRUE, SubSeq(history, 1, at - 1))) /\ "snapshots" \notin diverged
      BY <1>15, <2>1 DEF Rewind
    <3>3. replay.snapshots = snapshots
      BY <1>0, <1>15, <3>2 DEF Rewind, SnapshotsSurviveRestart
    <3>4. replay'.snapshots
            = RetainBelow(replay.snapshots, UserCount(SubSeq(history, 1, at - 1)))
      BY <1>0, <3>1, <3>2, RewoundLog
    <3>5. UserCount(SubSeq(history, 1, at - 1)) = Ordinal(history, at)
      BY <1>0, PrefixCount DEF TypeOK
    <3>6. snapshots' = RetainBelow(snapshots, Ordinal(history, at))
      BY <1>15, <2>1 DEF Rewind, Survivors
    <3>7. QED
      BY <3>3, <3>4, <3>5, <3>6
  <2>2. CASE ~conversation
    <3>1. replay' = replay /\ snapshots' = snapshots /\ diverged' = diverged
      BY <1>0, <1>15, <2>2, FilesRewoundLog DEF Rewind, disk
    <3>2. QED
      BY <1>1, <1>15, <3>1 DEF Rewind
  <2>3. QED
    BY <2>1, <2>2
<1>16. CASE UNCHANGED vars
  BY <1>1, <1>16 DEF vars
<1>17. QED
  BY <1>2, <1>3, <1>4, <1>5, <1>6, <1>7, <1>8, <1>9, <1>10, <1>11, <1>12, <1>13, <1>14,
     <1>15, <1>16
     DEF Next, TurnStep, BetweenTurns

LEMMA TurnInvInit == Init => TurnInv
<1>1. Init => ReplayMatchesHistory /\ SnapshotsSurviveRestart
  BY DEF Init, ReplayMatchesHistory, SnapshotsSurviveRestart, InBatch, NothingRead, Flush
<1>2. QED
  BY <1>1, TypeInit, BatchInit DEF TurnInv

LEMMA TurnInvStep == TurnInv /\ [Next]_vars => TurnInv'
BY TypeStep, BatchStep, ReplayStep, SnapshotStep DEF TurnInv

\* The inductive invariant holds in every run: types, the bookkeeping of an open
\* batch, and both readings of the log, none of which stands alone.
THEOREM SessionIsSound == Spec => []TurnInv
BY TurnInvInit, TurnInvStep, PTL DEF Spec

\* In every run, whatever the number of turns, calls, compactions, rewinds,
\* aborts, deaths and failed appends, what a reader of the log rebuilds is the
\* history the session holds, up to the appends recorded as failed.
THEOREM HistoryIsReplayable == Spec => []ReplayMatchesHistory
<1>1. TurnInv => ReplayMatchesHistory
  BY DEF TurnInv
<1>2. QED
  BY <1>1, TurnInvInit, TurnInvStep, PTL DEF Spec

\* The same for the snapshot map: a resumed session offers the snapshots the
\* live one would have.
THEOREM SnapshotsAreReplayable == Spec => []SnapshotsSurviveRestart
<1>1. TurnInv => SnapshotsSurviveRestart
  BY DEF TurnInv
<1>2. QED
  BY <1>1, TurnInvInit, TurnInvStep, PTL DEF Spec

-----------------------------------------------------------------------------
(* An abort *)

\* A request that went out with the flag raised was the last of its turn: nothing
\* but an attempt to start the next turn lowers the flag, and no phase that could lead to another
\* request is reached with it raised except through the request being built.
AbortInv ==
  /\ TypeOK /\ BatchOK
  /\ late \in {0, 1}
  /\ late = 1 => /\ \/ cancelled /\ pc \notin {"preparing", "context"}
                    \/ pc = "idle"
                 /\ calls = <<>>

LEMMA AbortStep == AbortInv /\ [Next]_vars => AbortInv'
<1> SUFFICES ASSUME AbortInv, [Next]_vars
             PROVE  /\ late' \in {0, 1}
                    /\ late' = 1 => /\ \/ cancelled' /\ pc' \notin {"preparing", "context"}
                                       \/ pc' = "idle"
                                    /\ calls' = <<>>
  BY TypeStep, BatchStep DEF AbortInv
<1> USE DEF AbortInv
<1>1. CASE StartTurn
  BY <1>1 DEF StartTurn, batch
<1>2. CASE CompactBeforeTurn \/ SkipCompaction \/ CompactNow
  BY <1>2 DEF CompactBeforeTurn, SkipCompaction, CompactNow, Compact, batch
<1>3. CASE AddContext \/ StreamCall
  BY <1>3 DEF AddContext, StreamCall, Listening, batch
<1>4. CASE Request
  BY <1>4 DEF Request, Forget
<1>5. CASE Respond \/ StreamFails \/ BeginCall \/ TakeSnapshot
  BY <1>5 DEF Respond, AfterReply, StreamFails, BeginCall, TakeSnapshot, Forget, batch
<1>6. CASE EndCall
  <2>1. late' = late /\ cancelled' = cancelled /\ calls # <<>>
    BY <1>6, EndCallCases DEF EndCall
  <2>2. QED
    BY <2>1
<1>7. CASE EndTurn \/ FailTurn \/ AppendFails
  BY <1>7 DEF EndTurn, FailTurn, AppendFails, Forget, batch
<1>8. CASE Cancel \/ StartFails \/ Die \/ Resume
  BY <1>8 DEF Cancel, StartFails, Die, Resume, Forget, batch
<1>9. CASE \E at \in 1..Len(history), conversation \in BOOLEAN : Rewind(at, conversation)
  BY <1>9 DEF Rewind, batch
<1>10. CASE UNCHANGED vars
  BY <1>10 DEF vars
<1>11. QED
  BY <1>1, <1>2, <1>3, <1>4, <1>5, <1>6, <1>7, <1>8, <1>9, <1>10
     DEF Next, TurnStep, BetweenTurns

\* An abort lets at most one more request out, with no tool call coming of it, however long the turn is and
\* wherever in it the flag is raised.
THEOREM AbortTakesEffect == Spec => []AbortStopsRequests
<1>1. Init => AbortInv
  BY TypeInit, BatchInit DEF Init, AbortInv
<1>2. AbortInv => AbortStopsRequests
  BY DEF AbortInv, AbortStopsRequests
<1>3. QED
  BY <1>1, <1>2, AbortStep, PTL DEF Spec

-----------------------------------------------------------------------------
(* Every call of a reply is answered *)

\* The replies among the first n messages have their answers right behind them.
AnsweredUpTo(h, n) ==
  \A i \in 1..n :
    h[i].kind = "reply" /\ h[i].parts # <<>> =>
      i < Len(h) /\ h[i + 1] = Results(h[i].parts)

\* Appending answers nothing and unanswers nothing.
LEMMA AppendedUpTo ==
  ASSUME NEW h \in Seq(Message), NEW m \in Message, NEW n \in 0..Len(h), AnsweredUpTo(h, n)
  PROVE  AnsweredUpTo(Append(h, m), n)
<1> DEFINE g == Append(h, m)
<1>1. Len(g) = Len(h) + 1 /\ \A i \in 1..Len(h) : g[i] = h[i]
  OBVIOUS
<1> HIDE DEF g
<1>2. ASSUME NEW i \in 1..n, g[i].kind = "reply", g[i].parts # <<>>
      PROVE  i < Len(g) /\ g[i + 1] = Results(g[i].parts)
  <2>1. i \in 1..Len(h) /\ g[i] = h[i]
    BY <1>1
  <2>2. i < Len(h) /\ h[i + 1] = Results(h[i].parts)
    BY <1>2, <2>1 DEF AnsweredUpTo
  <2>3. i + 1 \in 1..Len(h)
    BY <2>1, <2>2
  <2>4. QED
    BY <1>1, <2>1, <2>2, <2>3
<1>3. QED
  BY <1>2 DEF AnsweredUpTo, g

\* A message that asks for nothing leaves nothing unanswered.
LEMMA AppendedAsksNothing ==
  ASSUME NEW h \in Seq(Message), NEW m \in Message, AnsweredUpTo(h, Len(h)),
         m.kind # "reply" \/ m.parts = <<>>
  PROVE  AnsweredUpTo(Append(h, m), Len(Append(h, m)))
<1>1. /\ Len(Append(h, m)) = Len(h) + 1 /\ Append(h, m)[Len(h) + 1] = m
      /\ Len(h) \in 0..Len(h)
  OBVIOUS
<1>2. AnsweredUpTo(Append(h, m), Len(h))
  BY <1>1, AppendedUpTo
<1>3. QED
  BY <1>1, <1>2 DEF AnsweredUpTo

\* The tool message that closes a batch answers the reply that opened it.
LEMMA ResultsAnswer ==
  ASSUME NEW h \in Seq(Message), h # <<>>, NEW t \in Nat, NEW cs \in Seq(CallId), cs # <<>>,
         h[Len(h)] = Reply(t, cs), AnsweredUpTo(h, Len(h) - 1)
  PROVE  AnsweredUpTo(Append(h, Results(cs)), Len(Append(h, Results(cs))))
<1> DEFINE m == Results(cs)
           g == Append(h, m)
           k == Len(h)
<1>1. m \in Message /\ m.kind # "reply"
  BY MessageTypes DEF Results
<1>2. k \in Nat \ {0} /\ k - 1 \in 0..k
  OBVIOUS
<1>3. AnsweredUpTo(g, k - 1)
  BY <1>1, <1>2, AppendedUpTo
<1>4. Len(g) = k + 1 /\ g[k + 1] = m /\ g[k] = h[k]
  BY <1>1, <1>2
<1>5. g[k].parts = cs
  BY <1>4 DEF Reply
<1> HIDE DEF m, g, k
<1>6. ASSUME NEW i \in 1..Len(g), g[i].kind = "reply", g[i].parts # <<>>
      PROVE  i < Len(g) /\ g[i + 1] = Results(g[i].parts)
  <2>1. i \in 1..(k - 1) \/ i = k \/ i = k + 1
    BY <1>2, <1>4
  <2>2. CASE i \in 1..(k - 1)
    BY <1>3, <1>6, <2>2 DEF AnsweredUpTo
  <2>3. CASE i = k
    BY <1>2, <1>4, <1>5, <2>3 DEF m
  <2>4. CASE i = k + 1
    BY <1>1, <1>4, <1>6, <2>4
  <2>5. QED
    BY <2>1, <2>2, <2>3, <2>4
<1>7. QED
  BY <1>6 DEF AnsweredUpTo, g, m

\* Compaction keeps a tail: what is answered in it is answered within it.
LEMMA CompactedAnswered ==
  ASSUME NEW h \in Seq(Message), NEW n \in Nat, NEW t \in Nat, AnsweredUpTo(h, Len(h))
  PROVE  LET g == <<Summary(t)>> \o LastMessages(h, n) IN AnsweredUpTo(g, Len(g))
<1> DEFINE from == IF Len(h) > n THEN Len(h) - n + 1 ELSE 1
           b == LastMessages(h, n)
           g == <<Summary(t)>> \o b
<1>1. /\ from \in Nat \ {0} /\ Len(h) \in Nat /\ from <= Len(h) + 1
      /\ b = SubSeq(h, from, Len(h))
  BY DEF LastMessages
<1> HIDE DEF from
<1>2. Len(b) = Len(h) - from + 1 /\ \A i \in 1..Len(b) : b[i] = h[from + i - 1]
  BY <1>1
<1>3. b \in Seq(Message) /\ Summary(t) \in Message
  BY LastMessagesType, MessageTypes, EmptyTypes
<1> HIDE DEF b
<1>4. /\ Len(g) = Len(b) + 1 /\ g[1] = Summary(t)
      /\ \A i \in 1..Len(b) : g[i + 1] = b[i]
  BY <1>3
<1> HIDE DEF g
<1>5. ASSUME NEW i \in 1..Len(g), g[i].kind = "reply", g[i].parts # <<>>
      PROVE  i < Len(g) /\ g[i + 1] = Results(g[i].parts)
  <2>1. i # 1
    BY <1>4, <1>5 DEF Summary
  <2> DEFINE j == i - 1
             k == from + i - 2
  <2>2. j \in 1..Len(b) /\ g[i] = b[j] /\ b[j] = h[k] /\ k \in 1..Len(h)
    <3>1. j \in 1..Len(b) /\ i = j + 1
      BY <1>1, <1>2, <1>4, <2>1
    <3>2. k = from + j - 1 /\ k \in 1..Len(h)
      BY <1>1, <1>2, <3>1
    <3> HIDE DEF j, k
    <3>3. QED
      BY <1>2, <1>4, <3>1, <3>2
  <2>3. k < Len(h) /\ h[k + 1] = Results(h[k].parts)
    BY <1>5, <2>2 DEF AnsweredUpTo
  <2>4. i \in 1..Len(b) /\ g[i + 1] = b[i] /\ b[i] = h[k + 1]
    BY <1>1, <1>2, <1>4, <2>2, <2>3
  <2>5. QED
    BY <1>4, <2>2, <2>3, <2>4
<1>6. QED
  BY <1>5 DEF AnsweredUpTo, g, b

\* A rewind cuts before a user message, never between a reply and its answer.
LEMMA RewoundAnswered ==
  ASSUME NEW h \in Seq(Message), NEW at \in 1..Len(h), IsUser(h[at]), AnsweredUpTo(h, Len(h))
  PROVE  AnsweredUpTo(SubSeq(h, 1, at - 1), Len(SubSeq(h, 1, at - 1)))
<1> DEFINE g == SubSeq(h, 1, at - 1)
<1>1. Len(g) = at - 1 /\ \A i \in 1..(at - 1) : g[i] = h[i]
  OBVIOUS
<1> HIDE DEF g
<1>2. ASSUME NEW i \in 1..Len(g), g[i].kind = "reply", g[i].parts # <<>>
      PROVE  i < Len(g) /\ g[i + 1] = Results(g[i].parts)
  <2>1. i \in 1..Len(h) /\ i < at /\ g[i] = h[i]
    BY <1>1
  <2>2. h[i + 1] = Results(h[i].parts)
    BY <1>2, <2>1 DEF AnsweredUpTo
  <2>3. i + 1 # at
    BY <2>2 DEF IsUser, Results
  <2>4. i + 1 \in 1..(at - 1)
    BY <1>1, <2>1, <2>3
  <2>5. QED
    BY <1>1, <2>1, <2>2, <2>4
<1>3. QED
  BY <1>2 DEF AnsweredUpTo, g

\* Nothing has died and no append has failed.
Unbroken == used.death = 0 /\ used.fault = 0

\* Until then a batch is open exactly behind its reply, the last message, and
\* whatever is not open is answered.
AnswerInv ==
  Unbroken =>
    /\ pc # "down"
    /\ ~InBatch => AnsweredUpTo(history, Len(history))
    /\ InBatch => /\ history # <<>> /\ history[Len(history)] = Reply(turn, calls)
                  /\ AnsweredUpTo(history, Len(history) - 1)

\* The counts of what has been spent never go down.
LEMMA UsedGrows ==
  ASSUME TypeOK, [Next]_vars
  PROVE  \A w \in Spendable : used[w] \in Nat /\ used'[w] \in Nat /\ used'[w] >= used[w]
<1>1. used \in [Spendable -> Nat]
  BY DEF TypeOK
<1>2. ASSUME NEW w \in Spendable, Spend(w)
      PROVE  \A v \in Spendable : used[v] \in Nat /\ used'[v] \in Nat /\ used'[v] >= used[v]
  BY <1>1, <1>2 DEF Spend
<1>3. CASE UNCHANGED used
  BY <1>1, <1>3
<1>4. CASE CompactBeforeTurn \/ CompactNow
  BY <1>2, <1>4 DEF CompactBeforeTurn, CompactNow, Compact, Spendable
<1>5. CASE AddContext \/ AppendFails \/ Die \/ StartFails
  BY <1>2, <1>5 DEF AddContext, AppendFails, Die, StartFails, Spendable
<1>6. CASE TakeSnapshot
  BY <1>2, <1>3, <1>6 DEF TakeSnapshot, Spendable
<1>7. CASE StartTurn \/ SkipCompaction \/ Request \/ StreamCall \/ Respond \/ StreamFails
  BY <1>3, <1>7
     DEF StartTurn, SkipCompaction, Request, StreamCall, Listening, Respond, StreamFails
<1>8. CASE BeginCall \/ EndCall \/ EndTurn \/ FailTurn \/ Cancel \/ Resume \/ UNCHANGED vars
  BY <1>3, <1>8 DEF BeginCall, EndCall, EndTurn, FailTurn, Cancel, Resume, vars
<1>9. ASSUME NEW at \in 1..Len(history), NEW conversation \in BOOLEAN,
             Rewind(at, conversation)
      PROVE  \A v \in Spendable : used[v] \in Nat /\ used'[v] \in Nat /\ used'[v] >= used[v]
  <2>1. \/ Spend("rewind")
        \/ used' = [used EXCEPT !["rewind"] = @ + 1, !["fault"] = @ + 1]
    BY <1>9 DEF Rewind
  <2>2. CASE Spend("rewind")
    BY <1>2, <2>2 DEF Spendable
  <2>3. CASE used' = [used EXCEPT !["rewind"] = @ + 1, !["fault"] = @ + 1]
    BY <1>1, <2>3 DEF Spendable
  <2>4. QED
    BY <2>1, <2>2, <2>3
<1>10. QED
  BY <1>4, <1>5, <1>6, <1>7, <1>8, <1>9 DEF Next, TurnStep, BetweenTurns

\* What is spent leaves its mark.
LEMMA Spent ==
  ASSUME TypeOK, NEW w \in Spendable, Spend(w)
  PROVE  used'[w] # 0
BY DEF Spend, TypeOK

LEMMA AnswerStep == TypeOK /\ BatchOK /\ AnswerInv /\ [Next]_vars => AnswerInv'
<1> SUFFICES ASSUME TypeOK, BatchOK, AnswerInv, [Next]_vars, Unbroken'
             PROVE  /\ pc' # "down"
                    /\ ~InBatch' => AnsweredUpTo(history', Len(history'))
                    /\ InBatch' => /\ history' # <<>>
                                   /\ history'[Len(history')] = Reply(turn', calls')
                                   /\ AnsweredUpTo(history', Len(history') - 1)
  BY DEF AnswerInv
<1>0. /\ Unbroken /\ pc # "down" /\ turn \in Nat
      /\ history \in Seq(Message) /\ calls \in Seq(CallId)
      /\ ~InBatch => AnsweredUpTo(history, Len(history))
      /\ InBatch => /\ history # <<>> /\ history[Len(history)] = Reply(turn, calls)
                    /\ AnsweredUpTo(history, Len(history) - 1)
  <2>1. Unbroken
    BY UsedGrows DEF Unbroken, Spendable
  <2>2. QED
    BY <2>1 DEF AnswerInv, TypeOK
<1>00. ~Spend("fault") /\ ~Spend("death")
  BY Spent DEF Unbroken, Spendable
\* Steps that leave the batch as it is, or stay outside of one.
<1>1. ASSUME UNCHANGED <<history, turn, calls>>, InBatch' = InBatch, pc' # "down"
      PROVE  /\ pc' # "down"
             /\ ~InBatch' => AnsweredUpTo(history', Len(history'))
             /\ InBatch' => /\ history' # <<>>
                            /\ history'[Len(history')] = Reply(turn', calls')
                            /\ AnsweredUpTo(history', Len(history') - 1)
  BY <1>0, <1>1
<1>2. ASSUME ~InBatch, ~InBatch', UNCHANGED history, pc' # "down"
      PROVE  /\ pc' # "down"
             /\ ~InBatch' => AnsweredUpTo(history', Len(history'))
             /\ InBatch' => /\ history' # <<>>
                            /\ history'[Len(history')] = Reply(turn', calls')
                            /\ AnsweredUpTo(history', Len(history') - 1)
  BY <1>0, <1>2
<1>3. CASE StartTurn
  <2>1. Input(turn + 1) \in Message /\ Input(turn + 1).kind # "reply" /\ ~InBatch /\ ~InBatch'
        /\ history' = Append(history, Input(turn + 1)) /\ pc' = "preparing"
    BY <1>0, <1>3, MessageTypes DEF StartTurn, Input, InBatch, TypeOK
  <2>2. QED
    BY <1>0, <2>1, AppendedAsksNothing
<1>4. CASE AddContext
  <2>1. Context(turn) \in Message /\ Context(turn).kind # "reply" /\ ~InBatch /\ ~InBatch'
        /\ history' = Append(history, Context(turn)) /\ pc' = "context"
    BY <1>0, <1>4, MessageTypes DEF AddContext, Context, InBatch, TypeOK
  <2>2. QED
    BY <1>0, <2>1, AppendedAsksNothing
<1>5. CASE CompactBeforeTurn \/ CompactNow
  <2>1. ~InBatch /\ ~InBatch' /\ pc' # "down"
        /\ history' = <<Summary(turn)>> \o LastMessages(history, KeepRecent)
    BY <1>5 DEF CompactBeforeTurn, CompactNow, Compact, InBatch
  <2>2. AnsweredUpTo(history', Len(history'))
    BY <1>0, <2>1, CompactedAnswered, TurnLoopAssumption
  <2>3. QED
    BY <2>1, <2>2
<1>6. CASE SkipCompaction
  BY <1>2, <1>6 DEF SkipCompaction, InBatch
<1>7. CASE Request \/ StreamCall \/ StreamFails
  BY <1>2, <1>7 DEF Request, StreamCall, Listening, StreamFails, InBatch
<1>8. CASE Respond
  <2>1. /\ ~InBatch /\ history' = Append(history, Reply(turn, calls))
        /\ UNCHANGED <<turn, calls>> /\ pc' = AfterReply
        /\ Reply(turn, calls) \in Message /\ Reply(turn, calls).parts = calls
    BY <1>0, <1>8, MessageTypes DEF Respond, InBatch, batch, Reply
  <2>2. CASE calls = <<>>
    <3>1. ~InBatch' /\ pc' = "ending"
      BY <2>1, <2>2 DEF AfterReply, InBatch
    <3>2. QED
      BY <1>0, <2>1, <2>2, <3>1, AppendedAsksNothing
  <2>3. CASE calls # <<>>
    <3>1. InBatch' /\ pc' = "calling"
      BY <2>1, <2>3 DEF AfterReply, InBatch
    <3>2. /\ Len(history') = Len(history) + 1 /\ Len(history) \in 0..Len(history)
          /\ history' # <<>> /\ history'[Len(history')] = Reply(turn, calls)
          /\ Len(history') - 1 = Len(history)
      BY <1>0, <2>1
    <3>3. AnsweredUpTo(history', Len(history))
      BY <1>0, <2>1, <3>2, AppendedUpTo
    <3>4. QED
      BY <2>1, <3>1, <3>2, <3>3
  <2>4. QED
    BY <2>2, <2>3
<1>9. CASE BeginCall \/ TakeSnapshot
  BY <1>1, <1>9 DEF BeginCall, TakeSnapshot, InBatch, batch
<1>10. CASE EndCall
  <2>1. calls # <<>> /\ UNCHANGED turn /\ InBatch
    BY <1>10, EndCallCases DEF EndCall, InBatch
  <2>2. CASE pc' = "calling" /\ UNCHANGED <<calls, history, step>>
    BY <1>1, <2>1, <2>2 DEF InBatch
  <2>3. ASSUME history' = Append(history, Results(calls)),
               NEW stopping \in BOOLEAN, AfterBatch(stopping)
        PROVE  /\ ~InBatch' /\ pc' # "down"
               /\ AnsweredUpTo(history', Len(history'))
    <3>1. ~InBatch' /\ pc' # "down"
      BY <2>3 DEF AfterBatch, InBatch
    <3>2. QED
      BY <1>0, <2>1, <2>3, <3>1, ResultsAnswer
  <2>4. QED
    BY <1>10, <2>2, <2>3, EndCallCases
<1>11. CASE EndTurn \/ FailTurn
  BY <1>2, <1>11 DEF EndTurn, FailTurn, InBatch
<1>12. CASE AppendFails \/ StartFails \/ Die
  BY <1>00, <1>12 DEF AppendFails, StartFails, Die
<1>13. CASE Cancel \/ UNCHANGED vars
  BY <1>0, <1>1, <1>13 DEF Cancel, vars, InBatch, batch
<1>14. CASE Resume
  BY <1>0, <1>14 DEF Resume
<1>15. ASSUME NEW at \in 1..Len(history), NEW conversation \in BOOLEAN,
              Rewind(at, conversation)
       PROVE  ~InBatch' /\ pc' # "down" /\ AnsweredUpTo(history', Len(history'))
  <2>1. ~InBatch /\ ~InBatch' /\ pc' # "down" /\ IsUser(history[at])
        /\ history' = IF conversation THEN SubSeq(history, 1, at - 1) ELSE history
    BY <1>15 DEF Rewind, InBatch
  <2>2. QED
    BY <1>0, <2>1, RewoundAnswered
<1>16. QED
  BY <1>3, <1>4, <1>5, <1>6, <1>7, <1>8, <1>9, <1>10, <1>11, <1>12, <1>13, <1>14, <1>15
     DEF Next, TurnStep, BetweenTurns

\* However calls, aborts, compactions and rewinds follow on each other, no reply is
\* left in the history without the tool message that answers it, which a provider
\* would refuse; the two that may do so, a death and a failed append, are counted.
THEOREM CallsStayAnswered == Spec => []NothingLeftUnanswered
<1>1. Init => AnswerInv
  BY DEF Init, AnswerInv, AnsweredUpTo, InBatch
<1>2. AnswerInv => NothingLeftUnanswered
  BY DEF AnswerInv, NothingLeftUnanswered, Unbroken, AnsweredUpTo, CallsAnswered
<1>3. Init => TypeOK /\ BatchOK
  BY TypeInit, BatchInit
<1>4. TypeOK /\ BatchOK /\ AnswerInv /\ [Next]_vars => (TypeOK /\ BatchOK /\ AnswerInv)'
  BY TypeStep, BatchStep, AnswerStep
<1>5. QED
  BY <1>1, <1>2, <1>3, <1>4, PTL DEF Spec

-----------------------------------------------------------------------------
(* A snapshot is filed under the turn it was taken in *)

\* Each entry's ordinal is that of a user message of its turn.
Named(h, S) ==
  \A s \in S : \E at \in 1..Len(h) :
    IsUser(h[at]) /\ Ordinal(h, at) = s.ordinal /\ h[at].turn = s.turn

\* A message appended moves no ordinal, and a user message takes the next one.
LEMMA NamedAppend ==
  ASSUME NEW h \in Seq(Message), NEW m \in Message
  PROVE  /\ \A S : Named(h, S) => Named(Append(h, m), S)
         /\ ~IsUser(m) => UserCount(Append(h, m)) = UserCount(h)
         /\ IsUser(m) => /\ UserCount(Append(h, m)) = UserCount(h) + 1
                         /\ Named(Append(h, m), {[ordinal |-> UserCount(h), turn |-> m.turn]})
<1> DEFINE g == Append(h, m)
           k == Len(h)
           U == {i \in 1..k : IsUser(h[i])}
<1>1. Len(g) = k + 1 /\ g[k + 1] = m /\ k \in Nat /\ \A i \in 1..k : g[i] = h[i]
  OBVIOUS
<1>2. IsFiniteSet(U) /\ UserCount(h) = Cardinality(U)
  <2>1. IsFiniteSet(1..k)
    BY <1>1, FS_Interval
  <2>2. QED
    BY <2>1, FS_Subset DEF UserCount
<1> HIDE DEF g, k
<1>3. \A at \in 1..k : Ordinal(g, at) = Ordinal(h, at)
  <2> TAKE at \in 1..k
  <2>1. {i \in 1..(at - 1) : IsUser(g[i])} = {i \in 1..(at - 1) : IsUser(h[i])}
    BY <1>1
  <2>2. QED
    BY <2>1 DEF Ordinal
<1>4. ASSUME NEW S, Named(h, S) PROVE Named(g, S)
  <2>1. ASSUME NEW s \in S
        PROVE  \E at \in 1..Len(g) :
                 IsUser(g[at]) /\ Ordinal(g, at) = s.ordinal /\ g[at].turn = s.turn
    <3>1. PICK at \in 1..k :
            IsUser(h[at]) /\ Ordinal(h, at) = s.ordinal /\ h[at].turn = s.turn
      BY <1>4 DEF Named, k
    <3>2. at \in 1..Len(g) /\ g[at] = h[at] /\ Ordinal(g, at) = Ordinal(h, at)
      BY <1>1, <1>3
    <3>3. QED
      BY <3>1, <3>2
  <2>2. QED
    BY <2>1 DEF Named
<1>5. ASSUME ~IsUser(m) PROVE UserCount(g) = UserCount(h)
  <2>1. {i \in 1..Len(g) : IsUser(g[i])} = U
    BY <1>1, <1>5
  <2>2. QED
    BY <1>2, <2>1 DEF UserCount
<1>6. ASSUME IsUser(m)
      PROVE  /\ UserCount(g) = UserCount(h) + 1
             /\ Named(g, {[ordinal |-> UserCount(h), turn |-> m.turn]})
  <2>1. {i \in 1..Len(g) : IsUser(g[i])} = U \cup {k + 1} /\ k + 1 \notin U
    BY <1>1, <1>6
  <2>2. UserCount(g) = UserCount(h) + 1
    BY <1>2, <2>1, FS_AddElement DEF UserCount
  <2>3. Ordinal(g, k + 1) = UserCount(h)
    <3>1. {i \in 1..((k + 1) - 1) : IsUser(g[i])} = U
      BY <1>1
    <3>2. QED
      BY <1>2, <3>1 DEF Ordinal
  <2>4. k + 1 \in 1..Len(g) /\ IsUser(g[k + 1]) /\ g[k + 1].turn = m.turn
    BY <1>1, <1>6
  <2>5. QED
    BY <2>2, <2>3, <2>4 DEF Named
<1>7. QED
  BY <1>4, <1>5, <1>6 DEF g

\* A rewind keeps the snapshots of the user messages it keeps.
LEMMA NamedRewound ==
  ASSUME NEW h \in Seq(Message), NEW at \in 1..Len(h), NEW S, Named(h, S)
  PROVE  Named(SubSeq(h, 1, at - 1), RetainBelow(S, Ordinal(h, at)))
<1> DEFINE g == SubSeq(h, 1, at - 1)
           Users(n) == {i \in 1..(n - 1) : IsUser(h[i])}
<1>1. Len(g) = at - 1 /\ \A i \in 1..(at - 1) : g[i] = h[i]
  OBVIOUS
<1> HIDE DEF g
<1>2. ASSUME NEW s \in RetainBelow(S, Ordinal(h, at))
      PROVE  \E j \in 1..Len(g) :
               IsUser(g[j]) /\ Ordinal(g, j) = s.ordinal /\ g[j].turn = s.turn
  <2>1. s \in S /\ s.ordinal < Ordinal(h, at)
    BY <1>2 DEF RetainBelow
  <2>2. PICK j \in 1..Len(h) :
          IsUser(h[j]) /\ Ordinal(h, j) = s.ordinal /\ h[j].turn = s.turn
    BY <2>1 DEF Named
  <2>3. j < at
    <3>1. SUFFICES ASSUME j >= at PROVE FALSE
      OBVIOUS
    <3>2. Users(at) \in SUBSET Users(j)
      BY <3>1
    <3>3. IsFiniteSet(Users(j))
      <4>1. IsFiniteSet(1..(j - 1))
        BY FS_Interval
      <4>2. QED
        BY <4>1, FS_Subset
    <3>4. Cardinality(Users(at)) <= Cardinality(Users(j))
      BY <3>2, <3>3, FS_Subset
    <3>5. Ordinal(h, at) <= Ordinal(h, j)
      BY <3>4 DEF Ordinal
    <3>6. Ordinal(h, at) \in Nat /\ Ordinal(h, j) \in Nat
      BY OrdinalType
    <3>7. QED
      BY <2>1, <2>2, <3>5, <3>6
  <2>4. j \in 1..Len(g) /\ g[j] = h[j]
    BY <1>1, <2>3
  <2>5. Ordinal(g, j) = Ordinal(h, j)
    <3>1. {i \in 1..(j - 1) : IsUser(g[i])} = {i \in 1..(j - 1) : IsUser(h[i])}
      BY <1>1, <2>3
    <3>2. QED
      BY <3>1 DEF Ordinal
  <2>6. QED
    BY <2>2, <2>4, <2>5
<1>3. QED
  BY <1>2 DEF Named, g

\* Nothing was compacted and no append has failed.
Uncompacted == used.compaction = 0 /\ used.fault = 0

\* Until then the snapshots are named rightly in the session, and in its log while
\* it is down; and the last user message is one of the turn that runs, so that
\* the next snapshot will be.
NameInv ==
  Uncompacted =>
    /\ diverged = {}
    /\ pc # "down" => Named(history, snapshots)
    /\ pc = "down" => snapshots = {} /\ Named(Flush(replay), replay.snapshots)
    /\ pc \notin {"idle", "down"} => Named(history, {[ordinal |-> Here, turn |-> turn]})

LEMMA NameStep == TurnInv /\ NameInv /\ [Next]_vars => NameInv'
<1> SUFFICES ASSUME TurnInv, NameInv, [Next]_vars, Uncompacted'
             PROVE  /\ diverged' = {}
                    /\ pc' # "down" => Named(history', snapshots')
                    /\ pc' = "down" =>
                         snapshots' = {} /\ Named(Flush(replay)', replay'.snapshots)
                    /\ pc' \notin {"idle", "down"} =>
                         Named(history', {[ordinal |-> Here', turn |-> turn']})
  BY DEF NameInv
<1>0. /\ TypeOK /\ BatchOK /\ ReplayMatchesHistory /\ SnapshotsSurviveRestart
      /\ history \in Seq(Message) /\ calls \in Seq(CallId) /\ turn \in Nat
      /\ UserCount(history) \in Nat
  BY UserCountType DEF TurnInv, TypeOK
<1>00. ~Spend("fault") /\ ~Spend("compaction")
  BY <1>0, Spent DEF Uncompacted, Spendable
<1>01. /\ diverged = {}
       /\ pc # "down" => Named(history, snapshots)
       /\ pc = "down" => snapshots = {} /\ Named(Flush(replay), replay.snapshots)
       /\ pc \notin {"idle", "down"} => Named(history, {[ordinal |-> Here, turn |-> turn]})
  <2>1. Uncompacted
    BY <1>0, UsedGrows DEF Uncompacted, Spendable
  <2>2. QED
    BY <2>1 DEF NameInv
\* Steps that touch neither the history nor the snapshots.
<1>1. ASSUME UNCHANGED <<history, snapshots, turn, diverged>>, pc # "down", pc' # "down",
             pc = "idle" => pc' = "idle"
      PROVE  /\ diverged' = {} /\ Named(history', snapshots') /\ pc' # "down"
             /\ pc' \notin {"idle", "down"} =>
                  Named(history', {[ordinal |-> Here', turn |-> turn']})
  BY <1>01, <1>1 DEF Here
\* Steps that append a message of the running turn, or one that is no user's.
<1>2. ASSUME NEW m \in Message, history' = Append(history, m),
             UNCHANGED <<snapshots, diverged>>, pc # "down", pc' # "down",
             \/ IsUser(m) /\ m.turn = turn'
             \/ ~IsUser(m) /\ pc # "idle" /\ UNCHANGED turn
      PROVE  /\ diverged' = {} /\ Named(history', snapshots') /\ pc' # "down"
             /\ Named(history', {[ordinal |-> Here', turn |-> turn']})
  <2>1. Named(history', snapshots')
    BY <1>0, <1>01, <1>2, NamedAppend
  <2>2. CASE IsUser(m) /\ m.turn = turn'
    <3>1. UserCount(history') = UserCount(history) + 1
      BY <1>0, <1>2, <2>2, NamedAppend
    <3>2. Here' = UserCount(history)
      BY <1>0, <3>1 DEF Here
    <3>3. Named(history', {[ordinal |-> UserCount(history), turn |-> m.turn]})
      BY <1>0, <1>2, <2>2, NamedAppend
    <3>4. QED
      BY <1>01, <1>2, <2>1, <2>2, <3>2, <3>3
  <2>3. CASE ~IsUser(m) /\ pc # "idle" /\ UNCHANGED turn
    <3>1. UserCount(history') = UserCount(history)
      BY <1>0, <1>2, <2>3, NamedAppend
    <3>2. Here' = Here
      BY <3>1 DEF Here
    <3>3. Named(history, {[ordinal |-> Here, turn |-> turn]})
      BY <1>01, <1>2, <2>3
    <3>4. Named(history', {[ordinal |-> Here, turn |-> turn]})
      BY <1>0, <1>2, <3>3, NamedAppend
    <3>5. QED
      BY <1>01, <1>2, <2>1, <2>3, <3>2, <3>4
  <2>4. QED
    BY <1>2, <2>2, <2>3
<1>3. CASE StartTurn
  <2>1. /\ Input(turn + 1) \in Message /\ IsUser(Input(turn + 1))
        /\ Input(turn + 1).turn = turn'
    BY <1>0, <1>3, MessageTypes DEF StartTurn, Input, IsUser
  <2>2. QED
    BY <1>2, <1>3, <2>1 DEF StartTurn
<1>4. CASE AddContext
  <2>1. Context(turn) \in Message /\ IsUser(Context(turn)) /\ Context(turn).turn = turn'
    BY <1>0, <1>4, MessageTypes DEF AddContext, Context, IsUser
  <2>2. QED
    BY <1>2, <1>4, <2>1 DEF AddContext
<1>5. CASE CompactBeforeTurn \/ CompactNow
  BY <1>00, <1>5 DEF CompactBeforeTurn, CompactNow, Compact
<1>6. CASE SkipCompaction \/ Request \/ StreamCall \/ StreamFails
  BY <1>1, <1>6 DEF SkipCompaction, Request, StreamCall, Listening, StreamFails
<1>7. CASE Respond
  <2>1. Reply(turn, calls) \in Message /\ ~IsUser(Reply(turn, calls))
    BY <1>0, MessageTypes DEF Reply, IsUser
  <2>2. history' = Append(history, Reply(turn, calls)) /\ pc = "streaming" /\ pc' # "down"
        /\ UNCHANGED <<snapshots, turn, diverged>>
    BY <1>7 DEF Respond, AfterReply
  <2>3. QED
    BY <1>2, <2>1, <2>2
<1>8. CASE BeginCall
  BY <1>1, <1>8 DEF BeginCall
<1>9. CASE TakeSnapshot
  <2>1. /\ pc = "snapshotting" /\ pc' = "dispatching" /\ UNCHANGED <<history, turn>>
        /\ diverged' = diverged
        /\ snapshots' = snapshots \/ snapshots' = Insert(snapshots, Here, turn)
    BY <1>00, <1>9 DEF TakeSnapshot
  <2>2. /\ Named(history, snapshots)
        /\ Named(history, {[ordinal |-> Here, turn |-> turn]})
    BY <1>01, <2>1
  <2>3. Named(history, Insert(snapshots, Here, turn))
    BY <2>2 DEF Named, Insert
  <2>4. Here' = Here
    BY <2>1 DEF Here
  <2>5. QED
    BY <1>01, <2>1, <2>2, <2>3, <2>4
<1>10. CASE EndCall
  <2>1. /\ pc = "dispatching" /\ UNCHANGED <<snapshots, turn, diverged>> /\ calls # <<>>
    BY <1>0, <1>10, EndCallCases DEF EndCall
  <2>2. CASE pc' = "calling" /\ UNCHANGED <<calls, history, step>>
    BY <1>1, <2>1, <2>2
  <2>3. ASSUME history' = Append(history, Results(calls)),
               NEW stopping \in BOOLEAN, AfterBatch(stopping)
        PROVE  /\ diverged' = {} /\ Named(history', snapshots') /\ pc' # "down"
               /\ Named(history', {[ordinal |-> Here', turn |-> turn']})
    <3>1. Results(calls) \in Message /\ ~IsUser(Results(calls))
      BY <1>0, <2>1, MessageTypes DEF Results, IsUser
    <3>2. pc' # "down"
      BY <2>3 DEF AfterBatch
    <3>3. QED
      BY <1>2, <2>1, <2>3, <3>1, <3>2
  <2>4. QED
    BY <1>0, <1>10, <2>2, <2>3, EndCallCases
<1>11. CASE EndTurn \/ FailTurn \/ Cancel
  BY <1>1, <1>11 DEF EndTurn, FailTurn, Cancel
<1>12. CASE AppendFails \/ StartFails
  BY <1>00, <1>12 DEF AppendFails, StartFails
<1>13. CASE Die
  <2>1. pc # "down" /\ pc' = "down" /\ snapshots' = {} /\ diverged' = {}
        /\ replay' = replay
    BY <1>13 DEF Die, disk
  <2>2. replay.snapshots = snapshots /\ Named(history, snapshots)
    BY <1>0, <1>01, <2>1 DEF SnapshotsSurviveRestart
  <2>3. Named(Flush(replay), snapshots)
    <3>1. CASE InBatch /\ replay.results # <<>>
      <4>1. /\ replay.history = history /\ Flush(replay) = Append(history, Results(replay.results))
            /\ replay.results \in Seq(CallId)
        BY <1>0, <1>01, <2>1, <3>1 DEF ReplayMatchesHistory, Flush, TypeOK, Replayed
      <4>2. Results(replay.results) \in Message
        BY <1>0, <3>1, <4>1, MessageTypes
      <4>3. QED
        BY <1>0, <2>2, <4>1, <4>2, NamedAppend
    <3>2. CASE ~(InBatch /\ replay.results # <<>>)
      <4>1. Flush(replay) = history
        BY <1>0, <1>01, <2>1, <3>2 DEF ReplayMatchesHistory, Flush
      <4>2. QED
        BY <2>2, <4>1
    <3>3. QED
      BY <3>1, <3>2
  <2>4. Flush(replay)' = Flush(replay)
    BY <2>1 DEF Flush
  <2>5. QED
    BY <2>1, <2>2, <2>3, <2>4
<1>14. CASE Resume
  BY <1>01, <1>14 DEF Resume
<1>15. ASSUME NEW at \in 1..Len(history), NEW conversation \in BOOLEAN,
              Rewind(at, conversation)
       PROVE  diverged' = {} /\ Named(history', snapshots') /\ pc' = "idle"
  <2>1. pc = "idle" /\ pc' = "idle" /\ Named(history, snapshots)
    BY <1>01, <1>15 DEF Rewind
  <2>2. used'["fault"] = 0 /\ used["fault"] \in Nat
    BY <1>0 DEF Uncompacted, TypeOK, Spendable
  <2>3. used' # [used EXCEPT !["rewind"] = @ + 1, !["fault"] = @ + 1]
    BY <1>0, <2>2 DEF TypeOK, Spendable
  <2>4. diverged' = {}
    BY <1>01, <1>15, <2>3 DEF Rewind
  <2>5. Named(history', snapshots')
    <3>1. /\ history' = IF conversation THEN SubSeq(history, 1, at - 1) ELSE history
          /\ snapshots' = IF conversation THEN RetainBelow(snapshots, Ordinal(history, at))
                                          ELSE snapshots
      BY <1>15 DEF Rewind, Survivors
    <3>2. QED
      BY <1>0, <2>1, <3>1, NamedRewound
  <2>6. QED
    BY <2>1, <2>4, <2>5
<1>16. CASE UNCHANGED vars
  BY <1>01, <1>16 DEF vars, Here, Flush
<1>17. QED
  BY <1>3, <1>4, <1>5, <1>6, <1>7, <1>8, <1>9, <1>10, <1>11, <1>12, <1>13, <1>14, <1>15,
     <1>16
     DEF Next, TurnStep, BetweenTurns

\* Rewinding to a message offers the files as they were before the turn that
\* message began: through turns, rewinds, deaths and resumptions the ordinal a
\* snapshot is filed under stays that of a message of its own turn.
THEOREM SnapshotsAreNamed == Spec => []SnapshotsNameTheirTurn
<1>1. Init => NameInv
  BY DEF Init, NameInv, Named
<1>2. NameInv => SnapshotsNameTheirTurn
  BY DEF NameInv, SnapshotsNameTheirTurn, Uncompacted, Named
<1>3. TurnInv /\ NameInv /\ [Next]_vars => (TurnInv /\ NameInv)'
  BY TurnInvStep, NameStep
<1>4. QED
  BY <1>1, <1>2, <1>3, TurnInvInit, PTL DEF Spec

-----------------------------------------------------------------------------
(* The log read back *)

\* A set of numbers has a least one.
LEMMA LeastNumber ==
  ASSUME NEW T, T \subseteq Nat, T # {}
  PROVE  \E x \in T : \A y \in T : x <= y
<1> DEFINE R == {ss \in Nat \X Nat : ss[1] < ss[2]}
<1>1. IsWellFoundedOn(R, Nat)
  BY NatLessThanWellFounded DEF OpToRel
<1> HIDE DEF R
<1>2. PICK x \in T : \A y \in T : ~ (<<y, x>> \in R)
  BY <1>1, WFMin
<1>3. ASSUME NEW y \in T PROVE x <= y
  <2>1. x \in Nat /\ y \in Nat /\ ~ (<<y, x>> \in R)
    BY <1>2
  <2>2. y < x => <<y, x>> \in R
    BY <2>1 DEF R
  <2>3. QED
    BY <2>1, <2>2
<1>4. QED
  BY <1>3

\* What a reader is at every place of a log, up to one of them.
IsReader(f, base, events, from, to) ==
  f = [n \in from..to |-> IF n = from THEN base ELSE Apply(f[n - 1], events[n])]

\* However long the log, there is one.
LEMMA ReaderExists ==
  ASSUME NEW base, NEW events, NEW from \in Nat, NEW to \in Nat, from <= to
  PROVE  \E f : IsReader(f, base, events, from, to)
<1> DEFINE Unread == {n \in Nat : from <= n /\ ~ \E f : IsReader(f, base, events, from, n)}
<1>1. SUFFICES ASSUME Unread # {} PROVE FALSE
  OBVIOUS
<1>2. PICK n \in Unread : \A k \in Unread : n <= k
  <2>1. Unread \subseteq Nat
    OBVIOUS
  <2> HIDE DEF Unread
  <2>2. QED
    BY <1>1, <2>1, LeastNumber
<1>3. n # from
  <2>1. IsReader([k \in from..from |-> base], base, events, from, from)
    BY DEF IsReader
  <2>2. QED
    BY <1>2, <2>1
<1>4. /\ n \in Nat /\ from < n /\ n - 1 \in Nat /\ from <= n - 1
      /\ n - 1 \notin Unread
  BY <1>2, <1>3
<1>5. PICK f : IsReader(f, base, events, from, n - 1)
  BY <1>4
<1> DEFINE g == [k \in from..n |-> IF k = n THEN Apply(f[n - 1], events[n]) ELSE f[k]]
<1>6. ASSUME NEW k \in from..n
      PROVE  g[k] = IF k = from THEN base ELSE Apply(g[k - 1], events[k])
  <2>1. CASE k = n
    <3>1. n - 1 \in from..n /\ n - 1 # n
      BY <1>4
    <3>2. g[n - 1] = f[n - 1]
      BY <3>1
    <3>3. QED
      BY <1>3, <2>1, <3>2
  <2>2. CASE k # n
    <3>1. k \in from..(n - 1) /\ g[k] = f[k]
      BY <1>4, <2>2
    <3>2. f[k] = IF k = from THEN base ELSE Apply(f[k - 1], events[k])
      BY <1>5, <3>1 DEF IsReader
    <3>3. k # from => k - 1 \in from..n /\ k - 1 # n
      BY <1>4, <3>1
    <3>4. k # from => g[k - 1] = f[k - 1]
      BY <3>3
    <3> HIDE DEF g
    <3>5. QED
      BY <3>1, <3>2, <3>4
  <2>3. QED
    BY <2>1, <2>2
<1>7. g = [k \in from..n |-> g[k]]
  OBVIOUS
<1> HIDE DEF g
<1>8. IsReader(g, base, events, from, n)
  BY <1>6, <1>7, Zenon DEF IsReader
<1>9. QED
  BY <1>2, <1>8

\* What a reader has read does not depend on what comes later.
LEMMA ReadersAgree ==
  ASSUME NEW base, NEW events, NEW more, NEW from \in Nat, NEW to \in Nat, NEW end \in Nat,
         from <= to, to <= end, \A n \in (from + 1)..to : more[n] = events[n],
         NEW f, IsReader(f, base, events, from, to),
         NEW g, IsReader(g, base, more, from, end)
  PROVE  f[to] = g[to]
<1> DEFINE Apart == {n \in from..to : f[n] # g[n]}
<1>1. SUFFICES ASSUME Apart # {} PROVE FALSE
  OBVIOUS
<1>2. PICK n \in Apart : \A k \in Apart : n <= k
  <2>1. Apart \subseteq Nat
    OBVIOUS
  <2> HIDE DEF Apart
  <2>2. QED
    BY <1>1, <2>1, LeastNumber
<1>3. n \in from..to /\ n \in from..end /\ f[n] # g[n]
  BY <1>2
<1>4. /\ f[n] = IF n = from THEN base ELSE Apply(f[n - 1], events[n])
      /\ g[n] = IF n = from THEN base ELSE Apply(g[n - 1], more[n])
  BY <1>3 DEF IsReader
<1>5. n # from => n - 1 \in from..to /\ n - 1 \notin Apart /\ more[n] = events[n]
  BY <1>2, <1>3
<1>6. n # from => f[n - 1] = g[n - 1]
  BY <1>5
<1>7. QED
  BY <1>3, <1>4, <1>5, <1>6

\* The place a reader has come to is what ReadFrom answers.
LEMMA ReadingEnds ==
  ASSUME NEW base, NEW events \in Seq(Event), NEW from \in 0..Len(events)
  PROVE  \E f : /\ IsReader(f, base, events, from, Len(events))
                /\ ReadFrom(base, events, from) = f[Len(events)]
<1> DEFINE reader == CHOOSE f : IsReader(f, base, events, from, Len(events))
<1>1. \E f : IsReader(f, base, events, from, Len(events))
  <2>1. from \in Nat /\ Len(events) \in Nat /\ from <= Len(events)
    OBVIOUS
  <2>2. QED
    BY <2>1, ReaderExists
<1>2. IsReader(reader, base, events, from, Len(events))
  BY <1>1
<1>3. ReadFrom(base, events, from) = reader[Len(events)]
  BY DEF ReadFrom, IsReader
<1>4. QED
  BY <1>2, <1>3

\* Reading one event further is applying it.
LEMMA ReadOneMore ==
  ASSUME NEW base, NEW events \in Seq(Event), NEW from \in 0..Len(events), NEW e \in Event
  PROVE  ReadFrom(base, Append(events, e), from) = Apply(ReadFrom(base, events, from), e)
<1> DEFINE more == Append(events, e)
<1>1. /\ more \in Seq(Event) /\ Len(more) = Len(events) + 1 /\ Len(events) \in Nat
      /\ more[Len(events) + 1] = e
      /\ \A n \in (from + 1)..Len(events) : more[n] = events[n]
      /\ from \in Nat /\ from <= Len(events) /\ from \in 0..Len(more)
  OBVIOUS
<1> HIDE DEF more
<1>2. PICK f : /\ IsReader(f, base, events, from, Len(events))
               /\ ReadFrom(base, events, from) = f[Len(events)]
  BY ReadingEnds
<1>3. PICK g : /\ IsReader(g, base, more, from, Len(more))
               /\ ReadFrom(base, more, from) = g[Len(more)]
  BY <1>1, ReadingEnds
<1>4. f[Len(events)] = g[Len(events)]
  <2>1. Len(more) \in Nat /\ Len(events) <= Len(more)
    BY <1>1
  <2>2. QED
    BY <1>1, <1>2, <1>3, <2>1, ReadersAgree
<1>5. g[Len(more)] = Apply(g[Len(events)], e)
  <2>1. /\ Len(more) \in from..Len(more) /\ Len(more) # from /\ Len(more) - 1 = Len(events)
    BY <1>1
  <2>2. g[Len(more)] = Apply(g[Len(more) - 1], more[Len(more)])
    BY <1>3, <2>1 DEF IsReader
  <2>3. QED
    BY <1>1, <2>1, <2>2
<1>6. QED
  BY <1>2, <1>3, <1>4, <1>5 DEF more

\* A reader with nothing left to read is what it was.
LEMMA ReadNothing ==
  ASSUME NEW base, NEW events \in Seq(Event)
  PROVE  ReadFrom(base, events, Len(events)) = base
<1>1. PICK f : /\ IsReader(f, base, events, Len(events), Len(events))
               /\ ReadFrom(base, events, Len(events)) = f[Len(events)]
  BY ReadingEnds
<1>2. QED
  BY <1>1 DEF IsReader

\* A log that ends in a rewind of the conversation is read from there; one that does
\* not is read from where it was before.
LEMMA BaselineMoves ==
  ASSUME NEW events \in Seq(Event), NEW e \in Event
  PROVE  /\ BaselineAt(events) \in 0..Len(events)
         /\ BaselineAt(Append(events, e))
              = IF IsBaseline(e) THEN Len(events) + 1 ELSE BaselineAt(events)
<1> DEFINE Last(s, at) == /\ at # 0 => IsBaseline(s[at])
                          /\ \A later \in (at + 1)..Len(s) : ~IsBaseline(s[later])
<1> DEFINE more == Append(events, e)
<1>1. /\ Len(events) \in Nat /\ Len(more) = Len(events) + 1 /\ more[Len(events) + 1] = e
      /\ \A n \in 1..Len(events) : more[n] = events[n]
  OBVIOUS
<1> HIDE DEF more
<1>2. \E at \in 0..Len(events) : Last(events, at)
  <2> DEFINE Free == {n \in 0..Len(events) :
                        \A later \in (n + 1)..Len(events) : ~IsBaseline(events[later])}
  <2>1. Len(events) \in Free /\ Free \subseteq Nat
    BY <1>1
  <2>2. PICK at \in Free : \A n \in Free : at <= n
    <3> HIDE DEF Free
    <3>1. QED
      BY <2>1, LeastNumber
  <2>3. ASSUME at # 0, ~IsBaseline(events[at]) PROVE FALSE
    <3>1. at - 1 \in 0..Len(events) /\ at - 1 < at /\ at \in Nat
      BY <1>1, <2>3
    <3>2. at - 1 \in Free
      BY <1>1, <2>3, <3>1
    <3>3. QED
      BY <2>2, <3>1, <3>2
  <2>4. QED
    BY <2>3
<1>3. ASSUME NEW s, Len(s) \in Nat, NEW i \in 0..Len(s), NEW j \in 0..Len(s),
             Last(s, i), Last(s, j), i < j
      PROVE  FALSE
  <2>1. j # 0 /\ j \in (i + 1)..Len(s)
    BY <1>3
  <2>2. QED
    BY <1>3, <2>1
<1>4. ASSUME NEW s, Len(s) \in Nat, NEW i \in 0..Len(s), Last(s, i)
      PROVE  BaselineAt(s) = i
  <2>1. BaselineAt(s) \in 0..Len(s) /\ Last(s, BaselineAt(s))
    BY <1>4 DEF BaselineAt
  <2>2. ~(i < BaselineAt(s)) /\ ~(BaselineAt(s) < i)
    <3> HIDE DEF Last
    <3>1. QED
      BY <1>3, <1>4, <2>1
  <2>3. QED
    BY <2>1, <2>2, <1>4
<1>5. PICK at \in 0..Len(events) : Last(events, at)
  BY <1>2
<1>6. BaselineAt(events) = at
  <2> HIDE DEF Last
  <2>1. QED
    BY <1>1, <1>4, <1>5
<1>7. CASE IsBaseline(e)
  <2>1. Last(more, Len(more)) /\ Len(more) \in 0..Len(more) /\ Len(more) \in Nat
    BY <1>1, <1>7
  <2>2. BaselineAt(more) = Len(more)
    <3> HIDE DEF Last
    <3>1. QED
      BY <1>4, <2>1
  <2>3. QED
    BY <1>1, <1>6, <1>7, <2>2 DEF more
<1>8. CASE ~IsBaseline(e)
  <2>1. Last(more, at)
    <3>1. at # 0 => IsBaseline(more[at])
      BY <1>1, <1>5
    <3>2. ASSUME NEW later \in (at + 1)..Len(more) PROVE ~IsBaseline(more[later])
      <4>1. CASE later = Len(events) + 1
        BY <1>1, <1>8, <4>1
      <4>2. CASE later # Len(events) + 1
        <5>1. later \in (at + 1)..Len(events) /\ later \in 1..Len(events)
          BY <1>1, <4>2
        <5>2. QED
          BY <1>1, <1>5, <5>1
      <4>3. QED
        BY <4>1, <4>2
    <3>3. QED
      BY <3>1, <3>2
  <2>2. at \in 0..Len(more) /\ Len(more) \in Nat
    BY <1>1
  <2>3. BaselineAt(more) = at
    <3> HIDE DEF Last
    <3>1. QED
      BY <1>4, <2>1, <2>2
  <2>4. QED
    BY <1>6, <1>8, <2>3 DEF more
<1>9. QED
  BY <1>7, <1>8

\* Two readers that hold the same conversation hold the same after one more event: what
\* they know of the snapshots does not enter it.
SameTalk(r, s) == r.history = s.history /\ r.results = s.results

LEMMA ApplyTalk ==
  ASSUME NEW r \in Replayed, NEW s \in Replayed, SameTalk(r, s), NEW e \in Event
  PROVE  SameTalk(Apply(r, e), Apply(s, e))
<1>1. Flush(r) = Flush(s)
  BY DEF SameTalk, Flush
<1>2. ASSUME NEW h PROVE SameTalk(Heard(r, h), Heard(s, h))
  BY DEF SameTalk, Heard, Replayed
<1>3. CASE e.ev \in SayEvents
  <2>1. /\ Apply(r, e) = Heard(r, Append(Flush(r), e.msg))
        /\ Apply(s, e) = Heard(s, Append(Flush(s), e.msg))
    BY <1>3 DEF Apply, SayEvents
  <2>2. QED
    BY <1>1, <1>2, <2>1
<1>4. CASE e.ev = "ToolCallEnd"
  <2>1. /\ Apply(r, e) = [r EXCEPT !.results = Append(@, e.call)]
        /\ Apply(s, e) = [s EXCEPT !.results = Append(@, e.call)]
    BY <1>4 DEF Apply, SayEvents
  <2>2. QED
    BY <2>1 DEF SameTalk, Replayed
<1>5. CASE e.ev = "Compacted"
  <2>1. /\ Apply(r, e) = Heard(r, <<e.msg>> \o LastMessages(Flush(r), e.retained))
        /\ Apply(s, e) = Heard(s, <<e.msg>> \o LastMessages(Flush(s), e.retained))
    BY <1>5 DEF Apply, SayEvents
  <2>2. QED
    BY <1>1, <1>2, <2>1
<1>6. CASE e.ev = "Checkpoint"
  <2>1. /\ Apply(r, e) = [r EXCEPT !.snapshots = Insert(@, e.user_turn, e.snapshot)]
        /\ Apply(s, e) = [s EXCEPT !.snapshots = Insert(@, e.user_turn, e.snapshot)]
    BY <1>6 DEF Apply, SayEvents
  <2>2. QED
    BY <2>1 DEF SameTalk, Replayed
<1>7. CASE e.ev = "Rewound" /\ e.conversation
  <2>1. /\ Apply(r, e) = [Heard(r, e.history)
                           EXCEPT !.snapshots = RetainBelow(@, UserCount(e.history))]
        /\ Apply(s, e) = [Heard(s, e.history)
                           EXCEPT !.snapshots = RetainBelow(@, UserCount(e.history))]
    BY <1>7 DEF Apply, SayEvents
  <2>2. QED
    BY <2>1 DEF SameTalk, Heard, Replayed
<1>8. CASE /\ e.ev \notin SayEvents
           /\ e.ev \notin {"ToolCallEnd", "Compacted", "Checkpoint"}
           /\ ~(e.ev = "Rewound" /\ e.conversation)
  <2>1. Apply(r, e) = r /\ Apply(s, e) = s
    BY <1>8 DEF Apply
  <2>2. QED
    BY <2>1
<1>9. QED
  BY <1>3, <1>4, <1>5, <1>6, <1>7, <1>8

\* The inductive strengthening: the reader carried beside the log has read all of it,
\* and holds the conversation that its tail gives, with the batch that is still open.
ReadInv ==
  /\ replay = ReadFrom(NothingRead, log, 0)
  /\ ReadTail(log) \in Replayed
  /\ SameTalk(replay, ReadTail(log))

LEMMA ReadInit == Init => ReadInv
<1> SUFFICES ASSUME Init PROVE ReadInv
  OBVIOUS
<1> DEFINE e == Plain("SessionStart")
<1> DEFINE none == <<>>
<1>1. log = Append(none, e) /\ none \in Seq(Event) /\ Len(none) = 0 /\ e \in Event
  BY EventTypes DEF Init, PlainEvents
<1>2. NothingRead \in Replayed
  BY DEF NothingRead, Replayed
<1>3. Apply(NothingRead, e) = NothingRead
  BY <1>2, ApplyFacts DEF PlainEvents
<1>4. ~IsBaseline(e)
  BY DEF IsBaseline, Plain
<1> HIDE DEF e, none
<1>5. ReadFrom(NothingRead, log, 0) = NothingRead
  <2>1. ReadFrom(NothingRead, none, 0) = NothingRead
    BY <1>1, ReadNothing
  <2>2. 0 \in 0..Len(none)
    BY <1>1
  <2>3. ReadFrom(NothingRead, Append(none, e), 0) = Apply(ReadFrom(NothingRead, none, 0), e)
    BY <1>1, <2>2, ReadOneMore, Zenon
  <2>4. QED
    BY <1>1, <1>3, <2>1, <2>3
<1>6. BaselineAt(log) = 0
  <2>1. BaselineAt(log) = BaselineAt(none) /\ BaselineAt(none) \in 0..Len(none)
    BY <1>1, <1>4, BaselineMoves
  <2>2. QED
    BY <1>1, <2>1
<1>7. ReadTail(log) = NothingRead
  <2>1. [NothingRead EXCEPT !.history = <<>>] = NothingRead
    BY DEF NothingRead
  <2>2. QED
    BY <1>5, <1>6, <2>1 DEF ReadTail
<1>8. QED
  BY <1>2, <1>5, <1>7 DEF ReadInv, SameTalk, Init

\* Appending an event keeps the two readings together.
LEMMA ReadLog ==
  ASSUME TypeOK, ReadInv, NEW e \in Event, Log(e)
  PROVE  ReadInv'
<1>1. /\ log \in Seq(Event) /\ replay \in Replayed
      /\ log' = Append(log, e) /\ replay' = Apply(replay, e)
      /\ Len(log) \in Nat /\ 0 \in 0..Len(log)
  BY DEF TypeOK, Log
<1>2. replay' = ReadFrom(NothingRead, log', 0)
  BY <1>1, ReadOneMore DEF ReadInv
<1> DEFINE at == BaselineAt(log)
<1>3. /\ at \in 0..Len(log)
      /\ BaselineAt(log') = IF IsBaseline(e) THEN Len(log) + 1 ELSE at
  BY <1>1, BaselineMoves
<1>4. ReadTail(log') \in Replayed /\ SameTalk(replay', ReadTail(log'))
  <2>1. CASE ~IsBaseline(e)
    <3>1. at # 0 => log'[at] = log[at]
      BY <1>1, <1>3
    <3> DEFINE base == [NothingRead EXCEPT !.history = IF at = 0 THEN <<>> ELSE log[at].history]
    <3>2. base = [NothingRead EXCEPT !.history = IF at = 0 THEN <<>> ELSE log'[at].history]
      BY <3>1
    <3>3. ReadTail(log) = ReadFrom(base, log, at) /\ ReadTail(log') = ReadFrom(base, log', at)
      BY <1>3, <2>1, <3>2 DEF ReadTail
    <3> HIDE DEF base, at
    <3>4. ReadTail(log') = Apply(ReadTail(log), e)
      BY <1>1, <1>3, <3>3, ReadOneMore
    <3>5. ReadTail(log) \in Replayed /\ SameTalk(replay, ReadTail(log))
      BY DEF ReadInv
    <3>6. /\ Apply(ReadTail(log), e) \in Replayed
          /\ SameTalk(Apply(replay, e), Apply(ReadTail(log), e))
      BY <1>1, <3>5, ApplyTalk, ApplyType
    <3>7. QED
      BY <1>1, <3>4, <3>6
  <2>2. CASE IsBaseline(e)
    <3>1. e.ev = "Rewound" /\ e.conversation /\ e.history \in Seq(Message)
      BY <2>2, EventFields DEF IsBaseline
    <3>2. /\ Len(log') = Len(log) + 1 /\ log' \in Seq(Event)
          /\ log'[Len(log) + 1] = e /\ Len(log) + 1 # 0
      BY <1>1
    <3> DEFINE base == [NothingRead EXCEPT !.history = e.history]
    <3>3. ReadTail(log') = ReadFrom(base, log', Len(log'))
      BY <1>3, <2>2, <3>2 DEF ReadTail
    <3>4. ReadTail(log') = base
      BY <3>2, <3>3, ReadNothing
    <3>5. base \in Replayed /\ base.history = e.history /\ base.results = <<>>
      BY <3>1, EmptyTypes DEF NothingRead, Replayed
    <3>6. replay' = [Heard(replay, e.history)
                      EXCEPT !.snapshots = RetainBelow(@, UserCount(e.history))]
      BY <1>1, <3>1 DEF Apply, SayEvents
    <3>7. replay'.history = e.history /\ replay'.results = <<>>
      BY <1>1, <3>6 DEF Heard, Replayed
    <3>8. QED
      BY <3>4, <3>5, <3>7 DEF SameTalk
  <2>3. QED
    BY <2>1, <2>2
<1>5. QED
  BY <1>2, <1>4 DEF ReadInv

\* Every step appends an event, or leaves the log as it is.
LEMMA LogSteps ==
  ASSUME TypeOK, BatchOK, [Next]_vars
  PROVE  UNCHANGED disk \/ \E e \in Event : Log(e)
<1> USE DEF disk
<1>0. /\ history \in Seq(Message) /\ calls \in Seq(CallId) /\ turn \in Nat /\ done \in Nat
      /\ UserCount(history) \in Nat
  BY UserCountType DEF TypeOK
<1>1. CASE StartTurn
  BY <1>0, <1>1, EventTypes, MessageTypes DEF StartTurn, SayEvents
<1>2. CASE Compact
  BY <1>0, <1>2, EventTypes, MessageTypes, TurnLoopAssumption DEF Compact, Retained
<1>3. CASE AddContext
  BY <1>0, <1>3, EventTypes, MessageTypes DEF AddContext, SayEvents
<1>4. CASE Request
  BY <1>4, EventTypes DEF Request, PlainEvents
<1>5. CASE Respond
  BY <1>0, <1>5, EventTypes, MessageTypes DEF Respond, SayEvents
<1>6. CASE BeginCall
  BY <1>0, <1>6, EventTypes DEF BeginCall
<1>7. CASE TakeSnapshot
  <2>1. Here \in Nat
    BY <1>0 DEF Here
  <2>2. QED
    BY <1>0, <1>7, <2>1, EventTypes DEF TakeSnapshot
<1>8. CASE EndCall
  <2>1. calls[done + 1] \in CallId
    BY <1>0, <1>8 DEF EndCall, BatchOK, InBatch
  <2>2. QED
    BY <1>8, <2>1, EventTypes DEF EndCall
<1>9. CASE EndTurn \/ FailTurn \/ Resume
  BY <1>9, EventTypes DEF EndTurn, FailTurn, Resume, PlainEvents
<1>10. ASSUME NEW at \in 1..Len(history), NEW conversation \in BOOLEAN,
              Rewind(at, conversation)
       PROVE  UNCHANGED disk \/ \E e \in Event : Log(e)
  <2>1. SubSeq(history, 1, at - 1) \in Seq(Message)
    BY <1>0
  <2>2. QED
    BY <1>10, <2>1, EventTypes DEF Rewind
<1>11. CASE \/ StartFails \/ SkipCompaction \/ StreamCall \/ StreamFails \/ AppendFails
            \/ Cancel \/ Die \/ UNCHANGED vars
  BY <1>11 DEF StartFails, SkipCompaction, StreamCall, StreamFails, AppendFails, Cancel, Die,
               vars
<1>12. QED
  BY <1>1, <1>2, <1>3, <1>4, <1>5, <1>6, <1>7, <1>8, <1>9, <1>10, <1>11
     DEF Next, TurnStep, BetweenTurns, CompactBeforeTurn, CompactNow

LEMMA ReadStep == TypeOK /\ BatchOK /\ ReadInv /\ [Next]_vars => ReadInv'
<1> SUFFICES ASSUME TypeOK, BatchOK, ReadInv, [Next]_vars PROVE ReadInv'
  OBVIOUS
<1>1. CASE UNCHANGED disk
  BY <1>1 DEF disk, ReadInv
<1>2. ASSUME NEW e \in Event, Log(e) PROVE ReadInv'
  BY <1>2, ReadLog
<1>3. QED
  BY <1>1, <1>2, LogSteps

\* Nothing is lost in a log that grows without bound: in every run, started from its
\* last baseline or folded from its first event, the whole file gives what the reader
\* carried beside it holds, the history in the one case, the snapshots in the other.
\* The other theorems speak of that reader, and so of the file.
THEOREM WholeLogIsRead == Spec => []ReplayIsLog
<1>1. ReadInv => ReplayIsLog
  BY DEF ReadInv, SameTalk, ReplayIsLog, HistoryFromLog, SnapshotsFromLog, Flush
<1>2. TurnInv /\ ReadInv /\ [Next]_vars => (TurnInv /\ ReadInv)'
  BY TurnInvStep, ReadStep DEF TurnInv
<1>3. QED
  BY <1>1, <1>2, ReadInit, TurnInvInit, PTL DEF Spec

-----------------------------------------------------------------------------
(* Walking a log cell by cell *)

\* What holds at one place, and at each place if it does at the one before,
\* holds from there on.
LEMMA UpTo ==
  ASSUME NEW from \in Nat, NEW to \in Nat, NEW T,
         from \in T, \A n \in (from + 1)..to : n - 1 \in T => n \in T
  PROVE  from..to \subseteq T
<1> DEFINE Out == {n \in from..to : n \notin T}
<1>1. SUFFICES ASSUME Out # {} PROVE FALSE
  OBVIOUS
<1>2. PICK n \in Out : \A k \in Out : n <= k
  <2>1. Out \subseteq Nat
    OBVIOUS
  <2> HIDE DEF Out
  <2>2. QED
    BY <1>1, <2>1, LeastNumber
<1>3. n \in (from + 1)..to /\ n \notin T
  BY <1>2
<1>4. n - 1 \in from..to /\ n - 1 \notin Out
  BY <1>2, <1>3
<1>5. QED
  BY <1>3, <1>4

\* A walk through S by the steps of R.
Walks(r, S, base, from, to, R) ==
  /\ r \in [from..to -> S]
  /\ r[from] = base
  /\ \A n \in (from + 1)..to : <<n, r[n - 1], r[n]>> \in R

\* A walk that can go on from wherever it can be goes all the way.
LEMMA WalkExists ==
  ASSUME NEW S, NEW base \in S, NEW from \in Nat, NEW to \in Nat, from <= to, NEW R,
         \A n \in (from + 1)..to, x \in S : \E y \in S : <<n, x, y>> \in R
  PROVE  \E r : Walks(r, S, base, from, to, R)
<1> DEFINE Walk(r, end) == /\ r \in [from..end -> S]
                           /\ r[from] = base
                           /\ \A n \in (from + 1)..end : <<n, r[n - 1], r[n]>> \in R
           T == {n \in from..to : \E r : Walk(r, n)}
<1>1. from \in T
  <2>1. Walk([n \in from..from |-> base], from)
    OBVIOUS
  <2>2. from \in from..to
    OBVIOUS
  <2>3. QED
    BY <2>1, <2>2
<1>2. ASSUME NEW n \in (from + 1)..to, n - 1 \in T PROVE n \in T
  <2>1. PICK q : Walk(q, n - 1)
    BY <1>2
  <2>2. n - 1 \in from..(n - 1) /\ n \in Nat /\ from \in from..(n - 1) /\ n \in from..n
    BY <1>2
  <2>3. q[n - 1] \in S
    BY <2>1, <2>2
  <2>4. PICK y \in S : <<n, q[n - 1], y>> \in R
    BY <1>2, <2>3
  <2> DEFINE r == [k \in from..n |-> IF k = n THEN y ELSE q[k]]
  <2>5. \A k \in from..(n - 1) : k \in from..n /\ k # n /\ r[k] = q[k] /\ q[k] \in S
    BY <1>2, <2>1, <2>2
  <2>6. r[n] = y
    BY <2>2
  <2>7. r \in [from..n -> S]
    <3>1. ASSUME NEW k \in from..n PROVE r[k] \in S
      <4>1. k = n \/ k \in from..(n - 1)
        BY <1>2
      <4>2. QED
        BY <2>5, <2>6, <4>1
    <3>2. QED
      BY <3>1
  <2> HIDE DEF r
  <2>8. ASSUME NEW k \in (from + 1)..n PROVE <<k, r[k - 1], r[k]>> \in R
    <3>1. CASE k = n
      BY <2>2, <2>4, <2>5, <2>6, <3>1
    <3>2. CASE k # n
      <4>1. k \in (from + 1)..(n - 1) /\ k \in from..(n - 1) /\ k - 1 \in from..(n - 1)
        BY <1>2, <3>2
      <4>2. <<k, q[k - 1], q[k]>> \in R
        BY <2>1, <4>1
      <4>3. QED
        BY <2>5, <4>1, <4>2
    <3>3. QED
      BY <3>1, <3>2
  <2>9. r[from] = base
    BY <2>1, <2>2, <2>5
  <2>10. Walk(r, n)
    BY <2>7, <2>8, <2>9
  <2> HIDE DEF Walk
  <2>11. QED
    BY <1>2, <2>10
<1>3. from..to \subseteq T
  <2> HIDE DEF T
  <2>1. QED
    BY <1>1, <1>2, UpTo
<1>4. to \in from..to
  OBVIOUS
<1>5. PICK r : Walk(r, to)
  BY <1>3, <1>4
<1>6. QED
  BY <1>5 DEF Walks

-----------------------------------------------------------------------------
(* The folds of a log *)

\* What SessionMeta::fold has made of a log at every place, where `ks` are the kinds of
\* its events.
AppliedIn(ks, m, id, at) ==
  [m EXCEPT !.seen = Append(@, id), !.baseline = IF ks[id] = "Rewound" THEN at ELSE @]

FoldIn(ks, f, m, end) ==
  LET read[n \in m.scanned..end] ==
        IF n = m.scanned THEN m
        ELSE IF Parses(f, m.scanned, n) THEN AppliedIn(ks, read[n - 1], f[n].id, n - 1)
        ELSE read[n - 1]
  IN  [read[end] EXCEPT !.scanned = end]

IsFold(r, ks, f, m, end) ==
  /\ f \in Seq(Cell) /\ m \in Meta /\ end \in m.scanned..Len(f)
  /\ r \in [m.scanned..end -> Meta]
  /\ r[m.scanned] = m
  /\ \A n \in (m.scanned + 1)..end :
       r[n] = IF Parses(f, m.scanned, n) THEN AppliedIn(ks, r[n - 1], f[n].id, n - 1)
              ELSE r[n - 1]

\* A summary that has been brought up to `end`.
Ending(m, end) == [m EXCEPT !.scanned = end]

\* The fold of the model, as a function of the kinds too.
LEMMA FoldToIsFoldIn ==
  ASSUME NEW f, NEW m, NEW end
  PROVE  FoldTo(f, m, end) = FoldIn(kinds, f, m, end)
BY DEF FoldTo, FoldIn, Applied, AppliedIn

\* What is at a place of a log is a cell.
LEMMA CellAt ==
  ASSUME NEW f \in Seq(Cell), NEW i \in 1..Len(f)
  PROVE  f[i] \in Cell /\ f[i].id \in 1..MaxLines /\ f[i].part \in 1..4
<1>1. f[i] \in Cell
  OBVIOUS
<1>2. QED
  BY <1>1 DEF Cell, NewLine

\* An applied event leaves a summary.
LEMMA AppliedType ==
  ASSUME NEW ks, NEW m \in Meta, NEW id \in 1..MaxLines, NEW at \in Nat
  PROVE  AppliedIn(ks, m, id, at) \in Meta
<1>1. m.seen \in Seq(1..MaxLines) /\ m.baseline \in Nat /\ m.scanned \in Nat
  BY DEF Meta
<1>2. Append(m.seen, id) \in Seq(1..MaxLines)
  BY <1>1
<1>3. m = [seen |-> m.seen, baseline |-> m.baseline, scanned |-> m.scanned]
  BY DEF Meta
<1> DEFINE base == IF ks[id] = "Rewound" THEN at ELSE m.baseline
<1>4. base \in Nat
  BY <1>1
<1> HIDE DEF base
<1>5. AppliedIn(ks, m, id, at) = [m EXCEPT !.seen = Append(@, id), !.baseline = base]
  BY DEF AppliedIn, base
<1> DEFINE more == Append(m.seen, id)
<1>6. more \in Seq(1..MaxLines) /\ AppliedIn(ks, m, id, at) = [m EXCEPT !.seen = more, !.baseline = base]
  BY <1>2, <1>5
<1> HIDE DEF more
<1>7. QED
  BY <1>3, <1>4, <1>6 DEF Meta

\* What an applied event changes of a summary.
LEMMA AppliedFields ==
  ASSUME NEW ks, NEW m \in Meta, NEW id, NEW at
  PROVE  /\ AppliedIn(ks, m, id, at).seen = Append(m.seen, id)
         /\ ks[id] = "Rewound" => AppliedIn(ks, m, id, at).baseline = at
         /\ ks[id] # "Rewound" => AppliedIn(ks, m, id, at).baseline = m.baseline
         /\ AppliedIn(ks, m, id, at).scanned = m.scanned
<1> DEFINE base == IF ks[id] = "Rewound" THEN at ELSE m.baseline
           more == Append(m.seen, id)
<1>1. m = [seen |-> m.seen, baseline |-> m.baseline, scanned |-> m.scanned]
  BY DEF Meta
<1>2. AppliedIn(ks, m, id, at) = [m EXCEPT !.seen = more, !.baseline = base]
  BY DEF AppliedIn
<1>3. /\ AppliedIn(ks, m, id, at).seen = more /\ AppliedIn(ks, m, id, at).baseline = base
      /\ AppliedIn(ks, m, id, at).scanned = m.scanned
  <2> HIDE DEF more, base
  <2>1. QED
    BY <1>1, <1>2
<1>4. QED
  BY <1>3

\* The event is the last one seen.
LEMMA AppliedSeen ==
  ASSUME NEW ks, NEW m \in Meta, NEW id, NEW at
  PROVE  AppliedIn(ks, m, id, at).seen = Append(m.seen, id)
<1> DEFINE base == IF ks[id] = "Rewound" THEN at ELSE m.baseline
           more == Append(m.seen, id)
<1>1. m = [seen |-> m.seen, baseline |-> m.baseline, scanned |-> m.scanned]
  BY DEF Meta
<1>2. AppliedIn(ks, m, id, at) = [m EXCEPT !.seen = more, !.baseline = base]
  BY DEF AppliedIn
<1>3. AppliedIn(ks, m, id, at).seen = more
  <2> HIDE DEF more, base
  <2>1. QED
    BY <1>1, <1>2
<1>4. QED
  BY <1>3

\* Summaries that are alike but for where they stop stay so as an event is applied.
LEMMA AppliedAlike ==
  ASSUME NEW ks, NEW kt, NEW m \in Meta, NEW n \in Meta, NEW id, NEW at,
         m.seen = n.seen, m.baseline = n.baseline, ks[id] = kt[id]
  PROVE  /\ AppliedIn(ks, m, id, at).seen = AppliedIn(kt, n, id, at).seen
         /\ AppliedIn(ks, m, id, at).baseline = AppliedIn(kt, n, id, at).baseline
<1>1. /\ AppliedIn(ks, m, id, at).seen = Append(m.seen, id)
      /\ ks[id] = "Rewound" => AppliedIn(ks, m, id, at).baseline = at
      /\ ks[id] # "Rewound" => AppliedIn(ks, m, id, at).baseline = m.baseline
  BY AppliedFields
<1>2. /\ AppliedIn(kt, n, id, at).seen = Append(n.seen, id)
      /\ kt[id] = "Rewound" => AppliedIn(kt, n, id, at).baseline = at
      /\ kt[id] # "Rewound" => AppliedIn(kt, n, id, at).baseline = n.baseline
  BY AppliedFields
<1>3. QED
  BY <1>1, <1>2

\* The fold exists, whatever the log, and it is the one FoldIn answers from.
LEMMA FoldExists ==
  ASSUME NEW ks, NEW f \in Seq(Cell), NEW m \in Meta, NEW end \in m.scanned..Len(f)
  PROVE  \E r : /\ IsFold(r, ks, f, m, end)
                /\ FoldIn(ks, f, m, end) = Ending(r[end], end)
<1> DEFINE from == m.scanned
           Goes(n, x) == IF Parses(f, from, n) THEN AppliedIn(ks, x, f[n].id, n - 1) ELSE x
           R == {<<n, x, Goes(n, x)>> : n \in (from + 1)..end, x \in Meta}
<1>1. from \in Nat /\ end \in Nat /\ from <= end
  BY DEF Meta
<1>2. \A n \in (from + 1)..end, x \in Meta : \E y \in Meta : <<n, x, y>> \in R
  <2>1. ASSUME NEW n \in (from + 1)..end, NEW x \in Meta
        PROVE  AppliedIn(ks, x, f[n].id, n - 1) \in Meta
    <3>1. n \in 1..Len(f) /\ n - 1 \in Nat
      BY <1>1
    <3>2. f[n].id \in 1..MaxLines
      BY <3>1, CellAt
    <3>3. QED
      BY <3>1, <3>2, AppliedType
  <2>2. QED
    BY <2>1
<1>3. PICK r : Walks(r, Meta, m, from, end, R)
  <2> HIDE DEF R, from
  <2>1. QED
    BY <1>1, <1>2, WalkExists
<1>4. IsFold(r, ks, f, m, end)
  <2>1. ASSUME NEW n \in (from + 1)..end
        PROVE  r[n] = IF Parses(f, from, n) THEN AppliedIn(ks, r[n - 1], f[n].id, n - 1)
                      ELSE r[n - 1]
    <3>1. r[n - 1] \in Meta
      BY <1>1, <1>3 DEF Walks
    <3>2. <<n, r[n - 1], r[n]>> \in R
      BY <1>3 DEF Walks
    <3>3. QED
      BY <3>1, <3>2
  <2>2. QED
    BY <1>3, <2>1 DEF IsFold, Walks
<1> DEFINE Reads(q) == q = [n \in from..end |->
                IF n = from THEN m
                ELSE IF Parses(f, from, n) THEN AppliedIn(ks, q[n - 1], f[n].id, n - 1)
                ELSE q[n - 1]]
<1>5. Reads(r)
  <2>1. ASSUME NEW n \in from..end
        PROVE  r[n] = IF n = from THEN m
                      ELSE IF Parses(f, from, n) THEN AppliedIn(ks, r[n - 1], f[n].id, n - 1)
                      ELSE r[n - 1]
    <3>1. n = from \/ n \in (from + 1)..end
      BY <1>1
    <3>2. QED
      BY <1>4, <3>1 DEF IsFold
  <2>2. r = [n \in from..end |-> r[n]]
    BY <1>3 DEF Walks
  <2>3. QED
    BY <2>1, <2>2, Zenon
<1> DEFINE q == CHOOSE q : Reads(q)
<1>6. Reads(q)
  <2> HIDE DEF Reads
  <2>1. QED
    BY <1>5
<1>7. FoldIn(ks, f, m, end) = Ending(q[end], end)
  BY DEF FoldIn, Ending
<1> HIDE DEF q
<1>8. q[end] = r[end]
  <2> DEFINE T == {n \in from..end : q[n] = r[n]}
  <2>1. from \in T
    BY <1>1, <1>5, <1>6
  <2>2. ASSUME NEW n \in (from + 1)..end, n - 1 \in T PROVE n \in T
    <3>1. n \in from..end /\ n # from
      BY <1>1
    <3>2. QED
      BY <1>5, <1>6, <2>2, <3>1
  <2> HIDE DEF T
  <2>3. from..end \subseteq T
    BY <1>1, <2>1, <2>2, UpTo
  <2>4. end \in T
    BY <1>1, <2>3
  <2>5. QED
    BY <2>4 DEF T
<1>9. QED
  BY <1>4, <1>7, <1>8

IsRead(r, f, from) ==
  /\ r \in [from..Len(f) -> Seq(1..MaxLines)]
  /\ r[from] = <<>>
  /\ \A n \in (from + 1)..Len(f) :
       r[n] = IF Parses(f, from, n) THEN Append(r[n - 1], f[n].id) ELSE r[n - 1]

\* The events of a log, from any place of it.
LEMMA ReadExists ==
  ASSUME NEW f \in Seq(Cell), NEW from \in 0..Len(f)
  PROVE  \E r : IsRead(r, f, from) /\ ReadLogFrom(f, from) = r[Len(f)]
<1> DEFINE end == Len(f)
           Ids == Seq(1..MaxLines)
           Goes(n, x) == IF Parses(f, from, n) THEN Append(x, f[n].id) ELSE x
           R == {<<n, x, Goes(n, x)>> : n \in (from + 1)..end, x \in Ids}
<1>1. from \in Nat /\ end \in Nat /\ from <= end /\ <<>> \in Ids
  OBVIOUS
<1>2. \A n \in (from + 1)..end, x \in Ids : \E y \in Ids : <<n, x, y>> \in R
  <2>1. ASSUME NEW n \in (from + 1)..end, NEW x \in Ids PROVE Append(x, f[n].id) \in Ids
    <3>1. n \in 1..Len(f)
      BY <1>1
    <3>2. f[n].id \in 1..MaxLines
      BY <3>1, CellAt
    <3>3. QED
      BY <3>2
  <2>2. \A n \in (from + 1)..end, x \in Ids : Goes(n, x) \in Ids
    BY <2>1
  <2> HIDE DEF Goes, Ids
  <2>3. \A n \in (from + 1)..end, x \in Ids : <<n, x, Goes(n, x)>> \in R
    OBVIOUS
  <2> HIDE DEF R
  <2>4. QED
    BY <2>2, <2>3
<1>3. PICK r : Walks(r, Ids, <<>>, from, end, R)
  <2> HIDE DEF R, end, Ids
  <2>1. QED
    BY <1>1, <1>2, WalkExists
<1>4. IsRead(r, f, from)
  <2>1. ASSUME NEW n \in (from + 1)..end
        PROVE  r[n] = IF Parses(f, from, n) THEN Append(r[n - 1], f[n].id) ELSE r[n - 1]
    <3>1. r[n - 1] \in Ids
      BY <1>1, <1>3 DEF Walks
    <3>2. <<n, r[n - 1], r[n]>> \in R
      <4> HIDE DEF R
      <4>1. QED
        BY <1>3 DEF Walks
    <3>3. QED
      <4> HIDE DEF Ids
      <4>1. QED
        BY <3>1, <3>2
  <2>2. QED
    BY <1>3, <2>1 DEF IsRead, Walks
<1> DEFINE Reads(q) == q = [n \in from..end |->
                IF n = from THEN <<>>
                ELSE IF Parses(f, from, n) THEN Append(q[n - 1], f[n].id) ELSE q[n - 1]]
<1>5. Reads(r)
  <2>1. ASSUME NEW n \in from..end
        PROVE  r[n] = IF n = from THEN <<>>
                      ELSE IF Parses(f, from, n) THEN Append(r[n - 1], f[n].id)
                      ELSE r[n - 1]
    <3>1. n = from \/ n \in (from + 1)..end
      BY <1>1
    <3>2. QED
      BY <1>4, <3>1 DEF IsRead
  <2>2. r = [n \in from..end |-> r[n]]
    BY <1>3 DEF Walks
  <2>3. QED
    BY <2>1, <2>2, Zenon
<1> DEFINE q == CHOOSE q : Reads(q)
<1>6. Reads(q)
  <2> HIDE DEF Reads
  <2>1. QED
    BY <1>5
<1>7. ReadLogFrom(f, from) = q[end]
  BY DEF ReadLogFrom
<1> HIDE DEF q
<1>8. q[end] = r[end]
  <2> DEFINE T == {n \in from..end : q[n] = r[n]}
  <2>1. from \in T
    BY <1>1, <1>5, <1>6
  <2>2. ASSUME NEW n \in (from + 1)..end, n - 1 \in T PROVE n \in T
    <3>1. n \in from..end /\ n # from
      BY <1>1
    <3>2. QED
      BY <1>5, <1>6, <2>2, <3>1
  <2> HIDE DEF T
  <2>3. from..end \subseteq T
    BY <1>1, <2>1, <2>2, UpTo
  <2>4. end \in T
    BY <1>1, <2>3
  <2>5. QED
    BY <2>4 DEF T
<1>9. QED
  BY <1>4, <1>7, <1>8

-----------------------------------------------------------------------------
(* The shape of a log *)

\* Every cell follows those of its line before it, and no cell is written twice; the
\* events are the first n.
Shaped(f, n) ==
  /\ \A i \in DOMAIN f :
       /\ f[i].id <= n
       /\ f[i].part # 1 => i > 1 /\ f[i - 1] = [id |-> f[i].id, part |-> f[i].part - 1]
  /\ \A i, j \in DOMAIN f : f[i] = f[j] => i = j

\* The places where a line stops before its newline.
Torn(f) == {i \in DOMAIN f : f[i].part # NewLine /\ (i = Len(f) \/ f[i + 1].part = 1)}

Unended(f) == f # <<>> /\ f[Len(f)].part # NewLine

\* A place where a line may begin.
Starts(f) == {0} \cup Ends(f)

Whole(f, id) == \E e \in Ends(f) : f[e].id = id

\* The places of the newlines of a log.
LEMMA EndsAre ==
  ASSUME NEW f \in Seq(Cell)
  PROVE  /\ \A i : i \in Ends(f) <=> i \in 1..Len(f) /\ f[i].part = 4
         /\ Starts(f) \subseteq 0..Len(f)
         /\ DOMAIN f = 1..Len(f) /\ Len(f) \in Nat
BY DEF Ends, Starts, NewLine

\* The cells of a line before one of them.
LEMMA LineBefore ==
  ASSUME NEW f \in Seq(Cell), NEW n \in Nat, Shaped(f, n), NEW i \in 1..Len(f)
  PROVE  /\ f[i].part >= 2 => i - 1 \in 1..Len(f) /\ f[i - 1] = [id |-> f[i].id, part |-> f[i].part - 1]
         /\ f[i].part >= 3 => i - 2 \in 1..Len(f) /\ f[i - 2] = [id |-> f[i].id, part |-> f[i].part - 2]
         /\ f[i].part = 4 => i - 3 \in 1..Len(f) /\ f[i - 3] = [id |-> f[i].id, part |-> 1]
<1>1. \A j \in 1..Len(f) : f[j].part \in 1..4 /\ f[j].id \in 1..MaxLines
  BY CellAt
<1>2. \A j \in 1..Len(f) : f[j].part >= 2 =>
        j - 1 \in 1..Len(f) /\ f[j - 1] = [id |-> f[j].id, part |-> f[j].part - 1]
  BY <1>1 DEF Shaped
<1>3. f[i].part >= 2 => i - 1 \in 1..Len(f) /\ f[i - 1].id = f[i].id /\ f[i - 1].part = f[i].part - 1
  <2>1. f[i].part >= 2 => i - 1 \in 1..Len(f) /\ f[i - 1] = [id |-> f[i].id, part |-> f[i].part - 1]
    BY <1>2
  <2>2. QED
    BY <2>1
<1>4. f[i].part >= 3 =>
        /\ i - 1 - 1 \in 1..Len(f)
        /\ f[i - 1 - 1] = [id |-> f[i].id, part |-> f[i].part - 1 - 1]
  BY <1>1, <1>2, <1>3
<1>5. i - 1 - 1 = i - 2 /\ f[i].part - 1 - 1 = f[i].part - 2
  BY <1>1
<1>6. f[i].part >= 3 => i - 2 \in 1..Len(f) /\ f[i - 2] = [id |-> f[i].id, part |-> f[i].part - 2]
  BY <1>4, <1>5
<1>7. f[i].part = 4 => i - 2 \in 1..Len(f) /\ f[i - 2].id = f[i].id /\ f[i - 2].part = 2
  BY <1>1, <1>6
<1>8. f[i].part = 4 => i - 2 - 1 \in 1..Len(f) /\ f[i - 2 - 1] = [id |-> f[i].id, part |-> 2 - 1]
  BY <1>2, <1>7
<1>9. i - 2 - 1 = i - 3 /\ 2 - 1 = 1
  OBVIOUS
<1>10. QED
  BY <1>2, <1>6, <1>8, <1>9

\* The text of a line begins here, and its newline follows if anything does.
LineAt(f, i) ==
  /\ i + 2 <= Len(f)
  /\ f[i].part = 1
  /\ f[i + 1] = [id |-> f[i].id, part |-> 2]
  /\ f[i + 2] = [id |-> f[i].id, part |-> 3]
  /\ i + 3 <= Len(f) => f[i + 3].part = 4

\* A line is read where one may begin and its text is whole.
LEMMA ParsesMeans ==
  ASSUME NEW f \in Seq(Cell), NEW from \in Nat, NEW i \in (from + 1)..Len(f)
  PROVE  Parses(f, from, i) <=> (i = from + 1 \/ i - 1 \in Ends(f)) /\ LineAt(f, i)
<1> DEFINE id == f[i].id
<1>1. i \in 1..Len(f)
  OBVIOUS
<1>2. f[i] \in Cell
  BY <1>1, CellAt
<1>3. Line(id)[1] = [id |-> id, part |-> 1] /\ Line(id)[2] = [id |-> id, part |-> 2]
      /\ Line(id)[3] = [id |-> id, part |-> 3]
  BY DEF Line, NewLine
<1>4. (\A k \in 1..(NewLine - 1) : f[i + k - 1] = Line(id)[k]) <=>
        f[i] = Line(id)[1] /\ f[i + 1] = Line(id)[2] /\ f[i + 2] = Line(id)[3]
  <2>1. \A k : k \in 1..(NewLine - 1) <=> k \in {1, 2, 3}
    BY DEF NewLine
  <2>2. i + 1 - 1 = i /\ i + 2 - 1 = i + 1 /\ i + 3 - 1 = i + 2
    OBVIOUS
  <2>3. QED
    BY <2>1, <2>2
<1>5. f[i] = [id |-> id, part |-> 1] <=> f[i].part = 1
  BY <1>2 DEF Cell
<1>6. i + NewLine - 2 = i + 2 /\ i + NewLine - 1 = i + 3
  BY DEF NewLine
<1>7. i + 3 <= Len(f) => (i + 3 \in Ends(f) <=> f[i + 3].part = 4)
  BY EndsAre
<1> HIDE DEF id
<1>8. Parses(f, from, i) <=>
           /\ i = from + 1 \/ i - 1 \in Ends(f)
           /\ i + 2 <= Len(f)
           /\ \A k \in 1..(NewLine - 1) : f[i + k - 1] = Line(id)[k]
           /\ i + 3 <= Len(f) => i + 3 \in Ends(f)
  BY <1>6 DEF Parses, id
<1>9. QED
  BY <1>3, <1>4, <1>5, <1>7, <1>8 DEF id, LineAt

\* Where a line ends is told by the cells up to there.
LEMMA ParsesKept ==
  ASSUME NEW f \in Seq(Cell), NEW g \in Seq(Cell), NEW a \in Starts(f), a <= Len(g),
         \A i \in 1..a : f[i] = g[i], NEW n \in 1..a
  PROVE  Parses(f, 0, n) <=> Parses(g, 0, n)
<1>1. a \in 1..Len(f) /\ a \in 1..Len(g) /\ f[a].part = 4 /\ g[a].part = 4
  BY EndsAre DEF Starts
<1>2. n \in 1..Len(f) /\ n \in 1..Len(g) /\ f[n] = g[n]
  BY <1>1
<1>3. n - 1 \in Ends(f) <=> n - 1 \in Ends(g)
  BY <1>1, EndsAre
<1>4. /\ f[n].part = 1 => n # a
      /\ n + 1 <= a => f[n + 1] = g[n + 1]
      /\ n + 2 <= a => f[n + 2] = g[n + 2]
      /\ n + 3 <= a => f[n + 3] = g[n + 3]
  BY <1>1
<1>5. (f[n + 1].part = 2 => n + 1 # a) /\ (f[n + 2].part = 3 => n + 2 # a)
      /\ (g[n + 1].part = 2 => n + 1 # a) /\ (g[n + 2].part = 3 => n + 2 # a)
  BY <1>1
<1>6. LineAt(f, n) <=> LineAt(g, n)
  BY <1>1, <1>2, <1>4, <1>5 DEF LineAt
<1>7. n \in (0 + 1)..Len(f) /\ n \in (0 + 1)..Len(g)
  BY <1>2
<1>8. QED
  BY <1>3, <1>6, <1>7, ParsesMeans

\* Beginning where a line may begin, the reader sees the lines that are there.
LEMMA ParsesFrom ==
  ASSUME NEW f \in Seq(Cell), NEW a \in Starts(f), NEW n \in (a + 1)..Len(f)
  PROVE  Parses(f, a, n) <=> Parses(f, 0, n)
<1>1. a \in 0..Len(f) /\ n \in 1..Len(f)
  BY EndsAre
<1>2. (n = a + 1 \/ n - 1 \in Ends(f)) <=> (n = 0 + 1 \/ n - 1 \in Ends(f))
  BY <1>1, EndsAre DEF Starts
<1>3. QED
  BY <1>2 DEF Parses

-----------------------------------------------------------------------------
(* Folds of a log taken in two, and of a log that grew or was cut *)

\* The empty summary.
LEMMA NewMetaType == NewMeta \in Meta /\ NewMeta.scanned = 0 /\ NewMeta.baseline = 0 /\ NewMeta.seen = <<>>
<1>1. <<>> \in Seq(1..MaxLines)
  OBVIOUS
<1>2. QED
  BY <1>1 DEF NewMeta, Meta

\* A summary told to stop elsewhere is the same but for that.
LEMMA MetaAt ==
  ASSUME NEW m \in Meta, NEW n \in Meta, NEW end \in Nat
  PROVE  /\ Ending(m, end) \in Meta
         /\ Ending(m, end).scanned = end
         /\ Ending(m, end).seen = m.seen
         /\ Ending(m, end).baseline = m.baseline
         /\ m.seen = n.seen /\ m.baseline = n.baseline
              => Ending(m, end) = Ending(n, end)
         /\ m.scanned = end => Ending(m, end) = m
<1>1. m = [seen |-> m.seen, baseline |-> m.baseline, scanned |-> m.scanned]
  BY DEF Meta
<1>2. n = [seen |-> n.seen, baseline |-> n.baseline, scanned |-> n.scanned]
  BY DEF Meta
<1>3. Ending(m, end) = [seen |-> m.seen, baseline |-> m.baseline, scanned |-> end]
  BY <1>1 DEF Ending
<1>4. Ending(n, end) = [seen |-> n.seen, baseline |-> n.baseline, scanned |-> end]
  BY <1>2 DEF Ending
<1>5. m.seen \in Seq(1..MaxLines) /\ m.baseline \in Nat
  BY DEF Meta
<1>6. Ending(m, end) \in Meta
  BY <1>3, <1>5 DEF Meta
<1>7. QED
  BY <1>1, <1>3, <1>4, <1>6

\* From `c` on, up to `to`, the same lines are seen in two logs.
SameLines(ks, f, a, kt, g, b, c, to) ==
  \A i \in (c + 1)..to : /\ Parses(f, a, i) <=> Parses(g, b, i)
                         /\ f[i] = g[i] /\ ks[f[i].id] = kt[f[i].id]

\* Two folds that are alike at one place, and see the same lines from there, stay alike.
LEMMA FoldsAgree ==
  ASSUME NEW ks, NEW f, NEW m, NEW e, NEW r, IsFold(r, ks, f, m, e),
         NEW kt, NEW g, NEW n, NEW d, NEW q, IsFold(q, kt, g, n, d),
         NEW c \in Nat, NEW to \in Nat, c <= to, to <= e, to <= d,
         m.scanned <= c, n.scanned <= c,
         r[c].seen = q[c].seen, r[c].baseline = q[c].baseline,
         SameLines(ks, f, m.scanned, kt, g, n.scanned, c, to)
  PROVE  Ending(r[to], to) = Ending(q[to], to)
<1> /\ f \in Seq(Cell) /\ m \in Meta /\ e \in m.scanned..Len(f)
    /\ g \in Seq(Cell) /\ n \in Meta /\ d \in n.scanned..Len(g)
  BY DEF IsFold
<1>1. m.scanned \in Nat /\ n.scanned \in Nat /\ e \in Nat /\ d \in Nat
  BY DEF Meta
<1>2. \A i \in c..to : r[i] \in Meta /\ q[i] \in Meta
  <2>1. r \in [m.scanned..e -> Meta] /\ q \in [n.scanned..d -> Meta]
    BY DEF IsFold
  <2>2. \A i \in c..to : i \in m.scanned..e /\ i \in n.scanned..d
    BY <1>1
  <2>3. QED
    BY <2>1, <2>2
<1> DEFINE T == {i \in c..to : r[i].seen = q[i].seen /\ r[i].baseline = q[i].baseline}
<1>3. c \in T
  OBVIOUS
<1>4. ASSUME NEW i \in (c + 1)..to, i - 1 \in T PROVE i \in T
  <2>1. /\ i \in (m.scanned + 1)..e /\ i \in (n.scanned + 1)..d /\ i \in 1..Len(f)
        /\ i - 1 \in c..to /\ i \in c..to /\ i - 1 \in Nat
    BY <1>1
  <2>2. f[i].id \in 1..MaxLines /\ f[i] = g[i] /\ ks[f[i].id] = kt[f[i].id]
    BY <2>1, CellAt DEF SameLines
  <2>3. /\ r[i - 1] \in Meta /\ q[i - 1] \in Meta
        /\ r[i - 1].seen = q[i - 1].seen /\ r[i - 1].baseline = q[i - 1].baseline
    BY <1>2, <1>4, <2>1
  <2>4. r[i] = IF Parses(f, m.scanned, i) THEN AppliedIn(ks, r[i - 1], f[i].id, i - 1)
               ELSE r[i - 1]
    BY <2>1 DEF IsFold
  <2>5. q[i] = IF Parses(g, n.scanned, i) THEN AppliedIn(kt, q[i - 1], g[i].id, i - 1)
               ELSE q[i - 1]
    BY <2>1 DEF IsFold
  <2>6. Parses(f, m.scanned, i) <=> Parses(g, n.scanned, i)
    BY DEF SameLines
  <2>7. CASE Parses(f, m.scanned, i)
    <3>1. r[i] = AppliedIn(ks, r[i - 1], f[i].id, i - 1) /\ q[i] = AppliedIn(kt, q[i - 1], f[i].id, i - 1)
      BY <2>2, <2>4, <2>5, <2>6, <2>7
    <3>2. r[i - 1] \in Meta /\ q[i - 1] \in Meta /\ f[i].id \in 1..MaxLines /\ i - 1 \in Nat
      BY <2>1, <2>2, <2>3
    <3>3. PICK x, y, id : x = r[i - 1] /\ y = q[i - 1] /\ id = f[i].id
      OBVIOUS
    <3>4. /\ x \in Meta /\ y \in Meta /\ x.seen = y.seen /\ x.baseline = y.baseline /\ ks[id] = kt[id]
          /\ r[i] = AppliedIn(ks, x, id, i - 1) /\ q[i] = AppliedIn(kt, y, id, i - 1)
      BY <2>2, <2>3, <3>1, <3>2, <3>3
    <3>5. r[i].seen = q[i].seen /\ r[i].baseline = q[i].baseline
      BY <3>4, AppliedAlike
    <3>6. QED
      BY <2>1, <3>5
  <2>8. CASE ~Parses(f, m.scanned, i)
    BY <2>1, <2>3, <2>4, <2>5, <2>6, <2>8
  <2>9. QED
    BY <2>7, <2>8
<1>5. c..to \subseteq T
  <2> HIDE DEF T
  <2>1. QED
    BY <1>3, <1>4, UpTo
<1>6. to \in T
  BY <1>5
<1>7. QED
  BY <1>2, <1>6, MetaAt

\* On its way a fold is what it would be if it ended there.
LEMMA FoldPart ==
  ASSUME NEW ks, NEW f, NEW m, NEW e, NEW r, IsFold(r, ks, f, m, e), NEW a \in m.scanned..e
  PROVE  FoldIn(ks, f, m, a) = Ending(r[a], a)
<1> f \in Seq(Cell) /\ m \in Meta /\ e \in m.scanned..Len(f)
  BY DEF IsFold
<1>1. m.scanned \in Nat /\ a \in Nat /\ a \in m.scanned..Len(f) /\ m.scanned <= m.scanned /\ m.scanned <= a
      /\ a <= e /\ a <= a
  BY DEF Meta
<1>2. PICK q : IsFold(q, ks, f, m, a) /\ FoldIn(ks, f, m, a) = Ending(q[a], a)
  BY <1>1, FoldExists
<1>3. r[m.scanned] = q[m.scanned]
  BY <1>2 DEF IsFold
<1> SameLines(ks, f, m.scanned, ks, f, m.scanned, m.scanned, a)
  BY DEF SameLines
<1>4. Ending(r[a], a) = Ending(q[a], a)
  BY <1>1, <1>2, <1>3, FoldsAgree
<1>5. QED
  BY <1>2, <1>4

\* A fold is a summary that stops where it was told to.
LEMMA FoldType ==
  ASSUME NEW ks, NEW f \in Seq(Cell), NEW m \in Meta, NEW end \in m.scanned..Len(f)
  PROVE  /\ FoldIn(ks, f, m, end) \in Meta /\ FoldIn(ks, f, m, end).scanned = end
         /\ end = m.scanned => FoldIn(ks, f, m, end) = m
<1>1. m.scanned \in Nat /\ end \in Nat /\ end \in m.scanned..end
  BY DEF Meta
<1>2. PICK r : IsFold(r, ks, f, m, end) /\ FoldIn(ks, f, m, end) = Ending(r[end], end)
  BY FoldExists
<1>3. r[end] \in Meta /\ (end = m.scanned => r[end] = m)
  BY <1>1, <1>2 DEF IsFold
<1>4. QED
  BY <1>1, <1>2, <1>3, MetaAt

\* A summary of the log up to the end of a line does not change as more is written, or
\* as what follows is lost.
LEMMA FoldKept ==
  ASSUME NEW ks, NEW f \in Seq(Cell), NEW kt, NEW g \in Seq(Cell), NEW a \in Starts(f),
         a <= Len(g), \A i \in 1..a : f[i] = g[i] /\ ks[f[i].id] = kt[f[i].id]
  PROVE  FoldIn(ks, f, NewMeta, a) = FoldIn(kt, g, NewMeta, a)
<1> DEFINE m == NewMeta
<1>1. m \in Meta /\ m.scanned = 0 /\ a \in Nat /\ a <= Len(f)
  BY NewMetaType, EndsAre
<1> HIDE DEF m
<1>2. a \in m.scanned..Len(f) /\ a \in m.scanned..Len(g)
  BY <1>1
<1>3. PICK r : IsFold(r, ks, f, m, a) /\ FoldIn(ks, f, m, a) = Ending(r[a], a)
  BY <1>1, <1>2, FoldExists
<1>4. PICK q : IsFold(q, kt, g, m, a) /\ FoldIn(kt, g, m, a) = Ending(q[a], a)
  BY <1>1, <1>2, FoldExists
<1>5. r[0] = m /\ q[0] = m
  BY <1>1, <1>3, <1>4 DEF IsFold
<1>6. SameLines(ks, f, m.scanned, kt, g, m.scanned, 0, a)
  BY <1>1, ParsesKept DEF SameLines
<1>7. Ending(r[a], a) = Ending(q[a], a)
  <2>1. 0 \in Nat /\ 0 <= a /\ a <= a /\ m.scanned <= 0 /\ r[0].seen = q[0].seen /\ r[0].baseline = q[0].baseline
    BY <1>1, <1>5
  <2>2. QED
    BY <1>1, <1>2, <1>3, <1>4, <1>6, <2>1, FoldsAgree
<1>8. QED
  BY <1>3, <1>4, <1>7 DEF m

\* Caught up from the end of any line, the summary is that of a whole scan.
LEMMA FoldInTwo ==
  ASSUME NEW ks, NEW f \in Seq(Cell), NEW a \in Starts(f), NEW e \in a..Len(f)
  PROVE  FoldIn(ks, f, FoldIn(ks, f, NewMeta, a), e) = FoldIn(ks, f, NewMeta, e)
<1> DEFINE m == NewMeta
           n == FoldIn(ks, f, m, a)
<1>1. m \in Meta /\ m.scanned = 0 /\ a \in Nat /\ e \in Nat /\ a <= e /\ e <= Len(f) /\ Len(f) \in Nat
  BY NewMetaType, EndsAre
<1> HIDE DEF m
<1>2. a \in m.scanned..e /\ e \in m.scanned..Len(f) /\ a \in m.scanned..Len(f)
  BY <1>1
<1>3. PICK r : IsFold(r, ks, f, m, e) /\ FoldIn(ks, f, m, e) = Ending(r[e], e)
  BY <1>1, <1>2, FoldExists
<1>4. n = Ending(r[a], a)
  BY <1>1, <1>2, <1>3, FoldPart
<1>5. n \in Meta /\ n.scanned = a
  BY <1>1, <1>2, FoldType
<1>6. n.seen = r[a].seen /\ n.baseline = r[a].baseline
  <2>1. r[a] \in Meta
    BY <1>2, <1>3 DEF IsFold
  <2>2. QED
    BY <1>1, <1>4, <2>1, MetaAt
<1> HIDE DEF n
<1>7. e \in n.scanned..Len(f)
  BY <1>5
<1>8. PICK q : IsFold(q, ks, f, n, e) /\ FoldIn(ks, f, n, e) = Ending(q[e], e)
  BY <1>5, <1>7, FoldExists
<1>9. q[a] = n
  BY <1>5, <1>8 DEF IsFold
<1>10. SameLines(ks, f, m.scanned, ks, f, n.scanned, a, e)
  BY <1>1, <1>5, ParsesFrom DEF SameLines
<1>11. Ending(r[e], e) = Ending(q[e], e)
  <2>1. /\ a <= e /\ e <= e /\ m.scanned <= a /\ n.scanned <= a
        /\ r[a].seen = q[a].seen /\ r[a].baseline = q[a].baseline
    BY <1>1, <1>5, <1>6, <1>9
  <2>2. QED
    BY <1>1, <1>2, <1>3, <1>5, <1>7, <1>8, <1>10, <2>1, FoldsAgree
<1>12. QED
  BY <1>3, <1>8, <1>11 DEF m, n

-----------------------------------------------------------------------------
(* What is read *)

Covers(s, f, e) ==
  /\ \A n \in 1..e : Parses(f, 0, n) => \E k \in DOMAIN s : s[k] = f[n].id
  /\ \A k \in DOMAIN s : \E n \in 1..e : Parses(f, 0, n) /\ s[k] = f[n].id

\* A fold has seen the events of the lines it came by, and no other.
LEMMA FoldHas ==
  ASSUME NEW ks, NEW f \in Seq(Cell), NEW e \in 0..Len(f)
  PROVE  Covers(FoldIn(ks, f, NewMeta, e).seen, f, e)
<1> DEFINE m == NewMeta
           Has(s, i) == /\ \A n \in 1..i : Parses(f, 0, n) => \E k \in DOMAIN s : s[k] = f[n].id
                        /\ \A k \in DOMAIN s : \E n \in 1..i : Parses(f, 0, n) /\ s[k] = f[n].id
<1>1. m \in Meta /\ m.scanned = 0 /\ m.seen = <<>> /\ e \in Nat /\ e \in m.scanned..Len(f)
  BY NewMetaType
<1> HIDE DEF m
<1>2. PICK r : IsFold(r, ks, f, m, e) /\ FoldIn(ks, f, m, e) = Ending(r[e], e)
  BY <1>1, FoldExists
<1>3. /\ r \in [0..e -> Meta] /\ r[0] = m
      /\ \A n \in (0 + 1)..e : r[n] = IF Parses(f, 0, n)
                                     THEN AppliedIn(ks, r[n - 1], f[n].id, n - 1) ELSE r[n - 1]
  BY <1>1, <1>2 DEF IsFold
<1> DEFINE T == {n \in 0..e : Has(r[n].seen, n)}
<1>4. 0 \in T
  <2>1. DOMAIN <<>> = {}
    OBVIOUS
  <2>2. r[0].seen = <<>> /\ 1..0 = {}
    BY <1>1, <1>3
  <2>3. Has(<<>>, 0)
    BY <2>1, <2>2
  <2> HIDE DEF Has
  <2>4. QED
    BY <2>2, <2>3
<1>5. ASSUME NEW n \in (0 + 1)..e, n - 1 \in T PROVE n \in T
  <2>1. n \in 0..e /\ n - 1 \in 0..e /\ n \in 1..Len(f) /\ 1..n = 1..(n - 1) \cup {n}
    OBVIOUS
  <2>2. r[n - 1] \in Meta /\ Has(r[n - 1].seen, n - 1)
    BY <1>3, <1>5, <2>1
  <2>3. PICK s, id, x : s = r[n - 1].seen /\ id = f[n].id /\ x = r[n - 1]
    OBVIOUS
  <2>4. s \in Seq(1..MaxLines) /\ id \in 1..MaxLines /\ x \in Meta /\ x.seen = s
    BY <2>1, <2>2, <2>3, CellAt DEF Meta
  <2>5. CASE Parses(f, 0, n)
    <3>0. PICK at : at = n - 1
      OBVIOUS
    <3>1. r[n] = AppliedIn(ks, x, id, at)
      BY <1>3, <2>3, <2>5, <3>0
    <3>2. r[n].seen = Append(s, id)
      <4>1. r[n].seen = Append(x.seen, id)
        BY <2>4, <3>1, AppliedSeen
      <4>2. QED
        BY <2>4, <4>1
    <3>3. /\ DOMAIN Append(s, id) = DOMAIN s \cup {Len(s) + 1}
          /\ Append(s, id)[Len(s) + 1] = id /\ \A k \in DOMAIN s : Append(s, id)[k] = s[k]
      BY <2>4
    <3>4. Has(s, n - 1)
      BY <2>2, <2>3
    <3>5. Has(Append(s, id), n)
      <4> DEFINE t == Append(s, id)
                 last == Len(s) + 1
      <4>1. DOMAIN t = DOMAIN s \cup {last} /\ t[last] = id /\ \A k \in DOMAIN s : t[k] = s[k]
        BY <3>3
      <4> HIDE DEF t, last
      <4>2. ASSUME NEW j \in 1..n, Parses(f, 0, j) PROVE \E k \in DOMAIN t : t[k] = f[j].id
        <5>1. CASE j = n
          BY <2>3, <4>1, <5>1
        <5>2. CASE j # n
          BY <2>1, <3>4, <4>1, <4>2, <5>2
        <5>3. QED
          BY <5>1, <5>2
      <4>3. ASSUME NEW k \in DOMAIN t PROVE \E j \in 1..n : Parses(f, 0, j) /\ t[k] = f[j].id
        <5>1. CASE k = last
          BY <2>1, <2>3, <2>5, <4>1, <5>1
        <5>2. CASE k # last
          BY <2>1, <3>4, <4>1, <5>2
        <5>3. QED
          BY <5>1, <5>2
      <4>4. QED
        BY <4>2, <4>3 DEF t
    <3> HIDE DEF Has
    <3>6. QED
      BY <2>1, <3>2, <3>5
  <2>6. CASE ~Parses(f, 0, n)
    <3>1. r[n] = r[n - 1]
      BY <1>3, <2>6
    <3>2. Has(r[n - 1].seen, n)
      BY <2>1, <2>2, <2>6
    <3> HIDE DEF Has
    <3>3. QED
      BY <2>1, <3>1, <3>2
  <2>7. QED
    BY <2>5, <2>6
<1>6. 0..e \subseteq T
  <2> HIDE DEF T, Has
  <2>1. 0 \in Nat /\ e \in Nat
    OBVIOUS
  <2>2. QED
    BY <1>4, <1>5, <2>1, UpTo
<1>7. e \in 0..e /\ r[e] \in Meta
  BY <1>1, <1>3
<1>8. Has(r[e].seen, e)
  <2> HIDE DEF Has
  <2>1. QED
    BY <1>6, <1>7
<1>9. FoldIn(ks, f, m, e).seen = r[e].seen
  BY <1>1, <1>2, <1>7, MetaAt
<1>10. QED
  BY <1>8, <1>9 DEF m, Covers

\* The baseline is where the line of a rewind begins.
LEMMA FoldBaseline ==
  ASSUME NEW ks, NEW f \in Seq(Cell), NEW e \in 0..Len(f)
  PROVE  LET b == FoldIn(ks, f, NewMeta, e).baseline
         IN  b = 0 \/ (b + 1 \in 1..e /\ Parses(f, 0, b + 1) /\ ks[f[b + 1].id] = "Rewound")
<1> DEFINE m == NewMeta
           At(b, i) == b = 0 \/ (b + 1 \in 1..i /\ Parses(f, 0, b + 1) /\ ks[f[b + 1].id] = "Rewound")
<1>1. m \in Meta /\ m.scanned = 0 /\ m.baseline = 0 /\ e \in Nat /\ e \in m.scanned..Len(f)
  BY NewMetaType
<1> HIDE DEF m
<1>2. PICK r : IsFold(r, ks, f, m, e) /\ FoldIn(ks, f, m, e) = Ending(r[e], e)
  BY <1>1, FoldExists
<1>3. /\ r \in [0..e -> Meta] /\ r[0] = m
      /\ \A n \in (0 + 1)..e : r[n] = IF Parses(f, 0, n)
                                     THEN AppliedIn(ks, r[n - 1], f[n].id, n - 1) ELSE r[n - 1]
  BY <1>1, <1>2 DEF IsFold
<1> DEFINE T == {n \in 0..e : At(r[n].baseline, n)}
<1>4. 0 \in T
  BY <1>1, <1>3
<1>5. ASSUME NEW n \in (0 + 1)..e, n - 1 \in T PROVE n \in T
  <2>1. n \in 0..e /\ n - 1 \in 0..e /\ n \in 1..Len(f) /\ n - 1 + 1 = n /\ n \in 1..n
    OBVIOUS
  <2>2. r[n - 1] \in Meta /\ At(r[n - 1].baseline, n - 1)
    BY <1>3, <1>5, <2>1
  <2>3. PICK b, id, x, at : b = r[n - 1].baseline /\ id = f[n].id /\ x = r[n - 1] /\ at = n - 1
    OBVIOUS
  <2>4. b \in Nat /\ x \in Meta /\ x.baseline = b /\ At(b, n - 1)
    BY <2>1, <2>2, <2>3 DEF Meta
  <2>5. At(b, n)
    BY <2>4
  <2>6. CASE Parses(f, 0, n)
    <3>1. r[n] = AppliedIn(ks, x, id, at)
      BY <1>3, <2>3, <2>6
    <3>2. /\ ks[id] = "Rewound" => r[n].baseline = at
          /\ ks[id] # "Rewound" => r[n].baseline = b
      BY <2>4, <3>1, AppliedFields
    <3>3. ks[id] = "Rewound" => At(at, n)
      BY <2>1, <2>3, <2>6
    <3> HIDE DEF At
    <3>4. QED
      BY <2>1, <2>5, <3>2, <3>3
  <2>7. CASE ~Parses(f, 0, n)
    <3>1. r[n].baseline = b
      BY <1>3, <2>3, <2>7
    <3> HIDE DEF At
    <3>2. QED
      BY <2>1, <2>5, <3>1
  <2>8. QED
    BY <2>6, <2>7
<1>6. 0..e \subseteq T
  <2> HIDE DEF T
  <2>1. QED
    BY <1>1, <1>4, <1>5, UpTo
<1>7. e \in 0..e /\ r[e] \in Meta
  BY <1>1, <1>3
<1>8. At(r[e].baseline, e)
  <2> HIDE DEF At
  <2>1. QED
    BY <1>6, <1>7
<1>9. FoldIn(ks, f, m, e).baseline = r[e].baseline
  BY <1>1, <1>2, <1>7, MetaAt
<1>10. QED
  BY <1>8, <1>9 DEF m

\* What is read back are the events of the lines there are.
LEMMA ReadHas ==
  ASSUME NEW f \in Seq(Cell)
  PROVE  LET s == ReadLogFrom(f, 0)
         IN  /\ s \in Seq(1..MaxLines)
             /\ \A n \in 1..Len(f) : Parses(f, 0, n) => \E k \in DOMAIN s : s[k] = f[n].id
             /\ \A k \in DOMAIN s : \E n \in 1..Len(f) : Parses(f, 0, n) /\ s[k] = f[n].id
<1> DEFINE e == Len(f)
           Has(s, i) == /\ \A n \in 1..i : Parses(f, 0, n) => \E k \in DOMAIN s : s[k] = f[n].id
                        /\ \A k \in DOMAIN s : \E n \in 1..i : Parses(f, 0, n) /\ s[k] = f[n].id
<1>1. e \in Nat /\ 0 \in 0..e
  OBVIOUS
<1>2. PICK r : IsRead(r, f, 0) /\ ReadLogFrom(f, 0) = r[e]
  BY <1>1, ReadExists
<1>3. /\ r \in [0..e -> Seq(1..MaxLines)] /\ r[0] = <<>>
      /\ \A n \in (0 + 1)..e : r[n] = IF Parses(f, 0, n) THEN Append(r[n - 1], f[n].id) ELSE r[n - 1]
  BY <1>2 DEF IsRead
<1> DEFINE T == {n \in 0..e : Has(r[n], n)}
<1>4. 0 \in T
  <2>1. DOMAIN <<>> = {} /\ 1..0 = {}
    OBVIOUS
  <2>2. Has(<<>>, 0)
    BY <2>1
  <2> HIDE DEF Has
  <2>3. QED
    BY <1>1, <1>3, <2>2
<1>5. ASSUME NEW n \in (0 + 1)..e, n - 1 \in T PROVE n \in T
  <2>1. n \in 0..e /\ n - 1 \in 0..e /\ n \in 1..Len(f) /\ 1..n = 1..(n - 1) \cup {n}
    OBVIOUS
  <2>2. Has(r[n - 1], n - 1)
    BY <1>5
  <2>3. PICK s, id : s = r[n - 1] /\ id = f[n].id
    OBVIOUS
  <2>4. s \in Seq(1..MaxLines) /\ id \in 1..MaxLines /\ Has(s, n - 1)
    BY <1>3, <2>1, <2>2, <2>3, CellAt
  <2>5. CASE Parses(f, 0, n)
    <3>1. r[n] = Append(s, id)
      BY <1>3, <2>3, <2>5
    <3>2. /\ DOMAIN Append(s, id) = DOMAIN s \cup {Len(s) + 1}
          /\ Append(s, id)[Len(s) + 1] = id /\ \A k \in DOMAIN s : Append(s, id)[k] = s[k]
      BY <2>4
    <3> DEFINE t == Append(s, id)
               last == Len(s) + 1
    <3>3. DOMAIN t = DOMAIN s \cup {last} /\ t[last] = id /\ \A k \in DOMAIN s : t[k] = s[k]
      BY <3>2
    <3> HIDE DEF t, last
    <3>4. ASSUME NEW j \in 1..n, Parses(f, 0, j) PROVE \E k \in DOMAIN t : t[k] = f[j].id
      <4>1. CASE j = n
        BY <2>3, <3>3, <4>1
      <4>2. CASE j # n
        BY <2>1, <2>4, <3>3, <3>4, <4>2
      <4>3. QED
        BY <4>1, <4>2
    <3>5. ASSUME NEW k \in DOMAIN t PROVE \E j \in 1..n : Parses(f, 0, j) /\ t[k] = f[j].id
      <4>1. CASE k = last
        BY <2>1, <2>3, <2>5, <3>3, <4>1
      <4>2. CASE k # last
        BY <2>1, <2>4, <3>3, <4>2
      <4>3. QED
        BY <4>1, <4>2
    <3>6. Has(t, n)
      BY <3>4, <3>5
    <3> HIDE DEF Has
    <3>7. QED
      BY <2>1, <3>1, <3>6 DEF t
  <2>6. CASE ~Parses(f, 0, n)
    <3>1. r[n] = r[n - 1]
      BY <1>3, <2>6
    <3>2. Has(r[n - 1], n)
      BY <2>1, <2>2, <2>6
    <3> HIDE DEF Has
    <3>3. QED
      BY <2>1, <3>1, <3>2
  <2>7. QED
    BY <2>5, <2>6
<1>6. 0..e \subseteq T
  <2> HIDE DEF T, Has
  <2>1. 0 \in Nat /\ e \in Nat
    OBVIOUS
  <2>2. QED
    BY <1>4, <1>5, <2>1, UpTo
<1>7. e \in 0..e
  BY <1>1
<1>8. Has(r[e], e)
  <2> HIDE DEF Has
  <2>1. QED
    BY <1>6, <1>7
<1>9. r[e] \in Seq(1..MaxLines)
  BY <1>3, <1>7
<1>10. QED
  BY <1>2, <1>8, <1>9

\* Reading from where a line begins leaves out what was read before it.
LEMMA ReadInTwo ==
  ASSUME NEW f \in Seq(Cell), NEW a \in Starts(f)
  PROVE  \E x \in Seq(1..MaxLines), y \in Seq(1..MaxLines) :
           /\ ReadLogFrom(f, 0) = x \o y /\ ReadLogFrom(f, a) = y
           /\ a = 0 => x = <<>>
           /\ a + 1 \in 1..Len(f) /\ Parses(f, a, a + 1) => y # <<>> /\ y[1] = f[a + 1].id
<1> DEFINE e == Len(f)
           Ids == Seq(1..MaxLines)
<1>1. e \in Nat /\ a \in 0..e /\ 0 \in 0..e /\ a \in Nat /\ a <= e /\ a \in a..e
  BY EndsAre
<1>2. PICK r : IsRead(r, f, 0) /\ ReadLogFrom(f, 0) = r[e]
  BY <1>1, ReadExists
<1>3. PICK q : IsRead(q, f, a) /\ ReadLogFrom(f, a) = q[e]
  BY <1>1, ReadExists
<1>4. /\ r \in [0..e -> Ids] /\ r[0] = <<>>
      /\ \A n \in (0 + 1)..e : r[n] = IF Parses(f, 0, n) THEN Append(r[n - 1], f[n].id) ELSE r[n - 1]
  BY <1>2 DEF IsRead
<1>5. /\ q \in [a..e -> Ids] /\ q[a] = <<>>
      /\ \A n \in (a + 1)..e : q[n] = IF Parses(f, a, n) THEN Append(q[n - 1], f[n].id) ELSE q[n - 1]
  BY <1>3 DEF IsRead
<1>6. r[a] \in Ids
  BY <1>1, <1>4
<1> DEFINE T == {n \in a..e : r[n] = r[a] \o q[n]}
<1>7. a \in T
  <2>1. r[a] \o <<>> = r[a]
    BY <1>6
  <2>2. QED
    BY <1>1, <1>5, <2>1
<1>8. ASSUME NEW n \in (a + 1)..e, n - 1 \in T PROVE n \in T
  <2>1. n \in a..e /\ n - 1 \in a..e /\ n \in 1..Len(f) /\ n \in (0 + 1)..e
    BY <1>1
  <2>2. PICK x, y, id : x = r[a] /\ y = q[n - 1] /\ id = f[n].id
    OBVIOUS
  <2>3. x \in Ids /\ y \in Ids /\ id \in 1..MaxLines
    BY <1>5, <1>6, <2>1, <2>2, CellAt
  <2>4. r[n - 1] = x \o y
    BY <1>8, <2>2
  <2>5. Append(x \o y, id) = x \o Append(y, id)
    <3>1. x \o y \in Ids /\ <<id>> \in Ids
      BY <2>3
    <3>2. Append(x \o y, id) = (x \o y) \o <<id>> /\ Append(y, id) = y \o <<id>>
      BY <2>3, <3>1, AppendIsConcat
    <3>3. (x \o y) \o <<id>> = x \o (y \o <<id>>)
      BY <2>3, <3>1, ConcatAssociative
    <3>4. QED
      BY <3>2, <3>3
  <2>6. Parses(f, a, n) <=> Parses(f, 0, n)
    BY ParsesFrom
  <2>7. Parses(f, a, n) => r[n] = Append(x \o y, id) /\ q[n] = Append(y, id)
    BY <1>4, <1>5, <2>1, <2>2, <2>4, <2>6
  <2>8. ~Parses(f, a, n) => r[n] = x \o y /\ q[n] = y
    BY <1>4, <1>5, <2>1, <2>2, <2>4, <2>6
  <2>9. r[n] = r[a] \o q[n]
    BY <2>2, <2>5, <2>7, <2>8
  <2>10. QED
    BY <2>1, <2>9
<1>9. a..e \subseteq T
  <2> HIDE DEF T
  <2>1. QED
    BY <1>1, <1>7, <1>8, UpTo
<1>10. e \in a..e /\ q[e] \in Ids /\ r[e] = r[a] \o q[e]
  <2>1. e \in a..e
    BY <1>1
  <2>2. QED
    BY <1>5, <1>9, <2>1
<1>11. ASSUME a + 1 \in 1..Len(f), Parses(f, a, a + 1) PROVE q[e] # <<>> /\ q[e][1] = f[a + 1].id
  <2> DEFINE U == {n \in (a + 1)..e : q[n] \in Ids /\ q[n] # <<>> /\ q[n][1] = f[a + 1].id}
  <2>1. a + 1 \in (a + 1)..e /\ a + 1 \in Nat /\ a + 1 - 1 = a /\ f[a + 1].id \in 1..MaxLines
    BY <1>1, <1>11, CellAt
  <2>2. q[a + 1] = Append(<<>>, f[a + 1].id)
    <3>1. PICK n : n = a + 1
      OBVIOUS
    <3>2. n \in (a + 1)..e /\ n - 1 = a
      BY <1>1, <2>1, <3>1
    <3> Parses(f, a, n)
      BY <1>11, <3>1, Zenon
    <3>3. q[n] = Append(q[n - 1], f[n].id) /\ q[a] = <<>>
      BY <1>5, <3>2
    <3>4. QED
      BY <3>1, <3>2, <3>3
  <2>3. a + 1 \in U
    <3>1. PICK id : id = f[a + 1].id
      OBVIOUS
    <3>2. Append(<<>>, id) = <<id>> /\ <<id>> \in Ids /\ <<id>> # <<>> /\ <<id>>[1] = id
      BY <2>1, <3>1
    <3>3. QED
      BY <2>1, <2>2, <3>1, <3>2
  <2>4. ASSUME NEW n \in (a + 1 + 1)..e, n - 1 \in U PROVE n \in U
    <3>1. n \in (a + 1)..e /\ n \in 1..Len(f)
      BY <1>1
    <3>2. PICK y, id : y = q[n - 1] /\ id = f[n].id
      OBVIOUS
    <3>3. y \in Ids /\ y # <<>> /\ y[1] = f[a + 1].id /\ id \in 1..MaxLines
      BY <2>4, <3>1, <3>2, CellAt
    <3>4. Append(y, id) \in Ids /\ Append(y, id) # <<>> /\ Append(y, id)[1] = y[1]
      BY <3>3
    <3>5. q[n] = Append(y, id) \/ q[n] = y
      BY <1>5, <3>1, <3>2
    <3>6. QED
      BY <3>1, <3>3, <3>4, <3>5
  <2>5. (a + 1)..e \subseteq U
    <3> HIDE DEF U
    <3>1. QED
      BY <1>1, <2>1, <2>3, <2>4, UpTo
  <2>6. e \in (a + 1)..e
    BY <1>1, <1>11
  <2>7. QED
    BY <2>5, <2>6
<1>12. a = 0 => r[a] = <<>>
  BY <1>4
<1>13. QED
  BY <1>2, <1>3, <1>6, <1>10, <1>11, <1>12

\* Where history_from_log begins to build.
LastRewound(ks, s, at) ==
  /\ at \in 0..Len(s)
  /\ at # 0 => ks[s[at]] = "Rewound"
  /\ \A later \in (at + 1)..Len(s) : ks[s[later]] # "Rewound"

\* There is a last rewind, or none.
LEMMA LastRewoundExists ==
  ASSUME NEW ks, NEW S, NEW s \in Seq(S)
  PROVE  \E at : LastRewound(ks, s, at)
<1> DEFINE e == Len(s)
           Upto(at, n) == /\ at \in 0..n
                          /\ at # 0 => ks[s[at]] = "Rewound"
                          /\ \A later \in (at + 1)..n : ks[s[later]] # "Rewound"
           T == {n \in 0..e : \E at : Upto(at, n)}
<1>1. 0 \in Nat /\ e \in Nat
  OBVIOUS
<1>2. 0 \in T
  <2>1. Upto(0, 0)
    OBVIOUS
  <2>2. QED
    BY <1>1, <2>1
<1>3. ASSUME NEW n \in (0 + 1)..e, n - 1 \in T PROVE n \in T
  <2>1. PICK at : Upto(at, n - 1)
    BY <1>3
  <2>2. n \in 0..e
    OBVIOUS
  <2>3. Upto(at, n) \/ Upto(n, n)
    BY <2>1
  <2> HIDE DEF Upto
  <2>4. QED
    BY <2>2, <2>3
<1>4. 0..e \subseteq T
  <2> HIDE DEF T
  <2>1. QED
    BY <1>1, <1>2, <1>3, UpTo
<1>5. e \in T
  BY <1>1, <1>4
<1>6. QED
  BY <1>5 DEF LastRewound

\* And no more than one of them.
LEMMA LastRewoundOnce ==
  ASSUME NEW ks, NEW S, NEW s \in Seq(S), NEW at, NEW b, LastRewound(ks, s, at), LastRewound(ks, s, b)
  PROVE  at = b
<1>1. at \in Nat /\ b \in Nat /\ at <= Len(s) /\ b <= Len(s) /\ Len(s) \in Nat
  BY DEF LastRewound
<1>2. ~ at < b
  BY <1>1 DEF LastRewound
<1>3. ~ b < at
  BY <1>1 DEF LastRewound
<1>4. QED
  BY <1>1, <1>2, <1>3

\* The events that are built from are those behind the last rewind.
LEMMA FromBaselineIs ==
  ASSUME NEW S, NEW s \in Seq(S)
  PROVE  \E at : /\ LastRewound(kinds, s, at)
                 /\ FromBaseline(s) = IF at = 0 THEN s ELSE SubSeq(s, at, Len(s))
<1> DEFINE b == CHOOSE x \in 0..Len(s) :
                  /\ x # 0 => kinds[s[x]] = "Rewound"
                  /\ \A later \in (x + 1)..Len(s) : kinds[s[later]] # "Rewound"
<1>1. PICK x : LastRewound(kinds, s, x)
  BY LastRewoundExists
<1>2. /\ b \in 0..Len(s)
      /\ b # 0 => kinds[s[b]] = "Rewound"
      /\ \A later \in (b + 1)..Len(s) : kinds[s[later]] # "Rewound"
  BY <1>1 DEF LastRewound
<1>3. FromBaseline(s) = IF b = 0 THEN s ELSE SubSeq(s, b, Len(s))
  BY DEF FromBaseline
<1> HIDE DEF b
<1>4. LastRewound(kinds, s, b)
  BY <1>2 DEF LastRewound
<1>5. QED
  BY <1>3, <1>4

\* What came before a rewind is not built from.
LEMMA FromBaselineOfEnd ==
  ASSUME NEW S, NEW x \in Seq(S), NEW y \in Seq(S),
         x = <<>> \/ (y # <<>> /\ kinds[y[1]] = "Rewound")
  PROVE  FromBaseline(x \o y) = FromBaseline(y)
<1>1. CASE x = <<>>
  <2>1. x \o y = y
    BY <1>1
  <2>2. QED
    BY <2>1
<1>2. CASE y # <<>> /\ kinds[y[1]] = "Rewound"
  <2> DEFINE s == x \o y
  <2>1. /\ s \in Seq(S) /\ Len(s) = Len(x) + Len(y) /\ Len(x) \in Nat /\ Len(y) \in Nat
        /\ \A i \in 1..Len(y) : s[Len(x) + i] = y[i]
    OBVIOUS
  <2> HIDE DEF s
  <2>2. PICK at : /\ LastRewound(kinds, y, at)
                  /\ FromBaseline(y) = IF at = 0 THEN y ELSE SubSeq(y, at, Len(y))
    BY FromBaselineIs
  <2>3. PICK b : /\ LastRewound(kinds, s, b)
                 /\ FromBaseline(s) = IF b = 0 THEN s ELSE SubSeq(s, b, Len(s))
    BY <2>1, FromBaselineIs
  <2>4. at \in 1..Len(y) /\ kinds[y[at]] = "Rewound"
        /\ \A later \in (at + 1)..Len(y) : kinds[y[later]] # "Rewound"
    <3>1. 1 \in 1..Len(y)
      BY <1>2, <2>1
    <3>2. at # 0
      BY <1>2, <2>2, <3>1 DEF LastRewound
    <3>3. QED
      BY <2>2, <3>2 DEF LastRewound
  <2>5. LastRewound(kinds, s, Len(x) + at)
    <3>1. Len(x) + at \in 1..Len(s) /\ s[Len(x) + at] = y[at]
      BY <2>1, <2>4
    <3>2. ASSUME NEW later \in (Len(x) + at + 1)..Len(s) PROVE kinds[s[later]] # "Rewound"
      <4>1. PICK i : i = later - Len(x)
        OBVIOUS
      <4>2. i \in (at + 1)..Len(y) /\ i \in 1..Len(y) /\ later = Len(x) + i
        BY <2>1, <2>4, <4>1
      <4>3. s[later] = y[i]
        BY <2>1, <4>2
      <4>4. QED
        BY <2>4, <4>2, <4>3
    <3>3. QED
      BY <2>4, <3>1, <3>2 DEF LastRewound
  <2>6. b = Len(x) + at /\ b # 0 /\ at # 0
    <3>1. b = Len(x) + at
      BY <2>1, <2>3, <2>5, LastRewoundOnce
    <3>2. QED
      BY <2>1, <2>4, <3>1
  <2>7. SubSeq(s, b, Len(s)) = SubSeq(y, at, Len(y))
    <3>1. b \in Len(x) + 1..Len(x) + Len(y) /\ Len(s) \in Len(x) + 1..Len(x) + Len(y)
      BY <2>1, <2>4, <2>6
    <3>2. SubSeq(x \o y, b, Len(s)) = SubSeq(y, b - Len(x), Len(s) - Len(x))
      BY <3>1, SubSeqOfConcat2
    <3>3. b - Len(x) = at /\ Len(s) - Len(x) = Len(y)
      BY <2>1, <2>4, <2>6
    <3>4. QED
      BY <3>2, <3>3 DEF s
  <2>8. QED
    BY <2>2, <2>3, <2>6, <2>7 DEF s
<1>3. QED
  BY <1>1, <1>2

-----------------------------------------------------------------------------
(* Where a summary stops, and when it can be had *)

\* Where the last line ends behind a place.
IsComplete(f, from, end) ==
  /\ end \in from..Len(f)
  /\ end # from => end \in Ends(f)
  /\ \A later \in (end + 1)..Len(f) : later \notin Ends(f)

\* The last line to end does so where Complete says.
LEMMA CompleteIs ==
  ASSUME NEW f \in Seq(Cell), NEW from \in 0..Len(f)
  PROVE  IsComplete(f, from, Complete(f, from))
<1> DEFINE e == Len(f)
           Upto(end, n) == /\ end \in from..n
                           /\ end # from => end \in Ends(f)
                           /\ \A later \in (end + 1)..n : later \notin Ends(f)
           T == {n \in from..e : \E end : Upto(end, n)}
<1>1. from \in Nat /\ e \in Nat /\ e \in from..e
  OBVIOUS
<1>2. from \in T
  <2>1. Upto(from, from)
    BY <1>1
  <2> HIDE DEF Upto
  <2>2. QED
    BY <1>1, <2>1
<1>3. ASSUME NEW n \in (from + 1)..e, n - 1 \in T PROVE n \in T
  <2>1. PICK end : Upto(end, n - 1)
    BY <1>3
  <2>2. n \in from..e
    BY <1>1
  <2>3. Upto(end, n) \/ Upto(n, n)
    BY <1>1, <2>1
  <2> HIDE DEF Upto
  <2>4. QED
    BY <2>2, <2>3
<1>4. from..e \subseteq T
  <2> HIDE DEF T
  <2>1. QED
    BY <1>1, <1>2, <1>3, UpTo
<1>5. PICK end : Upto(end, e)
  BY <1>1, <1>4
<1>6. QED
  BY <1>5 DEF Complete, IsComplete

\* From wherever a line may begin, the last line to end is the same.
LEMMA CompleteOnce ==
  ASSUME NEW f \in Seq(Cell), NEW a \in Starts(f), NEW c, NEW d,
         IsComplete(f, a, c), IsComplete(f, 0, d)
  PROVE  c = d /\ c \in Starts(f) /\ a <= c
<1>1. a \in 0..Len(f) /\ c \in a..Len(f) /\ d \in 0..Len(f) /\ Len(f) \in Nat
  BY EndsAre DEF IsComplete
<1>2. c \in Starts(f) /\ d \in Starts(f)
  BY <1>1 DEF IsComplete, Starts
<1>3. ~ c < d
  BY <1>1, <1>2 DEF IsComplete, Starts
<1>4. ~ d < c
  BY <1>1, <1>2 DEF IsComplete, Starts
<1>5. QED
  BY <1>1, <1>2, <1>3, <1>4

\* Where no line is cut short but the last, only its half character can be in the way.
LEMMA BadTextIs ==
  ASSUME NEW f \in Seq(Cell), NEW n \in Nat, Shaped(f, n), Torn(f) \subseteq {Len(f)},
         NEW a \in Starts(f)
  PROVE  BadText(f, a) <=> f # <<>> /\ f[Len(f)].part = 2
<1>1. a \in 0..Len(f) /\ Len(f) \in Nat /\ (f # <<>> <=> Len(f) # 0)
  BY EndsAre
<1>2. \A i \in 1..Len(f) : f[i] \in Cell /\ f[i].part \in 1..4
  BY CellAt
<1>3. ASSUME BadText(f, a) PROVE f # <<>> /\ f[Len(f)].part = 2
  <2>1. PICK i \in (a + 1)..Len(f) :
          \/ f[i].part = 2 /\ (i = Len(f) \/ f[i + 1] # [id |-> f[i].id, part |-> 3])
          \/ f[i].part = 3 /\ i = a + 1
    BY <1>3 DEF BadText
  <2>2. i \in 1..Len(f) /\ Len(f) # 0
    BY <1>1
  <2>3. CASE f[i].part = 2 /\ i # Len(f)
    <3>1. PICK j : j = i + 1
      OBVIOUS
    <3>2. j \in DOMAIN f /\ f[j] # [id |-> f[i].id, part |-> 3] /\ j - 1 = i
      BY <2>1, <2>2, <2>3, <3>1
    <3>3. f[j].part # 1
      BY <1>1, <2>2, <2>3, <3>1 DEF Torn, NewLine, Ends
    <3>4. f[i] = [id |-> f[j].id, part |-> f[j].part - 1]
      BY <3>2, <3>3 DEF Shaped
    <3>5. f[i].id = f[j].id /\ f[j].part = 3
      BY <1>2, <2>2, <2>3, <3>2, <3>4
    <3>6. f[j] = [id |-> f[j].id, part |-> f[j].part]
      BY <1>2, <3>2 DEF Cell
    <3>7. QED
      BY <3>2, <3>5, <3>6
  <2>4. CASE f[i].part = 3 /\ i = a + 1
    <3>1. i > 1 /\ f[i - 1] = [id |-> f[i].id, part |-> f[i].part - 1]
      BY <2>2, <2>4 DEF Shaped
    <3>2. a \in 1..Len(f) /\ f[a] = [id |-> f[i].id, part |-> f[i].part - 1]
      BY <1>1, <2>2, <2>4, <3>1
    <3>3. f[a].part = 2
      BY <2>4, <3>2
    <3>4. QED
      BY <1>1, <3>2, <3>3, EndsAre DEF Starts
  <2>5. QED
    BY <1>1, <2>1, <2>2, <2>3, <2>4
<1>4. ASSUME f # <<>>, f[Len(f)].part = 2 PROVE BadText(f, a)
  <2>1. a # Len(f)
    BY <1>1, <1>4, EndsAre DEF Starts
  <2>2. Len(f) \in (a + 1)..Len(f)
    BY <1>1, <2>1
  <2>3. QED
    BY <1>4, <2>2 DEF BadText
<1>5. QED
  BY <1>3, <1>4

-----------------------------------------------------------------------------
(* Summaries of a log *)

\* A summary that a scan of the log gives when it stops where some line ends.
PrefixOf(ks, f, m) ==
  m \in Meta /\ m.scanned \in Starts(f) /\ m = FoldIn(ks, f, NewMeta, m.scanned)

\* The empty summary is that of the empty prefix.
LEMMA NewMetaIsPrefix ==
  ASSUME NEW ks, NEW f \in Seq(Cell)
  PROVE  PrefixOf(ks, f, NewMeta)
<1>1. 0 \in NewMeta.scanned..Len(f) /\ 0 = NewMeta.scanned /\ 0 \in Starts(f)
  BY NewMetaType, EndsAre DEF Starts
<1>2. FoldIn(ks, f, NewMeta, 0) = NewMeta
  BY <1>1, NewMetaType, FoldType
<1>3. QED
  BY <1>1, <1>2, NewMetaType DEF PrefixOf

\* A summary of a prefix stays one while the prefix stays as it is.
LEMMA PrefixKept ==
  ASSUME NEW ks, NEW f \in Seq(Cell), NEW kt, NEW g \in Seq(Cell), NEW m, PrefixOf(ks, f, m),
         m.scanned <= Len(g),
         \A i \in 1..m.scanned : f[i] = g[i] /\ ks[f[i].id] = kt[f[i].id]
  PROVE  PrefixOf(kt, g, m)
<1>1. PICK a : a = m.scanned
  OBVIOUS
<1>2. m \in Meta /\ a \in Starts(f) /\ m = FoldIn(ks, f, NewMeta, a) /\ a <= Len(g)
  BY <1>1 DEF PrefixOf
<1>3. FoldIn(ks, f, NewMeta, a) = FoldIn(kt, g, NewMeta, a)
  BY <1>1, <1>2, FoldKept
<1>4. a \in Starts(g)
  <2>1. CASE a = 0
    BY <2>1 DEF Starts
  <2>2. CASE a # 0
    <3>1. a \in 1..Len(f) /\ f[a].part = 4
      BY <1>2, <2>2, EndsAre DEF Starts
    <3>2. a \in 1..Len(g) /\ g[a] = f[a]
      BY <1>1, <1>2, <3>1
    <3>3. QED
      BY <3>1, <3>2, EndsAre DEF Starts
  <2>3. QED
    BY <2>1, <2>2
<1>5. QED
  BY <1>1, <1>2, <1>3, <1>4 DEF PrefixOf

\* Caught up, a summary is a summary.
LEMMA RefreshedType ==
  ASSUME file \in Seq(Cell), NEW c \in Meta
  PROVE  Refreshed(file, c) \in Meta
<1>1. PICK m : m = From(file, c)
  OBVIOUS
<1>2. m \in Meta /\ m.scanned \in 0..Len(file)
  BY <1>1, NewMetaType DEF From, Usable, Meta
<1>3. PICK e : e = Complete(file, m.scanned)
  OBVIOUS
<1>4. e \in m.scanned..Len(file)
  BY <1>2, <1>3, CompleteIs DEF IsComplete
<1>5. FoldIn(kinds, file, m, e) \in Meta
  BY <1>2, <1>4, FoldType
<1>6. QED
  BY <1>1, <1>3, <1>5, FoldToIsFoldIn DEF Refreshed, Fold

\* Whatever it is caught up from, a summary is that of the whole log.
LEMMA RefreshedIs ==
  ASSUME file \in Seq(Cell), NEW c \in Meta,
         PrefixOf(kinds, file, c) \/ c.scanned > Len(file)
  PROVE  /\ From(file, c).scanned \in Starts(file)
         /\ IsComplete(file, 0, Refreshed(file, c).scanned)
         /\ Refreshed(file, c) = FoldIn(kinds, file, NewMeta, Refreshed(file, c).scanned)
         /\ PrefixOf(kinds, file, Refreshed(file, c))
<1>1. PICK m : m = From(file, c)
  OBVIOUS
<1>2. PrefixOf(kinds, file, m)
  <2>1. CASE c.scanned <= Len(file)
    <3>1. PrefixOf(kinds, file, c)
      BY <2>1 DEF Meta
    <3>2. QED
      BY <1>1, <2>1, <3>1 DEF From, Usable
  <2>2. CASE ~(c.scanned <= Len(file))
    <3>1. m = NewMeta
      BY <1>1, <2>2 DEF From, Usable
    <3>2. QED
      BY <3>1, NewMetaIsPrefix
  <2>3. QED
    BY <2>1, <2>2
<1>3. PICK a : a = m.scanned
  OBVIOUS
<1>4. a \in Starts(file) /\ m \in Meta /\ m = FoldIn(kinds, file, NewMeta, a) /\ a \in 0..Len(file)
  BY <1>2, <1>3, EndsAre DEF PrefixOf
<1>5. PICK e : e = Complete(file, a)
  OBVIOUS
<1>6. IsComplete(file, a, e)
  BY <1>4, <1>5, CompleteIs
<1>7. PICK d : IsComplete(file, 0, d)
  <2>1. 0 \in 0..Len(file)
    BY <1>4
  <2>2. QED
    BY <2>1, CompleteIs
<1>8. e = d /\ e \in Starts(file) /\ e \in a..Len(file) /\ e \in 0..Len(file)
  BY <1>4, <1>6, <1>7, CompleteOnce DEF IsComplete
<1>9. FoldIn(kinds, file, m, e) = FoldIn(kinds, file, NewMeta, e)
  BY <1>4, <1>8, FoldInTwo
<1>10. Refreshed(file, c) = FoldIn(kinds, file, NewMeta, e)
  BY <1>1, <1>3, <1>5, <1>9, FoldToIsFoldIn DEF Refreshed, Fold
<1>11. Refreshed(file, c).scanned = e /\ Refreshed(file, c) \in Meta
  <2>1. e \in NewMeta.scanned..Len(file)
    BY <1>8, NewMetaType
  <2>2. QED
    BY <1>10, <2>1, FoldType, NewMetaType
<1>12. QED
  BY <1>1, <1>3, <1>4, <1>7, <1>8, <1>10, <1>11 DEF PrefixOf

\* Whatever it is caught up from, the summary is that of a whole scan.
LEMMA RefreshedAlike ==
  ASSUME file \in Seq(Cell), NEW c \in Meta,
         PrefixOf(kinds, file, c) \/ c.scanned > Len(file)
  PROVE  Refreshed(file, c) = Refreshed(file, NewMeta)
<1>1. PICK d : d = Refreshed(file, c).scanned
  OBVIOUS
<1>2. PICK e : e = Refreshed(file, NewMeta).scanned
  OBVIOUS
<1>3. IsComplete(file, 0, d) /\ Refreshed(file, c) = FoldIn(kinds, file, NewMeta, d)
  BY <1>1, RefreshedIs
<1>4. IsComplete(file, 0, e) /\ Refreshed(file, NewMeta) = FoldIn(kinds, file, NewMeta, e)
  BY <1>2, RefreshedIs, NewMetaIsPrefix, NewMetaType
<1>5. 0 \in Starts(file)
  BY DEF Starts
<1>6. d = e
  BY <1>3, <1>4, <1>5, CompleteOnce
<1>7. QED
  BY <1>3, <1>4, <1>6

-----------------------------------------------------------------------------
(* A log that grows or is cut *)

\* `g` is `f` and the cells of a line from the a-th to the b-th.
Grown(f, g, id, a, b) ==
  /\ g \in Seq(Cell) /\ Len(g) = Len(f) + (b - a) + 1
  /\ \A i \in 1..Len(f) : g[i] = f[i]
  /\ \A i \in (Len(f) + 1)..Len(g) : g[i] = [id |-> id, part |-> i - Len(f) + a - 1]

\* The cells that an append adds.
LEMMA GrownIs ==
  ASSUME NEW f \in Seq(Cell), NEW id \in 1..MaxLines, NEW a \in 1..4, NEW b \in a..4
  PROVE  Grown(f, f \o SubSeq(Line(id), a, b), id, a, b)
<1> DEFINE l == Line(id)
           t == SubSeq(l, a, b)
<1>1. \A k \in 1..4 : l[k] = [id |-> id, part |-> k] /\ l[k] \in Cell
  BY DEF Line, NewLine, Cell
<1> HIDE DEF l
<1>2. /\ t \in Seq(Cell) /\ Len(t) = b - a + 1
      /\ \A k \in 1..(b - a + 1) : t[k] = l[a + k - 1]
  <2>1. a \in Int /\ b \in Int /\ a <= b
    OBVIOUS
  <2>2. ASSUME NEW i \in a..b PROVE l[i] \in Cell
    <3>1. i \in 1..4
      OBVIOUS
    <3>2. QED
      BY <1>1, <3>1
  <2>3. QED
    BY <2>1, <2>2, SubSeqProperties
<1>3. ASSUME NEW k \in 1..Len(t) PROVE t[k] = [id |-> id, part |-> k + a - 1]
  <2>1. PICK j : j = a + k - 1
    OBVIOUS
  <2>2. k \in 1..(b - a + 1) /\ j \in 1..4 /\ j = k + a - 1
    BY <1>2, <2>1
  <2>4. t[k] = l[j]
    BY <1>2, <2>1, <2>2
  <2>3. QED
    BY <1>1, <2>2, <2>4
<1> HIDE DEF t
<1> DEFINE g == f \o t
<1>4. g \in Seq(Cell) /\ Len(g) = Len(f) + Len(t) /\ Len(f) \in Nat
      /\ (\A i \in 1..Len(f) : g[i] = f[i])
      /\ \A i \in (Len(f) + 1)..(Len(f) + Len(t)) : g[i] = t[i - Len(f)]
  <2>1. t \in Seq(Cell)
    BY <1>2
  <2> HIDE DEF t
  <2>2. QED
    BY <2>1, ConcatProperties
<1> HIDE DEF g
<1>5. ASSUME NEW i \in (Len(f) + 1)..Len(g)
      PROVE  g[i] = [id |-> id, part |-> i - Len(f) + a - 1]
  <2>1. PICK k : k = i - Len(f)
    OBVIOUS
  <2>2. k \in 1..Len(t) /\ g[i] = t[k]
    BY <1>2, <1>4, <2>1
  <2>3. t[k] = [id |-> id, part |-> k + a - 1]
    BY <1>3, <2>2
  <2>4. QED
    BY <2>1, <2>2, <2>3
<1>6. Grown(f, g, id, a, b)
  <2>1. Len(g) = Len(f) + (b - a) + 1
    BY <1>2, <1>4
  <2>2. QED
    BY <1>4, <1>5, <2>1 DEF Grown
<1>7. QED
  BY <1>6 DEF g, t, l

\* The line is a new one, or the one the log ends in the middle of.
Fits(f, n, id, a) ==
  \/ a = 1 /\ id > n
  \/ a > 1 /\ f # <<>> /\ f[Len(f)] = [id |-> id, part |-> a - 1]

\* The cells of a line not yet written are not there.
LEMMA NotYet ==
  ASSUME NEW f \in Seq(Cell), NEW n \in Nat, Shaped(f, n), NEW id \in 1..MaxLines,
         NEW a \in 1..4, Fits(f, n, id, a), NEW i \in 1..Len(f), f[i].id = id
  PROVE  f[i].part < a
<1>1. f[i] \in Cell /\ f[i].part \in 1..4 /\ f[i].id <= n /\ Len(f) \in Nat
  <2>1. i \in DOMAIN f
    OBVIOUS
  <2>2. f[i].id <= n
    BY <2>1 DEF Shaped
  <2>3. QED
    BY <2>2, CellAt
<1>2. a > 1 /\ Len(f) \in 1..Len(f) /\ f[Len(f)] = [id |-> id, part |-> a - 1]
  BY <1>1 DEF Fits
<1>3. SUFFICES ASSUME f[i].part >= a PROVE FALSE
  BY <1>1
<1>4. PICK d : d = f[i].part - (a - 1)
  OBVIOUS
<1>5. d \in 1..3 /\ (d = 1 \/ d = 2 \/ d = 3)
  BY <1>1, <1>2, <1>3, <1>4
<1>6. ASSUME NEW j \in 1..Len(f), j < i, f[j] = f[Len(f)] PROVE FALSE
  BY <1>1, <1>2, <1>6 DEF Shaped
<1>7. CASE d = 1
  <2>1. PICK j : j = i - 1
    OBVIOUS
  <2>2. f[i].part >= 2
    BY <1>1, <1>2, <1>3
  <2>6. j \in 1..Len(f) /\ f[j] = [id |-> f[i].id, part |-> f[i].part - 1]
    BY <2>1, <2>2, LineBefore
  <2>3. f[i].part - 1 = a - 1 /\ j < i
    BY <1>1, <1>4, <1>7, <2>1
  <2>4. f[j] = f[Len(f)]
    BY <1>2, <2>6, <2>3
  <2>5. QED
    BY <1>6, <2>6, <2>3, <2>4
<1>8. CASE d = 2
  <2>1. PICK j : j = i - 2
    OBVIOUS
  <2>2. f[i].part >= 3
    BY <1>1, <1>2, <1>4, <1>8
  <2>3. j \in 1..Len(f) /\ f[j] = [id |-> f[i].id, part |-> f[i].part - 2]
    BY <2>1, <2>2, LineBefore
  <2>4. f[i].part - 2 = a - 1 /\ j < i
    BY <1>1, <1>4, <1>8, <2>1
  <2>5. f[j] = f[Len(f)]
    BY <1>2, <2>3, <2>4
  <2>6. QED
    BY <1>6, <2>3, <2>4, <2>5
<1>9. CASE d = 3
  <2>1. PICK j : j = i - 3
    OBVIOUS
  <2>2. f[i].part = 4 /\ a - 1 = 1
    BY <1>1, <1>2, <1>4, <1>9
  <2>3. j \in 1..Len(f) /\ f[j] = [id |-> f[i].id, part |-> 1]
    BY <2>1, <2>2, LineBefore
  <2>4. j < i
    BY <1>1, <2>1
  <2>5. f[j] = f[Len(f)]
    BY <1>2, <2>2, <2>3
  <2>6. QED
    BY <1>6, <2>3, <2>4, <2>5
<1>10. QED
  BY <1>5, <1>7, <1>8, <1>9

\* An append keeps the log's shape.
LEMMA GrownShaped ==
  ASSUME NEW f \in Seq(Cell), NEW n \in Nat, Shaped(f, n), NEW id \in 1..MaxLines,
         NEW a \in 1..4, NEW b \in a..4, Fits(f, n, id, a),
         NEW g, Grown(f, g, id, a, b), NEW m \in Nat, n <= m, id <= m
  PROVE  Shaped(g, m)
<1>1. g \in Seq(Cell) /\ Len(f) \in Nat /\ Len(g) = Len(f) + (b - a) + 1
      /\ DOMAIN f = 1..Len(f) /\ DOMAIN g = 1..Len(g)
  BY DEF Grown
<1>2. ASSUME NEW i \in 1..Len(g)
      PROVE  \/ i \in 1..Len(f) /\ g[i] = f[i] /\ f[i] \in Cell
             \/ i \in (Len(f) + 1)..Len(g) /\ g[i] = [id |-> id, part |-> i - Len(f) + a - 1]
  <2>1. i \in 1..Len(f) \/ i \in (Len(f) + 1)..Len(g)
    BY <1>1
  <2>2. i \in 1..Len(f) => g[i] = f[i] /\ f[i] \in Cell
    BY CellAt DEF Grown
  <2>3. i \in (Len(f) + 1)..Len(g) => g[i] = [id |-> id, part |-> i - Len(f) + a - 1]
    BY DEF Grown
  <2>4. QED
    BY <2>1, <2>2, <2>3
<1>3. ASSUME NEW i \in 1..Len(g)
      PROVE  /\ g[i].id <= m
             /\ g[i].part # 1 => i > 1 /\ g[i - 1] = [id |-> g[i].id, part |-> g[i].part - 1]
  <2>1. CASE i \in 1..Len(f) /\ g[i] = f[i] /\ f[i] \in Cell
    <3>1. f[i].id <= n /\ f[i].id \in Nat
      <4>1. i \in DOMAIN f
        BY <1>1, <2>1
      <4>2. f[i].id <= n
        BY <4>1 DEF Shaped
      <4>3. QED
        BY <2>1, <4>2 DEF Cell
    <3>2. ASSUME f[i].part # 1
          PROVE  i > 1 /\ g[i - 1] = [id |-> g[i].id, part |-> g[i].part - 1]
      <4>1. i > 1 /\ f[i - 1] = [id |-> f[i].id, part |-> f[i].part - 1]
        BY <1>1, <2>1, <3>2 DEF Shaped
      <4>2. i - 1 \in 1..Len(f)
        BY <1>1, <2>1, <4>1
      <4>3. g[i - 1] = f[i - 1]
        BY <4>2 DEF Grown
      <4>4. QED
        BY <2>1, <4>1, <4>3
    <3>3. QED
      BY <2>1, <3>1, <3>2
  <2>2. CASE i \in (Len(f) + 1)..Len(g) /\ g[i] = [id |-> id, part |-> i - Len(f) + a - 1]
    <3>1. g[i].id = id /\ g[i].part = i - Len(f) + a - 1
      BY <2>2
    <3>2. ASSUME i > Len(f) + 1
          PROVE  i > 1 /\ g[i - 1] = [id |-> g[i].id, part |-> g[i].part - 1]
      <4>1. PICK j : j = i - 1
        OBVIOUS
      <4>2. j \in (Len(f) + 1)..Len(g)
        BY <1>1, <2>2, <3>2, <4>1
      <4>3. g[j] = [id |-> id, part |-> j - Len(f) + a - 1]
        BY <4>2 DEF Grown
      <4>4. j - Len(f) + a - 1 = g[i].part - 1 /\ i > 1
        <5>1. i \in Int /\ i > 1 /\ j - Len(f) + a - 1 = i - Len(f) + a - 1 - 1
          BY <1>1, <3>2, <4>1
        <5>2. QED
          BY <3>1, <5>1
      <4>5. [id |-> id, part |-> j - Len(f) + a - 1] = [id |-> g[i].id, part |-> g[i].part - 1]
        BY <3>1, <4>4
      <4>6. g[i - 1] = g[j]
        BY <4>1
      <4>7. QED
        BY <4>3, <4>4, <4>5, <4>6
    <3>3. ASSUME i = Len(f) + 1, g[i].part # 1
          PROVE  i > 1 /\ g[i - 1] = [id |-> g[i].id, part |-> g[i].part - 1]
      <4>1. g[i].part = a
        BY <1>1, <3>1, <3>3
      <4>2. f # <<>> /\ f[Len(f)] = [id |-> id, part |-> a - 1]
        BY <3>3, <4>1 DEF Fits
      <4>3. Len(f) \in 1..Len(f) /\ i - 1 = Len(f)
        BY <1>1, <3>3, <4>2
      <4>4. g[Len(f)] = f[Len(f)]
        BY <4>3 DEF Grown
      <4>5. i > 1
        BY <1>1, <3>3, <4>3
      <4>6. g[i - 1] = [id |-> id, part |-> a - 1]
        BY <4>2, <4>3, <4>4
      <4>7. QED
        BY <3>1, <4>1, <4>5, <4>6
    <3>4. i > Len(f) + 1 \/ i = Len(f) + 1
      BY <1>1, <2>2
    <3>5. g[i].id <= m
      BY <3>1
    <3>6. QED
      BY <3>2, <3>3, <3>4, <3>5
  <2>3. QED
    BY <1>2, <2>1, <2>2
<1>4. ASSUME NEW i \in 1..Len(g), NEW j \in 1..Len(g), g[i] = g[j], i < j PROVE FALSE
  <2>1. CASE j \in 1..Len(f)
    <3>1. i \in 1..Len(f)
      BY <1>1, <1>4, <2>1
    <3>2. f[i] = f[j]
      BY <1>4, <2>1, <3>1 DEF Grown
    <3>3. i \in DOMAIN f /\ j \in DOMAIN f
      BY <1>1, <2>1, <3>1
    <3>4. i = j
      BY <3>2, <3>3 DEF Shaped
    <3>5. QED
      BY <1>4, <2>1, <3>1, <3>4
  <2>2. CASE j \in (Len(f) + 1)..Len(g)
    <3>1. g[j] = [id |-> id, part |-> j - Len(f) + a - 1]
      BY <2>2 DEF Grown
    <3>2. CASE i \in 1..Len(f)
      <4>1. g[i] = f[i]
        BY <3>2 DEF Grown
      <4>2. f[i].id = id /\ f[i].part = j - Len(f) + a - 1
        BY <1>4, <3>1, <4>1
      <4>3. f[i].part < a
        BY <3>2, <4>2, NotYet
      <4>4. QED
        BY <1>1, <2>2, <4>2, <4>3
    <3>3. CASE i \in (Len(f) + 1)..Len(g)
      <4>1. g[i] = [id |-> id, part |-> i - Len(f) + a - 1]
        BY <3>3 DEF Grown
      <4>2. i - Len(f) + a - 1 = j - Len(f) + a - 1
        BY <1>4, <3>1, <4>1
      <4>3. QED
        BY <1>1, <1>4, <4>2
    <3>4. QED
      BY <1>1, <3>2, <3>3
  <2>3. QED
    BY <1>1, <2>1, <2>2
<1>5. \A i, j \in 1..Len(g) : g[i] = g[j] => i = j
  <2>1. ASSUME NEW i \in 1..Len(g), NEW j \in 1..Len(g), g[i] = g[j] PROVE i = j
    <3>1. ~ i < j
      BY <1>4, <2>1
    <3>2. ~ j < i
      BY <1>4, <2>1
    <3>3. QED
      BY <1>1, <3>1, <3>2
  <2>2. QED
    BY <2>1
<1>6. QED
  BY <1>1, <1>3, <1>5 DEF Shaped

Mended(f, g, id, a, b) ==
  /\ Torn(g) \ {Len(g)} \subseteq Torn(f)
  /\ a > 1 => Torn(g) \ {Len(g)} \subseteq Torn(f) \ {Len(f)}
  /\ b = 4 => Len(g) \in Ends(g) /\ Len(g) \notin Torn(g) /\ g[Len(g)].id = id
  /\ b < 4 => Unended(g) /\ g[Len(g)].id = id
  /\ Len(f) + 1 \in 1..Len(g) /\ g[Len(f) + 1] = [id |-> id, part |-> a]
  /\ Ends(f) \subseteq Ends(g)

\* Adding to a log tears no line but one that was at its end, and mends the one it goes on with.
LEMMA GrownTorn ==
  ASSUME NEW f \in Seq(Cell), NEW n \in Nat, NEW id \in 1..MaxLines,
         NEW a \in 1..4, NEW b \in a..4, Fits(f, n, id, a), NEW g, Grown(f, g, id, a, b)
  PROVE  Mended(f, g, id, a, b)
<1>1. g \in Seq(Cell) /\ Len(f) \in Nat /\ Len(g) = Len(f) + (b - a) + 1
      /\ DOMAIN f = 1..Len(f) /\ DOMAIN g = 1..Len(g)
  BY DEF Grown
<1>2. PICK e : e = Len(g)
  OBVIOUS
<1>3. e \in 1..Len(g) /\ g[e] = [id |-> id, part |-> b] /\ g # <<>>
  <2>1. e \in (Len(f) + 1)..Len(g) /\ e - Len(f) + a - 1 = b
    BY <1>1, <1>2
  <2>2. g[e] = [id |-> id, part |-> e - Len(f) + a - 1]
    BY <2>1 DEF Grown
  <2>3. QED
    BY <1>1, <2>1, <2>2
<1>4. PICK s : s = Len(f) + 1
  OBVIOUS
<1>5. s \in 1..Len(g) /\ g[s] = [id |-> id, part |-> a]
  <2>1. s \in (Len(f) + 1)..Len(g) /\ s - Len(f) + a - 1 = a
    BY <1>1, <1>4
  <2>2. g[s] = [id |-> id, part |-> s - Len(f) + a - 1]
    BY <2>1 DEF Grown
  <2>3. QED
    BY <1>1, <2>1, <2>2
<1>6. ASSUME NEW i \in Torn(g), i # Len(g)
      PROVE  i \in Torn(f) /\ (a > 1 => i # Len(f))
  <2>1. i \in 1..Len(g) /\ g[i].part # 4 /\ g[i + 1].part = 1
    BY <1>1, <1>6 DEF Torn, NewLine
  <2>2. PICK j : j = i + 1
    OBVIOUS
  <2>3. j \in 1..Len(g) /\ g[j].part = 1
    BY <1>1, <1>6, <2>1, <2>2
  <2>4. ASSUME i > Len(f) PROVE FALSE
    <3>1. j \in (Len(f) + 1)..Len(g)
      BY <1>1, <2>1, <2>2, <2>3, <2>4
    <3>2. g[j] = [id |-> id, part |-> j - Len(f) + a - 1]
      BY <3>1 DEF Grown
    <3>3. g[j].part = j - Len(f) + a - 1
      BY <3>2
    <3>4. QED
      BY <1>1, <2>1, <2>2, <2>3, <2>4, <3>3
  <2>5. i \in 1..Len(f) /\ g[i] = f[i]
    BY <1>1, <2>1, <2>4 DEF Grown
  <2>6. CASE i = Len(f)
    <3>1. j = s /\ a = 1
      BY <1>4, <1>5, <2>2, <2>3, <2>6
    <3>2. i \in DOMAIN f /\ f[i].part # NewLine
      BY <1>1, <2>1, <2>5 DEF NewLine
    <3>3. QED
      BY <2>6, <3>1, <3>2 DEF Torn
  <2>7. CASE i # Len(f)
    <3>1. j \in 1..Len(f)
      <4>1. i \in 1..Len(f) /\ Len(f) \in Nat
        BY <1>1, <2>5
      <4>2. i < Len(f)
        BY <2>7, <4>1
      <4>3. QED
        BY <2>2, <4>1, <4>2
    <3>2. f[j].part = 1
      BY <2>3, <3>1 DEF Grown
    <3>3. i \in DOMAIN f /\ f[i].part # NewLine
      BY <1>1, <2>1, <2>5 DEF NewLine
    <3>4. QED
      BY <2>2, <2>7, <3>2, <3>3 DEF Torn
  <2>8. QED
    BY <2>6, <2>7
<1>7. Ends(f) \subseteq Ends(g)
  <2>1. ASSUME NEW i \in Ends(f) PROVE i \in Ends(g)
    <3>1. i \in 1..Len(f) /\ f[i].part = 4
      BY EndsAre
    <3>2. i \in 1..Len(g) /\ g[i] = f[i]
      BY <1>1, <3>1 DEF Grown
    <3>3. QED
      BY <1>1, <3>1, <3>2, EndsAre
  <2>2. QED
    BY <2>1
<1>8. (b = 4 => Len(g) \in Ends(g) /\ Len(g) \notin Torn(g)) /\ g[Len(g)].id = id
      /\ (b < 4 => Unended(g))
  BY <1>1, <1>2, <1>3 DEF Ends, Torn, NewLine, Unended
<1>9. (\A i \in Torn(g) \ {Len(g)} : i \in Torn(f)) /\ (a > 1 => \A i \in Torn(g) \ {Len(g)} : i \in Torn(f) \ {Len(f)})
  BY <1>6
<1>10. QED
  BY <1>4, <1>5, <1>7, <1>8, <1>9 DEF Mended

IsCut(f, g, m, n) ==
  /\ g \in Seq(Cell) /\ Len(g) = n /\ \A i \in 1..n : g[i] = f[i]
  /\ Shaped(g, m)
  /\ Torn(g) \ {n} \subseteq Torn(f) \ {Len(f)}
  /\ n \in {0} \cup Ends(f) => n \notin Torn(g)

\* What is left of a log after a loss of power.
LEMMA CutIs ==
  ASSUME NEW f \in Seq(Cell), NEW m \in Nat, Shaped(f, m), NEW n \in Nat, n < Len(f),
         NEW g, g = SubSeq(f, 1, n)
  PROVE  IsCut(f, g, m, n)
<1>1. g \in Seq(Cell) /\ Len(g) = n /\ (\A i \in 1..n : g[i] = f[i]) /\ n \in Nat
      /\ Len(f) \in Nat /\ n < Len(f) /\ DOMAIN g = 1..n /\ DOMAIN f = 1..Len(f)
  <2>1. Len(f) \in Nat /\ n \in Nat /\ n < Len(f)
    OBVIOUS
  <2>2. QED
    BY <2>1
<1>2. Shaped(g, m)
  <2>1. ASSUME NEW i \in 1..n
        PROVE  /\ g[i].id <= m
               /\ g[i].part # 1 => i > 1 /\ g[i - 1] = [id |-> g[i].id, part |-> g[i].part - 1]
    <3>1. i \in 1..Len(f) /\ g[i] = f[i]
      BY <1>1
    <3>2. f[i].id <= m
          /\ (f[i].part # 1 => i > 1 /\ f[i - 1] = [id |-> f[i].id, part |-> f[i].part - 1])
      BY <1>1, <3>1 DEF Shaped
    <3>3. i > 1 => i - 1 \in 1..n
      BY <1>1
    <3>4. i > 1 => g[i - 1] = f[i - 1]
      BY <1>1, <3>3
    <3>5. QED
      BY <3>1, <3>2, <3>4
  <2>2. \A i, j \in 1..n : g[i] = g[j] => i = j
    BY <1>1 DEF Shaped
  <2>3. QED
    BY <1>1, <2>1, <2>2 DEF Shaped
<1>3. ASSUME NEW i \in Torn(g), i # n PROVE i \in Torn(f) /\ i # Len(f)
  <2>1. i \in 1..n
    BY <1>1 DEF Torn
  <2>2. PICK j : j = i + 1
    OBVIOUS
  <2>3. g[i].part # NewLine /\ g[j].part = 1
    BY <1>1, <1>3, <2>2 DEF Torn
  <2>4. j \in 1..n /\ i \in 1..Len(f) /\ i # Len(f)
    <3>1. n \in Nat /\ Len(f) \in Nat /\ n < Len(f)
      BY <1>1
    <3>2. i < n
      BY <1>3, <2>1, <3>1
    <3>3. QED
      BY <2>1, <2>2, <3>1, <3>2
  <2>5. g[j] = f[j] /\ g[i] = f[i]
    BY <1>1, <2>1, <2>4
  <2>6. i \in DOMAIN f
    BY <1>1, <2>4
  <2>7. QED
    BY <2>2, <2>3, <2>4, <2>5, <2>6 DEF Torn
<1>4. ASSUME n \in {0} \cup Ends(f), n \in Torn(g) PROVE FALSE
  <2>1. n \in 1..n /\ g[n].part # 4
    BY <1>1, <1>4 DEF Torn, NewLine
  <2>2. n \in Ends(f) /\ f[n].part = 4 /\ g[n] = f[n]
    BY <1>1, <1>4, <2>1, EndsAre
  <2>3. QED
    BY <2>1, <2>2
<1>5. QED
  BY <1>1, <1>2, <1>3, <1>4 DEF IsCut

-----------------------------------------------------------------------------
(* The invariants *)

Writing == {p \in Procs : rec[p].at = "writing"}

\* The lines cut short for good: an append in progress may still end the last one.
CutShort == IF Writing = {} THEN Torn(file) ELSE Torn(file) \ {Len(file)}

\* Every line is written once and from its start, one at a time; what was acknowledged
\* is whole, and each line that is not was paid for by a cut.
LineInv ==
  /\ Len(kinds) <= MaxLines
  /\ Shaped(file, Len(kinds))
  /\ gone => file = <<>>
  /\ \A p, q \in Procs : rec[p].at = "writing" /\ rec[q].at = "writing" => p = q
  /\ \A p \in Procs : rec[p].at \in {"writing", "written"} => rec[p].id \in 1..Len(kinds)
  /\ ~gone =>
       /\ \A p \in Procs :
            /\ rec[p].at = "writing" => Unended(file) /\ file[Len(file)].id = rec[p].id
            /\ rec[p].at = "written" => Whole(file, rec[p].id)
       /\ \A id \in acked : Whole(file, id)
       /\ Cardinality(CutShort) <= cuts

\* A cache that a loss of power left behind a log it is longer than; nobody writes.
Stale ==
  /\ cache.scanned > Len(file) /\ kinds # <<>>
  /\ \A p \in Procs : rec[p].at \in {"out", "exiting"} /\ look[p].at # "loaded"

\* The line that the recorder's summary lacks is its own.
Behind(p) ==
  /\ rec[p].meta.scanned + 1 \in 1..Len(file)
  /\ file[rec[p].meta.scanned + 1] = [id |-> rec[p].id, part |-> 1]

SummaryOf(p) ==
  /\ PrefixOf(kinds, file, rec[p].meta) /\ PrefixOf(kinds, file, look[p].meta)
  /\ rec[p].at \in {"starting", "idle"} => Unended(file) \/ rec[p].meta.scanned = Len(file)
  /\ rec[p].at \in {"writing", "written"} => Behind(p)
  /\ rec[p].at = "written" => rec[p].meta.scanned + NewLine = Len(file)

\* What anyone holds is a scan of the log up to the end of a line, and what a recorder
\* holds is up to date but for the line it is writing.
SummaryInv ==
  Clean => /\ Torn(file) \subseteq {Len(file)}
           /\ PrefixOf(kinds, file, cache) \/ Stale
           /\ \A p \in Procs : SummaryOf(p)

FileInv == FileTypeOK /\ LineInv /\ SummaryInv

-----------------------------------------------------------------------------
(* What they say of a summary *)

\* The cells of the line that ends at `e`.
LEMMA LineOfEnd ==
  ASSUME NEW f \in Seq(Cell), NEW n \in Nat, Shaped(f, n), NEW e \in Ends(f)
  PROVE  \E s \in 1..Len(f) :
           /\ s + 3 = e /\ f[s] = [id |-> f[e].id, part |-> 1] /\ LineAt(f, s)
           /\ \A i \in 1..Len(f) : f[i].id = f[e].id /\ f[i].part = 1 => i = s
<1>1. e \in 1..Len(f) /\ f[e].part = 4 /\ Len(f) \in Nat /\ DOMAIN f = 1..Len(f)
  BY EndsAre
<1>2. PICK a : a = e - 1
  OBVIOUS
<1>3. PICK b : b = e - 2
  OBVIOUS
<1>4. PICK s : s = e - 3
  OBVIOUS
<1>5. /\ a \in 1..Len(f) /\ f[a] = [id |-> f[e].id, part |-> f[e].part - 1]
      /\ b \in 1..Len(f) /\ f[b] = [id |-> f[e].id, part |-> f[e].part - 2]
      /\ s \in 1..Len(f) /\ f[s] = [id |-> f[e].id, part |-> 1]
  <2>1. f[e].part >= 2 /\ f[e].part >= 3 /\ f[e].part = 4
    BY <1>1
  <2>2. QED
    BY <1>1, <1>2, <1>3, <1>4, <2>1, LineBefore
<1>6. f[e].part - 1 = 3 /\ f[e].part - 2 = 2 /\ f[s].id = f[e].id /\ f[s].part = 1
  BY <1>1, <1>5
<1>7. s + 1 = b /\ s + 2 = a /\ s + 3 = e /\ s + 2 <= Len(f)
  BY <1>1, <1>2, <1>3, <1>4
<1>8. LineAt(f, s)
  <2>1. f[s + 1] = [id |-> f[s].id, part |-> 2]
    BY <1>5, <1>6, <1>7
  <2>2. f[s + 2] = [id |-> f[s].id, part |-> 3]
    BY <1>5, <1>6, <1>7
  <2>3. f[s + 3].part = 4
    BY <1>1, <1>7
  <2>4. QED
    BY <1>6, <1>7, <2>1, <2>2, <2>3 DEF LineAt
<1>9. ASSUME NEW i \in 1..Len(f), f[i].id = f[e].id, f[i].part = 1 PROVE i = s
  <2>1. f[i] \in Cell
    BY CellAt
  <2>2. f[i] = [id |-> f[i].id, part |-> f[i].part]
    BY <2>1 DEF Cell
  <2>3. f[i] = f[s]
    BY <1>5, <1>9, <2>2
  <2>4. i \in DOMAIN f /\ s \in DOMAIN f
    BY <1>1, <1>5
  <2>5. QED
    BY <2>3, <2>4 DEF Shaped
<1>10. QED
  BY <1>5, <1>7, <1>8, <1>9

\* Every summary there is is that of a prefix of the log, or is longer than the log.
LEMMA SummariesAre ==
  ASSUME FileInv, Clean, NEW m \in Summaries
  PROVE  m \in Meta /\ (PrefixOf(kinds, file, m) \/ m.scanned > Len(file))
<1>1. m = cache => PrefixOf(kinds, file, m) \/ m.scanned > Len(file)
  BY DEF FileInv, SummaryInv, Stale
<1>2. ASSUME NEW p \in Procs
      PROVE  PrefixOf(kinds, file, rec[p].meta) /\ PrefixOf(kinds, file, look[p].meta)
  BY DEF FileInv, SummaryInv, SummaryOf
<1>3. m = cache \/ (\E p \in Procs : m = rec[p].meta) \/ (\E p \in Procs : m = look[p].meta)
  BY DEF Summaries
<1>4. PrefixOf(kinds, file, m) \/ m.scanned > Len(file)
  BY <1>1, <1>2, <1>3
<1>5. m \in Meta
  BY <1>2, <1>3 DEF PrefixOf, FileInv, FileTypeOK
<1>6. QED
  BY <1>4, <1>5

\* A summary can be had or not, whatever it is caught up from.
LEMMA RefreshableAlike ==
  ASSUME FileInv, Clean, NEW c \in Meta, PrefixOf(kinds, file, c) \/ c.scanned > Len(file)
  PROVE  Refreshable(file, c) <=> ~(file # <<>> /\ file[Len(file)].part = 2)
<1>1. file \in Seq(Cell) /\ Len(kinds) \in Nat /\ Shaped(file, Len(kinds))
      /\ Torn(file) \subseteq {Len(file)}
  BY DEF FileInv, FileTypeOK, LineInv, SummaryInv
<1>2. PICK a : a = From(file, c).scanned
  OBVIOUS
<1>3. a \in Starts(file)
  BY <1>1, <1>2, RefreshedIs
<1>4. QED
  BY <1>1, <1>2, <1>3, BadTextIs DEF Refreshable

\* Of every summary there is, caught up: it is that of a whole scan.
LEMMA DerivedFromInv ==
  ASSUME FileInv
  PROVE  CacheIsDerived
<1>1. SUFFICES ASSUME Clean, NEW m \in Summaries
               PROVE  /\ Refreshable(file, m) = Refreshable(file, NewMeta)
                      /\ Refreshed(file, m) = Refreshed(file, NewMeta)
  BY DEF CacheIsDerived
<1>2. m \in Meta /\ (PrefixOf(kinds, file, m) \/ m.scanned > Len(file))
  BY <1>1, SummariesAre
<1>3. file \in Seq(Cell)
  BY DEF FileInv, FileTypeOK
<1>4. Refreshed(file, m) = Refreshed(file, NewMeta)
  BY <1>2, <1>3, RefreshedAlike
<1>5. NewMeta \in Meta /\ PrefixOf(kinds, file, NewMeta)
  BY <1>3, NewMetaType, NewMetaIsPrefix
<1>6. Refreshable(file, m) <=> Refreshable(file, NewMeta)
  BY <1>1, <1>2, <1>5, RefreshableAlike
<1>7. Refreshable(file, m) \in BOOLEAN /\ Refreshable(file, NewMeta) \in BOOLEAN
  BY DEF Refreshable
<1>8. QED
  BY <1>4, <1>6, <1>7

\* Of every summary there is: what is read from its baseline is built from as the whole
\* log is.
LEMMA WholeFromInv ==
  ASSUME FileInv
  PROVE  LoadIsWhole
<1>1. SUFFICES ASSUME Clean, NEW m \in Summaries
               PROVE  FromBaseline(ReadLogFrom(file, Refreshed(file, m).baseline))
                        = FromBaseline(ReadLogFrom(file, 0))
  BY DEF LoadIsWhole
<1>2. m \in Meta /\ (PrefixOf(kinds, file, m) \/ m.scanned > Len(file))
  BY <1>1, SummariesAre
<1>3. file \in Seq(Cell) /\ Len(file) \in Nat
  BY DEF FileInv, FileTypeOK
<1>4. PICK e : e = Refreshed(file, m).scanned
  OBVIOUS
<1>5. e \in 0..Len(file) /\ Refreshed(file, m) = FoldIn(kinds, file, NewMeta, e)
  BY <1>2, <1>3, <1>4, RefreshedIs DEF IsComplete
<1>6. PICK b : b = Refreshed(file, m).baseline
  OBVIOUS
<1>7. b = 0 \/ (b + 1 \in 1..e /\ Parses(file, 0, b + 1) /\ kinds[file[b + 1].id] = "Rewound")
  BY <1>3, <1>5, <1>6, FoldBaseline
<1>8. PICK s : s = b + 1
  OBVIOUS
<1>9. b \in 0..Len(file)
  <2>1. b \in Nat
    <3>1. FoldIn(kinds, file, NewMeta, e) \in Meta
      BY <1>3, <1>5, NewMetaType, FoldType
    <3>2. QED
      BY <1>5, <1>6, <3>1 DEF Meta
  <2>2. QED
    BY <1>3, <1>5, <1>7, <2>1
<1>10. b \in Starts(file)
  <2>1. CASE b = 0
    BY <2>1 DEF Starts
  <2>2. CASE b # 0
    <3>1. s \in 1..Len(file) /\ Parses(file, 0, s)
      BY <1>3, <1>5, <1>7, <1>8, <2>2
    <3>2. s \in (0 + 1)..Len(file)
      BY <3>1
    <3>3. s = 0 + 1 \/ s - 1 \in Ends(file)
      BY <1>3, <3>1, <3>2, ParsesMeans
    <3>4. s - 1 = b
      BY <1>8, <1>9
    <3>5. QED
      BY <1>8, <1>9, <2>2, <3>3, <3>4 DEF Starts
  <2>3. QED
    BY <2>1, <2>2
<1>11. b # 0 => s \in 1..Len(file) /\ Parses(file, b, s) /\ kinds[file[s].id] = "Rewound"
  <2>1. SUFFICES ASSUME b # 0
                 PROVE  s \in 1..Len(file) /\ Parses(file, b, s) /\ kinds[file[s].id] = "Rewound"
    OBVIOUS
  <2>2. s \in 1..Len(file) /\ Parses(file, 0, s) /\ kinds[file[s].id] = "Rewound"
    BY <1>3, <1>5, <1>7, <1>8, <2>1
  <2>3. s \in (b + 1)..Len(file)
    BY <1>8, <1>9, <2>2
  <2>4. Parses(file, b, s)
    BY <1>3, <1>10, <2>2, <2>3, ParsesFrom
  <2>5. QED
    BY <2>2, <2>4
<1>12. PICK x \in Seq(1..MaxLines), y \in Seq(1..MaxLines) :
         /\ ReadLogFrom(file, 0) = x \o y /\ ReadLogFrom(file, b) = y
         /\ b = 0 => x = <<>>
         /\ b + 1 \in 1..Len(file) /\ Parses(file, b, b + 1) => y # <<>> /\ y[1] = file[b + 1].id
  BY <1>3, <1>10, ReadInTwo
<1>13. x = <<>> \/ (y # <<>> /\ kinds[y[1]] = "Rewound")
  <2>1. CASE b = 0
    BY <1>12, <2>1
  <2>2. CASE b # 0
    <3>1. y # <<>> /\ y[1] = file[s].id
      BY <1>8, <1>11, <1>12, <2>2
    <3>2. QED
      BY <1>11, <2>2, <3>1
  <2>3. QED
    BY <2>1, <2>2
<1>14. FromBaseline(x \o y) = FromBaseline(y)
  BY <1>13, FromBaselineOfEnd
<1>15. QED
  BY <1>6, <1>12, <1>14

-----------------------------------------------------------------------------
(* What they say of what was said *)

\* A set that is told apart by where it is written is no larger than the places there are.
LEMMA NoMoreThan ==
  ASSUME NEW S, NEW T, IsFiniteSet(T), NEW R,
         \A s \in S : \E t \in T : <<s, t>> \in R,
         \A s, q \in S : \A t \in T : <<s, t>> \in R /\ <<q, t>> \in R => s = q
  PROVE  IsFiniteSet(S) /\ Cardinality(S) <= Cardinality(T)
<1> DEFINE h == [s \in S |-> CHOOSE t \in T : <<s, t>> \in R]
<1>1. ASSUME NEW s \in S PROVE h[s] \in T /\ <<s, h[s]>> \in R
  OBVIOUS
<1>2. h \in [S -> T]
  BY <1>1
<1> HIDE DEF h
<1>3. ASSUME NEW s \in S, NEW q \in S, h[s] = h[q] PROVE s = q
  <2>1. PICK t : t = h[s]
    OBVIOUS
  <2>2. t \in T /\ <<s, t>> \in R /\ <<q, t>> \in R
    BY <1>1, <1>3, <2>1
  <2>3. QED
    BY <2>2
<1>4. \A a, b \in S : h[a] = h[b] => a = b
  BY <1>3
<1>5. h \in Injection(S, T)
  BY <1>2, <1>4, Fun_IsInj
<1>6. QED
  BY <1>5, FS_Injection

\* The lines cut short can be counted.
LEMMA TornFinite ==
  ASSUME NEW f \in Seq(Cell)
  PROVE  IsFiniteSet(Torn(f)) /\ IsFiniteSet(Torn(f) \ {Len(f)})
<1>1. IsFiniteSet(1..Len(f)) /\ Torn(f) \in SUBSET (1..Len(f))
      /\ Torn(f) \ {Len(f)} \in SUBSET (1..Len(f))
  <2>1. 1 \in Int /\ Len(f) \in Int
    OBVIOUS
  <2>2. IsFiniteSet(1..Len(f))
    BY <2>1, FS_Interval
  <2>3. QED
    BY <2>2 DEF Torn
<1>2. QED
  BY <1>1, FS_Subset

\* A whole line that is not read back is behind one that was cut short.
LEMMA BehindTorn ==
  ASSUME NEW f \in Seq(Cell), NEW n \in Nat, Shaped(f, n), NEW e \in Ends(f)
  PROVE  \/ \E i \in 1..Len(f) : Parses(f, 0, i) /\ f[i].id = f[e].id
         \/ \E i \in Torn(f) \ {Len(f)} :
              i + 1 \in 1..Len(f) /\ f[i + 1] = [id |-> f[e].id, part |-> 1]
<1>1. e \in 1..Len(f) /\ f[e].part = 4 /\ Len(f) \in Nat /\ DOMAIN f = 1..Len(f)
  BY EndsAre
<1>4. PICK s \in 1..Len(f) : f[s] = [id |-> f[e].id, part |-> 1] /\ LineAt(f, s)
  BY LineOfEnd
<1>5. CASE s = 1 \/ s - 1 \in Ends(f)
  <2>1. s \in (0 + 1)..Len(f) /\ (s = 0 + 1 \/ s - 1 \in Ends(f))
    BY <1>4, <1>5
  <2>2. Parses(f, 0, s)
    BY <1>4, <2>1, ParsesMeans
  <2>3. QED
    BY <1>4, <2>2
<1>6. CASE ~(s = 1 \/ s - 1 \in Ends(f))
  <2>1. PICK i : i = s - 1
    OBVIOUS
  <2>2. i \in 1..Len(f) /\ i + 1 = s /\ i # Len(f)
    BY <1>1, <1>4, <1>6, <2>1
  <2>3. f[i].part # 4
    BY <1>6, <2>1, <2>2, EndsAre
  <2>4. f[s].part = 1
    BY <1>4
  <2>5. f[i + 1].part = 1
    BY <2>2, <2>4
  <2>6. i \in Torn(f)
    BY <1>1, <2>2, <2>3, <2>5 DEF Torn, NewLine
  <2>7. f[i + 1] = [id |-> f[e].id, part |-> 1] /\ i + 1 \in 1..Len(f)
    BY <1>4, <2>2
  <2>8. QED
    BY <2>2, <2>6, <2>7
<1>7. QED
  BY <1>5, <1>6

\* The events that are read back are those of the lines that can be read.
LEMMA ReadIs ==
  ASSUME file \in Seq(Cell)
  PROVE  \A id : id \in Read <=> \E i \in 1..Len(file) : Parses(file, 0, i) /\ file[i].id = id
<1>1. PICK s : s = ReadLogFrom(file, 0)
  OBVIOUS
<1>2. /\ \A i \in 1..Len(file) : Parses(file, 0, i) => \E k \in DOMAIN s : s[k] = file[i].id
      /\ \A k \in DOMAIN s : \E i \in 1..Len(file) : Parses(file, 0, i) /\ s[k] = file[i].id
  BY <1>1, ReadHas
<1>3. Read = {s[k] : k \in DOMAIN s}
  BY <1>1 DEF Read
<1>4. QED
  BY <1>2, <1>3

\* Of a log that is text: each acknowledged event that is not read back is behind a cut
\* of its own.
LEMMA OneEventFromInv ==
  ASSUME FileInv
  PROVE  CutsCostOneEvent
<1>1. SUFFICES ASSUME IsText PROVE Cardinality(acked \ Read) <= cuts
  BY DEF CutsCostOneEvent
<1>2. /\ file \in Seq(Cell) /\ Len(kinds) \in Nat /\ Shaped(file, Len(kinds)) /\ cuts \in Nat
      /\ \A id \in acked : Whole(file, id)
      /\ Cardinality(CutShort) <= cuts
  BY <1>1 DEF FileInv, FileTypeOK, LineInv, IsText
<1> DEFINE S == acked \ Read
           T == Torn(file) \ {Len(file)}
           R == {w \in S \X T : /\ w[2] + 1 \in 1..Len(file)
                                /\ file[w[2] + 1] = [id |-> w[1], part |-> 1]}
<1>3. ASSUME NEW s \in S PROVE \E t \in T : <<s, t>> \in R
  <2>1. PICK e \in Ends(file) : file[e].id = s
    BY <1>2 DEF Whole
  <2>2. PICK t \in T : t + 1 \in 1..Len(file) /\ file[t + 1] = [id |-> s, part |-> 1]
    <3>1. ~ \E i \in 1..Len(file) : Parses(file, 0, i) /\ file[i].id = s
      BY <1>2, ReadIs
    <3>2. QED
      BY <1>2, <2>1, <3>1, BehindTorn
  <2>3. QED
    BY <2>2
<1>4. ASSUME NEW s \in S, NEW q \in S, NEW t \in T, <<s, t>> \in R, <<q, t>> \in R
      PROVE  s = q
  <2>1. file[t + 1] = [id |-> s, part |-> 1] /\ file[t + 1] = [id |-> q, part |-> 1]
    BY <1>4
  <2>2. QED
    BY <2>1
<1>5. IsFiniteSet(Torn(file)) /\ IsFiniteSet(T)
  BY <1>2, TornFinite
<1> HIDE DEF R
<1>6. IsFiniteSet(S) /\ Cardinality(S) <= Cardinality(T)
  <2> HIDE DEF S, T
  <2>1. QED
    BY <1>3, <1>4, <1>5, NoMoreThan
<1>7. IsFiniteSet(CutShort) /\ T \in SUBSET CutShort
  BY <1>5 DEF CutShort
<1>8. Cardinality(T) <= Cardinality(CutShort) /\ Cardinality(T) \in Nat /\ Cardinality(CutShort) \in Nat
      /\ Cardinality(S) \in Nat
  BY <1>5, <1>6, <1>7, FS_Subset, FS_CardinalityType
<1>9. QED
  BY <1>2, <1>6, <1>8

\* Of a log that is text: one that is found empty has no turn that can be read back.
LEMMA EmptyFromInv ==
  ASSUME FileInv
  PROVE  OnlyEmptyIsDeleted
<1>1. SUFFICES ASSUME Clean, IsText, NEW c \in Found, Empty(file, c),
                      NEW id \in acked, id \in Read, kinds[id] = "TurnStart"
               PROVE  FALSE
  BY DEF OnlyEmptyIsDeleted
<1>2. /\ file \in Seq(Cell) /\ Len(kinds) \in Nat /\ Shaped(file, Len(kinds)) /\ Len(file) \in Nat
      /\ Whole(file, id)
  BY <1>1 DEF FileInv, FileTypeOK, LineInv, IsText
<1>3. c \in Meta /\ (PrefixOf(kinds, file, c) \/ c.scanned > Len(file))
  <2>1. c = cache \/ c = NewMeta
    BY DEF Found
  <2>2. cache \in Summaries
    BY DEF Summaries
  <2>3. QED
    BY <1>1, <1>2, <2>1, <2>2, SummariesAre, NewMetaType, NewMetaIsPrefix
<1>4. Refreshable(file, c)
  <2>1. 0 \in Starts(file) /\ Torn(file) \subseteq {Len(file)} /\ ~BadText(file, 0)
    BY <1>1 DEF Starts, FileInv, SummaryInv, IsText
  <2>2. ~(file # <<>> /\ file[Len(file)].part = 2)
    BY <1>2, <2>1, BadTextIs
  <2>3. QED
    BY <1>1, <1>3, <2>2, RefreshableAlike
<1>5. PICK d : d = Refreshed(file, c).scanned
  OBVIOUS
<1>6. IsComplete(file, 0, d) /\ Refreshed(file, c) = FoldIn(kinds, file, NewMeta, d)
  BY <1>2, <1>3, <1>5, RefreshedIs
<1>7. PICK s : s = Refreshed(file, c).seen
  OBVIOUS
<1>8. {k \in DOMAIN s : kinds[s[k]] = "TurnStart"} = {}
  <2>1. Cardinality({k \in DOMAIN s : kinds[s[k]] = "TurnStart"}) = 0
    BY <1>1, <1>4, <1>7 DEF Empty, Turns
  <2>2. s \in Seq(1..MaxLines)
    BY <1>2, <1>3, <1>7, RefreshedType DEF Meta
  <2>3. DOMAIN s = 1..Len(s) /\ Len(s) \in Int /\ 1 \in Int
    BY <2>2
  <2>4. IsFiniteSet(DOMAIN s)
    BY <2>3, FS_Interval
  <2>5. {k \in DOMAIN s : kinds[s[k]] = "TurnStart"} \in SUBSET (DOMAIN s)
    OBVIOUS
  <2>6. IsFiniteSet({k \in DOMAIN s : kinds[s[k]] = "TurnStart"})
    BY <2>4, <2>5, FS_Subset
  <2>7. QED
    BY <2>1, <2>6, FS_EmptySet
<1>9. PICK n \in 1..Len(file) : Parses(file, 0, n) /\ file[n].id = id
  BY <1>1, <1>2, ReadIs
<1>10. PICK e \in Ends(file) : file[e].id = id
  BY <1>2 DEF Whole
<1>11. PICK x \in 1..Len(file) :
         /\ x + 3 = e
         /\ \A i \in 1..Len(file) : file[i].id = file[e].id /\ file[i].part = 1 => i = x
  BY <1>2, LineOfEnd
<1>12. e \in 1..Len(file) /\ x + 3 = e /\ x \in Int
  BY <1>2, <1>11, EndsAre
<1>13. n = x
  <2>1. n \in (0 + 1)..Len(file)
    BY <1>2, <1>9
  <2>2. file[n].part = 1
    BY <1>2, <1>9, <2>1, ParsesMeans DEF LineAt
  <2>3. QED
    BY <1>9, <1>10, <1>11, <2>2
<1>14. d \in 0..Len(file) /\ e <= d
  <2>1. d \in 0..Len(file) /\ \A later \in (d + 1)..Len(file) : later \notin Ends(file)
    BY <1>6 DEF IsComplete
  <2>2. e \notin (d + 1)..Len(file)
    BY <1>10, <2>1
  <2>3. QED
    BY <1>2, <1>12, <2>1, <2>2
<1>15. n \in 1..d
  BY <1>9, <1>12, <1>13, <1>14
<1>16. PICK k \in DOMAIN s : s[k] = file[n].id
  <2>1. s = FoldIn(kinds, file, NewMeta, d).seen
    BY <1>6, <1>7
  <2>2. file \in Seq(Cell) /\ d \in 0..Len(file)
    BY <1>2, <1>14
  <2>3. Covers(s, file, d)
    BY <2>1, <2>2, FoldHas
  <2>4. QED
    BY <1>9, <1>15, <2>3 DEF Covers
<1>17. QED
  BY <1>1, <1>8, <1>9, <1>16

-----------------------------------------------------------------------------
(* The invariants hold at first, and every step keeps them *)

\* What a process is left with when it stops.
LEMMA ClosedType ==
  /\ Closed \in [at : RecAt, meta : Meta, id : 0..MaxLines]
  /\ [Closed EXCEPT !.at = "exiting"] \in [at : RecAt, meta : Meta, id : 0..MaxLines]
  /\ [Closed EXCEPT !.at = "out"] \in [at : RecAt, meta : Meta, id : 0..MaxLines]
  /\ NoLook \in [at : {"none", "refreshed", "loaded"}, meta : Meta]
BY SessionFileAssumption, NewMetaType DEF Closed, NoLook, RecAt

\* The invariants hold of a session that is yet to be opened.
LEMMA FileInitInv ==
  ASSUME FileInit
  PROVE  FileInv
<1>1. FileTypeOK
  <2>1. file \in Seq(Cell) /\ kinds \in Seq(Kinds) /\ cache \in Meta
    BY NewMetaType DEF FileInit
  <2>2. rec \in [Procs -> [at : RecAt, meta : Meta, id : 0..MaxLines]]
        /\ look \in [Procs -> [at : {"none", "refreshed", "loaded"}, meta : Meta]]
    BY ClosedType DEF FileInit
  <2>3. gone \in BOOLEAN /\ mixed \in BOOLEAN /\ acked \subseteq 1..Len(kinds)
    BY DEF FileInit
  <2>5. cuts \in 0..MaxCuts /\ losses \in 0..MaxLosses
    BY SessionFileAssumption DEF FileInit
  <2>4. QED
    BY <2>1, <2>2, <2>3, <2>5 DEF FileTypeOK
<1>2. LineInv
  <2>1. Torn(file) = {}
    BY DEF FileInit, Torn
  <2>2. Cardinality(CutShort) = 0
    BY <2>1, FS_EmptySet DEF CutShort
  <2>3. Shaped(file, Len(kinds))
    BY DEF FileInit, Shaped
  <2>4. QED
    BY <2>2, <2>3, SessionFileAssumption DEF FileInit, LineInv, Closed
<1>3. SummaryInv
  <2>1. file \in Seq(Cell) /\ Torn(file) = {} /\ cache = NewMeta
    BY DEF FileInit, Torn
  <2>2. PrefixOf(kinds, file, NewMeta)
    BY <2>1, NewMetaIsPrefix
  <2>3. ASSUME NEW p \in Procs
        PROVE  rec[p].meta = NewMeta /\ look[p].meta = NewMeta /\ rec[p].at = "out"
    BY DEF FileInit, Closed, NoLook
  <2>4. QED
    BY <2>1, <2>2, <2>3 DEF SummaryInv, SummaryOf
<1>4. QED
  BY <1>1, <1>2, <1>3 DEF FileInv

\* What a recorder folds of its own leaves a summary.
LEMMA AdvancedType ==
  ASSUME NEW m \in Meta, NEW id \in 1..MaxLines
  PROVE  Advanced(m, id) \in Meta
<1>1. m.scanned \in Nat
  BY DEF Meta
<1>2. PICK x : x = AppliedIn(kinds, m, id, m.scanned)
  OBVIOUS
<1>3. x \in Meta
  BY <1>1, <1>2, AppliedType
<1>4. Advanced(m, id) = [x EXCEPT !.scanned = @ + NewLine]
  BY <1>2 DEF Advanced, Applied, AppliedIn
<1>5. QED
  BY <1>3, <1>4 DEF Meta, NewLine

\* The fields of each process's recorder and look.
LEMMA Fields ==
  ASSUME FileTypeOK, NEW p \in Procs
  PROVE  /\ rec[p] = [at |-> rec[p].at, meta |-> rec[p].meta, id |-> rec[p].id]
         /\ rec[p].at \in RecAt /\ rec[p].meta \in Meta /\ rec[p].id \in 0..MaxLines
         /\ look[p] = [at |-> look[p].at, meta |-> look[p].meta]
         /\ look[p].at \in {"none", "refreshed", "loaded"} /\ look[p].meta \in Meta
BY DEF FileTypeOK

\* An appended line, once begun and once ended.
LEMMA BeginGrows ==
  ASSUME FileInv, NEW p \in Procs, NEW kind \in Kinds, NEW n \in CutAt, BeginWrite(p, kind, n)
  PROVE  /\ Grown(file, file', Len(kinds) + 1, 1, n) /\ Fits(file, Len(kinds), Len(kinds) + 1, 1)
         /\ Len(kinds) + 1 \in 1..MaxLines /\ n \in 1..3 /\ Len(kinds) \in Nat
         /\ kinds' \in Seq(Kinds) /\ Len(kinds') = Len(kinds) + 1
         /\ \A i \in 1..Len(kinds) : kinds'[i] = kinds[i]
<1>1. kinds \in Seq(Kinds) /\ file \in Seq(Cell)
  BY DEF FileInv, FileTypeOK
<1>2. kinds' = Append(kinds, kind) /\ Len(kinds) < MaxLines
      /\ file' = file \o SubSeq(Line(Len(kinds')), 1, n)
  BY DEF BeginWrite
<1>3. /\ kinds' \in Seq(Kinds) /\ Len(kinds') = Len(kinds) + 1
      /\ \A i \in 1..Len(kinds) : kinds'[i] = kinds[i]
  BY <1>1, <1>2
<1>4. Len(kinds) + 1 \in 1..MaxLines /\ n \in 1..3 /\ Len(kinds) \in Nat
  BY <1>1, <1>2, SessionFileAssumption DEF NewLine
<1>5. 1 \in 1..4 /\ n \in 1..4
  BY <1>4
<1>6. Grown(file, file', Len(kinds) + 1, 1, n)
  BY <1>1, <1>2, <1>3, <1>4, <1>5, GrownIs
<1>7. Fits(file, Len(kinds), Len(kinds) + 1, 1)
  BY <1>4 DEF Fits
<1>8. QED
  BY <1>3, <1>4, <1>6, <1>7

\* The append goes on where it was, to the end of its line.
LEMMA EndGrows ==
  ASSUME FileInv, NEW p \in Procs, EndWrite(p), ~gone
  PROVE  \E a \in 2..4 :
           /\ Grown(file, file', rec[p].id, a, 4) /\ Fits(file, Len(kinds), rec[p].id, a)
           /\ rec[p].id \in 1..MaxLines /\ rec[p].id <= Len(kinds)
           /\ file # <<>> /\ file[Len(file)] = [id |-> rec[p].id, part |-> a - 1]
<1>1. /\ kinds \in Seq(Kinds) /\ file \in Seq(Cell) /\ Len(kinds) <= MaxLines
      /\ Unended(file) /\ file[Len(file)].id = rec[p].id /\ rec[p].id \in 1..Len(kinds)
  BY DEF FileInv, FileTypeOK, LineInv, EndWrite
<1>2. Len(file) \in 1..Len(file) /\ file # <<>>
  BY <1>1 DEF Unended
<1>3. PICK c : c = file[Len(file)]
  OBVIOUS
<1>4. c \in Cell /\ c.part \in 1..4 /\ c.part # 4 /\ c.id = rec[p].id
  BY <1>1, <1>2, <1>3, CellAt DEF Unended, NewLine
<1>5. PICK a : a = c.part + 1
  OBVIOUS
<1>6. a \in 2..4 /\ a \in 1..4 /\ 4 \in a..4 /\ a - 1 = c.part /\ a > 1
  BY <1>4, <1>5
<1>7. c = [id |-> rec[p].id, part |-> a - 1]
  BY <1>4, <1>6 DEF Cell
<1>8. rec[p].id \in 1..MaxLines /\ rec[p].id <= Len(kinds)
  BY <1>1, SessionFileAssumption
<1>9. file' = file \o SubSeq(Line(rec[p].id), a, 4)
  BY <1>3, <1>5 DEF EndWrite, NewLine
<1>10. Grown(file, file', rec[p].id, a, 4)
  BY <1>1, <1>6, <1>8, <1>9, GrownIs
<1>11. Fits(file, Len(kinds), rec[p].id, a)
  BY <1>2, <1>3, <1>6, <1>7 DEF Fits
<1>12. QED
  BY <1>2, <1>3, <1>6, <1>7, <1>8, <1>10, <1>11

\* What a loss of power leaves of the log.
LEMMA LossCuts ==
  ASSUME FileInv, NEW n \in 0..Len(file), PowerLoss(n)
  PROVE  /\ file' \in Seq(Cell) /\ Len(file') = n /\ n < Len(file)
         /\ \A i \in 1..n : file'[i] = file[i]
         /\ Shaped(file', Len(kinds))
         /\ Torn(file') \ {n} \subseteq Torn(file) \ {Len(file)}
         /\ n \in {0} \cup Ends(file) => n \notin Torn(file')
<1>1. file \in Seq(Cell) /\ Len(kinds) \in Nat /\ Shaped(file, Len(kinds)) /\ Len(file) \in Nat
  BY DEF FileInv, FileTypeOK, LineInv
<1>2. n \in Nat /\ n < Len(file) /\ file' = SubSeq(file, 1, n)
  BY <1>1 DEF PowerLoss
<1>3. IsCut(file, file', Len(kinds), n)
  BY <1>1, <1>2, CutIs
<1>4. QED
  BY <1>2, <1>3 DEF IsCut

\* Every step keeps the types.
LEMMA TypeKept ==
  ASSUME FileInv, [FileNext]_fileVars
  PROVE  FileTypeOK'
<1>1. /\ FileTypeOK /\ Len(kinds) <= MaxLines
      /\ \A p \in Procs : rec[p].at \in {"writing", "written"} => rec[p].id \in 1..Len(kinds)
  BY DEF FileInv, LineInv
<1> DEFINE R == [at : RecAt, meta : Meta, id : 0..MaxLines]
           L == [at : {"none", "refreshed", "loaded"}, meta : Meta]
<1>2. /\ file \in Seq(Cell) /\ kinds \in Seq(Kinds) /\ cache \in Meta
      /\ rec \in [Procs -> R] /\ look \in [Procs -> L]
      /\ gone \in BOOLEAN /\ mixed \in BOOLEAN /\ acked \subseteq 1..Len(kinds)
      /\ cuts \in 0..MaxCuts /\ losses \in 0..MaxLosses
  BY <1>1 DEF FileTypeOK
<1>3. ASSUME NEW c \in Found PROVE c \in Meta /\ Refreshed(file, c) \in Meta
  <2>1. c \in Meta
    BY <1>2, NewMetaType DEF Found
  <2>2. QED
    BY <1>2, <2>1, RefreshedType
<1>4. Len(kinds) \in Nat /\ MaxLines \in Nat /\ MaxCuts \in Nat /\ MaxLosses \in Nat
  BY <1>2, SessionFileAssumption
<1>5. ASSUME NEW p \in Procs
      PROVE  rec[p].at \in {"writing", "written"} => rec[p].id \in 1..MaxLines
  BY <1>1, <1>4
<1>6. CASE UNCHANGED fileVars
  BY <1>2, <1>6 DEF fileVars, FileTypeOK
<1>7. ASSUME NEW p \in Procs, Refresh(p) PROVE FileTypeOK'
  <2>1. PICK c \in Found : look' = [look EXCEPT ![p] = [at |-> "refreshed", meta |-> Refreshed(file, c)]]
    BY <1>7 DEF Refresh
  <2>2. [at |-> "refreshed", meta |-> Refreshed(file, c)] \in L
    BY <1>3
  <2>3. look' \in [Procs -> L]
    BY <1>2, <2>1, <2>2
  <2>4. UNCHANGED <<file, kinds, cache, rec, gone, cuts, losses, acked, mixed>>
    BY <1>7 DEF Refresh
  <2>5. QED
    BY <1>2, <2>3, <2>4 DEF FileTypeOK
<1>8. ASSUME NEW p \in Procs, LeaveCache(p) PROVE FileTypeOK'
  <2>1. cache' \in Meta
    BY <1>1, <1>8, Fields DEF LeaveCache
  <2>2. [look[p] EXCEPT !.at = "loaded"] \in L
    BY <1>2
  <2>3. look' = [look EXCEPT ![p] = NoLook] \/ look' = [look EXCEPT ![p] = [look[p] EXCEPT !.at = "loaded"]]
    BY <1>8 DEF LeaveCache
  <2>4. look' \in [Procs -> L]
    BY <1>2, <2>2, <2>3, ClosedType
  <2>5. UNCHANGED <<file, kinds, rec, gone, cuts, losses, acked, mixed>>
    BY <1>8 DEF LeaveCache
  <2>6. QED
    BY <1>2, <2>1, <2>4, <2>5 DEF FileTypeOK
<1>9. ASSUME NEW p \in Procs, Open(p) PROVE FileTypeOK'
  <2>1. PICK c \in Found :
          rec' = [rec EXCEPT ![p] =
            [at |-> "starting", id |-> 0,
             meta |-> IF Refreshable(file, c) THEN Refreshed(file, c) ELSE NewMeta]]
    BY <1>9 DEF Open
  <2>2. PICK m : m = IF Refreshable(file, c) THEN Refreshed(file, c) ELSE NewMeta
    OBVIOUS
  <2>3. m \in Meta
    BY <1>3, <2>2, NewMetaType
  <2>4. [at |-> "starting", id |-> 0, meta |-> m] \in R
    BY <1>4, <2>3 DEF RecAt
  <2>5. rec' \in [Procs -> R]
    BY <1>2, <2>1, <2>2, <2>4
  <2>6. look' \in [Procs -> L]
    BY <1>2, <1>9, ClosedType DEF Open
  <2>7. UNCHANGED <<file, kinds, cache, gone, cuts, losses, acked, mixed>>
    BY <1>9 DEF Open
  <2>8. QED
    BY <1>2, <2>5, <2>6, <2>7 DEF FileTypeOK
<1>10. ASSUME NEW p \in Procs, NEW kind \in Kinds, NEW n \in CutAt, BeginWrite(p, kind, n)
       PROVE  FileTypeOK'
  <2>1. /\ file' \in Seq(Cell) /\ kinds' \in Seq(Kinds) /\ Len(kinds') = Len(kinds) + 1
        /\ Len(kinds') \in 0..MaxLines
    BY <1>4, <1>10, BeginGrows DEF Grown
  <2>2. PICK i : i = Len(kinds')
    OBVIOUS
  <2>3. rec' = [rec EXCEPT ![p] = [rec[p] EXCEPT !.at = "writing", !.id = i]]
    BY <1>2, <1>10, <2>2 DEF BeginWrite
  <2>4. [rec[p] EXCEPT !.at = "writing", !.id = i] \in R
    BY <1>2, <2>1, <2>2 DEF RecAt
  <2>5. rec' \in [Procs -> R]
    BY <1>2, <2>3, <2>4
  <2>6. mixed' \in BOOLEAN
    BY <1>10 DEF BeginWrite
  <2>7. acked \subseteq 1..Len(kinds')
    BY <1>2, <1>4, <2>1
  <2>8. UNCHANGED <<cache, look, gone, cuts, losses, acked>>
    BY <1>10 DEF BeginWrite
  <2>9. QED
    BY <1>2, <2>1, <2>5, <2>6, <2>7, <2>8 DEF FileTypeOK
<1>11. ASSUME NEW p \in Procs, EndWrite(p) PROVE FileTypeOK'
  <2>1. file' \in Seq(Cell)
    <3>1. CASE gone
      BY <1>2, <1>11, <3>1 DEF EndWrite
    <3>2. CASE ~gone
      BY <1>11, <3>2, EndGrows DEF Grown
    <3>3. QED
      BY <3>1, <3>2
  <2>2. rec' = [rec EXCEPT ![p] = [rec[p] EXCEPT !.at = "written"]]
    BY <1>11 DEF EndWrite
  <2>3. [rec[p] EXCEPT !.at = "written"] \in R
    BY <1>2 DEF RecAt
  <2>4. rec' \in [Procs -> R]
    BY <1>2, <2>2, <2>3
  <2>5. mixed' \in BOOLEAN /\ UNCHANGED <<kinds, cache, look, gone, cuts, losses, acked>>
    BY <1>11 DEF EndWrite
  <2>6. QED
    BY <1>2, <2>1, <2>4, <2>5 DEF FileTypeOK
<1>12. ASSUME NEW p \in Procs, FailWrite(p) PROVE FileTypeOK'
  <2>1. PICK x \in {"failed", "idle"} : rec' = [rec EXCEPT ![p] = [rec[p] EXCEPT !.at = x, !.id = 0]]
    <3>1. PICK x : x = IF kinds[rec[p].id] = "SessionStart" THEN "failed" ELSE "idle"
      OBVIOUS
    <3>2. x \in {"failed", "idle"} /\ rec' = [rec EXCEPT ![p] = [rec[p] EXCEPT !.at = x, !.id = 0]]
      BY <1>2, <1>12, <3>1 DEF FailWrite
    <3>3. QED
      BY <3>2
  <2>2. [rec[p] EXCEPT !.at = x, !.id = 0] \in R
    <3>1. x \in RecAt /\ 0 \in 0..MaxLines /\ rec[p] \in R
      BY <1>2, <1>4 DEF RecAt
    <3>2. QED
      BY <3>1
  <2>3. rec' \in [Procs -> R]
    BY <1>2, <2>1, <2>2
  <2>4. cuts' \in 0..MaxCuts /\ UNCHANGED <<file, kinds, cache, look, gone, losses, acked, mixed>>
    BY <1>2, <1>4, <1>12 DEF FailWrite
  <2>5. QED
    BY <1>2, <2>3, <2>4 DEF FileTypeOK
<1>13. ASSUME NEW p \in Procs, FoldOwn(p) PROVE FileTypeOK'
  <2>1. PICK m : m = Advanced(rec[p].meta, rec[p].id)
    OBVIOUS
  <2>2. m \in Meta /\ rec[p].id \in 1..Len(kinds)
    BY <1>1, <1>5, <1>13, <2>1, Fields, AdvancedType DEF FoldOwn
  <2>3. rec' = [rec EXCEPT ![p] = [at |-> "idle", meta |-> m, id |-> 0]]
    BY <1>13, <2>1 DEF FoldOwn
  <2>4. [at |-> "idle", meta |-> m, id |-> 0] \in R
    BY <1>4, <2>2 DEF RecAt
  <2>5. rec' \in [Procs -> R] /\ rec'[p].meta = m
    BY <1>2, <2>3, <2>4
  <2>6. cache' \in Meta
    BY <1>2, <1>13, <2>2, <2>5 DEF FoldOwn
  <2>7. acked' \subseteq 1..Len(kinds)
    BY <1>2, <1>13, <2>2 DEF FoldOwn
  <2>8. UNCHANGED <<file, kinds, look, gone, cuts, losses, mixed>>
    BY <1>13 DEF FoldOwn
  <2>9. QED
    BY <1>2, <2>5, <2>6, <2>7, <2>8 DEF FileTypeOK
<1>14. ASSUME NEW p \in Procs, NEW next \in {"exiting", "out"}, Drop(p, next) PROVE FileTypeOK'
  <2>1. rec' = [rec EXCEPT ![p] = [Closed EXCEPT !.at = next]]
        /\ UNCHANGED <<file, kinds, look, gone, cuts, losses, acked, mixed>>
        /\ cache' = IF gone THEN cache ELSE rec[p].meta
    BY <1>14 DEF Drop
  <2>2. [Closed EXCEPT !.at = next] \in R
    BY ClosedType
  <2>3. rec' \in [Procs -> R]
    BY <1>2, <2>1, <2>2
  <2>4. cache' \in Meta
    BY <1>1, <1>2, <2>1, Fields
  <2>5. QED
    BY <1>2, <2>1, <2>3, <2>4 DEF FileTypeOK
<1>15. ASSUME NEW p \in Procs, Exit(p) PROVE FileTypeOK'
  <2>1. rec' = [rec EXCEPT ![p] = Closed] /\ UNCHANGED <<kinds, look, cuts, losses, acked, mixed>>
    BY <1>15 DEF Exit
  <2>2. rec' \in [Procs -> R]
    BY <1>2, <2>1, ClosedType
  <2>3. \/ UNCHANGED <<file, cache, gone>>
        \/ \E c \in Found : cache' = Refreshed(file, c) /\ UNCHANGED <<file, gone>>
        \/ file' = <<>> /\ cache' = NewMeta /\ gone' = TRUE
    BY <1>15 DEF Exit
  <2>4. file' \in Seq(Cell) /\ cache' \in Meta /\ gone' \in BOOLEAN
    <3>1. <<>> \in Seq(Cell) /\ NewMeta \in Meta
      BY NewMetaType
    <3>2. CASE UNCHANGED <<file, cache, gone>>
      BY <1>2, <3>2
    <3>3. CASE \E c \in Found : cache' = Refreshed(file, c) /\ UNCHANGED <<file, gone>>
      BY <1>2, <1>3, <3>3
    <3>4. CASE file' = <<>> /\ cache' = NewMeta /\ gone' = TRUE
      BY <3>1, <3>4
    <3>5. QED
      BY <2>3, <3>2, <3>3, <3>4
  <2>5. QED
    BY <1>2, <2>1, <2>2, <2>4 DEF FileTypeOK
<1>16. ASSUME NEW p \in Procs, Kill(p) PROVE FileTypeOK'
  <2>1. rec' \in [Procs -> R] /\ look' \in [Procs -> L]
    BY <1>2, <1>16, ClosedType DEF Kill
  <2>2. cuts' \in 0..MaxCuts /\ UNCHANGED <<file, kinds, cache, gone, losses, acked, mixed>>
    BY <1>2, <1>4, <1>16 DEF Kill
  <2>3. QED
    BY <1>2, <2>1, <2>2 DEF FileTypeOK
<1>17. ASSUME NEW n \in 0..Len(file), PowerLoss(n) PROVE FileTypeOK'
  <2>1. file' \in Seq(Cell)
    BY <1>17, LossCuts
  <2>2. rec' \in [Procs -> R] /\ look' \in [Procs -> L]
    BY <1>17, ClosedType DEF PowerLoss
  <2>3. cache' \in Meta
    BY <1>2, <1>17, NewMetaType DEF PowerLoss
  <2>4. cuts' \in 0..MaxCuts /\ losses' \in 0..MaxLosses
    BY <1>2, <1>4, <1>17 DEF PowerLoss
  <2>5. acked' \subseteq acked /\ UNCHANGED <<kinds, gone, mixed>>
    BY <1>17 DEF PowerLoss
  <2>6. QED
    BY <1>2, <2>1, <2>2, <2>3, <2>4, <2>5 DEF FileTypeOK
<1>18. QED
  BY <1>6, <1>7, <1>8, <1>9, <1>10, <1>11, <1>12, <1>13, <1>14, <1>15, <1>16, <1>17 DEF FileNext

-----------------------------------------------------------------------------
(* Every step keeps the lines *)

\* A step that cuts no line short, or one, and counts it.
LEMMA StaysPaid ==
  ASSUME FileInv, ~gone,
         \/ CutShort' \subseteq CutShort /\ cuts' = cuts
         \/ cuts' = cuts + 1 /\ \E x : CutShort' \subseteq CutShort \cup {x}
  PROVE  Cardinality(CutShort') <= cuts'
<1>1. file \in Seq(Cell) /\ cuts \in Nat /\ Cardinality(CutShort) <= cuts
  BY DEF FileInv, FileTypeOK, LineInv
<1>2. IsFiniteSet(CutShort)
  BY <1>1, TornFinite DEF CutShort
<1>3. PICK c : c = CutShort
  OBVIOUS
<1>4. PICK d : d = CutShort'
  OBVIOUS
<1>5. IsFiniteSet(c) /\ Cardinality(c) \in Nat /\ Cardinality(c) <= cuts
  BY <1>1, <1>2, <1>3, FS_CardinalityType
<1>6. CASE d \subseteq c /\ cuts' = cuts
  <2>1. Cardinality(d) <= Cardinality(c) /\ Cardinality(d) \in Nat
    BY <1>5, <1>6, FS_Subset, FS_CardinalityType
  <2>2. QED
    BY <1>1, <1>4, <1>5, <1>6, <2>1
<1>7. ASSUME NEW x, d \subseteq c \cup {x}, cuts' = cuts + 1
      PROVE  Cardinality(d) <= cuts'
  <2>1. IsFiniteSet(c \cup {x}) /\ Cardinality(c \cup {x}) <= Cardinality(c) + 1
        /\ Cardinality(c \cup {x}) \in Nat
    <3>1. IsFiniteSet(c \cup {x})
          /\ Cardinality(c \cup {x}) = IF x \in c THEN Cardinality(c) ELSE Cardinality(c) + 1
      BY <1>5, FS_AddElement
    <3>2. QED
      BY <1>5, <3>1
  <2>2. Cardinality(d) <= Cardinality(c \cup {x}) /\ Cardinality(d) \in Nat
    BY <1>7, <2>1, FS_Subset, FS_CardinalityType
  <2>3. QED
    BY <1>1, <1>5, <1>7, <2>1, <2>2
<1>8. QED
  BY <1>3, <1>4, <1>6, <1>7

\* A step that writes nothing.
LEMMA LinesStill ==
  ASSUME FileInv, UNCHANGED <<file, kinds, gone>>,
         \A p \in Procs : /\ rec'[p].at = "writing" => rec[p].at = "writing" /\ rec'[p].id = rec[p].id
                          /\ rec'[p].at = "written" => rec[p].at = "written" /\ rec'[p].id = rec[p].id,
         ~gone => \A id \in acked' : Whole(file, id),
         \/ cuts' = cuts /\ \A p \in Procs : rec[p].at = "writing" => rec'[p].at = "writing"
         \/ cuts' = cuts + 1
  PROVE  LineInv'
<1>1. LineInv /\ cuts \in Nat
  BY DEF FileInv, FileTypeOK
<1>2. ~gone => Cardinality(CutShort') <= cuts'
  <2>1. SUFFICES ASSUME ~gone PROVE Cardinality(CutShort') <= cuts'
    OBVIOUS
  <2>2. CASE cuts' = cuts /\ \A p \in Procs : rec[p].at = "writing" => rec'[p].at = "writing"
    <3>1. Writing' = Writing
      BY <2>2 DEF Writing
    <3>2. CutShort' = CutShort
      BY <3>1 DEF CutShort
    <3>3. QED
      BY <2>1, <2>2, <3>2, StaysPaid
  <2>3. CASE cuts' = cuts + 1
    <3>1. CutShort' \subseteq CutShort \cup {Len(file)}
      BY DEF CutShort
    <3>2. QED
      BY <2>1, <2>3, <3>1, StaysPaid
  <2>4. QED
    BY <2>2, <2>3
<1>3. \A p, q \in Procs : rec'[p].at = "writing" /\ rec'[q].at = "writing" => p = q
  BY <1>1 DEF LineInv
<1>4. \A p \in Procs : rec'[p].at \in {"writing", "written"} => rec'[p].id \in 1..Len(kinds)
  BY <1>1 DEF LineInv
<1>5. ~gone => \A p \in Procs :
        /\ rec'[p].at = "writing" => Unended(file) /\ file[Len(file)].id = rec'[p].id
        /\ rec'[p].at = "written" => Whole(file, rec'[p].id)
  BY <1>1 DEF LineInv
<1>6. Len(kinds) <= MaxLines /\ Shaped(file, Len(kinds)) /\ (gone => file = <<>>)
  BY <1>1 DEF LineInv
<1>7. QED
  BY <1>2, <1>3, <1>4, <1>5, <1>6 DEF LineInv

\* What is whole stays whole as the log grows.
LEMMA WholeGrown ==
  ASSUME NEW f \in Seq(Cell), NEW id, Whole(f, id), NEW g, NEW l, NEW a, NEW b, Grown(f, g, l, a, b),
         Ends(f) \subseteq Ends(g)
  PROVE  Whole(g, id)
<1>1. PICK e \in Ends(f) : f[e].id = id
  BY DEF Whole
<1>2. e \in 1..Len(f)
  BY EndsAre
<1>3. g[e] = f[e] /\ e \in Ends(g)
  BY <1>1, <1>2 DEF Grown
<1>4. QED
  BY <1>1, <1>3 DEF Whole

\* A line is begun behind all others, and only by one.
LEMMA BeginKeepsLines ==
  ASSUME FileInv, NEW p \in Procs, NEW kind \in Kinds, NEW n \in CutAt, BeginWrite(p, kind, n)
  PROVE  LineInv'
<1>1. /\ file \in Seq(Cell) /\ Len(kinds) \in Nat /\ cuts \in Nat /\ LineInv
      /\ rec \in [Procs -> [at : RecAt, meta : Meta, id : 0..MaxLines]]
  BY DEF FileInv, FileTypeOK
<1>2. PICK l : l = Len(kinds) + 1
  OBVIOUS
<1>3. /\ Grown(file, file', l, 1, n) /\ Fits(file, Len(kinds), l, 1) /\ l \in 1..MaxLines /\ n \in 1..3
      /\ Len(kinds') = l /\ l \in Nat /\ l <= MaxLines /\ Len(kinds) <= l
  BY <1>1, <1>2, BeginGrows
<1>4. /\ ~gone /\ \A q \in Procs : rec[q].at # "writing"
      /\ rec' = [rec EXCEPT ![p].at = "writing", ![p].id = l]
      /\ UNCHANGED <<cache, look, gone, cuts, losses, acked>>
  BY <1>3 DEF BeginWrite
<1>5. 1 \in 1..4 /\ n \in 1..4 /\ n < 4
  BY <1>3
<1>6. Shaped(file', l)
  BY <1>1, <1>3, <1>5, GrownShaped DEF LineInv
<1>7. /\ Torn(file') \ {Len(file')} \subseteq Torn(file)
      /\ Unended(file') /\ file'[Len(file')].id = l /\ Ends(file) \subseteq Ends(file')
  <2>1. Mended(file, file', l, 1, n)
    BY <1>1, <1>3, <1>5, GrownTorn
  <2>2. QED
    BY <1>5, <2>1 DEF Mended
<1>8. ASSUME NEW q \in Procs
      PROVE  /\ rec'[q].at = "writing" => q = p /\ rec'[q].id = l
             /\ rec'[q].at = "written" => rec[q].at = "written" /\ rec'[q].id = rec[q].id
             /\ rec'[p].at = "writing"
  BY <1>1, <1>4
<1>9. Cardinality(CutShort') <= cuts'
  <2>1. Writing = {} /\ p \in Writing'
    BY <1>4, <1>8 DEF Writing
  <2>2. CutShort' \subseteq CutShort
    BY <1>7, <2>1 DEF CutShort
  <2>3. QED
    BY <1>4, <2>2, StaysPaid
<1>10. ASSUME NEW q \in Procs, rec[q].at = "written" PROVE Whole(file', rec[q].id)
  BY <1>1, <1>3, <1>4, <1>7, <1>10, WholeGrown DEF LineInv
<1>11. ASSUME NEW id \in acked PROVE Whole(file', id)
  BY <1>1, <1>3, <1>4, <1>7, WholeGrown DEF LineInv
<1>12. ASSUME NEW q \in Procs, rec'[q].at \in {"writing", "written"} PROVE rec'[q].id \in 1..l
  <2>1. rec[q].at = "written" => rec[q].id \in 1..Len(kinds)
    BY <1>1 DEF LineInv
  <2>2. QED
    BY <1>3, <1>8, <1>12, <2>1
<1>13. QED
  BY <1>3, <1>4, <1>6, <1>7, <1>8, <1>9, <1>10, <1>11, <1>12 DEF LineInv

\* The line that is ended is the one the log ends in the middle of.
LEMMA EndKeepsLines ==
  ASSUME FileInv, NEW p \in Procs, EndWrite(p)
  PROVE  LineInv'
<1>1. /\ file \in Seq(Cell) /\ Len(kinds) \in Nat /\ cuts \in Nat /\ LineInv
      /\ rec \in [Procs -> [at : RecAt, meta : Meta, id : 0..MaxLines]]
  BY DEF FileInv, FileTypeOK
<1>2. /\ rec[p].at = "writing" /\ rec' = [rec EXCEPT ![p].at = "written"]
      /\ UNCHANGED <<kinds, cache, look, gone, cuts, losses, acked>>
      /\ gone => file' = file
  BY DEF EndWrite
<1>3. ASSUME NEW q \in Procs
      PROVE  /\ rec'[q].at # "writing"
             /\ rec'[q].at = "written" =>
                  rec'[q].id = rec[q].id /\ (q = p \/ rec[q].at = "written")
  <2>1. rec[q].at = "writing" => q = p
    BY <1>1, <1>2 DEF LineInv
  <2>2. QED
    BY <1>1, <1>2, <2>1
<1>4. \A q \in Procs : rec'[q].at \in {"writing", "written"} => rec'[q].id \in 1..Len(kinds)
  BY <1>1, <1>2, <1>3 DEF LineInv
<1>5. CASE gone
  BY <1>1, <1>2, <1>3, <1>4, <1>5 DEF LineInv
<1>6. CASE ~gone
  <2>1. PICK l : l = rec[p].id
    OBVIOUS
  <2>2. PICK a \in 2..4 :
           /\ Grown(file, file', l, a, 4) /\ Fits(file, Len(kinds), l, a)
           /\ l \in 1..MaxLines /\ l <= Len(kinds)
    BY <1>6, <2>1, EndGrows
  <2>3. a \in 1..4 /\ 4 \in a..4 /\ a > 1 /\ Len(kinds) <= Len(kinds)
    BY <1>1
  <2>4. Shaped(file', Len(kinds))
    BY <1>1, <2>2, <2>3, GrownShaped DEF LineInv
  <2>5. /\ Torn(file') \ {Len(file')} \subseteq Torn(file) \ {Len(file)}
        /\ Len(file') \in Ends(file') /\ Len(file') \notin Torn(file') /\ file'[Len(file')].id = l
        /\ Ends(file) \subseteq Ends(file')
    <3>1. Mended(file, file', l, a, 4)
      BY <1>1, <2>2, <2>3, GrownTorn
    <3>2. QED
      BY <2>3, <3>1 DEF Mended
  <2>6. Cardinality(CutShort') <= cuts'
    <3>1. p \in Writing /\ Writing' = {}
      BY <1>2, <1>3 DEF Writing
    <3>2. CutShort' \subseteq CutShort
      BY <2>5, <3>1 DEF CutShort
    <3>3. QED
      BY <1>2, <1>6, <3>2, StaysPaid
  <2>7. Whole(file', l)
    BY <2>5 DEF Whole
  <2>8. ASSUME NEW q \in Procs, rec[q].at = "written" PROVE Whole(file', rec[q].id)
    BY <1>1, <1>6, <2>2, <2>5, <2>8, WholeGrown DEF LineInv
  <2>9. ASSUME NEW id \in acked PROVE Whole(file', id)
    BY <1>1, <1>6, <2>2, <2>5, WholeGrown DEF LineInv
  <2>10. ASSUME NEW q \in Procs, rec'[q].at = "written" PROVE Whole(file', rec'[q].id)
    BY <1>3, <2>1, <2>7, <2>8, <2>10
  <2>11. Len(kinds) <= MaxLines
    BY <1>1 DEF LineInv
  <2>12. QED
    BY <1>2, <1>3, <1>4, <1>6, <2>4, <2>6, <2>9, <2>10, <2>11 DEF LineInv
<1>7. QED
  BY <1>5, <1>6

\* A loss of power cuts one line short, which it counts, or none.
LEMMA LossKeepsLines ==
  ASSUME FileInv, NEW n \in 0..Len(file), PowerLoss(n)
  PROVE  LineInv'
<1>1. file \in Seq(Cell) /\ Len(file) \in Nat /\ cuts \in Nat /\ LineInv
  BY DEF FileInv, FileTypeOK
<1>2. /\ ~gone /\ UNCHANGED <<kinds, gone, mixed>>
      /\ rec' = [q \in Procs |-> Closed]
      /\ cuts' = IF n \in Ends(file) \cup {0} THEN cuts ELSE cuts + 1
      /\ acked' = {id \in acked : \E e \in Ends(file') : file'[e].id = id}
  BY DEF PowerLoss
<1>3. /\ Len(file') = n /\ Shaped(file', Len(kinds))
      /\ Torn(file') \ {n} \subseteq Torn(file) \ {Len(file)}
      /\ n \in {0} \cup Ends(file) => n \notin Torn(file')
  BY LossCuts
<1>4. \A q \in Procs : rec'[q].at = "out"
  BY <1>2 DEF Closed
<1>5. Cardinality(CutShort') <= cuts'
  <2>1. CutShort' = Torn(file')
    BY <1>4 DEF CutShort, Writing
  <2>2. Torn(file) \ {Len(file)} \subseteq CutShort
    BY DEF CutShort
  <2>3. CASE n \in Ends(file) \cup {0}
    <3>1. CutShort' \subseteq CutShort /\ cuts' = cuts
      BY <1>2, <1>3, <2>1, <2>2, <2>3
    <3>2. QED
      BY <1>2, <3>1, StaysPaid
  <2>4. CASE n \notin Ends(file) \cup {0}
    <3>1. CutShort' \subseteq CutShort \cup {n} /\ cuts' = cuts + 1
      BY <1>2, <1>3, <2>1, <2>2, <2>4
    <3>2. QED
      BY <1>2, <3>1, StaysPaid
  <2>5. QED
    BY <2>3, <2>4
<1>6. \A id \in acked' : Whole(file', id)
  BY <1>2 DEF Whole
<1>7. Len(kinds) <= MaxLines
  BY <1>1 DEF LineInv
<1>8. QED
  BY <1>2, <1>3, <1>4, <1>5, <1>6, <1>7 DEF LineInv

\* Every step keeps the lines.
LEMMA LinesKept ==
  ASSUME FileInv, [FileNext]_fileVars
  PROVE  LineInv'
<1>1. /\ rec \in [Procs -> [at : RecAt, meta : Meta, id : 0..MaxLines]] /\ LineInv
      /\ ~gone => \A id \in acked : Whole(file, id)
  BY DEF FileInv, FileTypeOK, LineInv
<1>2. CASE UNCHANGED fileVars
  <2>1. UNCHANGED <<file, kinds, gone, rec, cuts, acked>>
    BY <1>2 DEF fileVars
  <2>2. QED
    BY <1>1, <2>1, LinesStill
<1>3. ASSUME NEW p \in Procs, Refresh(p) \/ LeaveCache(p) PROVE LineInv'
  <2>1. UNCHANGED <<file, kinds, gone, rec, cuts, acked>>
    BY <1>3 DEF Refresh, LeaveCache
  <2>2. QED
    BY <1>1, <2>1, LinesStill
<1>4. ASSUME NEW p \in Procs, Open(p) PROVE LineInv'
  <2>1. PICK m : rec' = [rec EXCEPT ![p] = [at |-> "starting", id |-> 0, meta |-> m]]
    BY <1>4 DEF Open
  <2>2. UNCHANGED <<file, kinds, gone, cuts, acked>> /\ rec[p].at = "out"
    BY <1>4 DEF Open
  <2>3. \A q \in Procs : rec'[q] = rec[q] \/ (rec'[q].at = "starting" /\ rec[q].at = "out")
    BY <1>1, <2>1, <2>2
  <2>4. QED
    BY <1>1, <2>2, <2>3, LinesStill
<1>5. ASSUME NEW p \in Procs, FailWrite(p) PROVE LineInv'
  <2>1. UNCHANGED <<file, kinds, gone, acked>> /\ cuts' = cuts + 1
    BY <1>5 DEF FailWrite
  <2>2. \A q \in Procs : rec'[q] = rec[q] \/ rec'[q].at \in {"failed", "idle"}
    BY <1>1, <1>5 DEF FailWrite
  <2>3. QED
    BY <1>1, <2>1, <2>2, LinesStill
<1>6. ASSUME NEW p \in Procs, FoldOwn(p) PROVE LineInv'
  <2>1. PICK m : rec' = [rec EXCEPT ![p] = [at |-> "idle", meta |-> m, id |-> 0]]
    BY <1>6 DEF FoldOwn
  <2>2. UNCHANGED <<file, kinds, gone, cuts>> /\ rec[p].at = "written"
        /\ acked' = IF gone THEN acked ELSE acked \cup {rec[p].id}
    BY <1>6 DEF FoldOwn
  <2>3. \A q \in Procs : rec'[q] = rec[q] \/ (rec'[q].at = "idle" /\ rec[q].at = "written")
    BY <1>1, <2>1, <2>2
  <2>4. ~gone => Whole(file, rec[p].id)
    BY <1>1, <2>2 DEF LineInv
  <2>5. ~gone => \A id \in acked' : Whole(file, id)
    BY <1>1, <2>2, <2>4
  <2>6. QED
    BY <1>1, <2>2, <2>3, <2>5, LinesStill
<1>7. ASSUME NEW p \in Procs, NEW next \in {"exiting", "out"}, Drop(p, next) PROVE LineInv'
  <2>1. UNCHANGED <<file, kinds, gone, cuts, acked>> /\ rec[p].at \in {"idle", "written", "failed"}
        /\ rec' = [rec EXCEPT ![p] = [Closed EXCEPT !.at = next]]
    BY <1>7 DEF Drop
  <2>2. \A q \in Procs : rec'[q] = rec[q] \/ (rec'[q].at = next /\ rec[q].at # "writing")
    BY <1>1, <2>1 DEF Closed
  <2>3. QED
    BY <1>1, <2>1, <2>2, LinesStill
<1>8. ASSUME NEW p \in Procs, Exit(p) PROVE LineInv'
  <2>1. /\ rec[p].at = "exiting" /\ rec' = [rec EXCEPT ![p] = Closed]
        /\ UNCHANGED <<kinds, cuts, acked>>
        /\ UNCHANGED <<file, gone>> \/ (~gone /\ gone' = TRUE /\ file' = <<>>)
    BY <1>8 DEF Exit
  <2>2. \A q \in Procs : rec'[q] = rec[q] \/ (rec'[q].at = "out" /\ rec[q].at = "exiting")
    BY <1>1, <2>1 DEF Closed
  <2>3. CASE UNCHANGED <<file, gone>>
    BY <1>1, <2>1, <2>2, <2>3, LinesStill
  <2>4. CASE ~gone /\ gone' = TRUE /\ file' = <<>>
    <3>1. Shaped(<<>>, Len(kinds))
      BY DEF Shaped
    <3>2. QED
      BY <1>1, <2>1, <2>2, <2>4, <3>1 DEF LineInv
  <2>5. QED
    BY <2>1, <2>3, <2>4
<1>9. ASSUME NEW p \in Procs, Kill(p) PROVE LineInv'
  <2>1. /\ UNCHANGED <<file, kinds, gone, acked>> /\ rec' = [rec EXCEPT ![p] = Closed]
        /\ cuts' = IF rec[p].at = "writing" THEN cuts + 1 ELSE cuts
    BY <1>9 DEF Kill
  <2>2. \A q \in Procs : rec'[q] = rec[q] \/ (rec'[q].at = "out" /\ q = p)
    BY <1>1, <2>1 DEF Closed
  <2>3. QED
    BY <1>1, <2>1, <2>2, LinesStill
<1>10. QED
  BY <1>2, <1>3, <1>4, <1>5, <1>6, <1>7, <1>8, <1>9, BeginKeepsLines, EndKeepsLines, LossKeepsLines
     DEF FileNext

-----------------------------------------------------------------------------
(* Every step keeps the summaries *)

\* What a recorder folds without reading it back is what a scan would have found.
LEMMA AdvancedIsPrefix ==
  ASSUME NEW n \in Nat, file \in Seq(Cell), Shaped(file, n), NEW m, PrefixOf(kinds, file, m),
         NEW id \in 1..MaxLines, Whole(file, id),
         m.scanned + 1 \in 1..Len(file), file[m.scanned + 1] = [id |-> id, part |-> 1]
  PROVE  /\ PrefixOf(kinds, file, Advanced(m, id))
         /\ Advanced(m, id).scanned = m.scanned + NewLine
<1> DEFINE b == NewMeta
<1>1. PICK s : s = m.scanned
  OBVIOUS
<1>2. m \in Meta /\ s \in Starts(file) /\ m = FoldIn(kinds, file, b, s) /\ s \in 0..Len(file)
      /\ Len(file) \in Nat /\ b \in Meta /\ b.scanned = 0
  BY <1>1, EndsAre, NewMetaType DEF PrefixOf
<1>3. PICK e \in Ends(file) : file[e].id = id
  BY DEF Whole
<1>4. e \in 1..Len(file) /\ file[e].part = 4
  BY EndsAre
<1>5. PICK x \in 1..Len(file) :
        /\ x + 3 = e /\ file[x] = [id |-> id, part |-> 1] /\ LineAt(file, x)
        /\ \A i \in 1..Len(file) : file[i].id = id /\ file[i].part = 1 => i = x
  BY <1>3, LineOfEnd
<1>6. x = s + 1
  <2>1. PICK i : i = s + 1
    OBVIOUS
  <2>2. i \in 1..Len(file) /\ file[i].id = id /\ file[i].part = 1
    BY <1>1, <2>1
  <2>3. QED
    BY <1>5, <2>1, <2>2
<1>7. /\ x \in Nat /\ e \in Nat /\ s \in Nat /\ x - 1 = s /\ e = s + 4
      /\ x \in (0 + 1)..e /\ x \in (0 + 1)..Len(file)
      /\ x + 1 \in (0 + 1)..e /\ x + 2 \in (0 + 1)..e /\ e \in (0 + 1)..e /\ e \in b.scanned..Len(file)
      /\ s \in b.scanned..e
  BY <1>2, <1>4, <1>5, <1>6
<1>8. Parses(file, 0, x)
  <2>1. x = 0 + 1 \/ x - 1 \in Ends(file)
    BY <1>2, <1>7 DEF Starts
  <2>2. QED
    BY <1>5, <1>7, <2>1, ParsesMeans
<1>9. ASSUME NEW i \in (0 + 1)..Len(file), file[i].part # 1 PROVE ~Parses(file, 0, i)
  BY <1>9, ParsesMeans DEF LineAt
<1>10. PICK y : y = x + 1
  OBVIOUS
<1>11. PICK z : z = x + 2
  OBVIOUS
<1>12. /\ y \in (0 + 1)..Len(file) /\ z \in (0 + 1)..Len(file) /\ e \in (0 + 1)..Len(file)
       /\ y - 1 = x /\ z - 1 = y /\ e - 1 = z
       /\ y \in (0 + 1)..e /\ z \in (0 + 1)..e
  BY <1>4, <1>5, <1>7, <1>10, <1>11
<1>13. file[y].part # 1 /\ file[z].part # 1 /\ file[e].part # 1
  BY <1>4, <1>5, <1>10, <1>11 DEF LineAt
<1>14. ~Parses(file, 0, y) /\ ~Parses(file, 0, z) /\ ~Parses(file, 0, e)
  BY <1>9, <1>12, <1>13
<1> HIDE DEF b
<1>15. PICK r : IsFold(r, kinds, file, b, e) /\ FoldIn(kinds, file, b, e) = Ending(r[e], e)
  BY <1>2, <1>7, FoldExists
<1>16. /\ r \in [0..e -> Meta]
       /\ \A i \in (0 + 1)..e :
            r[i] = IF Parses(file, 0, i) THEN AppliedIn(kinds, r[i - 1], file[i].id, i - 1) ELSE r[i - 1]
  BY <1>2, <1>15 DEF IsFold
<1>17. r[x] = AppliedIn(kinds, r[s], id, s)
  BY <1>5, <1>7, <1>8, <1>16
<1>18. r[y] = r[x] /\ r[z] = r[y] /\ r[e] = r[z]
  <2>1. r[y] = r[y - 1] /\ r[z] = r[z - 1] /\ r[e] = r[e - 1]
    BY <1>7, <1>12, <1>14, <1>16
  <2>2. QED
    BY <1>12, <2>1
<1>19. FoldIn(kinds, file, b, e) = Ending(AppliedIn(kinds, r[s], id, s), e)
  BY <1>15, <1>17, <1>18
<1>20. m = Ending(r[s], s)
  BY <1>2, <1>7, <1>15, FoldPart
<1>21. r[s] \in Meta
  <2>1. s \in 0..e
    BY <1>7
  <2>2. QED
    BY <1>16, <2>1
<1>22. m.seen = r[s].seen /\ m.baseline = r[s].baseline
  BY <1>7, <1>20, <1>21, MetaAt
<1>23. PICK u : u = AppliedIn(kinds, m, id, s)
  OBVIOUS
<1>24. PICK v : v = AppliedIn(kinds, r[s], id, s)
  OBVIOUS
<1>25. u \in Meta /\ v \in Meta /\ u.seen = v.seen /\ u.baseline = v.baseline
  <2>1. u \in Meta /\ v \in Meta
    BY <1>2, <1>7, <1>21, <1>23, <1>24, AppliedType
  <2>2. u.seen = v.seen /\ u.baseline = v.baseline
    <3>1. PICK w : w = r[s]
      OBVIOUS
    <3>2. w \in Meta /\ m \in Meta /\ m.seen = w.seen /\ m.baseline = w.baseline
      BY <1>2, <1>21, <1>22, <3>1
    <3>3. u = AppliedIn(kinds, m, id, s) /\ v = AppliedIn(kinds, w, id, s)
      BY <1>23, <1>24, <3>1
    <3>4. QED
      BY <3>2, <3>3, AppliedAlike
  <2>3. QED
    BY <2>1, <2>2
<1>26. u.scanned = s
  BY <1>1, <1>2, <1>23 DEF AppliedIn, Meta
<1>27. Advanced(m, id) = Ending(u, e)
  BY <1>1, <1>7, <1>23, <1>25, <1>26 DEF Advanced, Applied, AppliedIn, Ending, NewLine
<1>28. Ending(u, e) = Ending(v, e) /\ Ending(u, e).scanned = e /\ Ending(u, e) \in Meta
  BY <1>7, <1>25, MetaAt
<1>29. Advanced(m, id) = FoldIn(kinds, file, b, e) /\ Advanced(m, id).scanned = e
       /\ Advanced(m, id) \in Meta
  BY <1>19, <1>24, <1>27, <1>28
<1>30. e \in Starts(file) /\ e = m.scanned + NewLine
  BY <1>1, <1>7 DEF Starts, NewLine
<1>31. QED
  BY <1>29, <1>30 DEF PrefixOf, b

\* A log that is clean after a step was clean before it.
LEMMA CleanBefore ==
  ASSUME [FileNext]_fileVars, Clean', FileTypeOK
  PROVE  Clean
<1>1. gone \in BOOLEAN /\ mixed \in BOOLEAN
  BY DEF FileTypeOK
<1> DEFINE Kept == (gone => gone') /\ (mixed => mixed')
<1>2. ASSUME UNCHANGED fileVars PROVE Kept
  BY <1>2 DEF fileVars
<1>3. ASSUME NEW p \in Procs, Refresh(p) \/ LeaveCache(p) \/ Open(p) PROVE Kept
  <2>1. UNCHANGED <<gone, mixed>>
    BY <1>3 DEF Refresh, LeaveCache, Open
  <2>2. QED
    BY <2>1
<1>4. ASSUME NEW p \in Procs, NEW kind \in Kinds, NEW n \in CutAt, BeginWrite(p, kind, n) PROVE Kept
  BY <1>4 DEF BeginWrite
<1>5. ASSUME NEW p \in Procs, EndWrite(p) PROVE Kept
  BY <1>5 DEF EndWrite
<1>6. ASSUME NEW p \in Procs, FailWrite(p) \/ FoldOwn(p) \/ Kill(p) PROVE Kept
  <2>1. UNCHANGED <<gone, mixed>>
    BY <1>6 DEF FailWrite, FoldOwn, Kill
  <2>2. QED
    BY <2>1
<1>7. ASSUME NEW p \in Procs, NEW next \in {"exiting", "out"}, Drop(p, next) PROVE Kept
  BY <1>7 DEF Drop
<1>8. ASSUME NEW p \in Procs, Exit(p) PROVE Kept
  BY <1>8 DEF Exit
<1>9. ASSUME NEW n \in 0..Len(file), PowerLoss(n) PROVE Kept
  BY <1>9 DEF PowerLoss
<1>10. Kept
  <2> HIDE DEF Kept
  <2>1. QED
    BY <1>2, <1>3, <1>4, <1>5, <1>6, <1>7, <1>8, <1>9 DEF FileNext
<1>11. QED
  BY <1>1, <1>10 DEF Clean

\* A process that the step does not concern, while the log stays as it is.
LEMMA SummaryStays ==
  ASSUME NEW p \in Procs, SummaryOf(p), UNCHANGED <<file, kinds>>,
         rec'[p] = rec[p], look'[p].meta = look[p].meta
  PROVE  SummaryOf(p)'
BY DEF SummaryOf, Behind

\* A summary of the log, as it grows.
LEMMA PrefixGrown ==
  ASSUME FileInv, NEW g, NEW l, NEW a, NEW b, Grown(file, g, l, a, b), b \in a..4, a \in 1..4,
         NEW kt, \A i \in 1..Len(kinds) : kt[i] = kinds[i],
         NEW m, PrefixOf(kinds, file, m)
  PROVE  PrefixOf(kt, g, m)
<1>1. /\ file \in Seq(Cell) /\ Len(kinds) \in Nat /\ Shaped(file, Len(kinds)) /\ Len(file) \in Nat
      /\ DOMAIN file = 1..Len(file)
  BY DEF FileInv, FileTypeOK, LineInv
<1>2. m.scanned \in 0..Len(file)
  BY <1>1, EndsAre DEF PrefixOf
<1>3. g \in Seq(Cell) /\ m.scanned <= Len(g)
  BY <1>1, <1>2 DEF Grown
<1>4. ASSUME NEW i \in 1..m.scanned PROVE file[i] = g[i] /\ kinds[file[i].id] = kt[file[i].id]
  <2>1. i \in 1..Len(file)
    BY <1>1, <1>2
  <2>2. file[i].id \in 1..MaxLines /\ file[i].id <= Len(kinds)
    BY <1>1, <2>1, CellAt DEF Shaped
  <2>3. file[i].id \in 1..Len(kinds)
    BY <1>1, <2>2
  <2>4. QED
    BY <2>1, <2>3 DEF Grown
<1>5. QED
  BY <1>1, <1>3, <1>4, PrefixKept

\* What a process has just read of the log.
LEMMA CaughtUp ==
  ASSUME FileInv, Clean, NEW c \in Found
  PROVE  /\ PrefixOf(kinds, file, Refreshed(file, c))
         /\ Refreshable(file, c) => Unended(file) \/ Refreshed(file, c).scanned = Len(file)
         /\ ~Refreshable(file, c) => Unended(file)
<1>1. file \in Seq(Cell) /\ Len(file) \in Nat /\ (file # <<>> <=> Len(file) # 0)
  BY DEF FileInv, FileTypeOK
<1>2. c \in Meta /\ (PrefixOf(kinds, file, c) \/ c.scanned > Len(file))
  <2>1. c = cache \/ c = NewMeta
    BY DEF Found
  <2>2. cache \in Summaries
    BY DEF Summaries
  <2>3. QED
    BY <1>1, <2>1, <2>2, SummariesAre, NewMetaType, NewMetaIsPrefix
<1>3. PICK d : d = Refreshed(file, c).scanned
  OBVIOUS
<1>4. IsComplete(file, 0, d) /\ PrefixOf(kinds, file, Refreshed(file, c))
  BY <1>1, <1>2, <1>3, RefreshedIs
<1>5. Unended(file) \/ d = Len(file)
  <2>1. SUFFICES ASSUME ~Unended(file), d # Len(file) PROVE FALSE
    OBVIOUS
  <2>2. d \in 0..Len(file) /\ \A later \in (d + 1)..Len(file) : later \notin Ends(file)
    BY <1>4 DEF IsComplete
  <2>3. Len(file) \in (d + 1)..Len(file)
    BY <1>1, <2>1, <2>2
  <2>4. Len(file) \in Ends(file)
    <3>1. Len(file) \in 1..Len(file)
      BY <1>1, <2>2, <2>3
    <3>2. file # <<>> /\ file[Len(file)].part = NewLine
      BY <1>1, <2>1, <3>1 DEF Unended
    <3>3. QED
      BY <1>1, <3>1, <3>2, EndsAre DEF NewLine
  <2>5. QED
    BY <2>2, <2>3, <2>4
<1>6. ~Refreshable(file, c) => Unended(file)
  <2>1. ~Refreshable(file, c) => file # <<>> /\ file[Len(file)].part = 2
    BY <1>2, RefreshableAlike
  <2>2. QED
    BY <2>1 DEF Unended, NewLine
<1>7. QED
  BY <1>3, <1>4, <1>5, <1>6

\* Neither process nor loss of power has left a cache behind that is no prefix while
\* somebody has the session open.
LEMMA NotStale ==
  ASSUME FileInv, Clean, NEW p \in Procs,
         rec[p].at \notin {"out", "exiting"} \/ look[p].at = "loaded"
  PROVE  PrefixOf(kinds, file, cache)
BY DEF FileInv, SummaryInv, Stale

\* An append that is begun leaves each summary that of a prefix, and its recorder's one
\* line behind.
LEMMA BeginKeepsSummaries ==
  ASSUME FileInv, Clean, Clean', NEW p \in Procs, NEW kind \in Kinds, NEW n \in CutAt,
         BeginWrite(p, kind, n)
  PROVE  SummaryInv'
<1>1. /\ file \in Seq(Cell) /\ Len(kinds) \in Nat /\ Len(file) \in Nat
      /\ rec \in [Procs -> [at : RecAt, meta : Meta, id : 0..MaxLines]]
      /\ Torn(file) \subseteq {Len(file)} /\ DOMAIN file = 1..Len(file)
  BY DEF FileInv, FileTypeOK, SummaryInv
<1>2. PICK l : l = Len(kinds) + 1
  OBVIOUS
<1>3. /\ Grown(file, file', l, 1, n) /\ Fits(file, Len(kinds), l, 1) /\ l \in 1..MaxLines
      /\ 1 \in 1..4 /\ n \in 1..4 /\ Len(kinds') = l
      /\ \A i \in 1..Len(kinds) : kinds'[i] = kinds[i]
  BY <1>1, <1>2, BeginGrows
<1>4. /\ rec[p].at = IF kind = "SessionStart" THEN "starting" ELSE "idle"
      /\ rec' = [rec EXCEPT ![p].at = "writing", ![p].id = l]
      /\ ~Beside(p) /\ ~(file # <<>> /\ file[Len(file)].part # NewLine)
      /\ UNCHANGED <<cache, look, gone>>
  BY <1>3 DEF BeginWrite, Clean
<1>5. /\ Torn(file') \ {Len(file')} \subseteq Torn(file)
      /\ Len(file) + 1 \in 1..Len(file') /\ file'[Len(file) + 1] = [id |-> l, part |-> 1]
  <2>1. Mended(file, file', l, 1, n)
    BY <1>1, <1>3, GrownTorn
  <2>2. QED
    BY <2>1 DEF Mended
<1>6. Torn(file') \subseteq {Len(file')}
  <2>1. Torn(file) = {}
    <3>1. ASSUME Len(file) \in Torn(file) PROVE FALSE
      BY <1>4, <3>1 DEF Torn
    <3>2. QED
      BY <1>1, <3>1
  <2>2. QED
    BY <1>5, <2>1
<1>7. ASSUME NEW m, PrefixOf(kinds, file, m) PROVE PrefixOf(kinds', file', m)
  BY <1>3, <1>7, PrefixGrown
<1>8. PrefixOf(kinds', file', cache)
  <2>1. rec[p].at \notin {"out", "exiting"}
    BY <1>4
  <2>2. QED
    BY <1>7, <2>1, NotStale
<1>9. ASSUME NEW q \in Procs PROVE SummaryOf(q)'
  <2>1. SummaryOf(q)
    BY DEF FileInv, SummaryInv
  <2>2. rec'[q].meta = rec[q].meta
    BY <1>1, <1>4
  <2>3. PrefixOf(kinds', file', rec'[q].meta) /\ PrefixOf(kinds', file', look'[q].meta)
    BY <1>4, <1>7, <2>1, <2>2 DEF SummaryOf
  <2>4. CASE q # p
    <3>1. rec'[q].at = rec[q].at /\ rec[q].at \in {"out", "exiting"}
      BY <1>1, <1>4, <2>4 DEF Beside
    <3>2. QED
      BY <2>3, <3>1 DEF SummaryOf
  <2>5. CASE q = p
    <3>1. rec'[q].at = "writing" /\ rec'[q].id = l
      BY <1>1, <1>4, <2>5
    <3>2. rec[p].meta.scanned = Len(file)
      BY <1>4, <2>1, <2>5 DEF SummaryOf, Unended
    <3>3. Behind(q)'
      BY <1>5, <2>2, <2>5, <3>1, <3>2 DEF Behind
    <3>4. QED
      BY <2>3, <3>1, <3>3 DEF SummaryOf
  <2>6. QED
    BY <2>4, <2>5
<1>10. QED
  BY <1>4, <1>6, <1>8, <1>9 DEF SummaryInv

\* As it ends, the recorder's summary is behind by that line and nothing else.
LEMMA EndKeepsSummaries ==
  ASSUME FileInv, Clean, Clean', NEW p \in Procs, EndWrite(p)
  PROVE  SummaryInv'
<1>1. /\ file \in Seq(Cell) /\ Len(kinds) \in Nat /\ Len(file) \in Nat /\ Shaped(file, Len(kinds))
      /\ rec \in [Procs -> [at : RecAt, meta : Meta, id : 0..MaxLines]]
      /\ Torn(file) \subseteq {Len(file)} /\ DOMAIN file = 1..Len(file)
  BY DEF FileInv, FileTypeOK, LineInv, SummaryInv
<1>2. PICK l : l = rec[p].id
  OBVIOUS
<1>3. PICK a \in 2..4 :
        /\ Grown(file, file', l, a, 4) /\ Fits(file, Len(kinds), l, a)
        /\ l \in 1..MaxLines
        /\ file # <<>> /\ file[Len(file)] = [id |-> l, part |-> a - 1]
  BY <1>2, EndGrows DEF Clean
<1>4. /\ rec[p].at = "writing" /\ rec' = [rec EXCEPT ![p].at = "written"]
      /\ ~Beside(p) /\ UNCHANGED <<kinds, cache, look, gone>>
  BY DEF EndWrite, Clean
<1>5. a \in 1..4 /\ 4 \in a..4 /\ a > 1 /\ Len(file') = Len(file) + (4 - a) + 1
  BY <1>3 DEF Grown
<1>6. /\ Torn(file') \ {Len(file')} \subseteq Torn(file) \ {Len(file)}
      /\ Len(file') \notin Torn(file')
  <2>1. Mended(file, file', l, a, 4)
    BY <1>1, <1>3, <1>5, GrownTorn
  <2>2. QED
    BY <1>5, <2>1 DEF Mended
<1>7. Torn(file') \subseteq {Len(file')}
  BY <1>1, <1>6
<1>8. ASSUME NEW m, PrefixOf(kinds, file, m) PROVE PrefixOf(kinds', file', m)
  BY <1>3, <1>4, <1>5, <1>8, PrefixGrown
<1>9. PrefixOf(kinds', file', cache)
  <2>1. rec[p].at \notin {"out", "exiting"}
    BY <1>4
  <2>2. QED
    BY <1>8, <2>1, NotStale
<1>10. ASSUME NEW q \in Procs PROVE SummaryOf(q)'
  <2>1. SummaryOf(q)
    BY DEF FileInv, SummaryInv
  <2>2. rec'[q].meta = rec[q].meta /\ rec'[q].id = rec[q].id
    BY <1>1, <1>4
  <2>3. PrefixOf(kinds', file', rec'[q].meta) /\ PrefixOf(kinds', file', look'[q].meta)
    BY <1>4, <1>8, <2>1, <2>2 DEF SummaryOf
  <2>4. CASE q # p
    <3>1. rec'[q].at = rec[q].at /\ rec[q].at \in {"out", "exiting"}
      BY <1>1, <1>4, <2>4 DEF Beside
    <3>2. QED
      BY <2>3, <3>1 DEF SummaryOf
  <2>5. CASE q = p
    <3>1. rec'[q].at = "written"
      BY <1>1, <1>4, <2>5
    <3>2. PICK s : s = rec[q].meta.scanned
      OBVIOUS
    <3>3. Behind(q)
      BY <1>4, <2>1, <2>5 DEF SummaryOf
    <3>4. PICK t : t = s + 1
      OBVIOUS
    <3>5. t \in 1..Len(file) /\ file[t] = [id |-> l, part |-> 1]
      BY <1>2, <2>5, <3>2, <3>3, <3>4 DEF Behind
    <3>6. s \in Nat
      BY <2>1, <3>2 DEF SummaryOf, PrefixOf, Meta
    <3>7. Len(file) = s + (a - 1)
      <4>1. PICK e : e = Len(file)
        OBVIOUS
      <4>2. e \in 1..Len(file) /\ file[e] = [id |-> l, part |-> a - 1]
            /\ file[e].part = a - 1 /\ file[e].id = l
        BY <1>1, <1>3, <4>1
      <4>3. ASSUME NEW i \in 1..Len(file), file[i] = [id |-> l, part |-> 1] PROVE i = t
        BY <1>1, <3>5, <4>3 DEF Shaped
      <4>4. CASE a = 2
        <5>1. file[e] = [id |-> l, part |-> 1]
          BY <4>2, <4>4
        <5>2. e = t
          BY <4>2, <4>3, <5>1
        <5>3. QED
          BY <3>4, <3>6, <4>1, <4>4, <5>2
      <4>5. CASE a = 3
        <5>1. PICK i : i = e - 1
          OBVIOUS
        <5>2. file[e].part >= 2 /\ file[e].part - 1 = 1
          BY <4>2, <4>5
        <5>3. i \in 1..Len(file) /\ file[i] = [id |-> file[e].id, part |-> file[e].part - 1]
          BY <1>1, <4>2, <5>1, <5>2, LineBefore
        <5>4. file[i] = [id |-> l, part |-> 1]
          BY <4>2, <5>2, <5>3
        <5>5. i = t
          BY <4>3, <5>3, <5>4
        <5>6. e \in Nat
          BY <1>1, <4>1
        <5>7. QED
          BY <3>4, <3>6, <4>1, <4>5, <5>1, <5>5, <5>6
      <4>6. CASE a = 4
        <5>1. PICK i : i = e - 2
          OBVIOUS
        <5>2. file[e].part >= 3 /\ file[e].part - 2 = 1
          BY <4>2, <4>6
        <5>3. i \in 1..Len(file) /\ file[i] = [id |-> file[e].id, part |-> file[e].part - 2]
          BY <1>1, <4>2, <5>1, <5>2, LineBefore
        <5>4. file[i] = [id |-> l, part |-> 1]
          BY <4>2, <5>2, <5>3
        <5>5. i = t
          BY <4>3, <5>3, <5>4
        <5>6. e \in Nat
          BY <1>1, <4>1
        <5>7. QED
          BY <3>4, <3>6, <4>1, <4>6, <5>1, <5>5, <5>6
      <4>7. QED
        BY <1>3, <4>4, <4>5, <4>6
    <3>8. Len(file') = s + 4
      BY <1>1, <1>5, <3>6, <3>7
    <3>9. t \in 1..Len(file') /\ file'[t] = file[t]
      BY <1>1, <1>3, <1>5, <3>5 DEF Grown
    <3>10. Behind(q)'
      BY <1>2, <2>2, <2>5, <3>2, <3>4, <3>5, <3>9 DEF Behind
    <3>11. QED
      BY <2>2, <2>3, <3>1, <3>2, <3>8, <3>10 DEF SummaryOf, NewLine
  <2>6. QED
    BY <2>4, <2>5
<1>11. QED
  BY <1>4, <1>7, <1>9, <1>10 DEF SummaryInv

\* A loss of power leaves a cache that is still that of a prefix, or longer than the
\* log.
LEMMA LossKeepsSummaries ==
  ASSUME FileInv, Clean, NEW n \in 0..Len(file), PowerLoss(n)
  PROVE  SummaryInv'
<1>1. /\ file \in Seq(Cell) /\ kinds \in Seq(Kinds) /\ Len(kinds) \in Nat /\ Len(file) \in Nat
      /\ Shaped(file, Len(kinds)) /\ cache \in Meta
      /\ Torn(file) \subseteq {Len(file)} /\ DOMAIN file = 1..Len(file)
      /\ PrefixOf(kinds, file, cache) \/ Stale
  BY DEF FileInv, FileTypeOK, LineInv, SummaryInv
<1>2. /\ file' \in Seq(Cell) /\ Len(file') = n /\ n < Len(file) /\ n \in Nat
      /\ \A i \in 1..n : file'[i] = file[i]
      /\ Torn(file') \ {n} \subseteq Torn(file) \ {Len(file)}
  BY LossCuts
<1>3. /\ UNCHANGED <<kinds, gone, mixed>> /\ cache' \in {cache, NewMeta}
      /\ rec' = [q \in Procs |-> Closed] /\ look' = [q \in Procs |-> NoLook]
  BY DEF PowerLoss
<1>4. Torn(file') \subseteq {Len(file')}
  BY <1>1, <1>2
<1>5. PrefixOf(kinds', file', NewMeta)
  BY <1>2, NewMetaIsPrefix
<1>6. ASSUME NEW q \in Procs
      PROVE  /\ rec'[q].at = "out" /\ rec'[q].meta = NewMeta
             /\ look'[q].at = "none" /\ look'[q].meta = NewMeta
  BY <1>3 DEF Closed, NoLook
<1>7. \A q \in Procs : SummaryOf(q)'
  BY <1>5, <1>6 DEF SummaryOf
<1>8. PrefixOf(kinds', file', cache') \/ Stale'
  <2>1. CASE cache' = NewMeta
    BY <1>5, <2>1
  <2>2. CASE cache' = cache /\ cache.scanned <= n
    <3>1. PrefixOf(kinds, file, cache)
      BY <1>1, <1>2, <2>2 DEF Stale, Meta
    <3>2. cache.scanned \in Nat /\ cache.scanned <= Len(file')
      BY <1>1, <1>2, <2>2 DEF Meta
    <3>3. \A i \in 1..cache.scanned : file[i] = file'[i] /\ kinds[file[i].id] = kinds'[file[i].id]
      BY <1>2, <1>3, <2>2, <3>2
    <3>4. PrefixOf(kinds', file', cache)
      BY <1>1, <1>2, <3>1, <3>2, <3>3, PrefixKept
    <3>5. QED
      BY <2>2, <3>4
  <2>3. CASE cache' = cache /\ ~(cache.scanned <= n)
    <3>1. cache'.scanned > Len(file')
      BY <1>1, <1>2, <2>3 DEF Meta
    <3>2. kinds # <<>>
      <4>1. 1 \in 1..Len(file)
        BY <1>1, <1>2
      <4>2. file[1].id \in 1..MaxLines /\ file[1].id <= Len(kinds)
        BY <1>1, <4>1, CellAt DEF Shaped
      <4>3. Len(kinds) # 0
        BY <1>1, <4>2
      <4>4. QED
        BY <1>1, <4>3
    <3>3. QED
      BY <1>3, <1>6, <3>1, <3>2 DEF Stale
  <2>4. QED
    BY <1>3, <2>1, <2>2, <2>3
<1>9. QED
  BY <1>4, <1>7, <1>8 DEF SummaryInv

\* A step that leaves the log as it is.
LEMMA SummariesStill ==
  ASSUME FileInv, Clean, UNCHANGED <<file, kinds>>,
         PrefixOf(kinds, file, cache') \/ Stale',
         \A p \in Procs : SummaryOf(p)'
  PROVE  SummaryInv'
BY DEF FileInv, SummaryInv

\* Every step keeps the summaries.
LEMMA SummariesKept ==
  ASSUME FileInv, [FileNext]_fileVars
  PROVE  SummaryInv'
<1>1. SUFFICES ASSUME Clean' PROVE SummaryInv'
  BY DEF SummaryInv
<1>2. Clean /\ ~gone
  BY <1>1, CleanBefore DEF FileInv, Clean
<1>3. /\ rec \in [Procs -> [at : RecAt, meta : Meta, id : 0..MaxLines]]
      /\ look \in [Procs -> [at : {"none", "refreshed", "loaded"}, meta : Meta]]
      /\ file \in Seq(Cell) /\ Len(kinds) \in Nat /\ Shaped(file, Len(kinds)) /\ Len(kinds) <= MaxLines
  BY DEF FileInv, FileTypeOK, LineInv
<1>4. (PrefixOf(kinds, file, cache) \/ Stale) /\ \A p \in Procs : SummaryOf(p)
  BY <1>2 DEF FileInv, SummaryInv
<1>5. PrefixOf(kinds, file, NewMeta)
  BY <1>3, NewMetaIsPrefix
<1>6. CASE UNCHANGED fileVars
  <2>1. UNCHANGED <<file, kinds, cache, rec, look>>
    BY <1>6 DEF fileVars
  <2>2. \A p \in Procs : SummaryOf(p)'
    BY <1>4, <2>1, SummaryStays
  <2>3. Stale => Stale'
    BY <2>1 DEF Stale
  <2>4. QED
    BY <1>2, <1>4, <2>1, <2>2, <2>3, SummariesStill
<1>7. ASSUME NEW p \in Procs, Refresh(p) PROVE SummaryInv'
  <2>1. UNCHANGED <<file, kinds, cache, rec>>
    BY <1>7 DEF Refresh
  <2>2. PICK c \in Found : look' = [look EXCEPT ![p] = [at |-> "refreshed", meta |-> Refreshed(file, c)]]
    BY <1>7 DEF Refresh
  <2>3. PrefixOf(kinds, file, Refreshed(file, c))
    BY <1>2, CaughtUp
  <2>4. ASSUME NEW q \in Procs
        PROVE  look'[q] = look[q] \/ (look'[q].at = "refreshed" /\ look'[q].meta = Refreshed(file, c))
    BY <1>3, <2>2
  <2>5. ASSUME NEW q \in Procs PROVE PrefixOf(kinds, file, look'[q].meta)
    BY <1>4, <2>3, <2>4 DEF SummaryOf
  <2>6. \A q \in Procs : SummaryOf(q)'
    BY <1>4, <2>1, <2>5 DEF SummaryOf, Behind
  <2>7. Stale => Stale'
    BY <2>1, <2>4 DEF Stale
  <2>8. QED
    BY <1>2, <1>4, <2>1, <2>6, <2>7, SummariesStill
<1>8. ASSUME NEW p \in Procs, LeaveCache(p) PROVE SummaryInv'
  <2>1. UNCHANGED <<file, kinds, rec>> /\ cache' = look[p].meta
        /\ (look' = [look EXCEPT ![p] = NoLook] \/ look' = [look EXCEPT ![p] = [look[p] EXCEPT !.at = "loaded"]])
    BY <1>8 DEF LeaveCache
  <2>2. ASSUME NEW q \in Procs PROVE look'[q].meta \in {look[q].meta, NewMeta}
    <3>1. CASE look' = [look EXCEPT ![p] = NoLook]
      BY <1>3, <3>1 DEF NoLook
    <3>2. CASE look' = [look EXCEPT ![p] = [look[p] EXCEPT !.at = "loaded"]]
      <4>1. [look[p] EXCEPT !.at = "loaded"].meta = look[p].meta
        BY <1>3
      <4>2. QED
        BY <1>3, <3>2, <4>1
    <3>3. QED
      BY <2>1, <3>1, <3>2
  <2>3. PrefixOf(kinds, file, cache')
    BY <1>4, <2>1 DEF SummaryOf
  <2>4. ASSUME NEW q \in Procs PROVE PrefixOf(kinds, file, look'[q].meta)
    BY <1>4, <1>5, <2>2 DEF SummaryOf
  <2>5. \A q \in Procs : SummaryOf(q)'
    BY <1>4, <2>1, <2>4 DEF SummaryOf, Behind
  <2>6. QED
    BY <1>2, <2>1, <2>3, <2>5, SummariesStill
<1>9. ASSUME NEW p \in Procs, Open(p) PROVE SummaryInv'
  <2>1. PICK c \in Found :
          rec' = [rec EXCEPT ![p] =
            [at |-> "starting", id |-> 0,
             meta |-> IF Refreshable(file, c) THEN Refreshed(file, c) ELSE NewMeta]]
    BY <1>9 DEF Open
  <2>2. PICK m : m = IF Refreshable(file, c) THEN Refreshed(file, c) ELSE NewMeta
    OBVIOUS
  <2>3. PrefixOf(kinds, file, m) /\ (Unended(file) \/ m.scanned = Len(file))
    <3>1. CASE Refreshable(file, c)
      <4>1. m = Refreshed(file, c)
        BY <2>2, <3>1
      <4>2. QED
        BY <1>2, <3>1, <4>1, CaughtUp
    <3>2. CASE ~Refreshable(file, c)
      <4>1. m = NewMeta
        BY <2>2, <3>2
      <4>2. QED
        BY <1>2, <1>5, <3>2, <4>1, CaughtUp
    <3>3. QED
      BY <3>1, <3>2
  <2>4. UNCHANGED <<file, kinds, cache>> /\ look' = [look EXCEPT ![p] = NoLook]
        /\ (kinds = <<>> \/ look[p].at = "loaded")
    BY <1>9 DEF Open
  <2>5. rec' = [rec EXCEPT ![p] = [at |-> "starting", id |-> 0, meta |-> m]]
    BY <2>1, <2>2
  <2>6. ASSUME NEW q \in Procs, q # p PROVE SummaryOf(q)'
    <3>1. rec'[q] = rec[q] /\ look'[q] = look[q]
      BY <1>3, <2>4, <2>5, <2>6
    <3>2. QED
      BY <1>4, <2>4, <3>1, SummaryStays
  <2>7. SummaryOf(p)'
    <3>1. rec'[p].at = "starting" /\ rec'[p].meta = m /\ look'[p].meta = NewMeta
      BY <1>3, <2>4, <2>5 DEF NoLook
    <3>2. QED
      BY <1>5, <2>3, <2>4, <3>1 DEF SummaryOf
  <2>8. PrefixOf(kinds, file, cache)
    BY <1>4, <2>4 DEF Stale
  <2>9. QED
    BY <1>2, <2>4, <2>6, <2>7, <2>8, SummariesStill
<1>10. ASSUME NEW p \in Procs, FailWrite(p) PROVE SummaryInv'
  <2>1. rec[p].at = "writing" /\ UNCHANGED <<file, kinds, cache, look, gone>>
    BY <1>10 DEF FailWrite
  <2>2. PrefixOf(kinds, file, cache)
    BY <1>2, <2>1, NotStale
  <2>3. Unended(file)
    BY <1>2, <2>1 DEF FileInv, LineInv
  <2>4. ASSUME NEW q \in Procs
        PROVE  rec'[q] = rec[q] \/ (rec'[q].at \in {"failed", "idle"} /\ rec'[q].meta = rec[q].meta)
    BY <1>3, <1>10 DEF FailWrite
  <2>5. \A q \in Procs : SummaryOf(q)'
    BY <1>4, <2>1, <2>3, <2>4 DEF SummaryOf, Behind
  <2>6. QED
    BY <1>2, <2>1, <2>2, <2>5, SummariesStill
<1>11. ASSUME NEW p \in Procs, FoldOwn(p) PROVE SummaryInv'
  <2>1. PICK m : m = rec[p].meta
    OBVIOUS
  <2>2. PICK l : l = rec[p].id
    OBVIOUS
  <2>3. /\ rec[p].at = "written" /\ UNCHANGED <<file, kinds, look>>
        /\ rec' = [rec EXCEPT ![p] = [at |-> "idle", meta |-> Advanced(m, l), id |-> 0]]
    BY <1>11, <2>1, <2>2 DEF FoldOwn
  <2>4. /\ PrefixOf(kinds, file, m) /\ m.scanned + 1 \in 1..Len(file)
        /\ file[m.scanned + 1] = [id |-> l, part |-> 1] /\ m.scanned + NewLine = Len(file)
    BY <1>4, <2>1, <2>2, <2>3 DEF SummaryOf, Behind
  <2>5. l \in 1..MaxLines /\ Whole(file, l)
    <3>1. l \in 1..Len(kinds) /\ Whole(file, l)
      BY <1>2, <2>2, <2>3 DEF FileInv, LineInv
    <3>2. QED
      BY <1>3, <3>1, SessionFileAssumption
  <2>6. PrefixOf(kinds, file, Advanced(m, l)) /\ Advanced(m, l).scanned = Len(file)
    BY <1>3, <2>4, <2>5, AdvancedIsPrefix
  <2>7. PrefixOf(kinds, file, cache)
    BY <1>2, <2>3, NotStale
  <2>8. rec'[p].at = "idle" /\ rec'[p].meta = Advanced(m, l)
    BY <1>3, <2>3
  <2>9. PrefixOf(kinds, file, cache')
    <3>1. cache' = rec'[p].meta \/ cache' = cache
      BY <1>11 DEF FoldOwn
    <3>2. QED
      BY <2>6, <2>7, <2>8, <3>1
  <2>10. ASSUME NEW q \in Procs, q # p PROVE SummaryOf(q)'
    <3>1. rec'[q] = rec[q]
      BY <1>3, <2>3, <2>10
    <3>2. QED
      BY <1>4, <2>3, <3>1, SummaryStays
  <2>11. SummaryOf(p)'
    BY <1>4, <2>3, <2>6, <2>8 DEF SummaryOf
  <2>12. QED
    BY <1>2, <2>3, <2>9, <2>10, <2>11, SummariesStill
<1>12. ASSUME NEW p \in Procs, NEW next \in {"exiting", "out"}, Drop(p, next) PROVE SummaryInv'
  <2>1. /\ rec[p].at \in {"idle", "written", "failed"} /\ cache' = rec[p].meta
        /\ rec' = [rec EXCEPT ![p] = [Closed EXCEPT !.at = next]]
        /\ UNCHANGED <<file, kinds, look>>
    BY <1>2, <1>12 DEF Drop
  <2>2. PrefixOf(kinds, file, cache')
    BY <1>4, <2>1 DEF SummaryOf
  <2>3. ASSUME NEW q \in Procs
        PROVE  rec'[q] = rec[q] \/ (rec'[q].at \in {"exiting", "out"} /\ rec'[q].meta = NewMeta)
    BY <1>3, <2>1 DEF Closed
  <2>4. \A q \in Procs : SummaryOf(q)'
    BY <1>4, <1>5, <2>1, <2>3 DEF SummaryOf, Behind
  <2>5. QED
    BY <1>2, <2>1, <2>2, <2>4, SummariesStill
<1>13. ASSUME NEW p \in Procs, Exit(p) PROVE SummaryInv'
  <2>1. PICK c \in Found : cache' = Refreshed(file, c) /\ file' = file
    BY <1>1, <1>2, <1>13 DEF Exit, Clean
  <2>2. UNCHANGED <<kinds, look>> /\ rec' = [rec EXCEPT ![p] = Closed]
    BY <1>13 DEF Exit
  <2>3. PrefixOf(kinds, file, cache')
    BY <1>2, <2>1, CaughtUp
  <2>4. ASSUME NEW q \in Procs
        PROVE  rec'[q] = rec[q] \/ (rec'[q].at = "out" /\ rec'[q].meta = NewMeta)
    BY <1>3, <2>2 DEF Closed
  <2>5. \A q \in Procs : SummaryOf(q)'
    BY <1>4, <1>5, <2>1, <2>2, <2>4 DEF SummaryOf, Behind
  <2>6. QED
    BY <1>2, <2>1, <2>2, <2>3, <2>5, SummariesStill
<1>14. ASSUME NEW p \in Procs, Kill(p) PROVE SummaryInv'
  <2>1. /\ UNCHANGED <<file, kinds, cache>> /\ rec' = [rec EXCEPT ![p] = Closed]
        /\ look' = [look EXCEPT ![p] = NoLook]
    BY <1>14 DEF Kill
  <2>2. ASSUME NEW q \in Procs
        PROVE  /\ rec'[q] = rec[q] \/ (rec'[q].at = "out" /\ rec'[q].meta = NewMeta)
               /\ look'[q] = look[q] \/ (look'[q].at = "none" /\ look'[q].meta = NewMeta)
    BY <1>3, <2>1 DEF Closed, NoLook
  <2>3. ASSUME NEW q \in Procs PROVE SummaryOf(q)'
    <3>1. SummaryOf(q)
      BY <1>4
    <3>2. PrefixOf(kinds, file, rec'[q].meta) /\ PrefixOf(kinds, file, look'[q].meta)
      BY <1>5, <2>2, <3>1 DEF SummaryOf
    <3>3. CASE rec'[q] = rec[q]
      <4>1. Behind(q) => Behind(q)'
        BY <2>1, <3>3 DEF Behind
      <4>2. QED
        BY <2>1, <3>1, <3>2, <3>3, <4>1 DEF SummaryOf
    <3>4. CASE rec'[q].at = "out"
      BY <2>1, <3>2, <3>4 DEF SummaryOf
    <3>5. QED
      BY <2>2, <3>3, <3>4
  <2>4. Stale => Stale'
    BY <2>1, <2>2 DEF Stale
  <2>5. QED
    BY <1>2, <1>4, <2>1, <2>3, <2>4, SummariesStill
<1>15. QED
  BY <1>1, <1>2, <1>6, <1>7, <1>8, <1>9, <1>10, <1>11, <1>12, <1>13, <1>14,
     BeginKeepsSummaries, EndKeepsSummaries, LossKeepsSummaries DEF FileNext

-----------------------------------------------------------------------------
\* The invariants hold in every reachable state, however many processes share the session,
\* wherever an append can be cut short and however often.
THEOREM FileInvariant == FileSpec => []FileInv
<1>1. FileInit => FileInv
  BY FileInitInv
<1>2. FileInv /\ [FileNext]_fileVars => FileInv'
  BY TypeKept, LinesKept, SummariesKept DEF FileInv
<1>3. QED
  BY <1>1, <1>2, PTL DEF FileSpec

\* The summary, and what is read of the log from its baseline, are those of the whole log:
\* SessionMeta::fold and history_from_log over whatever cache was left (meta.rs, resume.rs).
THEOREM SummaryIsSound == FileSpec => []SummaryIsDerived
<1>1. FileInv => SummaryIsDerived
  BY DerivedFromInv, WholeFromInv DEF SummaryIsDerived, FileInv
<1>2. QED
  BY <1>1, FileInvariant, PTL

\* A cut line costs one event and no more (RolloutRecorder::append, read_log_from), and what
\* is taken to be empty on exit has no turn that can be read back (session.rs).
THEOREM NothingIsLost == FileSpec => []NothingSaidIsLost
<1>1. FileInv => NothingSaidIsLost
  BY OneEventFromInv, EmptyFromInv DEF NothingSaidIsLost
<1>2. QED
  BY <1>1, FileInvariant, PTL

\* The step that removes a session as the interface exits (crates/cli/src/commands/session.rs)
\* finds no turn in it that was recorded and can be read back, if no line was begun behind a
\* cut one or beside another recorder and the log is text.
THEOREM RemovedIsEmpty ==
  FileSpec => [][~gone /\ gone' /\ Clean /\ IsText =>
                   \A id \in acked \cap Read : kinds[id] # "TurnStart"]_fileVars
<1> DEFINE Empties == ~gone /\ gone' /\ Clean /\ IsText =>
                        \A id \in acked \cap Read : kinds[id] # "TurnStart"
<1>1. ASSUME FileInv, [FileNext]_fileVars PROVE [Empties]_fileVars
  <2>1. SUFFICES ASSUME ~gone, gone', Clean, IsText, FileNext
                 PROVE  \A id \in acked \cap Read : kinds[id] # "TurnStart"
    BY <1>1
  <2>2. PICK p \in Procs : Exit(p)
    <3>1. ASSUME NEW p \in Procs,
                 Refresh(p) \/ LeaveCache(p) \/ Open(p) \/ EndWrite(p) \/ FailWrite(p)
                 \/ FoldOwn(p) \/ Kill(p)
          PROVE  gone' = gone
      BY <3>1 DEF Refresh, LeaveCache, Open, EndWrite, FailWrite, FoldOwn, Kill
    <3>2. ASSUME NEW p \in Procs, NEW kind \in Kinds, NEW n \in CutAt, BeginWrite(p, kind, n)
          PROVE  gone' = gone
      BY <3>2 DEF BeginWrite
    <3>3. ASSUME NEW p \in Procs, NEW next \in {"exiting", "out"}, Drop(p, next)
          PROVE  gone' = gone
      BY <3>3 DEF Drop
    <3>4. ASSUME NEW n \in 0..Len(file), PowerLoss(n) PROVE gone' = gone
      BY <3>4 DEF PowerLoss
    <3>5. QED
      BY <2>1, <3>1, <3>2, <3>3, <3>4 DEF FileNext
  <2>3. \E c \in Found : Empty(file, c)
    BY <2>1, <2>2 DEF Exit
  <2>4. OnlyEmptyIsDeleted
    BY <1>1, EmptyFromInv
  <2>5. QED
    BY <2>1, <2>3, <2>4 DEF OnlyEmptyIsDeleted
<1>2. QED
  BY <1>1, FileInvariant, PTL DEF FileSpec
=============================================================================
