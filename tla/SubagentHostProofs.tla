------------------------- MODULE SubagentHostProofs -------------------------
(***************************************************************************)
(* For any number of children, permits, turns and replaced conversations:  *)
(* the books of SubagentHost balance, its rows are true, and no permit is  *)
(* lost or made up.                                                        *)
(***************************************************************************)
EXTENDS SubagentHost, FiniteSetTheorems, TLAPS

\* The types of everything but the permits, which are counted.
Typed ==
  /\ spawned \in 0..MaxAgents /\ conversation \in 0..MaxResets /\ turn \in 0..MaxTurns
  /\ on \in BOOLEAN /\ cancelled \in BOOLEAN /\ doing \in Doing
  /\ stage \in [Agents -> Stages] /\ outcome \in [Agents -> Outcomes \cup {"none"}]
  /\ doomed \subseteq Agents /\ aborts \subseteq Agents
  /\ slots \subseteq Agents /\ held \subseteq Agents
  /\ row \in [Agents -> Statuses \cup {"none", "live"}]
  /\ parent \in [Agents -> 0..MaxResets]
  /\ delivered \subseteq Agents /\ dropped \subseteq Agents

\* Children are numbered as they are spawned, behind the recorded ones.
Numbered ==
  /\ Recorded <= spawned
  /\ \A a \in Agents : stage[a] # "none" <=> Recorded < a /\ a <= spawned
  /\ \A a \in Agents : parent[a] <= conversation

\* The parent's call is about a child of this conversation, and is made in a turn.
Calling ==
  /\ doing # Idle => on
  /\ doing.at = "idle" => doing = Idle
  /\ held # {} => Waiting
  /\ doing.at \in {"spawn_abort", "spawn_row", "spawn_slot", "kill"} =>
       doing.agent \in Current
  /\ doing.at \in {"spawn_row", "spawn_slot"} => doing.agent \in aborts
  /\ doing.at = "kill" => doing.agent \in doomed

\* The places a child may be in are apart, and a child of this conversation is in one.
Placed ==
  /\ slots \cup held \cup aborts \subseteq Current
  /\ \A a \in delivered \cup dropped : stage[a] # "none"
  /\ slots \cap held = {} /\ slots \cap delivered = {} /\ slots \cap dropped = {}
  /\ held \cap delivered = {} /\ held \cap dropped = {} /\ delivered \cap dropped = {}
  /\ Spawning \cap (slots \cup held \cup delivered \cup dropped) = {}
  /\ Current \subseteq slots \cup held \cup delivered \cup dropped \cup Spawning
  /\ slots \cup held \subseteq aborts

\* A child has an outcome from when it holds its report, or has lost it.
Ended ==
  \A a \in Agents :
    /\ outcome[a] = "none" <=> stage[a] \notin {"noting", "ended"}
    /\ stage[a] = "noting" => outcome[a] \in Statuses

\* Rows of another conversation are gone, but for those read from the log.
RowsGone ==
  \A a \in Agents \ Current : row[a] # "none" => a <= Recorded /\ conversation = 0

\* Children that hold a permit.
Running == {a \in Agents : stage[a] \in {"opening", "working"}}

\* Every permit is free or with a child.
Counted == permits \in Nat /\ permits + Cardinality(Running) = MaxConcurrent

\* What is inductive, but for the permits.
Books == Typed /\ Numbered /\ Calling /\ Placed /\ Ended /\ RowsGone /\ RowsAreTrue

-----------------------------------------------------------------------------
\* What a child does moves nothing of the host's but its own row, and leaves no row new.
LEMMA ChildKeeps ==
  ASSUME Books, NEW a \in Agents, ChildStep(a)
  PROVE  /\ UNCHANGED <<session, doing, doomed, aborts, slots, held, fate>>
         /\ \A b \in Agents : stage'[b] # "none" <=> stage[b] # "none"
         /\ \A b \in Agents : row'[b] # "none" <=> row[b] # "none"
<1> USE DEF Books, Typed, Agents
<1>1. CASE LeaveQueue(a)
  BY <1>1 DEF LeaveQueue, Goes, To, tables
<1>2. CASE Acquire(a)
  BY <1>2 DEF Acquire, Goes, To, tables
<1>3. CASE Open(a)
  BY <1>3 DEF Open, Goes, To, tables
<1>4. CASE TurnEnds(a)
  BY <1>4 DEF TurnEnds, Goes, To, tables
<1>5. CASE Publish(a)
  <2>1. outcome[a] # "none"
    BY <1>5 DEF Publish, Ended
  <2> QED BY <1>5, <2>1 DEF Publish, Note, Published
<1>6. CASE Aborted(a)
  BY <1>6 DEF Aborted, To, tables
<1> QED BY <1>1, <1>2, <1>3, <1>4, <1>5, <1>6 DEF ChildStep

LEMMA ChildKeepsCurrent ==
  ASSUME Books, NEW a \in Agents, ChildStep(a)
  PROVE  Current' = Current
BY ChildKeeps DEF Current, session

\* Every step keeps the types.
LEMMA TypedStep == Books /\ Next => Typed'
<1> SUFFICES ASSUME Books, Next PROVE Typed'
  OBVIOUS
<1> USE SubagentAssumption DEF SubagentAssumption, Books, Typed, Calling, Current,
      Doing, Idle, Agents, Stages, Statuses, Outcomes, session, children, tables, fate
<1>1. CASE StartTurn
  <2>1. turn' \in 0..MaxTurns
    BY <1>1 DEF StartTurn
  <2> QED BY <1>1, <2>1 DEF StartTurn
<1>2. CASE EndTurn
  BY <1>2 DEF EndTurn, Free
<1>3. CASE Cancel
  BY <1>3 DEF Cancel
<1>4. CASE SpawnTask
  BY <1>4 DEF SpawnTask, Free
<1>5. CASE SpawnAbort
  <2>1. doing.agent \in Agents
    BY <1>5 DEF SpawnAbort
  <2> QED BY <1>5, <2>1 DEF SpawnAbort
<1>6. CASE SpawnRow
  <2>1. doing.agent \in Agents
    BY <1>6 DEF SpawnRow
  <2>2. row' \in [Agents -> Statuses \cup {"none", "live"}]
    BY <1>6, <2>1 DEF SpawnRow
  <2> QED BY <1>6, <2>1, <2>2 DEF SpawnRow
<1>7. CASE SpawnSlot
  <2>1. doing.agent \in Agents
    BY <1>7 DEF SpawnSlot
  <2>2. doing' \in Doing
    BY <1>7, <2>1 DEF SpawnSlot
  <2>3. slots' \in SUBSET Agents /\ held' \in SUBSET Agents
    BY <1>7, <2>1 DEF SpawnSlot
  <2> QED BY <1>7, <2>2, <2>3 DEF SpawnSlot
<1>8. CASE StartWait(slots)
  BY <1>8 DEF StartWait, Free
<1>9. CASE \E a \in Agents : StartWait({a})
  BY <1>9 DEF StartWait, Free
<1>10. CASE FinishWait
  BY <1>10 DEF FinishWait, Back, Forgotten, Told
<1>11. CASE GiveUp
  BY <1>11 DEF GiveUp, Back
<1>12. CASE DeliverReady
  BY <1>12 DEF DeliverReady, Free, Kept
<1>13. CASE \E a \in Agents : KillAbort(a)
  BY <1>13 DEF KillAbort, Free
<1>14. CASE KillNote
  <2>1. row' \in [Agents -> Statuses \cup {"none", "live"}]
    BY <1>14 DEF KillNote, Note
  <2> QED BY <1>14, <2>1 DEF KillNote
<1>15. CASE Reset
  <2>1. conversation' \in 0..MaxResets
    BY <1>15 DEF Reset
  <2>2. row' \in [Agents -> Statuses \cup {"none", "live"}]
    BY <1>15 DEF Reset
  <2> QED BY <1>15, <2>1, <2>2 DEF Reset, Retired
<1>16. CASE \E a \in Agents : LeaveQueue(a)
  BY <1>16 DEF LeaveQueue, Goes, To
<1>17. CASE \E a \in Agents : Acquire(a)
  BY <1>17 DEF Acquire, Goes, To
<1>18. CASE \E a \in Agents : Open(a)
  BY <1>18 DEF Open, Goes, To
<1>19. CASE \E a \in Agents : TurnEnds(a)
  BY SMTT(30), <1>19 DEF TurnEnds, Goes, To
<1>20. CASE \E a \in Agents : Publish(a)
  <2> PICK a \in Agents : Publish(a)
    BY <1>20
  <2>1. outcome[a] \in Statuses
    BY DEF Publish, Ended
  <2>2. row' \in [Agents -> Statuses \cup {"none", "live"}]
    BY <2>1 DEF Publish, Note, Published
  <2>3. stage' \in [Agents -> Stages]
    BY DEF Publish
  <2> QED BY <2>2, <2>3 DEF Publish
<1>21. CASE \E a \in Agents : Aborted(a)
  BY <1>21 DEF Aborted, To
<1> QED BY <1>1, <1>2, <1>3, <1>4, <1>5, <1>6, <1>7, <1>8, <1>9, <1>10, <1>11, <1>12,
           <1>13, <1>14, <1>15, <1>16, <1>17, <1>18, <1>19, <1>20, <1>21 DEF Next,
                ParentStep, ChildStep

\* Numbers are given out in order.
LEMMA NumberedStep == Books /\ Next => Numbered'
<1> SUFFICES ASSUME Books, Next PROVE Numbered'
  OBVIOUS
<1> USE SubagentAssumption DEF SubagentAssumption, Books, Typed, Numbered, session,
      children, tables, fate
<1>1. CASE ParentStep /\ ~SpawnTask /\ ~Reset
  <2>1. UNCHANGED <<spawned, conversation, stage, parent>>
    BY <1>1 DEF ParentStep, StartTurn, EndTurn, Cancel, SpawnAbort, SpawnRow, SpawnSlot, 
                StartWait, FinishWait, GiveUp, DeliverReady, KillAbort, KillNote, Reset
  <2> QED BY <2>1
<1>2. CASE SpawnTask
  <2>1. spawned' = spawned + 1 /\ spawned \in Nat /\ spawned' \in Agents
    BY <1>2 DEF SpawnTask, Agents
  <2>2. \A a \in Agents : stage'[a] = (IF a = spawned' THEN "queued" ELSE stage[a])
    BY <1>2, <2>1 DEF SpawnTask
  <2>3. \A a \in Agents : stage'[a] # "none" <=> Recorded < a /\ a <= spawned'
    BY <2>1, <2>2 DEF Agents
  <2>4. \A a \in Agents : parent'[a] <= conversation'
    BY <1>2, <2>1 DEF SpawnTask
  <2> QED BY <2>1, <2>3, <2>4
<1>3. CASE Reset
  BY <1>3 DEF Reset, Retired
<1>4. CASE \E a \in Agents : ChildStep(a)
  BY <1>4, ChildKeeps
<1> QED BY <1>1, <1>2, <1>3, <1>4 DEF Next, ParentStep

\* A call of the parent goes on about the child it began with.
LEMMA CallingStep == Books /\ Next => Calling'
<1> SUFFICES ASSUME Books, Next PROVE Calling'
  OBVIOUS
<1> USE SubagentAssumption DEF SubagentAssumption, Books, Typed, Numbered, Calling,
      Placed, Current, Waiting, Idle, Doing, Agents, session, children, tables, fate
<1>1. CASE StartTurn
  BY <1>1 DEF StartTurn
<1>2. CASE EndTurn
  BY <1>2 DEF EndTurn, Free
<1>3. CASE Cancel
  BY <1>3 DEF Cancel
<1>4. CASE SpawnTask
  BY <1>4 DEF SpawnTask, Free
<1>5. CASE SpawnAbort
  BY <1>5 DEF SpawnAbort
<1>6. CASE SpawnRow
  BY <1>6 DEF SpawnRow
<1>7. CASE SpawnSlot
  BY <1>7 DEF SpawnSlot
<1>8. CASE StartWait(slots)
  BY <1>8 DEF StartWait, Free
<1>9. CASE \E a \in Agents : StartWait({a})
  BY <1>9 DEF StartWait, Free
<1>10. CASE FinishWait
  BY <1>10 DEF FinishWait, Back, Forgotten, Told
<1>11. CASE GiveUp
  BY <1>11 DEF GiveUp, Back
<1>12. CASE DeliverReady
  BY <1>12 DEF DeliverReady, Free, Kept
<1>13. CASE \E a \in Agents : KillAbort(a)
  BY <1>13 DEF KillAbort, Free
<1>14. CASE KillNote
  BY <1>14 DEF KillNote, Note
<1>15. CASE Reset
  BY <1>15 DEF Reset, Retired
<1>16. CASE \E a \in Agents : ChildStep(a)
  <2> PICK a \in Agents : ChildStep(a)
    BY <1>16
  <2>1. Current' = Current /\ UNCHANGED <<on, doing, doomed, aborts, held>>
    BY ChildKeeps, ChildKeepsCurrent
  <2> HIDE DEF Current
  <2> QED BY <2>1
<1> QED BY <1>1, <1>2, <1>3, <1>4, <1>5, <1>6, <1>7, <1>8, <1>9, <1>10, <1>11, <1>12,
           <1>13, <1>14, <1>15, <1>16 DEF Next, ParentStep

\* A child goes from place to place, and is never in two.
LEMMA PlacedStep == Books /\ Next => Placed'
<1> SUFFICES ASSUME Books, Next PROVE Placed'
  OBVIOUS
<1> USE SubagentAssumption DEF SubagentAssumption, Books, Typed, Numbered, Calling,
      Placed, Current, Spawning, Waiting, Idle, Agents, session, children, tables, fate
<1>1. CASE StartTurn
  BY <1>1 DEF StartTurn
<1>2. CASE EndTurn
  BY <1>2 DEF EndTurn, Free
<1>3. CASE Cancel
  BY <1>3 DEF Cancel
<1>4. CASE SpawnTask
  <2> DEFINE a == spawned + 1
  <2>1. a \in Agents /\ stage[a] = "none"
    BY <1>4 DEF SpawnTask
  <2>2. a \notin slots \cup held \cup delivered \cup dropped
    BY <2>1
  <2>3. Current' = Current \cup {a} /\ Spawning = {} /\ Spawning' = {a}
    BY <1>4, <2>1 DEF SpawnTask, Free
  <2>4. \A b \in Agents : stage[b] # "none" => stage'[b] # "none"
    BY <1>4, <2>1 DEF SpawnTask
  <2>5. UNCHANGED <<aborts, slots, held, delivered, dropped>>
    BY <1>4 DEF SpawnTask
  <2>6. \A b \in delivered' \cup dropped' : stage'[b] # "none"
    BY <2>4, <2>5
  <2>7. Placed
    OBVIOUS
  <2> HIDE DEF Books, Typed, Numbered, Calling, Current, Spawning, a
  <2> QED BY <2>2, <2>3, <2>5, <2>6, <2>7
<1>5. CASE SpawnAbort
  BY <1>5 DEF SpawnAbort
<1>6. CASE SpawnRow
  BY <1>6 DEF SpawnRow
<1>7. CASE SpawnSlot
  <2>1. doing.agent \in aborts /\ doing.agent \in Current /\ held = {}
    BY <1>7 DEF SpawnSlot
  <2>2. Current' = Current /\ Spawning = {doing.agent} /\ Spawning' = {}
    BY <1>7 DEF SpawnSlot, Doing
  <2> QED BY ZenonT(60), <1>7, <2>1, <2>2 DEF SpawnSlot
<1>8. CASE StartWait(slots)
  BY <1>8 DEF StartWait, Free
<1>9. CASE \E a \in Agents : StartWait({a})
  BY <1>9 DEF StartWait, Free
<1>10. CASE FinishWait
  BY ZenonT(60), <1>10 DEF FinishWait, Back, Forgotten, Told
<1>11. CASE GiveUp
  BY <1>11 DEF GiveUp, Back
<1>12. CASE DeliverReady
  BY ZenonT(60), <1>12 DEF DeliverReady, Free, Kept
<1>13. CASE \E a \in Agents : KillAbort(a)
  BY <1>13 DEF KillAbort, Free
<1>14. CASE KillNote
  BY <1>14 DEF KillNote, Note
<1>15. CASE Reset
  BY <1>15 DEF Reset, Retired
<1>16. CASE \E a \in Agents : ChildStep(a)
  <2> PICK a \in Agents : ChildStep(a)
    BY <1>16
  <2>1. Current' = Current /\ UNCHANGED <<doing, aborts, slots, held, delivered, dropped>>
    BY ChildKeeps, ChildKeepsCurrent
  <2>2. \A b \in Agents : stage'[b] # "none" <=> stage[b] # "none"
    BY ChildKeeps
  <2> HIDE DEF Current
  <2> QED BY <2>1, <2>2
<1> QED BY <1>1, <1>2, <1>3, <1>4, <1>5, <1>6, <1>7, <1>8, <1>9, <1>10, <1>11, <1>12,
           <1>13, <1>14, <1>15, <1>16 DEF Next, ParentStep

\* A child has its outcome as it leaves its work.
LEMMA EndedStep == Books /\ Next => Ended'
<1> SUFFICES ASSUME Books, Next PROVE Ended'
  OBVIOUS
<1> USE SubagentAssumption DEF SubagentAssumption, Books, Typed, Ended, Statuses,
      session, children, tables, fate
<1>1. CASE ParentStep /\ ~SpawnTask
  <2>1. UNCHANGED <<stage, outcome>>
    BY <1>1 DEF ParentStep, StartTurn, EndTurn, Cancel, SpawnAbort, SpawnRow, SpawnSlot, 
                StartWait, FinishWait, GiveUp, DeliverReady, KillAbort, KillNote, Reset
  <2> QED BY <2>1
<1>2. CASE SpawnTask
  <2>1. spawned + 1 \in Agents /\ stage[spawned + 1] = "none"
    BY <1>2 DEF SpawnTask, Agents, Numbered
  <2>2. outcome[spawned + 1] = "none"
    BY <2>1
  <2> QED BY <1>2, <2>1, <2>2 DEF SpawnTask
<1>3. CASE \E a \in Agents : LeaveQueue(a)
  BY <1>3 DEF LeaveQueue, Goes, To
<1>4. CASE \E a \in Agents : Acquire(a)
  BY <1>4 DEF Acquire, Goes, To
<1>5. CASE \E a \in Agents : Open(a)
  BY <1>5 DEF Open, Goes, To
<1>6. CASE \E a \in Agents : TurnEnds(a)
  BY <1>6 DEF TurnEnds, Goes, To
<1>7. CASE \E a \in Agents : Publish(a)
  BY <1>7 DEF Publish, Note, Published
<1>8. CASE \E a \in Agents : Aborted(a)
  BY <1>8 DEF Aborted, To
<1> QED BY <1>1, <1>2, <1>3, <1>4, <1>5, <1>6, <1>7, <1>8 DEF Next, ParentStep, ChildStep

\* Whatever comes late, no row of a replaced conversation comes back.
LEMMA RowsGoneStep == Books /\ Next => RowsGone'
<1> SUFFICES ASSUME Books, Next PROVE RowsGone'
  OBVIOUS
<1> USE SubagentAssumption DEF SubagentAssumption, Books, Typed, Numbered, Calling,
      RowsGone, Current, Agents, session, children, tables, fate
<1>1. CASE StartTurn
  BY <1>1 DEF StartTurn
<1>2. CASE EndTurn
  BY <1>2 DEF EndTurn, Free
<1>3. CASE Cancel
  BY <1>3 DEF Cancel
<1>4. CASE SpawnTask
  BY <1>4 DEF SpawnTask, Free
<1>5. CASE SpawnAbort
  BY <1>5 DEF SpawnAbort
<1>6. CASE SpawnRow
  BY <1>6 DEF SpawnRow
<1>7. CASE SpawnSlot
  BY <1>7 DEF SpawnSlot
<1>8. CASE StartWait(slots)
  BY <1>8 DEF StartWait, Free
<1>9. CASE \E a \in Agents : StartWait({a})
  BY <1>9 DEF StartWait, Free
<1>10. CASE FinishWait
  BY <1>10 DEF FinishWait, Back, Forgotten, Told
<1>11. CASE GiveUp
  BY <1>11 DEF GiveUp, Back
<1>12. CASE DeliverReady
  BY <1>12 DEF DeliverReady, Free, Kept
<1>13. CASE \E a \in Agents : KillAbort(a)
  BY <1>13 DEF KillAbort, Free
<1>14. CASE KillNote
  <2>1. \A b \in Agents : row'[b] # "none" => row[b] # "none"
    BY <1>14 DEF KillNote, Note
  <2> QED BY <1>14, <2>1 DEF KillNote
<1>15. CASE Reset
  <2>1. \A a \in Agents : row'[a] = "none"
    BY <1>15 DEF Reset
  <2> QED BY <2>1
<1>16. CASE \E a \in Agents : ChildStep(a)
  BY <1>16, ChildKeeps, ChildKeepsCurrent
<1> QED BY <1>1, <1>2, <1>3, <1>4, <1>5, <1>6, <1>7, <1>8, <1>9, <1>10, <1>11, <1>12,
           <1>13, <1>14, <1>15, <1>16 DEF Next, ParentStep

\* A row is written by the child that ended, or by who stopped it.
LEMMA RowsAreTrueStep == Books /\ Next => RowsAreTrue'
<1> SUFFICES ASSUME Books, Next PROVE RowsAreTrue'
  OBVIOUS
<1> USE SubagentAssumption DEF SubagentAssumption, Books, Typed, Numbered, Calling,
      Ended, RowsGone, RowsAreTrue, Current, Agents, Statuses, session, children,
      tables, fate
<1>1. CASE StartTurn
  BY <1>1 DEF StartTurn
<1>2. CASE EndTurn
  BY <1>2 DEF EndTurn, Free
<1>3. CASE Cancel
  BY <1>3 DEF Cancel
<1>4. CASE SpawnTask
  BY <1>4 DEF SpawnTask, Free
<1>5. CASE SpawnAbort
  BY <1>5 DEF SpawnAbort
<1>6. CASE SpawnRow
  BY <1>6 DEF SpawnRow
<1>7. CASE SpawnSlot
  BY <1>7 DEF SpawnSlot
<1>8. CASE StartWait(slots)
  BY <1>8 DEF StartWait, Free
<1>9. CASE \E a \in Agents : StartWait({a})
  BY <1>9 DEF StartWait, Free
<1>10. CASE FinishWait
  BY <1>10 DEF FinishWait, Back, Forgotten, Told
<1>11. CASE GiveUp
  BY <1>11 DEF GiveUp, Back
<1>12. CASE DeliverReady
  BY <1>12 DEF DeliverReady, Free, Kept
<1>13. CASE \E a \in Agents : KillAbort(a)
  BY <1>13 DEF KillAbort, Free
<1>14. CASE KillNote
  BY <1>14 DEF KillNote, Note
<1>15. CASE Reset
  BY <1>15 DEF Reset, Retired
<1>16. CASE \E a \in Agents : LeaveQueue(a)
  BY <1>16 DEF LeaveQueue, Goes, To
<1>17. CASE \E a \in Agents : Acquire(a)
  BY <1>17 DEF Acquire, Goes, To
<1>18. CASE \E a \in Agents : Open(a)
  BY <1>18 DEF Open, Goes, To
<1>19. CASE \E a \in Agents : TurnEnds(a)
  BY <1>19 DEF TurnEnds, Goes, To
<1>20. CASE \E a \in Agents : Publish(a)
  BY <1>20 DEF Publish, Note, Published
<1>21. CASE \E a \in Agents : Aborted(a)
  BY <1>21 DEF Aborted, To
<1> QED BY <1>1, <1>2, <1>3, <1>4, <1>5, <1>6, <1>7, <1>8, <1>9, <1>10, <1>11, <1>12,
           <1>13, <1>14, <1>15, <1>16, <1>17, <1>18, <1>19, <1>20, <1>21 DEF Next,
                ParentStep, ChildStep

-----------------------------------------------------------------------------
(* Permits *)

\* A set of children is finite.
LEMMA Countable ==
  ASSUME NEW S \in SUBSET Agents
  PROVE  IsFiniteSet(S) /\ Cardinality(S) \in Nat
<1>1. IsFiniteSet(Agents)
  BY SubagentAssumption, FS_Interval DEF SubagentAssumption, Agents
<1> QED BY <1>1, FS_Subset, FS_CardinalityType

\* A child that begins to work takes one permit, and one that stops gives back one.
LEMMA CountedStep == Books /\ Counted /\ Next => Counted'
<1> SUFFICES ASSUME Books, Counted, Next PROVE Counted'
  OBVIOUS
<1> USE DEF Books, Typed
<1>1. IsFiniteSet(Running) /\ Cardinality(Running) \in Nat /\ MaxConcurrent \in Nat
  BY Countable, SubagentAssumption DEF Running, SubagentAssumption
<1>2. ASSUME Running' = Running, permits' = permits PROVE Counted'
  BY <1>2 DEF Counted
<1>3. ASSUME NEW a \in Agents, a \notin Running, Running' = Running \cup {a}, permits > 0,
             permits' = permits - 1
      PROVE  Counted'
  <2>1. Cardinality(Running') = Cardinality(Running) + 1
    BY <1>1, <1>3, FS_AddElement
  <2> QED BY <1>1, <1>3, <2>1 DEF Counted
<1>4. ASSUME NEW a \in Agents, a \in Running, Running' = Running \ {a}, permits' = permits + 1
      PROVE  Counted'
  <2>1. Cardinality(Running') = Cardinality(Running) - 1
    BY <1>1, <1>4, FS_RemoveElement
  <2> QED BY <1>1, <1>4, <2>1 DEF Counted
<1>5. CASE ParentStep
  <2>1. permits' = permits
    BY <1>5 DEF ParentStep, StartTurn, EndTurn, Cancel, SpawnTask, SpawnAbort, SpawnRow,
                SpawnSlot, StartWait, FinishWait, GiveUp, DeliverReady, KillAbort, KillNote,
                Reset, children
  <2>2. CASE SpawnTask
    <3>1. spawned + 1 \in Agents /\ stage[spawned + 1] = "none"
      BY <2>2, SubagentAssumption DEF SpawnTask, Agents, Numbered, SubagentAssumption
    <3>2. Running' = Running
      BY <2>2, <3>1 DEF SpawnTask, Running
    <3> QED BY <1>2, <2>1, <3>2
  <2>3. CASE ~SpawnTask
    <3>1. stage' = stage
      BY <1>5, <2>3 DEF ParentStep, StartTurn, EndTurn, Cancel, SpawnAbort, SpawnRow,
                        SpawnSlot, StartWait, FinishWait, GiveUp, DeliverReady, KillAbort,
                        KillNote, Reset, children
    <3> QED BY <1>2, <2>1, <3>1 DEF Running
  <2> QED BY <2>2, <2>3
<1>6. ASSUME NEW a \in Agents, ChildStep(a) PROVE Counted'
  <2>1. CASE LeaveQueue(a)
    BY <1>2, <2>1 DEF LeaveQueue, Goes, To, Running
  <2>2. CASE Acquire(a)
    <3>1. a \notin Running /\ Running' = Running \cup {a}
      BY <2>2 DEF Acquire, Goes, To, Running
    <3> QED BY <1>3, <2>2, <3>1 DEF Acquire, HasPermit
  <2>3. CASE Open(a)
    <3>1. a \in Running
      BY <2>3 DEF Open, Goes, Running
    <3>2. \/ Running' = Running /\ permits' = permits
          \/ Running' = Running \ {a} /\ permits' = permits + 1
      BY <2>3 DEF Open, Goes, To, GiveBack, Running
    <3> QED BY <1>2, <1>4, <3>1, <3>2
  <2>4. CASE TurnEnds(a)
    <3>1. a \in Running /\ Running' = Running \ {a}
      BY <2>4 DEF TurnEnds, Goes, To, Running
    <3> QED BY <1>4, <2>4, <3>1 DEF TurnEnds, GiveBack
  <2>5. CASE Publish(a)
    BY <1>2, <2>5 DEF Publish, Running
  <2>6. CASE Aborted(a)
    <3>1. CASE stage[a] = "queued"
      BY <1>2, <2>6, <3>1 DEF Aborted, To, Running
    <3>2. CASE stage[a] # "queued"
      <4>1. a \in Running /\ Running' = Running \ {a}
        BY <2>6, <3>2 DEF Aborted, To, Running
      <4> QED BY <1>4, <2>6, <3>2, <4>1 DEF Aborted, GiveBack
    <3> QED BY <3>1, <3>2
  <2> QED BY <1>6, <2>1, <2>2, <2>3, <2>4, <2>5, <2>6 DEF ChildStep
<1> QED BY <1>5, <1>6 DEF Next

-----------------------------------------------------------------------------
(* The theorems *)

IInv == Books /\ Counted

LEMMA InitHolds == Init => IInv
<1> SUFFICES ASSUME Init PROVE IInv
  OBVIOUS
<1> USE SubagentAssumption DEF SubagentAssumption, Init
<1>1. Typed
  <2>1. doing \in Doing
    BY DEF Doing, Idle
  <2>2. stage \in [Agents -> Stages] /\ outcome \in [Agents -> Outcomes \cup {"none"}]
    BY DEF Stages
  <2>3. /\ row \in [Agents -> Statuses \cup {"none", "live"}]
        /\ parent \in [Agents -> 0..MaxResets]
    BY DEF Statuses
  <2>4. spawned \in 0..MaxAgents /\ conversation \in 0..MaxResets /\ turn \in 0..MaxTurns
    OBVIOUS
  <2>5. /\ on \in BOOLEAN /\ cancelled \in BOOLEAN
        /\ doomed \subseteq Agents /\ aborts \subseteq Agents
        /\ slots \subseteq Agents /\ held \subseteq Agents
        /\ delivered \subseteq Agents /\ dropped \subseteq Agents
    OBVIOUS
  <2> HIDE DEF Init
  <2> QED BY <2>1, <2>2, <2>3, <2>4, <2>5 DEF Typed
<1>2. Current = {} /\ Spawning = {} /\ Running = {}
  BY DEF Current, Spawning, Idle, Running
<1>3. Numbered
  BY DEF Numbered, Agents
<1>4. Calling /\ Placed
  BY <1>2 DEF Calling, Placed, Idle
<1>5. Ended /\ RowsGone /\ RowsAreTrue
  BY <1>2 DEF Ended, RowsGone, RowsAreTrue, Agents
<1>6. Counted
  BY <1>2, FS_EmptySet DEF Counted
<1> QED BY <1>1, <1>3, <1>4, <1>5, <1>6 DEF IInv, Books

LEMMA StepHolds == IInv /\ [Next]_vars => IInv'
<1> SUFFICES ASSUME IInv, [Next]_vars PROVE IInv'
  OBVIOUS
<1>1. CASE Next
  BY <1>1, TypedStep, NumberedStep, CallingStep, PlacedStep, EndedStep, RowsGoneStep,
     RowsAreTrueStep, CountedStep DEF IInv, Books
<1>2. CASE UNCHANGED vars
  BY <1>2 DEF vars, IInv, Books, Typed, Numbered, Calling, Placed, Ended, RowsGone,
              RowsAreTrue, Counted, Current, Spawning, Waiting, Running
<1> QED BY <1>1, <1>2

\* A permit more than the pool has never turns up, nor does any other value leave its type.
LEMMA TypesFollow == IInv => TypeOK
<1> SUFFICES ASSUME IInv PROVE TypeOK
  OBVIOUS
<1>1. Cardinality(Running) \in Nat
  BY Countable DEF Running
<1>2. permits \in 0..MaxConcurrent
  BY <1>1, SubagentAssumption DEF IInv, Counted, SubagentAssumption
<1> QED BY <1>2 DEF IInv, Books, Typed, TypeOK

\* Whoever is in exactly one of the places.
LEMMA OneFollows == IInv => AccountedOnce
<1> SUFFICES ASSUME IInv, NEW a \in Current
             PROVE  LET places == <<slots, held, delivered, dropped, Spawning>>
                    IN  \E i \in DOMAIN places :
                          a \in places[i] /\ \A j \in DOMAIN places \ {i} : a \notin places[j]
  BY DEF AccountedOnce
<1> DEFINE places == <<slots, held, delivered, dropped, Spawning>>
<1>1. DOMAIN places = {1, 2, 3, 4, 5}
  OBVIOUS
<1>2. \A i, j \in {1, 2, 3, 4, 5} : a \in places[i] /\ a \in places[j] => i = j
  BY DEF IInv, Books, Placed
<1>3. \E i \in {1, 2, 3, 4, 5} : a \in places[i]
  BY DEF IInv, Books, Placed
<1> HIDE DEF places
<1>4. \E i \in DOMAIN places :
        a \in places[i] /\ \A j \in DOMAIN places \ {i} : a \notin places[j]
  BY <1>1, <1>2, <1>3
<1> QED BY <1>4 DEF places

LEMMA HostFollows == IInv => HostInv
<1> SUFFICES ASSUME IInv PROVE HostInv
  OBVIOUS
<1>1. TypeOK /\ AccountedOnce
  BY TypesFollow, OneFollows
<1>2. OutstandingCanBeStopped /\ ResetRetires
  BY DEF IInv, Books, Placed, RowsGone, OutstandingCanBeStopped, ResetRetires
<1> QED BY <1>1, <1>2 DEF HostInv

LEMMA Invariant == Spec => []IInv
BY InitHolds, StepHolds, PTL DEF Spec

\* Whatever is spawned, awaited, killed or delivered, and however often the conversation is
\* replaced under a child that ends late: each child of the conversation is in one place,
\* stoppable while its report is owed, and none of another is left (host.rs).
THEOREM BooksBalance == Spec => []HostInv
BY Invariant, HostFollows, PTL

\* The row of a child says how it ended, or that somebody stopped it.
THEOREM RowsAreRight == Spec => []RowsAreTrue
<1>1. IInv => RowsAreTrue
  BY DEF IInv, Books
<1> QED BY Invariant, <1>1, PTL

\* Every permit of the pool is free or with a child that is at work, however children end.
THEOREM PermitsAreKept == Spec => []Counted
<1>1. IInv => Counted
  BY DEF IInv
<1> QED BY Invariant, <1>1, PTL

=============================================================================
