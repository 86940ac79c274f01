--------------------------- MODULE SurfaceProofs ---------------------------
(***************************************************************************)
(* What holds of the schedule of recurring prompts, and of the surface     *)
(* over the host of its session, for any bounds.                           *)
(*                                                                         *)
(* First the schedule by itself: what a loop is owed of the time and of    *)
(* its turn.  The surface and the tools of the model share one schedule:   *)
(* whatever they do in whatever order, they keep its specification, and so *)
(* what is proved of it holds of the surface.  The rest follows what       *)
(* travels between surface and host (prompts, replies, requests and        *)
(* updates, each in a queue of its own): which session the surface         *)
(* reaches, why it shows a turn, and where the prompt is that a turn waits *)
(* for.                                                                    *)
(***************************************************************************)
EXTENDS Surface, FiniteSetTheorems, WellFoundedInduction, TLAPS

-----------------------------------------------------------------------------
(* The earliest of the loops that are due *)

\* A set of numbers has a least one.
LEMMA LeastNumber ==
  ASSUME NEW T, T \subseteq Nat, T # {}
  PROVE  \E x \in T : \A y \in T : x <= y
<1> DEFINE R == {ss \in Nat \X Nat : ss[1] < ss[2]}
<1>1. IsWellFoundedOn(R, Nat)
  BY NatLessThanWellFounded DEF OpToRel
<1> HIDE DEF R
<1>2. PICK x \in T : \A y \in T : ~ (<<y, x>> \in R)
  BY <1>1, WFMin
<1>3. ASSUME NEW y \in T PROVE x <= y
  <2>1. x \in Nat /\ y \in Nat /\ ~ (<<y, x>> \in R)
    BY <1>2
  <2>2. y < x => <<y, x>> \in R
    BY <2>1 DEF R
  <2>3. QED
    BY <2>1, <2>2
<1>4. QED
  BY <1>3

\* The parts of the type that are about the schedule alone.
ScheduleOK(s) ==
  /\ s = [tasks |-> s.tasks, lastId |-> s.lastId, passed |-> s.passed]
  /\ s.lastId \in Nat
  /\ DOMAIN s.tasks \subseteq 1..s.lastId
  /\ s.tasks \in [DOMAIN s.tasks -> Loops]
  /\ s.passed \in [1..s.lastId -> Nat]
  /\ Cardinality(DOMAIN s.tasks) <= MaxTasks

LEMMA EarliestOfDue ==
  ASSUME NEW s, ScheduleOK(s), now \in Nat, Due(s) # {}
  PROVE  /\ Earliest(s) \in Due(s)
         /\ \A j \in Due(s) \ {Earliest(s)} : Ahead(s, Earliest(s), j)
<1>1. \A i \in DOMAIN s.tasks : i \in Nat /\ s.tasks[i].next \in Nat
  BY DEF ScheduleOK, Loops
<1> DEFINE Times == {s.tasks[i].next : i \in Due(s)}
<1>2. PICK t \in Times : \A u \in Times : t <= u
  <2>1. Times \subseteq Nat /\ Times # {}
    BY <1>1 DEF Due
  <2> HIDE DEF Times
  <2>2. QED
    BY <2>1, LeastNumber
<1> DEFINE First == {i \in Due(s) : s.tasks[i].next = t}
<1>3. PICK i \in First : \A j \in First : i <= j
  <2>1. First \subseteq Nat /\ First # {}
    BY <1>1, <1>2 DEF Due
  <2> HIDE DEF First
  <2>2. QED
    BY <2>1, LeastNumber
<1>4. \A j \in Due(s) \ {i} : Ahead(s, i, j)
  <2> TAKE j \in Due(s) \ {i}
  <2>1. i \in Nat /\ j \in Nat /\ s.tasks[i].next \in Nat /\ s.tasks[j].next \in Nat
    BY <1>1 DEF Due
  <2>2. s.tasks[i].next <= s.tasks[j].next
    BY <1>2
  <2>3. s.tasks[j].next = s.tasks[i].next => i < j
    <3>1. s.tasks[j].next = s.tasks[i].next => j \in First
      OBVIOUS
    <3>2. QED
      BY <1>3, <2>1, <3>1
  <2>4. QED
    BY <2>1, <2>2, <2>3 DEF Ahead
<1>5. QED
  BY <1>4 DEF Earliest

-----------------------------------------------------------------------------
(* What holds of a schedule at every instant *)

\* The loops that go before one of them.
Before(s, id) == {j \in DOMAIN s.tasks \ {id} : Ahead(s, j, id)}

\* A loop that has fired is due one interval after, and fired within its life.
Kept(l) ==
  /\ l.interval >= MinInterval /\ l.born <= now
  /\ l.fires > 0 => l.next = l.last + l.interval /\ l.last - l.born < MaxLifetime

\* A loop that is due has been passed by so many, and those that may still pass
\* it are so few, that they stay below the limit together.
Waits(s, id) ==
  /\ s.tasks[id].next > now => s.passed[id] = 0
  /\ s.tasks[id].next <= now => s.passed[id] + Cardinality(Before(s, id)) < MaxTasks

Sound(s) ==
  /\ ScheduleOK(s)
  /\ \A id \in DOMAIN s.tasks : Kept(s.tasks[id]) /\ Waits(s, id)

IInv == now \in Nat /\ Sound(sched)

\* Sets of loops are finite, and those before one are fewer than there are.
LEMMA LoopSets ==
  ASSUME NEW s, ScheduleOK(s)
  PROVE  /\ IsFiniteSet(DOMAIN s.tasks) /\ Cardinality(DOMAIN s.tasks) \in Nat
         /\ \A S \in SUBSET DOMAIN s.tasks :
              IsFiniteSet(S) /\ Cardinality(S) \in Nat
         /\ \A id \in DOMAIN s.tasks :
              /\ Before(s, id) \subseteq DOMAIN s.tasks
              /\ Cardinality(Before(s, id)) \in Nat
              /\ Cardinality(Before(s, id)) < Cardinality(DOMAIN s.tasks)
<1>1. IsFiniteSet(DOMAIN s.tasks)
  <2>1. 1 \in Int /\ s.lastId \in Int
    BY DEF ScheduleOK
  <2>2. IsFiniteSet(1..s.lastId)
    BY <2>1, FS_Interval
  <2>3. QED
    BY <2>2, FS_Subset DEF ScheduleOK
<1>2. \A S \in SUBSET DOMAIN s.tasks : IsFiniteSet(S) /\ Cardinality(S) \in Nat
  BY <1>1, FS_Subset, FS_CardinalityType
<1>3. ASSUME NEW id \in DOMAIN s.tasks
      PROVE  /\ Before(s, id) \subseteq DOMAIN s.tasks
             /\ Cardinality(Before(s, id)) \in Nat
             /\ Cardinality(Before(s, id)) < Cardinality(DOMAIN s.tasks)
  <2>1. Before(s, id) \in SUBSET (DOMAIN s.tasks \ {id})
    BY DEF Before
  <2>2. IsFiniteSet(DOMAIN s.tasks \ {id})
        /\ Cardinality(DOMAIN s.tasks \ {id}) = Cardinality(DOMAIN s.tasks) - 1
    BY <1>1, FS_RemoveElement
  <2>3. Cardinality(Before(s, id)) <= Cardinality(DOMAIN s.tasks \ {id})
    BY <2>1, <2>2, FS_Subset
  <2>4. QED
    BY <1>2, <2>1, <2>2, <2>3
<1>4. QED
  BY <1>1, <1>2, <1>3

\* A loop nobody has passed waits for fewer than there are.
LEMMA UnpassedWaits ==
  ASSUME SchedulerAssumption, NEW s, ScheduleOK(s), NEW id \in DOMAIN s.tasks, s.passed[id] = 0
  PROVE  Waits(s, id)
<1>1. /\ Cardinality(Before(s, id)) \in Nat
      /\ Cardinality(Before(s, id)) < Cardinality(DOMAIN s.tasks)
      /\ Cardinality(DOMAIN s.tasks) \in Nat
  BY LoopSets
<1>2. Cardinality(DOMAIN s.tasks) <= MaxTasks /\ MaxTasks \in Nat
  BY DEF ScheduleOK, SchedulerAssumption
<1>3. QED
  BY <1>1, <1>2 DEF Waits

\* Loops taken away: those that stay are as they were, with no more before them.
LEMMA OnlySound ==
  ASSUME SchedulerAssumption, now \in Nat, NEW s, Sound(s), NEW ids
  PROVE  Sound(Only(s, ids))
<1> DEFINE t == Only(s, ids)
<1>1. s = [tasks |-> s.tasks, lastId |-> s.lastId, passed |-> s.passed]
  BY DEF Sound, ScheduleOK
<1>2. t = [tasks |-> [id \in DOMAIN s.tasks \cap ids |-> s.tasks[id]],
           lastId |-> s.lastId, passed |-> s.passed]
  BY <1>1 DEF Only
<1>3. /\ t.tasks = [id \in DOMAIN s.tasks \cap ids |-> s.tasks[id]]
      /\ t.lastId = s.lastId /\ t.passed = s.passed
      /\ t = [tasks |-> t.tasks, lastId |-> t.lastId, passed |-> t.passed]
      /\ DOMAIN t.tasks = DOMAIN s.tasks \cap ids
  BY <1>2
<1> HIDE DEF t
<1>4. ScheduleOK(s)
  BY DEF Sound
<1>5. DOMAIN t.tasks \in SUBSET DOMAIN s.tasks
      /\ \A id \in DOMAIN t.tasks : t.tasks[id] = s.tasks[id]
  BY <1>3
<1>6. Cardinality(DOMAIN t.tasks) <= Cardinality(DOMAIN s.tasks)
  BY <1>4, <1>5, LoopSets, FS_Subset
<1>7. ScheduleOK(t)
  <2>1. Cardinality(DOMAIN t.tasks) <= MaxTasks
    BY <1>4, <1>5, <1>6, LoopSets DEF ScheduleOK, SchedulerAssumption
  <2>2. t.tasks \in [DOMAIN t.tasks -> Loops]
    BY <1>3, <1>4, <1>5 DEF ScheduleOK
  <2>3. QED
    BY <1>3, <1>4, <1>5, <2>1, <2>2 DEF ScheduleOK
<1>8. ASSUME NEW id \in DOMAIN t.tasks
      PROVE  Kept(t.tasks[id]) /\ Waits(t, id)
  <2>1. Kept(s.tasks[id]) /\ Waits(s, id) /\ t.tasks[id] = s.tasks[id] /\ id \in DOMAIN s.tasks
    BY <1>5 DEF Sound
  <2>2. Before(t, id) \in SUBSET Before(s, id)
    BY <1>5 DEF Before, Ahead
  <2>3. Cardinality(Before(t, id)) <= Cardinality(Before(s, id))
        /\ Cardinality(Before(t, id)) \in Nat /\ Cardinality(Before(s, id)) \in Nat
    <3>1. IsFiniteSet(Before(s, id)) /\ IsFiniteSet(Before(t, id))
      BY <1>4, <1>7, <2>1, LoopSets
    <3>2. QED
      BY <2>2, <3>1, FS_Subset, FS_CardinalityType
  <2>4. s.passed[id] \in Nat /\ MaxTasks \in Nat
    BY <1>4, <2>1 DEF ScheduleOK, SchedulerAssumption
  <2>5. t.passed[id] = s.passed[id]
    BY <1>3
  <2>6. Waits(t, id)
    BY <2>1, <2>3, <2>4, <2>5 DEF Waits
  <2>7. QED
    BY <2>1, <2>6
<1>9. QED
  BY <1>7, <1>8 DEF Sound, t

\* A loop made: it goes behind every one that is due.
LEMMA AddedSound ==
  ASSUME SchedulerAssumption, now \in Nat, NEW s, Sound(s), NEW i \in Intervals,
         NEW blank \in BOOLEAN, NEW atOnce \in BOOLEAN
  PROVE  Sound(Added(s, i, blank, atOnce))
<1> DEFINE n == s.lastId + 1
           l == NewLoop(i, atOnce)
           t == [tasks |-> With(s.tasks, n, l), lastId |-> n, passed |-> With(s.passed, n, 0)]
<1>1. SUFFICES ASSUME ~Refused(s, i, blank) PROVE Sound(t)
  BY DEF Added
<1>2. ScheduleOK(s)
  BY DEF Sound
<1>3. i \in Nat /\ i >= MinInterval /\ MaxTasks \in Nat /\ MaxLifetime \in Nat
  BY <1>1 DEF Refused, SchedulerAssumption
<1>4. l \in Loops /\ Kept(l) /\ l.next \in Nat /\ l.next >= now
  BY <1>3 DEF NewLoop, Loops, Kept
<1>5. n \in Nat /\ n \notin DOMAIN s.tasks /\ n \notin 1..s.lastId /\ 1..n = 1..s.lastId \cup {n}
  BY <1>2 DEF ScheduleOK
<1> HIDE DEF l
<1>6. /\ t.tasks = [x \in DOMAIN s.tasks \cup {n} |-> IF x = n THEN l ELSE s.tasks[x]]
      /\ t.passed = [x \in DOMAIN s.passed \cup {n} |-> IF x = n THEN 0 ELSE s.passed[x]]
      /\ t.lastId = n /\ t = [tasks |-> t.tasks, lastId |-> t.lastId, passed |-> t.passed]
  BY DEF With
<1> HIDE DEF n, t
<1>7. /\ DOMAIN t.tasks = DOMAIN s.tasks \cup {n}
      /\ t.tasks[n] = l /\ \A x \in DOMAIN s.tasks : t.tasks[x] = s.tasks[x]
      /\ DOMAIN s.passed = 1..s.lastId
      /\ t.passed[n] = 0 /\ \A x \in 1..s.lastId : t.passed[x] = s.passed[x]
  <2>1. DOMAIN s.passed = 1..s.lastId
    BY <1>2 DEF ScheduleOK
  <2>2. QED
    BY <1>5, <1>6, <2>1
<1>8. ScheduleOK(t)
  <2>1. t.tasks \in [DOMAIN t.tasks -> Loops]
    BY <1>2, <1>4, <1>6, <1>7 DEF ScheduleOK
  <2>2. t.passed \in [1..n -> Nat]
    BY <1>2, <1>5, <1>6, <1>7 DEF ScheduleOK
  <2>3. Cardinality(DOMAIN t.tasks) <= MaxTasks
    <3>1. Cardinality(DOMAIN t.tasks) = Cardinality(DOMAIN s.tasks) + 1
      BY SMTT(30), <1>2, <1>5, <1>7, LoopSets, FS_AddElement
    <3>2. Cardinality(DOMAIN s.tasks) < MaxTasks /\ Cardinality(DOMAIN s.tasks) \in Nat
      BY <1>1, <1>2, <1>3, LoopSets DEF Refused
    <3>3. QED
      BY <1>3, <3>1, <3>2
  <2>4. QED
    BY <1>2, <1>5, <1>6, <1>7, <2>1, <2>2, <2>3 DEF ScheduleOK
<1>9. Kept(t.tasks[n]) /\ Waits(t, n)
  BY <1>4, <1>7, <1>8, UnpassedWaits
<1>10. ASSUME NEW id \in DOMAIN s.tasks
       PROVE  Kept(t.tasks[id]) /\ Waits(t, id)
  <2>1. Kept(s.tasks[id]) /\ Waits(s, id) /\ t.tasks[id] = s.tasks[id]
        /\ id \in 1..s.lastId /\ t.passed[id] = s.passed[id]
    BY <1>2, <1>7 DEF Sound, ScheduleOK
  <2>2. s.tasks[id].next \in Nat
    BY <1>2 DEF ScheduleOK, Loops
  <2>3. CASE s.tasks[id].next > now
    <3>1. t.passed[id] = 0 /\ id \in DOMAIN t.tasks
      BY <1>7, <2>1, <2>3 DEF Waits
    <3>2. QED
      BY <1>8, <2>1, <3>1, UnpassedWaits
  <2>4. CASE s.tasks[id].next <= now
    <3>1. ~Ahead(t, n, id)
      <4>1. s.tasks[id].next <= l.next /\ id < n
        BY <1>4, <1>5, <2>1, <2>2, <2>4, <1>2 DEF n, ScheduleOK
      <4>2. QED
        BY <1>4, <1>5, <1>7, <2>1, <2>2, <4>1 DEF Ahead
    <3>2. Before(t, id) = Before(s, id)
      BY <1>5, <1>7, <3>1 DEF Before, Ahead
    <3>3. QED
      BY <2>1, <3>2 DEF Waits
  <2>5. QED
    BY <2>2, <2>3, <2>4
<1>11. QED
  BY <1>7, <1>8, <1>9, <1>10 DEF Sound

\* A report read changes nothing that the clock is about.
LEMMA ReportedSound ==
  ASSUME SchedulerAssumption, now \in Nat, NEW s, Sound(s), NEW k
  PROVE  Sound(Reported(s, k))
<1> DEFINE t == Reported(s, k)
<1>1. ScheduleOK(s)
  BY DEF Sound
<1>2. s = [tasks |-> s.tasks, lastId |-> s.lastId, passed |-> s.passed]
  BY <1>1 DEF ScheduleOK
<1>3. t = [tasks |-> [x \in DOMAIN s.tasks |->
                       IF x = k THEN [s.tasks[x] EXCEPT !.unread = 0] ELSE s.tasks[x]],
           lastId |-> s.lastId, passed |-> s.passed]
  BY <1>2 DEF Reported
<1> HIDE DEF t
<1>4. /\ DOMAIN t.tasks = DOMAIN s.tasks /\ t.lastId = s.lastId /\ t.passed = s.passed
      /\ t = [tasks |-> t.tasks, lastId |-> t.lastId, passed |-> t.passed]
  BY <1>3
<1>5. ASSUME NEW x \in DOMAIN s.tasks
      PROVE  /\ t.tasks[x] \in Loops /\ s.tasks[x] \in Loops
             /\ t.tasks[x].next = s.tasks[x].next /\ t.tasks[x].interval = s.tasks[x].interval
             /\ t.tasks[x].born = s.tasks[x].born /\ t.tasks[x].fires = s.tasks[x].fires
             /\ t.tasks[x].last = s.tasks[x].last
  <2>1. s.tasks[x] \in Loops
    BY <1>1 DEF ScheduleOK
  <2>2. t.tasks[x] = IF x = k THEN [s.tasks[x] EXCEPT !.unread = 0] ELSE s.tasks[x]
    BY <1>3
  <2>3. QED
    BY <2>1, <2>2 DEF Loops
<1>6. ScheduleOK(t)
  <2>1. t.tasks \in [DOMAIN t.tasks -> Loops]
    BY <1>3, <1>4, <1>5
  <2>2. QED
    BY <1>1, <1>4, <2>1 DEF ScheduleOK
<1>7. ASSUME NEW id \in DOMAIN s.tasks
      PROVE  Kept(t.tasks[id]) /\ Waits(t, id)
  <2>1. Before(t, id) = Before(s, id)
    BY <1>4, <1>5 DEF Before, Ahead
  <2>2. Kept(s.tasks[id]) /\ Waits(s, id)
    BY DEF Sound
  <2>3. QED
    BY <1>4, <1>5, <2>1, <2>2 DEF Kept, Waits
<1>8. QED
  BY <1>4, <1>6, <1>7 DEF Sound, t

\* A loop re-armed, field by field.
LEMMA RearmedLoop ==
  ASSUME now \in Nat, NEW l \in Loops
  PROVE  LET r == Rearmed(l) IN
         /\ r \in Loops
         /\ r.next = now + l.interval /\ r.last = now
         /\ r.interval = l.interval /\ r.born = l.born
BY DEF Rearmed, Loops

\* A loop fired: it goes behind those it passed, and leaves those before each of
\* them.
LEMMA FiredSound ==
  ASSUME SchedulerAssumption, now \in Nat, NEW s, Sound(s), Due(s) # {},
         \A id \in DOMAIN s.tasks : now - s.tasks[id].born < MaxLifetime
  PROVE  Sound(Fired(s))
<1> DEFINE t == Fired(s)
           e == Earliest(s)
           l == Rearmed(s.tasks[e])
<1>1. ScheduleOK(s)
  BY DEF Sound
<1>2. e \in Due(s) /\ \A j \in Due(s) \ {e} : Ahead(s, e, j)
  BY <1>1, EarliestOfDue
<1>3. e \in DOMAIN s.tasks /\ s.tasks[e] \in Loops /\ Kept(s.tasks[e])
  BY <1>1, <1>2 DEF Due, Sound, ScheduleOK
<1>4. l \in Loops /\ Kept(l) /\ l.next > now
  <2>1. /\ l \in Loops /\ s.tasks[e].interval \in Nat /\ s.tasks[e].born \in Nat
        /\ l.next = now + s.tasks[e].interval /\ l.last = now
        /\ l.interval = s.tasks[e].interval /\ l.born = s.tasks[e].born
    BY <1>3, RearmedLoop DEF Loops
  <2>2. s.tasks[e].interval >= MinInterval /\ MinInterval > 0 /\ MinInterval \in Nat
        /\ s.tasks[e].born <= now /\ now - s.tasks[e].born < MaxLifetime
    BY <1>3 DEF Kept, SchedulerAssumption
  <2> HIDE DEF l, e
  <2>3. QED
    BY <2>1, <2>2 DEF Loops, Kept
<1>5. t = [tasks |-> [s.tasks EXCEPT ![e] = l], lastId |-> s.lastId,
           passed |-> [id \in DOMAIN s.passed |->
              IF id = e THEN 0
              ELSE IF id \in Due(s) THEN s.passed[id] + 1 ELSE s.passed[id]]]
  BY DEF Fired
<1> HIDE DEF t, e, l
<1>6. /\ DOMAIN t.tasks = DOMAIN s.tasks /\ t.lastId = s.lastId
      /\ t = [tasks |-> t.tasks, lastId |-> t.lastId, passed |-> t.passed]
      /\ t.tasks[e] = l /\ \A x \in DOMAIN s.tasks \ {e} : t.tasks[x] = s.tasks[x]
  BY <1>3, <1>5
<1>7. /\ DOMAIN s.passed = 1..s.lastId /\ DOMAIN s.tasks \subseteq 1..s.lastId
      /\ \A x \in 1..s.lastId : s.passed[x] \in Nat
      /\ t.passed = [id \in 1..s.lastId |->
              IF id = e THEN 0
              ELSE IF id \in Due(s) THEN s.passed[id] + 1 ELSE s.passed[id]]
  BY <1>1, <1>5 DEF ScheduleOK
<1>8. ScheduleOK(t)
  <2>1. t.tasks \in [DOMAIN t.tasks -> Loops]
    BY <1>1, <1>4, <1>5, <1>6 DEF ScheduleOK
  <2>2. t.passed \in [1..t.lastId -> Nat]
    BY <1>6, <1>7
  <2>3. QED
    BY <1>1, <1>6, <2>1, <2>2 DEF ScheduleOK
<1>9. Kept(t.tasks[e]) /\ Waits(t, e)
  <2>1. t.passed[e] = 0
    BY <1>3, <1>7
  <2>2. QED
    BY <1>3, <1>4, <1>6, <1>8, <2>1, UnpassedWaits
<1>10. ASSUME NEW id \in DOMAIN s.tasks \ {e}
       PROVE  Kept(t.tasks[id]) /\ Waits(t, id)
  <2>1. t.tasks[id] = s.tasks[id] /\ Kept(s.tasks[id]) /\ Waits(s, id)
    BY <1>6 DEF Sound
  <2>2. s.tasks[id].next \in Nat /\ l.next \in Nat
    BY <1>1, <1>4 DEF ScheduleOK, Loops
  <2>3. CASE id \notin Due(s)
    <3>1. s.tasks[id].next > now
      BY <2>2, <2>3 DEF Due
    <3>2. t.passed[id] = 0
      BY <1>7, <2>1, <2>3, <3>1 DEF Waits
    <3>3. QED
      BY <1>6, <1>8, <2>1, <3>2, UnpassedWaits
  <2>4. CASE id \in Due(s)
    <3>1. s.tasks[id].next <= now /\ t.passed[id] = s.passed[id] + 1 /\ s.passed[id] \in Nat
      BY <1>7, <2>4 DEF Due
    <3>2. e \in Before(s, id)
      BY <1>2, <1>3, <2>4 DEF Before
    <3>3. Before(t, id) \in SUBSET (Before(s, id) \ {e})
      <4>1. ~Ahead(t, e, id)
        BY <1>4, <1>6, <2>1, <2>2, <3>1 DEF Ahead
      <4>2. QED
        BY <1>6, <4>1 DEF Before, Ahead
    <3>4. Cardinality(Before(t, id)) <= Cardinality(Before(s, id)) - 1
          /\ Cardinality(Before(t, id)) \in Nat /\ Cardinality(Before(s, id)) \in Nat
      <4>1. IsFiniteSet(Before(s, id)) /\ Cardinality(Before(s, id)) \in Nat
            /\ Cardinality(Before(t, id)) \in Nat
        BY <1>1, <1>6, <1>8, LoopSets
      <4>2. IsFiniteSet(Before(s, id) \ {e})
            /\ Cardinality(Before(s, id) \ {e}) = Cardinality(Before(s, id)) - 1
        BY <3>2, <4>1, FS_RemoveElement
      <4>3. QED
        BY <3>3, <4>1, <4>2, FS_Subset
    <3>5. s.passed[id] + Cardinality(Before(s, id)) < MaxTasks /\ MaxTasks \in Nat
      BY <2>1, <3>1 DEF Waits, SchedulerAssumption
    <3>6. QED
      BY <2>1, <2>2, <3>1, <3>4, <3>5 DEF Waits
  <2>5. QED
    BY <2>3, <2>4
<1>11. QED
  BY <1>6, <1>8, <1>9, <1>10 DEF Sound, t

\* The clock moves on: a loop that becomes due has been passed by nobody yet.
LEMMA TickSound ==
  ASSUME SchedulerAssumption, IInv, now' = now + 1, UNCHANGED sched
  PROVE  IInv'
<1>1. now \in Nat /\ now' \in Nat /\ Sound(sched) /\ ScheduleOK(sched)
  BY DEF IInv, Sound
<1>2. ASSUME NEW id \in DOMAIN sched.tasks
      PROVE  /\ Kept(sched.tasks[id])' /\ Waits(sched, id)'
  <2>1. Kept(sched.tasks[id]) /\ Waits(sched, id) /\ sched.tasks[id] \in Loops
    BY <1>1 DEF Sound, ScheduleOK
  <2>2. sched.tasks[id].next \in Nat /\ sched.tasks[id].born \in Nat
    BY <2>1 DEF Loops
  <2>3. Kept(sched.tasks[id])'
    BY <1>1, <2>1, <2>2 DEF Kept
  <2>4. Waits(sched, id)'
    <3>1. Before(sched, id)' = Before(sched, id)
      BY DEF Before, Ahead
    <3>2. sched.passed[id] + Cardinality(Before(sched, id)) < MaxTasks
      <4>1. CASE sched.tasks[id].next > now
        <5>1. sched.passed[id] = 0
          BY <2>1, <4>1 DEF Waits
        <5>2. /\ Cardinality(Before(sched, id)) \in Nat
              /\ Cardinality(Before(sched, id)) < Cardinality(DOMAIN sched.tasks)
              /\ Cardinality(DOMAIN sched.tasks) \in Nat
          BY <1>1, LoopSets
        <5>3. QED
          BY <1>1, <5>1, <5>2 DEF ScheduleOK, SchedulerAssumption
      <4>2. CASE sched.tasks[id].next <= now
        BY <2>1, <4>2 DEF Waits
      <4>3. QED
        BY <1>1, <2>2, <4>1, <4>2
    <3>3. sched'.tasks[id].next > now' => sched'.passed[id] = 0
      BY <1>1, <2>1, <2>2 DEF Waits
    <3>4. QED
      BY <3>1, <3>2, <3>3 DEF Waits
  <2>5. QED
    BY <2>3, <2>4
<1>3. ScheduleOK(sched)'
  BY <1>1 DEF ScheduleOK
<1>4. QED
  BY <1>1, <1>2, <1>3 DEF IInv, Sound

\* What is sound now is sound where only the schedule changes.
LEMMA SoundAfter ==
  ASSUME now \in Nat, UNCHANGED now, Sound(sched')
  PROVE  IInv'
BY DEF IInv, Sound, ScheduleOK, Kept, Waits, Before, Ahead

\* A look at the schedule: what outlived its week goes, and one may fire.
LEMMA LookedSound ==
  ASSUME SchedulerAssumption, now \in Nat, NEW s, Sound(s), NEW t \in Looked(s)
  PROVE  Sound(t)
<1>1. Sound(Expired(s))
  BY OnlySound DEF Expired
<1>2. \A id \in DOMAIN Expired(s).tasks : now - Expired(s).tasks[id].born < MaxLifetime
  <2>1. s = [tasks |-> s.tasks, lastId |-> s.lastId, passed |-> s.passed]
    BY DEF Sound, ScheduleOK
  <2> DEFINE young == {id \in DOMAIN s.tasks : now - s.tasks[id].born < MaxLifetime}
  <2>2. Expired(s).tasks = [id \in DOMAIN s.tasks \cap young |-> s.tasks[id]]
    BY <2>1 DEF Expired, Only
  <2>3. QED
    BY <2>2
<1>3. Due(Expired(s)) # {} => Sound(Fired(Expired(s)))
  BY <1>1, <1>2, FiredSound
<1>4. QED
  BY <1>1, <1>3 DEF Looked

LEMMA StepSound ==
  ASSUME SchedulerAssumption, IInv, SchedulerStep
  PROVE  Sound(sched')
<1>1. now \in Nat /\ Sound(sched)
  BY DEF IInv
<1>2. CASE sched' \in Looked(sched)
  BY <1>1, <1>2, LookedSound
<1>3. ASSUME NEW i \in Intervals, NEW blank \in BOOLEAN, NEW atOnce \in BOOLEAN,
             sched' \in {Added(sched, i, blank, atOnce)} \cup Looked(Added(sched, i, blank, atOnce))
      PROVE  Sound(sched')
  <2>1. Sound(Added(sched, i, blank, atOnce))
    BY <1>1, AddedSound
  <2>2. QED
    BY <1>1, <1>3, <2>1, LookedSound
<1>4. ASSUME NEW id \in 1..sched.lastId, sched' = Removed(sched, id) \/ sched' = Reported(sched, id)
      PROVE  Sound(sched')
  BY <1>1, <1>4, OnlySound, ReportedSound DEF Removed
<1>5. CASE sched' = Cleared(sched)
  BY <1>1, <1>5, OnlySound DEF Cleared
<1>6. QED
  BY <1>2, <1>3, <1>4, <1>5 DEF SchedulerStep

\* IInv is inductive.
LEMMA InvInductive ==
  ASSUME SchedulerAssumption, IInv, [SchedulerNext]_<<sched, now>>
  PROVE  IInv'
<1>1. CASE SchedulerStep /\ UNCHANGED now
  <2>1. now \in Nat /\ UNCHANGED now
    BY <1>1 DEF IInv
  <2>2. QED
    BY <1>1, <2>1, StepSound, SoundAfter
<1>2. CASE now' = now + 1 /\ UNCHANGED sched
  BY <1>2, TickSound
<1>3. CASE UNCHANGED <<sched, now>>
  <2>1. now \in Nat /\ Sound(sched') /\ UNCHANGED now
    BY <1>3 DEF IInv
  <2>2. QED
    BY <2>1, SoundAfter
<1>4. QED
  BY <1>1, <1>2, <1>3 DEF SchedulerNext

LEMMA InitSound == SchedulerAssumption /\ SchedulerInit => IInv
<1> SUFFICES ASSUME SchedulerAssumption, SchedulerInit PROVE IInv
  OBVIOUS
<1>1. /\ sched = [tasks |-> <<>>, lastId |-> 0, passed |-> <<>>] /\ now = 0
      /\ DOMAIN sched.tasks = {} /\ DOMAIN sched.passed = {} /\ 1..0 = {}
  BY DEF SchedulerInit, NoLoops
<1>2. Cardinality(DOMAIN sched.tasks) <= MaxTasks
  BY <1>1, FS_EmptySet DEF SchedulerAssumption
<1>3. sched.tasks \in [{} -> Loops] /\ sched.passed \in [{} -> Nat]
  BY <1>1
<1>4. ScheduleOK(sched)
  BY <1>1, <1>2, <1>3 DEF ScheduleOK
<1>5. QED
  BY <1>1, <1>4 DEF IInv, Sound

LEMMA Always == SchedulerSpec => []IInv
<1>1. SchedulerInit => IInv
  BY InitSound, SchedulerAssumption
<1>2. IInv /\ [SchedulerNext]_<<sched, now>> => IInv'
  BY InvInductive, SchedulerAssumption
<1>3. QED
  BY <1>1, <1>2, PTL DEF SchedulerSpec

-----------------------------------------------------------------------------
(* The theorems *)

\* The schedule keeps its type, the limit on the loops with it.
THEOREM TypeCorrect == SchedulerSpec => []SchedulerTypeOK
<1>1. IInv => SchedulerTypeOK
  BY DEF IInv, Sound, ScheduleOK, SchedulerTypeOK
<1>2. QED
  BY <1>1, Always, PTL

\* No loop fires once its week is over.
THEOREM LifeIsKept == SchedulerSpec => []FiresWithinItsLife
<1>1. IInv => FiresWithinItsLife
  BY DEF IInv, Sound, Kept, FiresWithinItsLife
<1>2. QED
  BY <1>1, Always, PTL

\* A loop that is due is passed by every other one at most once.
THEOREM NobodyIsStarved == SchedulerSpec => []NobodyStarves
<1>1. ASSUME IInv, NEW id \in DOMAIN sched.tasks
      PROVE  sched.passed[id] < MaxTasks
  <2>1. Waits(sched, id) /\ ScheduleOK(sched) /\ now \in Nat
    BY <1>1 DEF IInv, Sound
  <2>2. sched.passed[id] \in Nat /\ sched.tasks[id].next \in Nat
        /\ Cardinality(Before(sched, id)) \in Nat
    <3>1. sched.passed[id] \in Nat /\ sched.tasks[id].next \in Nat
      BY <2>1 DEF ScheduleOK, Loops
    <3>2. QED
      BY <2>1, <3>1, LoopSets
  <2>3. QED
    BY <2>1, <2>2, SchedulerAssumption DEF Waits, SchedulerAssumption
<1>2. IInv => NobodyStarves
  BY <1>1 DEF NobodyStarves
<1>3. QED
  BY <1>2, Always, PTL


\* Taking loops away, and reading a report, fire nothing.
LEMMA OnlyFires ==
  ASSUME NEW s, ScheduleOK(s), NEW ids, NEW id \in DOMAIN Only(s, ids).tasks
  PROVE  id \in DOMAIN s.tasks /\ Only(s, ids).tasks[id] = s.tasks[id]
<1>1. s = [tasks |-> s.tasks, lastId |-> s.lastId, passed |-> s.passed]
  BY DEF ScheduleOK
<1>2. Only(s, ids).tasks = [x \in DOMAIN s.tasks \cap ids |-> s.tasks[x]]
  BY <1>1 DEF Only
<1>3. QED
  BY <1>2

LEMMA ReportedFires ==
  ASSUME NEW s, ScheduleOK(s), NEW k, NEW id \in DOMAIN s.tasks
  PROVE  Reported(s, k).tasks[id].fires = s.tasks[id].fires
<1>1. s = [tasks |-> s.tasks, lastId |-> s.lastId, passed |-> s.passed]
  BY DEF ScheduleOK
<1>2. Reported(s, k).tasks = [x \in DOMAIN s.tasks |->
        IF x = k THEN [s.tasks[x] EXCEPT !.unread = 0] ELSE s.tasks[x]]
  BY <1>1 DEF Reported
<1>3. s.tasks[id] \in Loops
  BY DEF ScheduleOK
<1>4. QED
  BY <1>2, <1>3 DEF Loops

\* A loop made leaves the others as they are.
LEMMA AddedFires ==
  ASSUME NEW s, ScheduleOK(s), NEW i, NEW blank, NEW atOnce, NEW id \in DOMAIN s.tasks
  PROVE  /\ id \in DOMAIN Added(s, i, blank, atOnce).tasks
         /\ Added(s, i, blank, atOnce).tasks[id] = s.tasks[id]
<1>1. id # s.lastId + 1
  BY DEF ScheduleOK
<1>2. QED
  BY <1>1 DEF Added, With

\* A loop that a look fires was due.
LEMMA LookFiresDue ==
  ASSUME SchedulerAssumption, now \in Nat, NEW s, Sound(s), NEW t \in Looked(s),
         NEW id \in DOMAIN s.tasks, id \in DOMAIN t.tasks,
         t.tasks[id].fires > s.tasks[id].fires
  PROVE  s.tasks[id].next <= now
<1> DEFINE live == Expired(s)
<1>1. Sound(live) /\ ScheduleOK(live) /\ ScheduleOK(s)
  BY OnlySound DEF Expired, Sound
<1>2. \A x \in DOMAIN live.tasks : x \in DOMAIN s.tasks /\ live.tasks[x] = s.tasks[x]
  BY <1>1, OnlyFires DEF Expired
<1>3. s.tasks[id].fires \in Nat
  BY <1>1 DEF ScheduleOK, Loops
<1>4. t # live
  BY <1>2, <1>3
<1>5. t = Fired(live) /\ Due(live) # {}
  BY <1>4 DEF Looked
<1> HIDE DEF live
<1> DEFINE e == Earliest(live)
<1>6. e \in Due(live)
  BY <1>1, <1>5, EarliestOfDue
<1>7. t.tasks = [live.tasks EXCEPT ![e] = Rearmed(live.tasks[e])]
  BY <1>5 DEF Fired
<1> HIDE DEF e
<1>8. id = e
  BY <1>2, <1>3, <1>7
<1>9. QED
  BY <1>2, <1>6, <1>8 DEF Due

\* Between two firings of a loop there is its whole interval.
THEOREM NothingIsCaughtUp == SchedulerSpec => NoCatchUp
<1>1. ASSUME IInv, SchedulerNext, NEW id \in DOMAIN sched.tasks, FiresAgain(id)
      PROVE  now >= sched.tasks[id].last + sched.tasks[id].interval
  <2>1. now \in Nat /\ Sound(sched) /\ ScheduleOK(sched) /\ Kept(sched.tasks[id])
    BY <1>1 DEF IInv, Sound
  <2>2. sched.tasks[id].fires \in Nat /\ sched.tasks[id].next \in Nat
        /\ sched.tasks[id].last \in Nat /\ sched.tasks[id].interval \in Nat
    BY <2>1 DEF ScheduleOK, Loops
  <2>3. /\ id \in DOMAIN sched'.tasks
        /\ sched'.tasks[id].fires > sched.tasks[id].fires /\ sched.tasks[id].fires > 0
    BY <1>1 DEF FiresAgain
  <2>4. sched.tasks[id].next <= now
    <3>1. CASE sched' \in Looked(sched)
      BY <2>1, <2>3, <3>1, SchedulerAssumption, LookFiresDue
    <3>2. ASSUME NEW i \in Intervals, NEW blank \in BOOLEAN, NEW atOnce \in BOOLEAN,
                 sched' \in {Added(sched, i, blank, atOnce)}
                              \cup Looked(Added(sched, i, blank, atOnce))
          PROVE  sched.tasks[id].next <= now
      <4> DEFINE made == Added(sched, i, blank, atOnce)
      <4>1. Sound(made) /\ id \in DOMAIN made.tasks /\ made.tasks[id] = sched.tasks[id]
        BY <2>1, SchedulerAssumption, AddedSound, AddedFires
      <4> HIDE DEF made
      <4>2. sched' # made
        BY <2>2, <2>3, <4>1
      <4>3. sched' \in Looked(made)
        BY <3>2, <4>2 DEF made
      <4>4. made.tasks[id].next <= now
        BY <2>1, <2>3, <4>1, <4>3, SchedulerAssumption, LookFiresDue
      <4>5. QED
        BY <4>1, <4>4
    <3>3. ASSUME NEW k \in 1..sched.lastId, sched' = Removed(sched, k) \/ sched' = Reported(sched, k)
          PROVE  FALSE
      <4>1. sched'.tasks[id].fires = sched.tasks[id].fires
        BY <2>1, <2>3, <3>3, OnlyFires, ReportedFires DEF Removed
      <4>2. QED
        BY <2>2, <2>3, <4>1
    <3>4. CASE sched' = Cleared(sched)
      <4>1. sched'.tasks[id].fires = sched.tasks[id].fires
        BY <2>1, <2>3, <3>4, OnlyFires DEF Cleared
      <4>2. QED
        BY <2>2, <2>3, <4>1
    <3>5. CASE UNCHANGED sched
      BY <2>2, <2>3, <3>5
    <3>6. QED
      BY <1>1, <3>1, <3>2, <3>3, <3>4, <3>5 DEF SchedulerNext, SchedulerStep
  <2>5. QED
    BY <2>1, <2>2, <2>3, <2>4 DEF Kept
<1>2. IInv /\ [SchedulerNext]_<<sched, now>>
        => [\A id \in DOMAIN sched.tasks :
              FiresAgain(id) => now >= sched.tasks[id].last + sched.tasks[id].interval]_<<sched, now>>
  BY <1>1
<1>3. QED
  BY <1>2, Always, PTL DEF SchedulerSpec, NoCatchUp

\* The schedule is sound throughout: the type, the limit, the lives and the turns
\* of its loops, in one invariant.
THEOREM ScheduleIsSound == SchedulerSpec => []SchedulerInv
<1>1. SchedulerTypeOK /\ FiresWithinItsLife /\ NobodyStarves => SchedulerInv
  BY DEF SchedulerInv
<1>2. QED
  BY <1>1, TypeCorrect, LifeIsKept, NobodyIsStarved, PTL

-----------------------------------------------------------------------------
(* The surface keeps the schedule *)

\* A look at the schedule is a step of it, for the schedule it is given.
LEMMA FireFromLooks ==
  ASSUME NEW s, FireFrom(s)
  PROVE  sched' \in Looked(s)
BY DEF FireFrom, Looked

\* What the person does.
LEMMA PersonKeeps ==
  ASSUME Person
  PROVE  [SchedulerNext]_<<sched, now>>
<1> USE DEF hostVars
<1>1. CASE Submit \/ Command \/ Interrupt \/ Answer \/ DecidePlan \/ QuitPlan \/ AskErrand
  BY <1>1 DEF Submit, Command, Interrupt, Answer, DecidePlan, QuitPlan, AskErrand
<1>2. CASE NewSession
  BY <1>2 DEF NewSession, SchedulerNext, SchedulerStep
<1>3. ASSUME NEW i \in Intervals, StartLoop(i)
      PROVE  [SchedulerNext]_<<sched, now>>
  <2>1. UNCHANGED now
    BY <1>3 DEF StartLoop
  <2>2. CASE Refused(sched, i, FALSE)
    BY <1>3, <2>1, <2>2 DEF StartLoop
  <2>3. CASE ~Refused(sched, i, FALSE)
    <3>1. sched' \in Looked(Added(sched, i, FALSE, TRUE))
      BY <1>3, <2>3, FireFromLooks DEF StartLoop
    <3>2. SchedulerStep
      BY <3>1 DEF SchedulerStep
    <3>3. QED
      BY <2>1, <3>2 DEF SchedulerNext
  <2>4. QED
    BY <2>2, <2>3
<1>4. ASSUME NEW id \in 1..sched.lastId, StopLoop(id)
      PROVE  [SchedulerNext]_<<sched, now>>
  BY <1>4 DEF StopLoop, SchedulerNext, SchedulerStep
<1>5. QED
  BY <1>1, <1>2, <1>3, <1>4 DEF Person

\* What the tools of the model do.
LEMMA ModelKeeps ==
  ASSUME Model
  PROVE  [SchedulerNext]_<<sched, now>>
<1>1. ASSUME NEW i \in Intervals, ModelSchedules(i)
      PROVE  [SchedulerNext]_<<sched, now>>
  <2>1. sched' = Added(sched, i, FALSE, FALSE) /\ UNCHANGED now
    BY <1>1 DEF ModelSchedules
  <2>2. SchedulerStep
    BY <2>1 DEF SchedulerStep
  <2>3. QED
    BY <2>1, <2>2 DEF SchedulerNext
<1>2. ASSUME NEW id \in 1..sched.lastId, ModelReads(id)
      PROVE  [SchedulerNext]_<<sched, now>>
  BY <1>2 DEF ModelReads, SchedulerNext, SchedulerStep
<1>3. QED
  BY <1>1, <1>2 DEF Model

\* What the event loop does.
LEMMA EventLoopKeeps ==
  ASSUME EventLoop
  PROVE  [SchedulerNext]_<<sched, now>>
<1>1. CASE Apply \/ ApplyLocal \/ Mirror
  BY <1>1 DEF Apply, ApplyLocal, Mirror
<1>2. CASE Wakeup
  <2>1. sched' \in Looked(sched) /\ UNCHANGED now
    BY <1>2, FireFromLooks DEF Wakeup
  <2>2. QED
    BY <2>1 DEF SchedulerNext, SchedulerStep
<1>3. QED
  BY <1>1, <1>2 DEF EventLoop

\* Whatever happens in the process, the schedule does what Scheduler says.
THEOREM ScheduleIsKept == Spec => SchedulerSpec
<1>1. Init => SchedulerInit
  BY DEF Init
<1>2. [Next]_vars => [SchedulerNext]_<<sched, now>>
  <2>1. CASE Person
    BY <2>1, PersonKeeps
  <2>2. CASE Model
    BY <2>2, ModelKeeps
  <2>3. CASE EventLoop
    BY <2>3, EventLoopKeeps
  <2>4. CASE Host
    BY <2>4 DEF Host
  <2>5. CASE Tick
    BY <2>5 DEF Tick, SchedulerNext
  <2>6. CASE UNCHANGED vars
    BY <2>6 DEF vars
  <2>7. QED
    BY <2>1, <2>2, <2>3, <2>4, <2>5, <2>6 DEF Next
<1>3. QED
  BY <1>1, <1>2, PTL DEF Spec, SchedulerSpec

\* So a loop that a long turn held up, or that others keep being due with, gets
\* what it is owed in the whole process.
THEOREM LoopsAreServed == Spec => NoCatchUp /\ []SchedulerInv
BY ScheduleIsKept, NothingIsCaughtUp, ScheduleIsSound, PTL

-----------------------------------------------------------------------------
(* A sequence with one element taken out *)

LEMMA InSecond ==
  ASSUME NEW S, NEW a \in Seq(S), NEW b \in Seq(S), NEW k \in 1..Len(b)
  PROVE  (a \o b)[Len(a) + k] = b[k]
<1>1. Len(a) \in Nat /\ Len(b) \in Nat /\ k \in Nat
  OBVIOUS
<1>2. Len(a) + k \in 1..(Len(a) + Len(b)) /\ Len(a) + k > Len(a) /\ (Len(a) + k) - Len(a) = k
  BY <1>1
<1>3. QED
  BY <1>1, <1>2

\* RemoveAt closes up: what was behind moves one to the front.
LEMMA Removal ==
  ASSUME NEW S, NEW s \in Seq(S), NEW i \in DOMAIN s
  PROVE  /\ RemoveAt(s, i) \in Seq(S)
         /\ Len(RemoveAt(s, i)) = Len(s) - 1
         /\ \A j \in 1..(Len(s) - 1) : RemoveAt(s, i)[j] = IF j < i THEN s[j] ELSE s[j + 1]
<1> DEFINE a == SubSeq(s, 1, i - 1)
           b == SubSeq(s, i + 1, Len(s))
<1>1. i \in 1..Len(s) /\ Len(s) \in Nat /\ i \in Nat
  OBVIOUS
<1>2. a \in Seq(S) /\ Len(a) = i - 1 /\ \A j \in 1..(i - 1) : a[j] = s[j]
  BY <1>1
<1>3. b \in Seq(S) /\ Len(b) = Len(s) - i /\ \A j \in 1..(Len(s) - i) : b[j] = s[i + j]
  BY <1>1
<1>4. RemoveAt(s, i) = a \o b
  BY DEF RemoveAt
<1> HIDE DEF a, b
<1>5. a \o b \in Seq(S) /\ Len(a \o b) = Len(s) - 1
  BY <1>1, <1>2, <1>3
<1>6. \A j \in 1..(i - 1) : (a \o b)[j] = s[j]
  BY <1>1, <1>2, <1>3
<1>7. ASSUME NEW j \in i..(Len(s) - 1)
      PROVE  (a \o b)[j] = s[j + 1]
  <2> DEFINE k == j - (i - 1)
  <2>1. k \in 1..(Len(s) - i) /\ j = (i - 1) + k /\ i + k = j + 1
    BY <1>1
  <2> HIDE DEF k
  <2>2. a \in Seq(S) /\ b \in Seq(S) /\ k \in 1..Len(b) /\ j = Len(a) + k
    BY <1>2, <1>3, <2>1
  <2>3. (a \o b)[j] = b[k]
    BY <2>2, InSecond
  <2>4. b[k] = s[i + k]
    BY <1>3, <2>1
  <2>5. QED
    BY <2>1, <2>3, <2>4
<1>8. ASSUME NEW j \in 1..(Len(s) - 1)
      PROVE  (a \o b)[j] = IF j < i THEN s[j] ELSE s[j + 1]
  <2>1. (j < i /\ j \in 1..(i - 1)) \/ (~(j < i) /\ j \in i..(Len(s) - 1))
    BY <1>1
  <2>2. QED
    BY <1>6, <1>7, <2>1, Zenon
<1>9. QED
  BY <1>4, <1>5, <1>8

-----------------------------------------------------------------------------
(* What a step outside the host does to what the host and the surface share *)

KeyAtMost == keys' = keys \/ (keys < MaxKeys /\ keys' = keys + 1)

Gives ==
  /\ sent + 1 \in Prompts /\ sent' = sent + 1
  /\ spawned' = Append(spawned, Prompt(sent + 1))
  /\ turn' = "Running" /\ cause' = "none"
  /\ mirrored' \in {mirrored, mirrored \cup {sent + 1}}
  /\ UNCHANGED <<restOfHost, flags, waiting, refused, slot, cells, plan, local>>

Requests ==
  /\ spawned' \in {Append(spawned, Replacement), Append(spawned, Errand)}
  /\ UNCHANGED <<restOfHost, flags, waiting, refused, turn, slot, cells, plan, local, mirrored,
                 sent, cause>>

\* The prompt on the screen goes.
Closes ==
  /\ OpenId # 0
  /\ IF slot # 0 THEN slot' = 0 /\ UNCHANGED cells
                 ELSE cells' = SubSeq(cells, 1, Len(cells) - 1) /\ UNCHANGED slot

Answers ==
  /\ Closes
  /\ waiting' = Answered(OpenId)
  /\ turn' = "Running" /\ cause' = CauseOf(OpenId)
  /\ plan' \in {plan, FALSE}
  /\ UNCHANGED <<restOfHost, spawned, flags, refused, local, mirrored, sent>>

Cancels ==
  /\ Closes \/ UNCHANGED <<slot, cells>>
  /\ waiting' = {} /\ flags' = Cancelled
  /\ turn' = "Idle" /\ cause' = "none"
  /\ plan' \in {plan, FALSE}
  /\ UNCHANGED <<restOfHost, spawned, refused, local, mirrored, sent>>

Idles ==
  /\ plan' \in {plan, FALSE}
  /\ UNCHANGED <<hostVars, turn, slot, cells, local, mirrored, sent, cause>>

Outside == (Gives \/ Requests \/ Answers \/ Cancels \/ Idles) /\ KeyAtMost

\* What is fired is given; otherwise only the schedule changes.
LEMMA FireFromGives ==
  ASSUME NEW s, FireFrom(s)
  PROVE  \/ /\ sent + 1 \in Prompts /\ sent' = sent + 1
            /\ spawned' = Append(spawned, Prompt(sent + 1))
            /\ turn' = "Running" /\ cause' = "none"
            /\ mirrored' = mirrored \cup {sent + 1}
         \/ UNCHANGED <<spawned, turn, sent, mirrored, cause>>
BY DEF FireFrom, SendText, Give, BeginOfTurn

\* Every step of the process is one of the host, an update or a failure taken by
\* the event loop, a failure passed on, or one of these.
LEMMA StepKinds ==
  ASSUME [Next]_vars
  PROVE  \/ Outside
         \/ (Apply \/ ApplyLocal \/ Mirror) /\ KeyAtMost
         \/ HostStep /\ UNCHANGED appVars
<1>1. CASE Submit \/ Command
  BY <1>1 DEF Submit, Command, SendText, Give, BeginOfTurn, Key, Outside, Gives, KeyAtMost
<1>2. CASE Interrupt
  BY <1>2 DEF Interrupt, Key, EndOfTurn, Outside, Cancels, KeyAtMost
<1>3. CASE Answer \/ DecidePlan
  <2>1. CASE OpenId = 0
    BY <1>3, <2>1 DEF Answer, DecidePlan, GiveAnswer, Key, Outside, Idles, KeyAtMost,
                      restOfHost, hostVars
  <2>2. CASE OpenId # 0
    BY <1>3, <2>2 DEF Answer, DecidePlan, GiveAnswer, BeginOfTurn, Key, Outside, Answers,
                      Closes, KeyAtMost
  <2>3. QED
    BY <2>1, <2>2
<1>4. CASE QuitPlan
  <2>1. CASE Busy \/ OpenId # 0
    BY <1>4, <2>1 DEF QuitPlan, EndOfTurn, Key, Outside, Cancels, Closes, KeyAtMost
  <2>2. CASE ~(Busy \/ OpenId # 0)
    BY <1>4, <2>2 DEF QuitPlan, Key, Outside, Idles, KeyAtMost, restOfHost, hostVars
  <2>3. QED
    BY <2>1, <2>2
<1>5. CASE NewSession \/ AskErrand
  BY <1>5 DEF NewSession, AskErrand, Key, Outside, Requests, KeyAtMost
<1>6. ASSUME NEW i \in Intervals, StartLoop(i)
      PROVE  Outside
  <2>1. CASE Refused(sched, i, FALSE)
    BY <1>6, <2>1 DEF StartLoop, Key, Outside, Idles, KeyAtMost, restOfHost, hostVars
  <2>2. CASE ~Refused(sched, i, FALSE)
    <3>1. FireFrom(Added(sched, i, FALSE, TRUE))
          /\ UNCHANGED <<restOfHost, flags, waiting, refused, now, slot, cells, plan, local>>
          /\ KeyAtMost
      BY <1>6, <2>2 DEF StartLoop, Key, KeyAtMost
    <3>2. QED
      BY <3>1, FireFromGives DEF Outside, Gives, Idles, restOfHost, hostVars
  <2>3. QED
    BY <2>1, <2>2
<1>7. ASSUME NEW id \in 1..sched.lastId, StopLoop(id) \/ ModelReads(id)
      PROVE  Outside
  BY <1>7 DEF StopLoop, ModelReads, Key, Outside, Idles, KeyAtMost, restOfApp
<1>8. ASSUME NEW i \in Intervals, ModelSchedules(i)
      PROVE  Outside
  BY <1>8 DEF ModelSchedules, Outside, Idles, KeyAtMost, restOfApp
<1>9. CASE Wakeup
  <2>1. FireFrom(sched)
        /\ UNCHANGED <<restOfHost, flags, waiting, refused, now, slot, cells, plan, local, keys>>
    BY <1>9 DEF Wakeup
  <2>2. QED
    BY <2>1, FireFromGives DEF Outside, Gives, Idles, KeyAtMost, restOfHost, hostVars
<1>10. CASE Tick \/ UNCHANGED vars
  BY <1>10 DEF Tick, vars, appVars, Outside, Idles, KeyAtMost
<1>11. CASE Apply \/ ApplyLocal \/ Mirror
  BY <1>11 DEF Apply, ApplyLocal, Mirror, KeyAtMost
<1>12. CASE Host
  BY <1>12 DEF Host
<1>13. CASE Person
  <2>1. CASE \E i \in Intervals : StartLoop(i)
    BY <1>6, <2>1
  <2>2. CASE \E id \in 1..sched.lastId : StopLoop(id)
    BY <1>7, <2>2
  <2>3. QED
    BY <1>1, <1>2, <1>3, <1>4, <1>5, <1>13, <2>1, <2>2, Zenon DEF Person
<1>14. CASE Model
  BY <1>7, <1>8, <1>14 DEF Model
<1>15. CASE Next
  BY <1>9, <1>10, <1>11, <1>12, <1>13, <1>14, <1>15, ZenonT(60) DEF Next, EventLoop
<1>16. QED
  BY <1>10, <1>15, Zenon

-----------------------------------------------------------------------------
(* What travels where *)

Given  == [kind : {"prompt"}, of : Prompts] \cup [kind : {"new", "errand"}, of : {0}]
OfTurn == [kind : {"started", "text", "ended"}, of : Prompts]
OfAsk  == [kind : {"ask", "plan"}, of : Asks]
Stream == OfTurn \cup OfAsk \cup [kind : {"failed"}, of : Prompts] \cup [kind : {"reset"}, of : Nat]

Queues ==
  /\ spawned \in Seq(Given) /\ inbox \in Seq(Given)
  /\ turnCh \in Seq(OfTurn) /\ reqCh \in Seq(OfAsk) /\ updates \in Seq(Stream)
  /\ polled \in BOOLEAN /\ (polled => reqCh # <<>>)

Registers ==
  /\ serving \in 0..MaxPrompts /\ session \in Sessions /\ handle \in Sessions
  /\ flags \in [Sessions -> BOOLEAN] /\ owed \in Seq(Sessions)
  /\ waiting \subseteq [id : Asks, by : 0..MaxPrompts, in : Sessions]
  /\ asked \in 0..MaxAsks /\ said \in 0..MaxText
  /\ refused \in Nat /\ crossed \in BOOLEAN
  /\ settled \in [Prompts -> {"open", "ok", "failed"}]

Screen ==
  /\ turn \in {"Idle", "Running", "AwaitingPermission"}
  /\ slot \in 0..MaxAsks /\ cells \in Seq(Asks) /\ plan \in BOOLEAN
  /\ local \in Nat /\ mirrored \subseteq Prompts
  /\ sent \in 0..MaxPrompts /\ keys \in 0..MaxKeys
  /\ cause \in {"none", "unfiled", "aside", "overtaken"}

Typed == Queues /\ Registers /\ Screen

LEMMA InitTyped == HostAssumption /\ SurfaceAssumption /\ Init => Typed
<1> SUFFICES ASSUME HostAssumption, SurfaceAssumption, Init PROVE Typed
  OBVIOUS
<1>1. MaxPrompts \in Nat /\ MaxAsks \in Nat /\ MaxText \in Nat /\ MaxKeys \in Nat
      /\ MaxSessions \in Nat /\ 1 \in Sessions
  BY DEF HostAssumption, SurfaceAssumption, Sessions
<1>2. Queues
  <2>1. /\ spawned = <<>> /\ inbox = <<>> /\ turnCh = <<>> /\ reqCh = <<>> /\ updates = <<>>
        /\ polled = FALSE
    BY Zenon DEF Init, HostInit
  <2>2. <<>> \in Seq(Given) /\ <<>> \in Seq(OfTurn) /\ <<>> \in Seq(OfAsk) /\ <<>> \in Seq(Stream)
    OBVIOUS
  <2>3. QED
    BY <2>1, <2>2 DEF Queues
<1>3. Registers
  <2>1. /\ serving = 0 /\ session = 1 /\ handle = 1 /\ flags = [g \in Sessions |-> FALSE]
        /\ waiting = {} /\ asked = 0 /\ said = 0 /\ refused = 0
        /\ crossed \in BOOLEAN /\ settled = [p \in Prompts |-> "open"]
    BY Zenon DEF Init, HostInit
  <2>2. owed \in Seq(Sessions)
    <3>1. owed = <<>>
      BY Zenon DEF Init, HostInit
    <3>2. <<>> \in Seq(Sessions)
      OBVIOUS
    <3>3. QED
      BY <3>1, <3>2, Zenon
  <2>3. QED
    BY <1>1, <2>1, <2>2 DEF Registers
<1>4. Screen
  <2>1. /\ turn = "Idle" /\ slot = 0 /\ plan \in BOOLEAN /\ local = 0
        /\ mirrored = {} /\ sent = 0 /\ keys = 0 /\ cause = "none"
    BY Zenon DEF Init
  <2>2. cells \in Seq(Asks)
    <3>1. cells = <<>>
      BY Zenon DEF Init
    <3>2. <<>> \in Seq(Asks)
      OBVIOUS
    <3>3. QED
      BY <3>1, <3>2, Zenon
  <2>3. QED
    BY <1>1, <2>1, <2>2 DEF Screen
<1>5. QED
  BY <1>2, <1>3, <1>4 DEF Typed

\* A prompt on the screen is one that was raised, and so is what it leaves behind.
LEMMA ClosesTyped ==
  ASSUME HostAssumption, Screen, Closes
  PROVE  slot' \in 0..MaxAsks /\ cells' \in Seq(Asks)
<1>1. CASE slot # 0
  BY <1>1 DEF HostAssumption, Screen, Closes
<1>2. CASE slot = 0
  <2>1. cells # <<>> /\ cells \in Seq(Asks)
    BY <1>2 DEF Screen, Closes, OpenId
  <2>2. Len(cells) - 1 \in Nat /\ 1..(Len(cells) - 1) \subseteq 1..Len(cells)
    BY <2>1
  <2>3. SubSeq(cells, 1, Len(cells) - 1) \in Seq(Asks)
    BY <2>1, <2>2
  <2>4. QED
    BY <1>2, <2>3 DEF Screen, Closes
<1>3. QED
  BY <1>1, <1>2

LEMMA OutsideTyped ==
  ASSUME HostAssumption, SurfaceAssumption, Typed, Outside
  PROVE  Typed'
<1>1. /\ MaxPrompts \in Nat /\ MaxAsks \in Nat /\ MaxKeys \in Nat /\ keys' \in 0..MaxKeys
  BY DEF HostAssumption, SurfaceAssumption, Outside, KeyAtMost, Typed, Screen
<1>2. CASE Gives
  <2>1. Prompt(sent + 1) \in Given
    BY <1>2 DEF Gives, Prompt, Given
  <2>2. Queues'
    BY <1>2, <2>1 DEF Gives, restOfHost, Typed, Queues
  <2>3. Registers'
    BY <1>2 DEF Gives, restOfHost, Typed, Registers
  <2>4. Screen'
    <3>1. mirrored' \subseteq Prompts
      BY <1>2 DEF Gives, Typed, Screen
    <3>2. sent' \in 0..MaxPrompts
      BY <1>1, <1>2 DEF Gives, Prompts
    <3>3. QED
      BY <1>1, <1>2, <3>1, <3>2 DEF Gives, Typed, Screen
  <2>5. QED
    BY <2>2, <2>3, <2>4 DEF Typed
<1>3. CASE Requests
  <2>1. Replacement \in Given /\ Errand \in Given
    BY DEF Replacement, Errand, Given
  <2>2. Queues'
    <3>1. spawned \in Seq(Given)
      BY DEF Typed, Queues
    <3>2. Append(spawned, Replacement) \in Seq(Given) /\ Append(spawned, Errand) \in Seq(Given)
      BY <2>1, <3>1
    <3>3. spawned' \in Seq(Given)
      BY <1>3, <3>2, Zenon DEF Requests
    <3>4. QED
      BY <1>3, <3>3 DEF Requests, restOfHost, Typed, Queues
  <2>3. QED
    BY <1>1, <1>3, <2>2 DEF Requests, restOfHost, Typed, Registers, Screen
<1>4. CASE Answers
  <2>1. Queues'
    BY <1>4 DEF Answers, restOfHost, Typed, Queues
  <2>2. Registers'
    BY <1>4 DEF Answers, Answered, restOfHost, Typed, Registers
  <2>3. slot' \in 0..MaxAsks /\ cells' \in Seq(Asks)
    BY <1>4, ClosesTyped DEF Answers, Typed
  <2>4. Screen'
    BY <1>1, <1>4, <2>3 DEF Answers, CauseOf, Typed, Screen
  <2>5. QED
    BY <2>1, <2>2, <2>4 DEF Typed
<1>5. CASE Cancels
  <2>1. Queues'
    BY <1>5 DEF Cancels, restOfHost, Typed, Queues
  <2>2. Registers'
    BY <1>5 DEF Cancels, Cancelled, restOfHost, Typed, Registers
  <2>3. slot' \in 0..MaxAsks /\ cells' \in Seq(Asks)
    BY <1>5, ClosesTyped DEF Cancels, Typed, Screen
  <2>4. Screen'
    BY <1>1, <1>5, <2>3 DEF Cancels, Typed, Screen
  <2>5. QED
    BY <2>1, <2>2, <2>4 DEF Typed
<1>6. CASE Idles
  <2>1. Queues' /\ Registers'
    BY <1>6 DEF Idles, hostVars, Typed, Queues, Registers
  <2>2. Screen'
    BY <1>1, <1>6 DEF Idles, Typed, Screen
  <2>3. QED
    BY <2>1, <2>2 DEF Typed
<1>7. QED
  BY <1>2, <1>3, <1>4, <1>5, <1>6 DEF Outside

LEMMA EventTyped ==
  ASSUME HostAssumption, SurfaceAssumption, Typed, Apply \/ ApplyLocal \/ Mirror
  PROVE  Typed'
<1>1. CASE Apply
  <2> DEFINE u == Head(updates)
  <2>1. u \in Stream /\ Tail(updates) \in Seq(Stream)
    BY <1>1 DEF Apply, Typed, Queues
  <2>2. Queues'
    BY <1>1, <2>1 DEF Apply, Typed, Queues
  <2>3. Registers'
    BY <1>1 DEF Apply, Typed, Registers
  <2>4. Applied(u) /\ UNCHANGED <<local, mirrored, sent, keys>>
    BY <1>1 DEF Apply
  <2> HIDE DEF u
  <2>5. /\ turn' \in {"Idle", "Running", "AwaitingPermission"}
        /\ cause' \in {"none", "unfiled", "aside", "overtaken"}
        /\ plan' \in BOOLEAN
    BY <2>4 DEF Applied, Begun, Prompted, Replaced, BeginOfTurn, EndOfTurn, CauseOf, Typed, Screen
  <2>6. Prompted(u) => u.of \in Asks
    BY <2>1 DEF Prompted, Stream, OfTurn, OfAsk
  <2>7. slot' \in 0..MaxAsks /\ cells' \in Seq(Asks)
    <3>1. slot \in 0..MaxAsks /\ cells \in Seq(Asks) /\ <<>> \in Seq(Asks) /\ MaxAsks \in Nat
      BY DEF HostAssumption, Typed, Screen
    <3>2. CASE Prompted(u)
      <4>1. u.of \in Asks /\ u.of \in 0..MaxAsks /\ Append(cells, u.of) \in Seq(Asks)
        BY <2>6, <3>1, <3>2 DEF Asks
      <4>2. QED
        BY <3>1, <3>2, <4>1, Zenon DEF Prompted
    <3>3. CASE ~Prompted(u)
      BY <2>4, <3>1, <3>3, Zenon DEF Applied, Begun, Replaced
    <3>4. QED
      BY <3>2, <3>3
  <2>8. Screen'
    BY <2>4, <2>5, <2>7 DEF Typed, Screen
  <2>9. QED
    BY <2>2, <2>3, <2>8 DEF Typed
<1>2. CASE ApplyLocal
  BY <1>2 DEF ApplyLocal, EndOfTurn, hostVars, Typed, Queues, Registers, Screen
<1>3. CASE Mirror
  <2>1. Queues'
    BY <1>3 DEF Mirror, restOfHost, Typed, Queues
  <2>2. Registers'
    BY <1>3 DEF Mirror, restOfHost, Typed, Registers
  <2>3. Screen'
    BY <1>3 DEF Mirror, Typed, Screen
  <2>4. QED
    BY <2>1, <2>2, <2>3 DEF Typed
<1>4. QED
  BY <1>1, <1>2, <1>3

LEMMA SendTyped ==
  ASSUME Typed, NEW i \in DOMAIN spawned, Send(i)
  PROVE  Queues' /\ Registers'
<1>1. RemoveAt(spawned, i) \in Seq(Given) /\ spawned[i] \in Given
  BY Removal DEF Typed, Queues
<1>2. Queues'
  BY <1>1 DEF Send, Typed, Queues
<1>3. Registers'
  BY DEF Send, Typed, Registers
<1>4. QED
  BY <1>2, <1>3

\* What is received leaves the rest of the inbox.
LEMMA ReceivedTyped ==
  ASSUME Typed, NEW k, Received(k)
  PROVE  /\ serving = 0 /\ inbox # <<>> /\ Head(inbox) \in Given /\ inbox' \in Seq(Given)
         /\ Head(inbox).kind = k
         /\ k = "prompt" => Head(inbox).of \in Prompts
<1>1. inbox \in Seq(Given) /\ inbox # <<>> /\ serving = 0 /\ Head(inbox).kind = k
      /\ inbox' = Tail(inbox)
  BY DEF Received, Typed, Queues
<1>2. Head(inbox) \in Given /\ inbox' \in Seq(Given)
  BY <1>1
<1>3. k = "prompt" => Head(inbox).of \in Prompts
  BY <1>1, <1>2 DEF Given
<1>4. QED
  BY <1>1, <1>2, <1>3

LEMMA ServeTyped ==
  ASSUME Typed, Serve
  PROVE  Queues' /\ Registers'
<1>1. Head(inbox).of \in Prompts /\ inbox' \in Seq(Given)
  BY ReceivedTyped DEF Serve
<1>2. serving' \in Prompts /\ serving' \in 0..MaxPrompts
  BY <1>1 DEF Serve, Prompts
<1>3. Update("started", serving') \in OfTurn
  BY <1>2 DEF Update, OfTurn
<1>4. Queues'
  BY <1>1, <1>3 DEF Serve, Typed, Queues
<1>5. Registers'
  BY <1>2 DEF Serve, Typed, Registers
<1>6. QED
  BY <1>4, <1>5

LEMMA ServeFailsTyped ==
  ASSUME Typed, ServeFails
  PROVE  Queues' /\ Registers'
<1>1. Head(inbox).of \in Prompts /\ inbox' \in Seq(Given)
  BY ReceivedTyped DEF ServeFails
<1>2. Update("failed", Head(inbox).of) \in Stream
  BY <1>1 DEF Update, Stream
<1>3. Queues'
  BY <1>1, <1>2 DEF ServeFails, Typed, Queues
<1>4. flags' \in [Sessions -> BOOLEAN]
  BY DEF ServeFails, Typed, Registers
<1>5. Registers'
  BY <1>1, <1>4 DEF ServeFails, Typed, Registers
<1>6. QED
  BY <1>3, <1>5

\* What a turn does; a turn is of a prompt.
LEMMA TurnTyped ==
  ASSUME HostAssumption, Typed, Speak \/ EndTurn \/ FailTurn
  PROVE  Queues' /\ Registers'
<1>1. serving \in Prompts /\ MaxText \in Nat /\ MaxPrompts \in Nat
  BY DEF HostAssumption, Speak, EndTurn, FailTurn, Typed, Registers, Prompts
<1>2. /\ Update("text", serving) \in OfTurn /\ Update("ended", serving) \in OfTurn
      /\ Update("failed", serving) \in Stream
  BY <1>1 DEF Update, OfTurn, Stream
<1>3. CASE Speak
  <2>1. said' \in 0..MaxText
    BY <1>1, <1>3 DEF Speak, Typed, Registers
  <2>2. QED
    BY <1>2, <1>3, <2>1 DEF Speak, Typed, Queues, Registers
<1>4. CASE EndTurn
  <2>1. Queues'
    BY <1>2, <1>4 DEF EndTurn, Typed, Queues
  <2>2. Registers'
    BY <1>1, <1>4 DEF EndTurn, Typed, Registers
  <2>3. QED
    BY <2>1, <2>2
<1>5. CASE FailTurn
  <2>1. Queues'
    BY <1>2, <1>5 DEF FailTurn, Typed, Queues
  <2>2. Registers'
    BY <1>1, <1>5 DEF FailTurn, Typed, Registers
  <2>3. QED
    BY <2>1, <2>2
<1>6. QED
  BY <1>3, <1>4, <1>5

LEMMA AskTyped ==
  ASSUME HostAssumption, Typed, NEW by \in {0, serving}, NEW kind \in {"ask", "plan"}, Ask(by, kind)
  PROVE  Queues' /\ Registers'
<1>1. asked + 1 \in Asks /\ asked' \in 0..MaxAsks /\ by \in 0..MaxPrompts /\ session \in Sessions
  BY DEF HostAssumption, Ask, Typed, Registers, Asks
<1>2. Update(kind, asked + 1) \in OfAsk
  BY <1>1 DEF Update, OfAsk
<1>3. Queues'
  <2>1. reqCh \in Seq(OfAsk) /\ reqCh' = Append(reqCh, Update(kind, asked + 1))
    BY DEF Ask, Typed, Queues
  <2>2. reqCh' \in Seq(OfAsk) /\ reqCh' # <<>>
    BY <1>2, <2>1
  <2>3. QED
    BY <2>2 DEF Ask, Typed, Queues
<1>4. [id |-> asked + 1, by |-> by, in |-> session] \in [id : Asks, by : 0..MaxPrompts, in : Sessions]
  BY <1>1
<1>5. Registers'
  BY <1>1, <1>4 DEF Ask, Typed, Registers
<1>6. QED
  BY <1>3, <1>5

LEMMA ReplaceTyped ==
  ASSUME HostAssumption, Typed,
         StartOver \/ CommandFails \/ RunErrand \/ \E i \in DOMAIN owed : Adopt(i)
  PROVE  Queues' /\ Registers'
<1>1. CASE StartOver
  <2>1. inbox' \in Seq(Given)
    BY <1>1, ReceivedTyped DEF StartOver
  <2>2. session' \in Sessions /\ session' \in Nat
    BY <1>1 DEF StartOver, HostAssumption, Typed, Registers, Sessions
  <2>3. Update("reset", session') \in Stream
    BY <2>2 DEF Update, Stream
  <2>4. Queues'
    BY <1>1, <2>1, <2>3 DEF StartOver, Typed, Queues
  <2>5. Registers'
    BY <1>1, <2>2 DEF StartOver, Typed, Registers
  <2>6. QED
    BY <2>4, <2>5
<1>2. CASE CommandFails \/ RunErrand
  <2>1. inbox' \in Seq(Given)
    BY <1>2, ReceivedTyped DEF CommandFails, RunErrand
  <2>2. Queues'
    BY <1>2, <2>1 DEF CommandFails, RunErrand, Typed, Queues
  <2>3. Registers'
    BY <1>2 DEF CommandFails, RunErrand, Typed, Registers
  <2>4. QED
    BY <2>2, <2>3
<1>3. ASSUME NEW i \in DOMAIN owed, Adopt(i)
      PROVE  Queues' /\ Registers'
  <2>1. owed[i] \in Sessions /\ RemoveAt(owed, i) \in Seq(Sessions)
    BY Removal DEF Typed, Registers
  <2>2. Queues'
    BY <1>3 DEF Adopt, Typed, Queues
  <2>3. crossed' \in BOOLEAN
    BY <1>3, Zenon DEF Adopt
  <2>4. Registers'
    BY <1>3, <2>1, <2>3 DEF Adopt, Typed, Registers
  <2>5. QED
    BY <2>2, <2>4
<1>4. QED
  BY <1>1, <1>2, <1>3

LEMMA PublishTyped ==
  ASSUME Typed, Publish
  PROVE  Queues' /\ Registers'
<1>1. /\ turnCh \in Seq(OfTurn) /\ reqCh \in Seq(OfAsk) /\ updates \in Seq(Stream)
      /\ OfTurn \subseteq Stream /\ OfAsk \subseteq Stream
  BY DEF Typed, Queues, Stream
<1>2. CASE ~polled /\ turnCh # <<>>
  <2>1. Append(updates, Head(turnCh)) \in Seq(Stream) /\ Tail(turnCh) \in Seq(OfTurn)
    BY <1>1, <1>2
  <2>2. /\ updates' = Append(updates, Head(turnCh)) /\ turnCh' = Tail(turnCh)
        /\ UNCHANGED <<spawned, inbox, reqCh, polled>>
    BY <1>2 DEF Publish
  <2>3. Queues'
    BY <2>1, <2>2 DEF Typed, Queues
  <2>4. QED
    BY <2>3 DEF Publish, Typed, Registers
<1>3. CASE ~polled /\ turnCh = <<>> /\ reqCh # <<>>
  <2>1. Queues'
    BY <1>3, Zenon DEF Publish, Typed, Queues
  <2>2. QED
    BY <2>1 DEF Publish, Typed, Registers
<1>4. CASE polled
  <2>1. Append(updates, Head(reqCh)) \in Seq(Stream) /\ Tail(reqCh) \in Seq(OfAsk)
    BY <1>1, <1>4 DEF Typed, Queues
  <2>2. Queues'
    BY <1>4, <2>1, Zenon DEF Publish, Typed, Queues
  <2>3. QED
    BY <2>2 DEF Publish, Typed, Registers
<1>5. QED
  BY <1>2, <1>3, <1>4 DEF Publish

LEMMA HostTyped ==
  ASSUME HostAssumption, Typed, HostStep, UNCHANGED appVars
  PROVE  Typed'
<1>1. Queues' /\ Registers'
  <2>1. ASSUME NEW i \in DOMAIN spawned, Send(i) PROVE Queues' /\ Registers'
    BY <2>1, SendTyped
  <2>2. ASSUME NEW by \in {0, serving}, NEW kind \in {"ask", "plan"}, Ask(by, kind)
        PROVE  Queues' /\ Registers'
    BY <2>2, AskTyped
  <2>3. CASE \E i \in DOMAIN spawned : Send(i)
    BY <2>1, <2>3
  <2>4. CASE \E by \in {0, serving}, kind \in {"ask", "plan"} : (by = 0 => kind = "ask") /\ Ask(by, kind)
    BY <2>2, <2>4, Zenon
  <2>5. CASE Serve \/ ServeFails
    BY <2>5, ServeTyped, ServeFailsTyped
  <2>6. CASE Speak \/ EndTurn \/ FailTurn
    BY <2>6, TurnTyped
  <2>7. CASE StartOver \/ CommandFails \/ RunErrand \/ \E i \in DOMAIN owed : Adopt(i)
    BY <2>7, ReplaceTyped
  <2>8. QED
    BY <2>3, <2>4, <2>5, <2>6, <2>7, PublishTyped, Zenon DEF HostStep
<1>2. Screen'
  BY DEF appVars, Typed, Screen
<1>3. QED
  BY <1>1, <1>2 DEF Typed

LEMMA TypedStep ==
  ASSUME HostAssumption, SurfaceAssumption, Typed, [Next]_vars
  PROVE  Typed'
BY StepKinds, OutsideTyped, EventTyped, HostTyped

LEMMA AlwaysTyped == Spec => []Typed
<1>1. Init => Typed
  BY InitTyped, HostAssumption, SurfaceAssumption
<1>2. Typed /\ [Next]_vars => Typed'
  BY TypedStep, HostAssumption, SurfaceAssumption
<1>3. QED
  BY <1>1, <1>2, PTL DEF Spec

-----------------------------------------------------------------------------
(* Which session the surface reaches *)

\* The sessions whose switches are owed are not newer than the one that runs, and
\* while replacements are taken over in turn the newest of them is that one; no
\* prompt is of a session older than the one in hand.
Reached ==
  /\ handle <= session /\ \A i \in DOMAIN owed : owed[i] <= session
  /\ ~crossed => session = IF owed = <<>> THEN handle ELSE owed[Len(owed)]
  /\ OldPromptsGo

\* Outside the host nothing becomes of a session, a turn or a prompt, except that
\* prompts go.
LEMMA OutsideLeaves ==
  ASSUME Outside \/ Apply \/ ApplyLocal \/ Mirror
  PROVE  /\ UNCHANGED <<inbox, serving, session, handle, owed, asked, turnCh, reqCh, polled, settled,
                        said, crossed>>
         /\ waiting' \subseteq waiting
<1>1. CASE Outside
  <2>1. CASE Gives \/ Requests \/ Idles
    BY <2>1 DEF Gives, Requests, Idles, restOfHost, hostVars
  <2>2. CASE Answers \/ Cancels
    BY <2>2 DEF Answers, Cancels, Answered, restOfHost
  <2>3. QED
    BY <1>1, <2>1, <2>2, Zenon DEF Outside
<1>2. CASE Apply \/ ApplyLocal \/ Mirror
  BY <1>2 DEF Apply, ApplyLocal, Mirror, restOfHost, hostVars
<1>3. QED
  BY <1>1, <1>2

\* The steps of the host, those that leave the sessions and the prompts alone first.
LEMMA HostKinds ==
  ASSUME HostStep
  PROVE  \/ \E i \in DOMAIN spawned : Send(i)
         \/ Serve \/ ServeFails \/ Speak \/ EndTurn \/ FailTurn
         \/ CommandFails \/ RunErrand \/ Publish
         \/ \E by \in {0, serving}, kind \in {"ask", "plan"} : Ask(by, kind)
         \/ StartOver
         \/ \E i \in DOMAIN owed : Adopt(i)
BY Zenon DEF HostStep

LEMMA ReachedSame ==
  ASSUME Reached, UNCHANGED <<session, handle, owed, crossed>>, waiting' \subseteq waiting
  PROVE  Reached'
BY DEF Reached, OldPromptsGo

LEMMA AdoptReached ==
  ASSUME Typed, Reached, NEW i \in DOMAIN owed, Adopt(i)
  PROVE  Reached'
<1> DEFINE n == Len(owed)
<1>1. owed \in Seq(Sessions) /\ n \in Nat /\ i \in 1..n /\ i \in Nat /\ 1..n = DOMAIN owed
  BY DEF Typed, Registers
<1>2. /\ owed' \in Seq(Sessions) /\ Len(owed') = n - 1
      /\ \A j \in 1..(n - 1) : owed'[j] = IF j < i THEN owed[j] ELSE owed[j + 1]
  BY <1>1, Removal DEF Adopt
<1>3. handle' = owed[i] /\ session' = session /\ waiting' = {}
  BY DEF Adopt
<1> HIDE DEF n
<1>4. handle' <= session' /\ OldPromptsGo'
  BY <1>3 DEF Reached, OldPromptsGo
<1>5. ASSUME NEW j \in DOMAIN owed'
      PROVE  owed'[j] <= session'
  <2>1. j \in 1..(n - 1) /\ j \in DOMAIN owed /\ j + 1 \in DOMAIN owed
    BY <1>1, <1>2
  <2>2. owed'[j] \in {owed[j], owed[j + 1]}
    BY <1>2, <2>1
  <2>3. QED
    BY <1>3, <2>1, <2>2 DEF Reached
<1>6. ASSUME ~crossed'
      PROVE  session' = IF owed' = <<>> THEN handle' ELSE owed'[Len(owed')]
  <2>1. ~crossed /\ i = 1
    BY <1>6 DEF Adopt
  <2>2. session = owed[n]
    <3>1. owed # <<>>
      BY <1>1
    <3>2. QED
      BY <2>1, <3>1 DEF Reached, n
  <2>3. CASE n = 1
    <3>1. owed' = <<>>
      BY <1>2, <2>3
    <3>2. QED
      BY <1>3, <2>1, <2>2, <2>3, <3>1
  <2>4. CASE n > 1
    <3>1. n - 1 \in 1..(n - 1) /\ ~(n - 1 < 1) /\ (n - 1) + 1 = n
      BY <1>1, <2>4
    <3>2. owed'[n - 1] = owed[n] /\ owed' # <<>>
      BY <1>2, <2>1, <3>1
    <3>3. QED
      BY <1>2, <1>3, <2>2, <3>2
  <2>5. QED
    BY <1>1, <2>3, <2>4
<1>7. QED
  BY <1>4, <1>5, <1>6 DEF Reached

LEMMA StartOverReached ==
  ASSUME Typed, Reached, StartOver
  PROVE  Reached'
<1>1. /\ session' = session + 1 /\ owed' = Append(owed, session + 1)
      /\ UNCHANGED <<handle, crossed, waiting>>
  BY DEF StartOver
<1>2. /\ owed \in Seq(Sessions) /\ session \in Nat /\ handle \in Nat
      /\ \A i \in DOMAIN owed : owed[i] \in Nat
  <2>1. Sessions \subseteq Nat
    BY DEF Sessions
  <2>2. owed \in Seq(Sessions) /\ session \in Sessions /\ handle \in Sessions
    BY DEF Typed, Registers
  <2>3. \A i \in DOMAIN owed : owed[i] \in Sessions
    BY <2>2
  <2>4. QED
    BY <2>1, <2>2, <2>3, Zenon
<1>3. /\ owed' # <<>> /\ owed'[Len(owed')] = session + 1
      /\ \A i \in DOMAIN owed' : \/ i \in DOMAIN owed /\ owed'[i] = owed[i]
                               \/ owed'[i] = session + 1
  BY <1>1, <1>2
<1>4. \A i \in DOMAIN owed' : owed'[i] <= session'
  BY <1>1, <1>2, <1>3 DEF Reached
<1>5. handle' <= session' /\ session' = IF owed' = <<>> THEN handle' ELSE owed'[Len(owed')]
  BY <1>1, <1>2, <1>3 DEF Reached
<1>6. OldPromptsGo'
  BY <1>1 DEF Reached, OldPromptsGo
<1>7. QED
  BY <1>4, <1>5, <1>6, Zenon DEF Reached

LEMMA ReachedStep ==
  ASSUME Typed, Reached, [Next]_vars
  PROVE  Reached'
<1>1. CASE Outside \/ Apply \/ ApplyLocal \/ Mirror
  BY <1>1, OutsideLeaves, ReachedSame
<1>2. CASE HostStep
  <2>1. ASSUME NEW i \in DOMAIN spawned, Send(i) PROVE Reached'
    BY <2>1, ReachedSame DEF Send
  <2>2. CASE Serve \/ ServeFails \/ Speak \/ EndTurn \/ FailTurn
    BY <2>2, ReachedSame DEF Serve, ServeFails, Speak, EndTurn, FailTurn
  <2>3. CASE CommandFails \/ RunErrand \/ Publish
    BY <2>3, ReachedSame DEF CommandFails, RunErrand, Publish
  <2>4. ASSUME NEW by \in {0, serving}, NEW kind \in {"ask", "plan"}, Ask(by, kind)
        PROVE  Reached'
    <3>1. handle \in Nat /\ session \in Nat
      BY DEF Typed, Registers, Sessions
    <3>2. QED
      BY <2>4, <3>1 DEF Ask, Reached, OldPromptsGo
  <2>5. QED
    BY <1>2, <2>1, <2>2, <2>3, <2>4, HostKinds, StartOverReached, AdoptReached, Zenon
<1>3. QED
  BY <1>1, <1>2, StepKinds

LEMMA TypedIsTypeOK == Typed /\ SchedulerTypeOK => TypeOK
<1> SUFFICES ASSUME Typed, SchedulerTypeOK PROVE TypeOK
  OBVIOUS
<1>1. /\ Given \subseteq Commands /\ OfTurn \subseteq Updates /\ OfAsk \subseteq Updates
      /\ Stream \subseteq Updates
  <2>1. Prompts \subseteq 0..MaxPrompts /\ Prompts \subseteq Nat /\ Asks \subseteq Nat
        /\ 0 \in 0..MaxPrompts
    BY HostAssumption DEF HostAssumption, Prompts, Asks
  <2>2. Given \subseteq Commands
    BY <2>1 DEF Given, Commands
  <2>3. OfTurn \subseteq Updates /\ OfAsk \subseteq Updates
    BY <2>1 DEF OfTurn, OfAsk, Updates
  <2>4. Stream \subseteq Updates
    BY <2>1, <2>3 DEF Stream, Updates
  <2>5. QED
    BY <2>2, <2>3, <2>4
<1>2. /\ spawned \in Seq(Commands) /\ inbox \in Seq(Commands)
      /\ turnCh \in Seq(Updates) /\ reqCh \in Seq(Updates) /\ updates \in Seq(Updates)
  BY <1>1 DEF Typed, Queues
<1>3. HostTypeOK
  BY <1>2, Zenon DEF Typed, Queues, Registers, HostTypeOK
<1>4. QED
  BY <1>3, Zenon DEF Typed, Screen, TypeOK

\* What the surface holds belongs to the session that runs.
THEOREM SessionIsInHand == Spec => []SurfaceInv
<1>1. Init => Reached
  <2>1. ASSUME Init PROVE Reached
    <3>1. handle = 1 /\ session = 1 /\ owed = <<>> /\ waiting = {}
      BY <2>1 DEF Init, HostInit
    <3>2. QED
      BY <3>1 DEF Reached, OldPromptsGo
  <2>2. QED
    BY <2>1
<1>2. Typed /\ Reached /\ [Next]_vars => Reached'
  BY ReachedStep
<1>3. Reached => HandleFollows /\ OldPromptsGo
  BY DEF Reached, HandleFollows
<1>4. Typed /\ SchedulerTypeOK => TypeOK
  BY TypedIsTypeOK
<1>5. Spec => []SchedulerTypeOK
  BY ScheduleIsKept, TypeCorrect, PTL
<1>6. TypeOK /\ HandleFollows /\ OldPromptsGo => SurfaceInv
  BY DEF SurfaceInv
<1>7. QED
  BY <1>1, <1>2, <1>3, <1>4, <1>5, <1>6, AlwaysTyped, PTL DEF Spec

-----------------------------------------------------------------------------
(* Where every prompt is *)

\* The prompts a queue of commands holds, each once.
Of(c) == IF c.kind = "prompt" THEN {c.of} ELSE {}

Carried(s) == UNION {Of(s[i]) : i \in DOMAIN s}

Once(s) == \A i, j \in DOMAIN s : i # j => Of(s[i]) \cap Of(s[j]) = {}

\* The prompts given that have not come to an end, and where they are.
Open == {p \in Prompts : p <= sent /\ settled[p] = "open"}

Placed ==
  /\ Once(spawned) /\ Once(inbox)
  /\ Carried(spawned) \cap Carried(inbox) = {}
  /\ serving \notin Carried(spawned) \cup Carried(inbox)
  /\ Open = Carried(spawned) \cup Carried(inbox) \cup ({serving} \ {0})
  /\ \A p \in Prompts : p > sent => settled[p] = "open"

\* One command taken from a queue takes its prompt along, and no other.
LEMMA Taken ==
  ASSUME NEW s \in Seq(Given), NEW i \in DOMAIN s, Once(s),
         NEW t \in Seq(Given), Len(t) = Len(s) - 1,
         \A j \in 1..(Len(s) - 1) : t[j] = IF j < i THEN s[j] ELSE s[j + 1]
  PROVE  Once(t) /\ Carried(t) = Carried(s) \ Of(s[i]) /\ Of(s[i]) \subseteq Carried(s)
<1> DEFINE From(j) == IF j < i THEN j ELSE j + 1
<1>1. /\ \A j \in DOMAIN t : From(j) \in DOMAIN s \ {i} /\ t[j] = s[From(j)]
      /\ \A j, k \in DOMAIN t : j # k => From(j) # From(k)
  OBVIOUS
<1>2. \A k \in DOMAIN s \ {i} : \E j \in DOMAIN t : From(j) = k
  <2> TAKE k \in DOMAIN s \ {i}
  <2>1. k \in 1..Len(s) /\ i \in 1..Len(s) /\ Len(s) \in Nat /\ k # i /\ DOMAIN t = 1..(Len(s) - 1)
    OBVIOUS
  <2>2. CASE k < i
    <3>1. k \in DOMAIN t /\ From(k) = k
      BY <2>1, <2>2
    <3>2. QED
      BY <3>1
  <2>3. CASE k > i
    <3>1. k - 1 \in DOMAIN t /\ From(k - 1) = k
      BY <2>1, <2>3
    <3>2. QED
      BY <3>1
  <2>4. QED
    BY <2>1, <2>2, <2>3
<1> HIDE DEF From
<1>3. Once(t)
  BY <1>1 DEF Once
<1>4. Carried(t) = UNION {Of(s[k]) : k \in DOMAIN s \ {i}}
  BY <1>1, <1>2 DEF Carried
<1>5. \A k \in DOMAIN s \ {i} : Of(s[k]) \cap Of(s[i]) = {}
  BY DEF Once
<1>6. Of(s[i]) \subseteq Carried(s)
  BY DEF Carried
<1>7. Carried(t) = Carried(s) \ Of(s[i])
  BY <1>4, <1>5 DEF Carried
<1>8. QED
  BY <1>3, <1>6, <1>7

LEMMA TailTaken ==
  ASSUME NEW s \in Seq(Given), s # <<>>, Once(s)
  PROVE  /\ Tail(s) \in Seq(Given) /\ Once(Tail(s))
         /\ Carried(Tail(s)) = Carried(s) \ Of(Head(s)) /\ Of(Head(s)) \subseteq Carried(s)
<1>1. /\ 1 \in DOMAIN s /\ Tail(s) \in Seq(Given) /\ Len(Tail(s)) = Len(s) - 1
      /\ \A j \in 1..(Len(s) - 1) : Tail(s)[j] = IF j < 1 THEN s[j] ELSE s[j + 1]
      /\ Head(s) = s[1]
  OBVIOUS
<1>2. Once(Tail(s)) /\ Carried(Tail(s)) = Carried(s) \ Of(s[1]) /\ Of(s[1]) \subseteq Carried(s)
  BY <1>1, Taken, Zenon
<1>3. QED
  BY <1>1, <1>2, Zenon

\* One added brings its prompt.
LEMMA Joined ==
  ASSUME NEW s \in Seq(Given), NEW c \in Given, Once(s), Of(c) \cap Carried(s) = {}
  PROVE  Once(Append(s, c)) /\ Carried(Append(s, c)) = Carried(s) \cup Of(c)
<1> DEFINE t == Append(s, c)
           n == Len(s) + 1
<1>1. /\ DOMAIN t = DOMAIN s \cup {n} /\ n \notin DOMAIN s
      /\ t[n] = c /\ \A i \in DOMAIN s : t[i] = s[i]
  OBVIOUS
<1> HIDE DEF t, n
<1>2. Carried(t) = Carried(s) \cup Of(c)
  BY <1>1 DEF Carried
<1>3. \A i \in DOMAIN s : Of(s[i]) \cap Of(c) = {}
  BY DEF Carried
<1>4. Once(t)
  BY <1>1, <1>3 DEF Once
<1>5. QED
  BY <1>2, <1>4 DEF t

LEMMA PlacedSame ==
  ASSUME Placed, UNCHANGED <<spawned, inbox, serving, settled, sent>>
  PROVE  Placed' /\ Open' = Open
BY DEF Placed, Open, Once, Carried

LEMMA GivesPlaced ==
  ASSUME Typed, Placed, Gives
  PROVE  Placed' /\ sent + 1 \in Open'
<1> DEFINE p == sent + 1
<1>1. /\ spawned \in Seq(Given) /\ sent \in Nat /\ p \in Prompts /\ Prompt(p) \in Given
      /\ Of(Prompt(p)) = {p} /\ Prompts \subseteq Nat
  BY DEF Gives, Typed, Queues, Screen, Prompt, Given, Of, Prompts
<1>2. /\ spawned' = Append(spawned, Prompt(p)) /\ sent' = p
      /\ UNCHANGED <<inbox, serving, settled>>
  BY DEF Gives, restOfHost
<1>3. p \notin Open /\ p # 0 /\ settled[p] = "open"
  BY <1>1 DEF Open, Placed
<1>4. p \notin Carried(spawned) \cup Carried(inbox) \cup {serving}
  BY <1>3 DEF Placed
<1>5. Once(spawned') /\ Carried(spawned') = Carried(spawned) \cup {p}
  <2>1. Once(spawned) /\ Of(Prompt(p)) \cap Carried(spawned) = {}
    BY <1>1, <1>4 DEF Placed
  <2>2. /\ Once(Append(spawned, Prompt(p)))
        /\ Carried(Append(spawned, Prompt(p))) = Carried(spawned) \cup Of(Prompt(p))
    BY <1>1, <2>1, Joined, Zenon
  <2>3. QED
    BY <1>1, <1>2, <2>2
<1>6. Open' = Open \cup {p}
  <2>1. \A q \in Prompts : q <= p <=> q <= sent \/ q = p
    BY <1>1
  <2>2. QED
    BY <1>1, <1>2, <1>3, <2>1, Zenon DEF Open
<1>7. \A q \in Prompts : q > sent' => settled'[q] = "open"
  BY <1>1, <1>2 DEF Placed
<1>8. Once(inbox') /\ Carried(inbox') = Carried(inbox)
  BY <1>2 DEF Placed, Once, Carried
<1> HIDE DEF p
<1>9. Placed'
  BY <1>2, <1>4, <1>5, <1>6, <1>7, <1>8 DEF Placed
<1>10. QED
  BY <1>6, <1>9 DEF p

LEMMA RequestsPlaced ==
  ASSUME Typed, Placed, Requests
  PROVE  Placed' /\ Open' = Open
<1>1. PICK c \in {Replacement, Errand} : spawned' = Append(spawned, c)
  BY DEF Requests
<1>2. c \in Given /\ Of(c) = {} /\ spawned \in Seq(Given)
  BY DEF Replacement, Errand, Given, Of, Typed, Queues
<1>3. Once(spawned') /\ Carried(spawned') = Carried(spawned)
  <2>1. Once(spawned) /\ Of(c) \cap Carried(spawned) = {}
    BY <1>2 DEF Placed
  <2>2. Once(Append(spawned, c)) /\ Carried(Append(spawned, c)) = Carried(spawned) \cup Of(c)
    BY <1>2, <2>1, Joined, Zenon
  <2>3. QED
    BY <1>1, <1>2, <2>2
<1>4. UNCHANGED <<inbox, serving, settled, sent>>
  BY DEF Requests, restOfHost
<1>5. Open' = Open /\ Once(inbox') /\ Carried(inbox') = Carried(inbox)
  BY <1>4 DEF Open, Placed, Once, Carried
<1>6. QED
  BY <1>3, <1>4, <1>5 DEF Placed

LEMMA SendPlaced ==
  ASSUME Typed, Placed, NEW i \in DOMAIN spawned, Send(i), UNCHANGED sent
  PROVE  Placed' /\ Open' = Open
<1>1. /\ spawned \in Seq(Given) /\ inbox \in Seq(Given) /\ spawned[i] \in Given
      /\ spawned' = RemoveAt(spawned, i) /\ inbox' = Append(inbox, spawned[i])
      /\ UNCHANGED <<serving, settled>>
  BY DEF Send, Typed, Queues
<1> DEFINE c == spawned[i]
<1>2. /\ Once(spawned') /\ Carried(spawned') = Carried(spawned) \ Of(c)
      /\ Of(c) \subseteq Carried(spawned)
  <2>1. /\ RemoveAt(spawned, i) \in Seq(Given) /\ Len(RemoveAt(spawned, i)) = Len(spawned) - 1
        /\ \A j \in 1..(Len(spawned) - 1) :
             RemoveAt(spawned, i)[j] = IF j < i THEN spawned[j] ELSE spawned[j + 1]
    BY <1>1, Removal, Zenon
  <2>2. Once(spawned)
    BY DEF Placed
  <2>3. /\ Once(RemoveAt(spawned, i))
        /\ Carried(RemoveAt(spawned, i)) = Carried(spawned) \ Of(spawned[i])
        /\ Of(spawned[i]) \subseteq Carried(spawned)
    BY <1>1, <2>1, <2>2, Taken, Zenon
  <2>4. QED
    BY <1>1, <2>3
<1>3. Of(c) \cap Carried(inbox) = {}
  BY <1>2 DEF Placed
<1>4. Once(inbox') /\ Carried(inbox') = Carried(inbox) \cup Of(c)
  BY <1>1, <1>3, Joined DEF Placed
<1> HIDE DEF c
<1>5. Open' = Open
  BY <1>1 DEF Open
<1>6. QED
  BY <1>1, <1>2, <1>4, <1>5 DEF Placed

\* What is received is no longer in the inbox.
LEMMA ReceivedPlaced ==
  ASSUME Typed, Placed, NEW k, Received(k)
  PROVE  /\ Once(inbox') /\ Carried(inbox') = Carried(inbox) \ Of(Head(inbox))
         /\ Of(Head(inbox)) \subseteq Carried(inbox)
         /\ Of(Head(inbox)) = IF k = "prompt" THEN {Head(inbox).of} ELSE {}
<1>1. inbox \in Seq(Given) /\ inbox # <<>> /\ Once(inbox) /\ inbox' = Tail(inbox)
      /\ Head(inbox).kind = k
  BY DEF Typed, Queues, Placed, Received
<1>2. /\ Once(Tail(inbox)) /\ Carried(Tail(inbox)) = Carried(inbox) \ Of(Head(inbox))
      /\ Of(Head(inbox)) \subseteq Carried(inbox)
  BY <1>1, TailTaken, Zenon
<1>3. QED
  BY <1>1, <1>2 DEF Of

\* A prompt whose turn begins is open; one that comes to an end, with or without a
\* turn, is no longer open, and no other is touched.
LEMMA ServePlaced ==
  ASSUME Typed, Placed, Serve, UNCHANGED sent
  PROVE  Placed' /\ Open' = Open
<1> DEFINE p == Head(inbox).of
<1>1. serving = 0 /\ p \in Prompts /\ p # 0
  BY ReceivedTyped DEF Serve, Prompts
<1>2. /\ Once(inbox') /\ Carried(inbox') = Carried(inbox) \ {p} /\ p \in Carried(inbox)
  BY ReceivedPlaced DEF Serve
<1>3. serving' = p /\ UNCHANGED <<spawned, settled, sent>>
  BY DEF Serve
<1> HIDE DEF p
<1>4. Open' = Open /\ Once(spawned') /\ Carried(spawned') = Carried(spawned)
  BY <1>3 DEF Open, Placed, Once, Carried
<1>5. p \notin Carried(spawned)
  BY <1>2 DEF Placed
<1>6. QED
  BY <1>1, <1>2, <1>3, <1>4, <1>5 DEF Placed

LEMMA ServeFailsPlaced ==
  ASSUME Typed, Placed, ServeFails, UNCHANGED sent
  PROVE  Placed' /\ Open' = Open \ {Head(inbox).of}
<1> DEFINE p == Head(inbox).of
<1>1. serving = 0 /\ p \in Prompts /\ p # 0
  BY ReceivedTyped DEF ServeFails, Prompts
<1>2. /\ Once(inbox') /\ Carried(inbox') = Carried(inbox) \ {p} /\ p \in Carried(inbox)
  BY ReceivedPlaced DEF ServeFails
<1>3. settled' = [settled EXCEPT ![p] = "failed"] /\ settled \in [Prompts -> {"open", "ok", "failed"}]
      /\ UNCHANGED <<spawned, serving, sent>>
  BY DEF ServeFails, Typed, Registers
<1> HIDE DEF p
<1>4. Open' = Open \ {p} /\ p \in Open
  BY <1>1, <1>2, <1>3 DEF Open, Placed
<1>5. Once(spawned') /\ Carried(spawned') = Carried(spawned) /\ p \notin Carried(spawned)
  BY <1>2, <1>3 DEF Placed, Once, Carried
<1>6. \A q \in Prompts : q > sent' => settled'[q] = "open"
  <2>1. ~(p > sent)
    BY <1>4, <1>1 DEF Open, Typed, Screen, Prompts
  <2>2. QED
    BY <1>1, <1>3, <2>1 DEF Placed
<1>7. Placed'
  BY <1>1, <1>2, <1>3, <1>4, <1>5, <1>6 DEF Placed
<1>8. QED
  BY <1>4, <1>7 DEF p

LEMMA EndPlaced ==
  ASSUME Typed, Placed, EndTurn \/ FailTurn, UNCHANGED sent
  PROVE  Placed' /\ Open' = Open \ {serving} /\ serving \in Open
<1>1. PICK r \in {"ok", "failed"} : settled' = [settled EXCEPT ![serving] = r]
  BY DEF EndTurn, FailTurn
<1>2. /\ serving # 0 /\ serving' = 0 /\ settled \in [Prompts -> {"open", "ok", "failed"}]
      /\ UNCHANGED <<spawned, inbox, sent>>
  BY DEF EndTurn, FailTurn, Typed, Registers
<1>3. serving \in Open /\ serving \in Prompts /\ 0 \notin Prompts
  BY <1>2 DEF Placed, Open, Prompts
<1>4. Open' = Open \ {serving}
  BY <1>1, <1>2, <1>3 DEF Open
<1>5. /\ Once(spawned') /\ Carried(spawned') = Carried(spawned)
      /\ Once(inbox') /\ Carried(inbox') = Carried(inbox)
  BY <1>2 DEF Placed, Once, Carried
<1>6. \A q \in Prompts : q > sent' => settled'[q] = "open"
  <2>1. ~(serving > sent)
    BY <1>3 DEF Open, Typed, Screen, Prompts
  <2>2. QED
    BY <1>1, <1>2, <1>3, <2>1 DEF Placed
<1>7. 0 \notin Carried(spawned) \cup Carried(inbox)
  BY <1>3 DEF Placed, Open
<1>8. Placed'
  BY <1>2, <1>3, <1>4, <1>5, <1>6, <1>7 DEF Placed
<1>9. QED
  BY <1>3, <1>4, <1>8

LEMMA ReceivesPlaced ==
  ASSUME Typed, Placed, StartOver \/ CommandFails \/ RunErrand, UNCHANGED sent
  PROVE  Placed' /\ Open' = Open
<1>1. PICK k \in {"new", "errand"} : Received(k)
  BY DEF StartOver, CommandFails, RunErrand
<1>2. Once(inbox') /\ Carried(inbox') = Carried(inbox)
  BY <1>1, ReceivedPlaced
<1>3. UNCHANGED <<spawned, serving, settled, sent>>
  BY DEF StartOver, CommandFails, RunErrand
<1>4. Open' = Open /\ Once(spawned') /\ Carried(spawned') = Carried(spawned)
  BY <1>3 DEF Open, Placed, Once, Carried
<1>5. QED
  BY <1>2, <1>3, <1>4 DEF Placed

\* Outside the host a prompt is added at most; inside, one that ends is reported.
LEMMA OutsidePlaced ==
  ASSUME Typed, Placed, Outside \/ Apply \/ ApplyLocal \/ Mirror
  PROVE  Placed' /\ Open \subseteq Open' /\ (sent' = sent \/ sent' = sent + 1)
<1>1. CASE Gives
  <2>1. Open \subseteq Open'
    BY <1>1 DEF Gives, restOfHost, Open, Typed, Screen, Prompts
  <2>2. QED
    BY <1>1, <2>1, GivesPlaced DEF Gives
<1>2. CASE Requests
  BY <1>2, RequestsPlaced DEF Requests
<1>3. CASE Answers \/ Cancels \/ Idles
  <2>1. UNCHANGED <<spawned, inbox, serving, settled, sent>>
    BY <1>3 DEF Answers, Cancels, Idles, restOfHost, hostVars
  <2>2. QED
    BY <2>1, PlacedSame
<1>4. CASE Apply \/ ApplyLocal \/ Mirror
  <2>1. UNCHANGED <<spawned, inbox, serving, settled, sent>>
    BY <1>4 DEF Apply, ApplyLocal, Mirror, restOfHost, hostVars
  <2>2. QED
    BY <2>1, PlacedSame
<1>5. QED
  BY <1>1, <1>2, <1>3, <1>4 DEF Outside

LEMMA HostPlaced ==
  ASSUME Typed, Placed, HostStep, UNCHANGED appVars
  PROVE  Placed' /\ (ServeFails \/ EndTurn \/ FailTurn \/ Open' = Open)
<1>1. UNCHANGED sent
  BY DEF appVars
<1>2. ASSUME NEW i \in DOMAIN spawned, Send(i) PROVE Placed' /\ Open' = Open
  BY <1>1, <1>2, SendPlaced
<1>3. ASSUME NEW by \in {0, serving}, NEW kind \in {"ask", "plan"}, Ask(by, kind)
      PROVE  Placed' /\ Open' = Open
  BY <1>1, <1>3, PlacedSame DEF Ask
<1>4. ASSUME NEW i \in DOMAIN owed, Adopt(i) PROVE Placed' /\ Open' = Open
  BY <1>1, <1>4, PlacedSame DEF Adopt
<1>5. CASE Speak \/ Publish
  BY <1>1, <1>5, PlacedSame DEF Speak, Publish
<1>6. CASE Serve \/ ServeFails
  BY <1>1, <1>6, ServePlaced, ServeFailsPlaced
<1>7. CASE EndTurn \/ FailTurn
  BY <1>1, <1>7, EndPlaced
<1>8. CASE StartOver \/ CommandFails \/ RunErrand
  BY <1>1, <1>8, ReceivesPlaced
<1>9. QED
  BY <1>2, <1>3, <1>4, <1>5, <1>6, <1>7, <1>8, HostKinds, Zenon

-----------------------------------------------------------------------------
(* Why the surface is busy *)

Goes(u) == u.kind \in {"started", "text"}
Ending(s) == \E i \in DOMAIN s : s[i].kind \in {"ended", "failed", "reset"}
EndsAfter(s, i, p) == \E j \in DOMAIN s : j > i /\ s[j].kind = "ended" /\ s[j].of = p

\* What `s` says of a turn is of a prompt that was given, and if that turn ended well
\* its end comes after in `s`, or is still in `t`.
Closed(s, t, given, ends) ==
  \A i \in DOMAIN s : Goes(s[i]) =>
    /\ s[i].of <= given
    /\ ends[s[i].of] = "ok" => EndsAfter(s, i, s[i].of) \/ EndsAfter(t, 0, s[i].of)

Closing == Closed(turnCh, <<>>, sent, settled) /\ Closed(updates, turnCh, sent, settled)

\* A turn that waits for an answer is the one that runs.
OfTheTurn == \A w \in waiting : w.by # 0 => w.by = serving

\* Busy for no special cause, the surface will be told of an end.
HasReason == Busy /\ cause = "none" => Open # {} \/ Ending(turnCh) \/ Ending(updates)

\* An end stays behind when something comes after it, and moves up when the first goes.
LEMMA EndsMore ==
  ASSUME NEW S, NEW s \in Seq(S), NEW c, NEW i, NEW p, EndsAfter(s, i, p)
  PROVE  EndsAfter(Append(s, c), i, p)
<1>1. \A j \in DOMAIN s : j \in DOMAIN Append(s, c) /\ Append(s, c)[j] = s[j]
  OBVIOUS
<1>2. QED
  BY <1>1 DEF EndsAfter

LEMMA EndsNow ==
  ASSUME NEW S, NEW s \in Seq(S), NEW c, c.kind = "ended", NEW i \in Nat, i <= Len(s)
  PROVE  EndsAfter(Append(s, c), i, c.of)
<1>1. /\ Len(s) + 1 \in DOMAIN Append(s, c) /\ Len(s) + 1 > i
      /\ Append(s, c)[Len(s) + 1] = c
  OBVIOUS
<1>2. QED
  BY <1>1 DEF EndsAfter

LEMMA EndsLess ==
  ASSUME NEW S, NEW s \in Seq(S), s # <<>>, NEW i \in Nat, NEW p, EndsAfter(s, i + 1, p)
  PROVE  EndsAfter(Tail(s), i, p)
<1>1. PICK j \in DOMAIN s : j > i + 1 /\ s[j].kind = "ended" /\ s[j].of = p
  BY DEF EndsAfter
<1>2. j - 1 \in DOMAIN Tail(s) /\ j - 1 > i /\ Tail(s)[j - 1] = s[j]
  BY <1>1
<1>3. QED
  BY <1>1, <1>2 DEF EndsAfter

\* The elements of what is left, and of what is longer by one.
LEMMA TailIs ==
  ASSUME NEW S, NEW s \in Seq(S), s # <<>>
  PROVE  \A i \in DOMAIN Tail(s) : i \in Nat /\ i + 1 \in DOMAIN s /\ Tail(s)[i] = s[i + 1]
OBVIOUS

LEMMA AppendIs ==
  ASSUME NEW S, NEW s \in Seq(S), NEW c
  PROVE  /\ DOMAIN Append(s, c) = DOMAIN s \cup {Len(s) + 1} /\ Len(s) + 1 \notin DOMAIN s
         /\ Append(s, c)[Len(s) + 1] = c
         /\ \A i \in DOMAIN s : Append(s, c)[i] = s[i] /\ i \in Nat /\ i <= Len(s)
OBVIOUS

LEMMA EndingMore ==
  ASSUME NEW S, NEW s \in Seq(S), NEW c
  PROVE  /\ Ending(s) => Ending(Append(s, c))
         /\ c.kind \in {"ended", "failed", "reset"} => Ending(Append(s, c))
BY AppendIs DEF Ending

LEMMA EndingLess ==
  ASSUME NEW S, NEW s \in Seq(S), s # <<>>, Ending(s)
  PROVE  Head(s).kind \in {"ended", "failed", "reset"} \/ Ending(Tail(s))
<1>1. PICK i \in DOMAIN s : s[i].kind \in {"ended", "failed", "reset"}
  BY DEF Ending
<1>2. CASE i = 1
  BY <1>1, <1>2
<1>3. CASE i # 1
  <2>1. i - 1 \in DOMAIN Tail(s) /\ Tail(s)[i - 1] = s[i]
    BY <1>1, <1>3
  <2>2. QED
    BY <1>1, <2>1 DEF Ending
<1>4. QED
  BY <1>2, <1>3

LEMMA EndsIsEnding ==
  ASSUME NEW s, NEW i, NEW p, EndsAfter(s, i, p)
  PROVE  Ending(s)
BY DEF EndsAfter, Ending

-----------------------------------------------------------------------------
(* What was said is closed *)

LEMMA ClosedMore ==
  ASSUME NEW S, NEW s \in Seq(S), NEW t, NEW n, NEW r, NEW c, Closed(s, t, n, r),
         Goes(c) => c.of <= n /\ (r[c.of] = "ok" => EndsAfter(t, 0, c.of))
  PROVE  Closed(Append(s, c), t, n, r)
<1>1. \A i \in DOMAIN Append(s, c) : i \in DOMAIN s \/ i = Len(s) + 1
  BY AppendIs
<1>2. ASSUME NEW i \in DOMAIN s, Goes(s[i])
      PROVE  /\ s[i].of <= n
             /\ r[s[i].of] = "ok" =>
                  EndsAfter(Append(s, c), i, s[i].of) \/ EndsAfter(t, 0, s[i].of)
  <2>1. EndsAfter(s, i, s[i].of) => EndsAfter(Append(s, c), i, s[i].of)
    BY EndsMore
  <2>2. QED
    BY <1>2, <2>1, Zenon DEF Closed
<1>3. /\ Append(s, c)[Len(s) + 1] = c
      /\ \A i \in DOMAIN s : Append(s, c)[i] = s[i]
  BY AppendIs
<1>4. QED
  BY <1>1, <1>2, <1>3, Zenon DEF Closed

LEMMA ClosedLess ==
  ASSUME NEW S, NEW s \in Seq(S), s # <<>>, NEW t, NEW n, NEW r, Closed(s, t, n, r)
  PROVE  Closed(Tail(s), t, n, r)
<1>1. ASSUME NEW i \in DOMAIN Tail(s), Goes(Tail(s)[i])
      PROVE  /\ Tail(s)[i].of <= n
             /\ r[Tail(s)[i].of] = "ok" =>
                  EndsAfter(Tail(s), i, Tail(s)[i].of) \/ EndsAfter(t, 0, Tail(s)[i].of)
  <2>1. i \in Nat /\ i + 1 \in DOMAIN s /\ Tail(s)[i] = s[i + 1]
    BY TailIs
  <2>2. EndsAfter(s, i + 1, s[i + 1].of) => EndsAfter(Tail(s), i, s[i + 1].of)
    BY <2>1, EndsLess
  <2>3. QED
    BY <1>1, <2>1, <2>2, Zenon DEF Closed
<1>2. QED
  BY <1>1, Zenon DEF Closed

\* More prompts given close it no less.
LEMMA ClosedStill ==
  ASSUME NEW s, NEW t, NEW n \in Nat, NEW r, Closed(s, t, n, r), NEW m \in Nat, n <= m,
         \A i \in DOMAIN s : Goes(s[i]) => s[i].of \in Nat
  PROVE  Closed(s, t, m, r)
<1>1. \A i \in DOMAIN s : Goes(s[i]) => s[i].of <= m
  BY DEF Closed
<1>2. QED
  BY <1>1, Zenon DEF Closed

\* What is at the front of `t` moves to the end of `s`.
LEMMA ClosedMoved ==
  ASSUME NEW S, NEW s \in Seq(S), NEW t \in Seq(S), t # <<>>, NEW n, NEW r,
         Closed(s, t, n, r), Closed(t, <<>>, n, r)
  PROVE  Closed(Append(s, Head(t)), Tail(t), n, r) /\ Closed(Tail(t), <<>>, n, r)
<1> DEFINE h == Head(t)
           s2 == Append(s, h)
           t2 == Tail(t)
<1>1. 1 \in DOMAIN t /\ h = t[1]
  OBVIOUS
<1>2. \A p : ~EndsAfter(<<>>, 0, p)
  BY DEF EndsAfter
<1>3. ASSUME NEW p, EndsAfter(t, 0, p), ~EndsAfter(t2, 0, p)
      PROVE  h.kind = "ended" /\ h.of = p
  <2>1. PICK j \in DOMAIN t : j > 0 /\ t[j].kind = "ended" /\ t[j].of = p
    BY <1>3 DEF EndsAfter
  <2>2. j # 1 => j - 1 \in DOMAIN t2 /\ j - 1 > 0 /\ t2[j - 1] = t[j]
    BY <2>1
  <2>3. QED
    BY <1>1, <1>3, <2>1, <2>2 DEF EndsAfter
<1>4. ASSUME NEW i \in DOMAIN s, Goes(s[i])
      PROVE  /\ s[i].of <= n
             /\ r[s[i].of] = "ok" => EndsAfter(s2, i, s[i].of) \/ EndsAfter(t2, 0, s[i].of)
  <2>1. EndsAfter(s, i, s[i].of) => EndsAfter(s2, i, s[i].of)
    BY EndsMore
  <2>2. h.kind = "ended" => EndsAfter(s2, i, h.of)
    <3>1. i \in Nat /\ i <= Len(s)
      OBVIOUS
    <3>2. QED
      BY <3>1, EndsNow
  <2>3. QED
    BY <1>3, <1>4, <2>1, <2>2, Zenon DEF Closed
<1>5. ASSUME Goes(h)
      PROVE  h.of <= n /\ (r[h.of] = "ok" => EndsAfter(t2, 0, h.of))
  <2>1. EndsAfter(t, 1, h.of) => EndsAfter(t2, 0, h.of)
    <3>1. 0 \in Nat /\ 0 + 1 = 1
      OBVIOUS
    <3>2. QED
      BY <3>1, EndsLess
  <2>2. QED
    BY <1>1, <1>2, <1>5, <2>1, Zenon DEF Closed
<1>6. /\ \A i \in DOMAIN s2 : i \in DOMAIN s \/ i = Len(s) + 1
      /\ s2[Len(s) + 1] = h /\ \A i \in DOMAIN s : s2[i] = s[i]
  BY AppendIs
<1> HIDE DEF h, s2, t2
<1>7. Closed(s2, t2, n, r)
  BY <1>4, <1>5, <1>6, Zenon DEF Closed
<1>8. Closed(t2, <<>>, n, r)
  BY ClosedLess DEF t2
<1>9. QED
  BY <1>7, <1>8 DEF h, s2, t2

LEMMA OfTheTurnStep ==
  ASSUME OfTheTurn, [Next]_vars
  PROVE  OfTheTurn'
<1>1. CASE Outside \/ Apply \/ ApplyLocal \/ Mirror
  BY <1>1, OutsideLeaves DEF OfTheTurn
<1>2. CASE HostStep
  <2>1. ASSUME NEW i \in DOMAIN spawned, Send(i) PROVE OfTheTurn'
    BY <2>1 DEF Send, OfTheTurn
  <2>2. CASE Serve
    BY <2>2 DEF Serve, Received, OfTheTurn
  <2>3. CASE ServeFails \/ Speak \/ CommandFails \/ RunErrand \/ Publish \/ StartOver
    BY <2>3 DEF ServeFails, Speak, CommandFails, RunErrand, Publish, StartOver, OfTheTurn
  <2>4. CASE EndTurn \/ FailTurn
    BY <2>4 DEF EndTurn, FailTurn, Parked, OfTheTurn
  <2>5. ASSUME NEW by \in {0, serving}, NEW kind \in {"ask", "plan"}, Ask(by, kind)
        PROVE  OfTheTurn'
    BY <2>5 DEF Ask, OfTheTurn
  <2>6. ASSUME NEW i \in DOMAIN owed, Adopt(i) PROVE OfTheTurn'
    BY <2>6 DEF Adopt, OfTheTurn
  <2>7. QED
    BY <1>2, <2>1, <2>2, <2>3, <2>4, <2>5, <2>6, HostKinds, Zenon
<1>3. QED
  BY <1>1, <1>2, StepKinds

LEMMA Numbers ==
  ASSUME Typed
  PROVE  /\ sent \in Nat
         /\ \A i \in DOMAIN turnCh : turnCh[i] \in OfTurn /\ turnCh[i].of \in Nat
         /\ \A i \in DOMAIN updates : updates[i] \in Stream
         /\ \A i \in DOMAIN updates : Goes(updates[i]) => updates[i].of \in Prompts /\ updates[i].of \in Nat
<1>1. sent \in Nat /\ turnCh \in Seq(OfTurn) /\ updates \in Seq(Stream) /\ Prompts \subseteq Nat
  BY DEF Typed, Queues, Screen, Prompts
<1>2. /\ \A i \in DOMAIN turnCh : turnCh[i] \in OfTurn
      /\ \A i \in DOMAIN updates : updates[i] \in Stream
  BY <1>1
<1>3. \A u \in OfTurn : u.of \in Nat
  BY <1>1 DEF OfTurn
<1>4. \A u \in Stream : Goes(u) => u.of \in Prompts /\ u.of \in Nat
  BY <1>1 DEF Stream, OfTurn, OfAsk, Goes
<1>5. QED
  BY <1>1, <1>2, <1>3, <1>4, Zenon

\* Where no turn comes to an end and nothing moves, what was closed is.
LEMMA ClosingSame ==
  ASSUME Typed, Closing, UNCHANGED <<turnCh, updates, settled>>, sent' = sent \/ sent' = sent + 1
  PROVE  Closing'
<1>1. sent' \in Nat /\ sent <= sent' /\ sent \in Nat
  BY Numbers
<1>2. \A i \in DOMAIN turnCh : Goes(turnCh[i]) => turnCh[i].of \in Nat
  BY Numbers, Zenon
<1>3. \A i \in DOMAIN updates : Goes(updates[i]) => updates[i].of \in Nat
  BY Numbers, Zenon
<1>4. Closed(turnCh, <<>>, sent', settled)
  BY <1>1, <1>2, ClosedStill, Zenon DEF Closing
<1>5. Closed(updates, turnCh, sent', settled)
  BY <1>1, <1>3, ClosedStill, Zenon DEF Closing
<1>6. QED
  BY <1>4, <1>5, Zenon DEF Closing

\* A prompt that ends is told of: what was said of it is closed by that.
LEMMA EndClosing ==
  ASSUME Typed, Placed, Closing, UNCHANGED sent, ServeFails \/ EndTurn \/ FailTurn
  PROVE  Closing'
<1>1. sent \in Nat /\ sent <= sent /\ turnCh \in Seq(OfTurn) /\ updates \in Seq(Stream)
      /\ settled \in [Prompts -> {"open", "ok", "failed"}]
  BY Numbers DEF Typed, Queues, Registers
<1>2. \A i \in DOMAIN turnCh : Goes(turnCh[i]) => turnCh[i].of \in Nat /\ turnCh[i].of \in Prompts
  <2>1. \A u \in OfTurn : u.of \in Prompts
    BY DEF OfTurn
  <2>2. QED
    BY <2>1, Numbers, Zenon
<1>3. \A i \in DOMAIN updates : Goes(updates[i]) => updates[i].of \in Nat /\ updates[i].of \in Prompts
  BY Numbers, Zenon
<1>4. ASSUME NEW p, UNCHANGED turnCh, updates' = Append(updates, Update("failed", p)),
             settled' = [settled EXCEPT ![p] = "failed"]
      PROVE  Closing'
  <2>1. \A q \in Prompts : settled'[q] = "ok" => settled[q] = "ok"
    BY <1>1, <1>4
  <2>2. Closed(turnCh, <<>>, sent, settled')
    BY <1>2, <2>1, Zenon DEF Closing, Closed
  <2>3. Closed(updates, turnCh, sent, settled')
    BY <1>3, <2>1, Zenon DEF Closing, Closed
  <2>4. ~Goes(Update("failed", p))
    BY DEF Goes, Update
  <2>5. Closed(Append(updates, Update("failed", p)), turnCh, sent, settled')
    BY <1>1, <2>3, <2>4, ClosedMore, Zenon
  <2>6. QED
    BY <1>4, <2>2, <2>5, Zenon DEF Closing
<1>5. CASE EndTurn
  <2> DEFINE c == Update("ended", serving)
  <2>1. /\ turnCh' = Append(turnCh, c) /\ settled' = [settled EXCEPT ![serving] = "ok"]
        /\ UNCHANGED updates
    BY <1>5 DEF EndTurn
  <2>2. c.kind = "ended" /\ c.of = serving /\ ~Goes(c)
    BY DEF Update, Goes
  <2>3. \A q \in Prompts : settled'[q] = "ok" => settled[q] = "ok" \/ q = serving
    BY <1>1, <2>1
  <2> HIDE DEF c
  <2>4. \A i \in DOMAIN turnCh \cup {0} : EndsAfter(Append(turnCh, c), i, serving)
    <3>1. \A i \in DOMAIN turnCh \cup {0} : i \in Nat /\ i <= Len(turnCh)
      BY <1>1
    <3>2. QED
      BY <1>1, <2>2, <3>1, EndsNow, Zenon
  <2>5. Closed(turnCh', <<>>, sent, settled)
    BY <1>1, <2>1, <2>2, ClosedMore, Zenon DEF Closing
  <2>6. \A i \in DOMAIN turnCh' : Goes(turnCh'[i]) => i \in DOMAIN turnCh /\ turnCh'[i] = turnCh[i]
    BY <1>1, <2>1, <2>2, AppendIs
  <2>7. \A i \in DOMAIN turnCh' : Goes(turnCh'[i]) =>
           /\ turnCh'[i].of \in Nat
           /\ settled'[turnCh'[i].of] = "ok" =>
                settled[turnCh'[i].of] = "ok" \/ EndsAfter(turnCh', i, turnCh'[i].of)
    BY <1>2, <2>1, <2>3, <2>4, <2>6, Zenon
  <2>8. Closed(turnCh', <<>>, sent, settled')
    BY <2>5, <2>7, Zenon DEF Closed
  <2>9. \A p : EndsAfter(turnCh, 0, p) => EndsAfter(turnCh', 0, p)
    BY <1>1, <2>1, EndsMore, Zenon
  <2>10. Closed(updates, turnCh', sent, settled')
    BY <1>3, <2>1, <2>3, <2>4, <2>9, ZenonT(60) DEF Closing, Closed
  <2>11. QED
    BY <2>1, <2>8, <2>10, Zenon DEF Closing
<1>6. CASE ServeFails \/ FailTurn
  <2>1. UNCHANGED turnCh
        /\ \E p : /\ updates' = Append(updates, Update("failed", p))
                  /\ settled' = [settled EXCEPT ![p] = "failed"]
    BY <1>6 DEF ServeFails, FailTurn
  <2>2. QED
    BY <1>4, <2>1
<1>7. QED
  BY <1>5, <1>6

\* A turn that begins or speaks is open.
LEMMA SayClosing ==
  ASSUME Typed, Placed, Closing, UNCHANGED sent, Serve \/ Speak
  PROVE  Closing'
<1>1. turnCh \in Seq(OfTurn) /\ updates \in Seq(Stream)
  BY DEF Typed, Queues
<1>2. PICK p \in Open, k \in {"started", "text"} : turnCh' = Append(turnCh, Update(k, p))
  <2>1. CASE Serve
    <3>1. Head(inbox).of \in Open
      BY <2>1, ReceivedPlaced DEF Serve, Placed
    <3>2. QED
      BY <2>1, <3>1 DEF Serve
  <2>2. CASE Speak
    <3>1. serving \in Open
      BY <2>2 DEF Speak, Placed
    <3>2. QED
      BY <2>2, <3>1 DEF Speak
  <2>3. QED
    BY <2>1, <2>2
<1>3. UNCHANGED <<updates, settled>>
  BY DEF Serve, Speak
<1> DEFINE c == Update(k, p)
<1>4. c.of <= sent /\ settled[c.of] # "ok"
  BY <1>2 DEF Open, Update
<1> HIDE DEF c
<1>5. turnCh' = Append(turnCh, c)
  BY <1>2 DEF c
<1>6. Closed(turnCh', <<>>, sent, settled)
  BY <1>1, <1>4, <1>5, ClosedMore, Zenon DEF Closing
<1>7. \A q : EndsAfter(turnCh, 0, q) => EndsAfter(turnCh', 0, q)
  BY <1>1, <1>5, EndsMore, Zenon
<1>8. Closed(updates, turnCh', sent, settled)
  BY <1>7, Zenon DEF Closing, Closed
<1>9. QED
  BY <1>3, <1>6, <1>8, Zenon DEF Closing

LEMMA MoveClosing ==
  ASSUME Typed, Closing, UNCHANGED sent, Publish \/ StartOver \/ Apply
  PROVE  Closing'
<1>1. turnCh \in Seq(OfTurn) /\ reqCh \in Seq(OfAsk) /\ updates \in Seq(Stream)
      /\ turnCh \in Seq(Stream)
  BY DEF Typed, Queues, Stream
<1>2. UNCHANGED settled
  BY DEF Publish, StartOver, Apply
<1>3. ASSUME NEW c, ~Goes(c), updates' = Append(updates, c), UNCHANGED turnCh
      PROVE  Closing'
  <2>1. Closed(Append(updates, c), turnCh, sent, settled)
    BY <1>1, <1>3, ClosedMore, Zenon DEF Closing
  <2>2. QED
    BY <1>2, <1>3, <2>1, Zenon DEF Closing
<1>4. CASE Publish
  <2>1. CASE ~polled /\ turnCh # <<>>
    <3>1. updates' = Append(updates, Head(turnCh)) /\ turnCh' = Tail(turnCh)
      BY <1>4, <2>1 DEF Publish
    <3>2. /\ Closed(Append(updates, Head(turnCh)), Tail(turnCh), sent, settled)
          /\ Closed(Tail(turnCh), <<>>, sent, settled)
      BY <1>1, <2>1, ClosedMoved, Zenon DEF Closing
    <3>3. QED
      BY <1>2, <3>1, <3>2, Zenon DEF Closing
  <2>2. CASE polled
    <3>1. reqCh # <<>>
      BY <2>2 DEF Typed, Queues
    <3>2. Head(reqCh) \in OfAsk
      BY <1>1, <3>1
    <3>3. ~Goes(Head(reqCh))
      BY <3>2 DEF OfAsk, Goes
    <3>4. QED
      BY <1>3, <1>4, <2>2, <3>3, Zenon DEF Publish
  <2>3. CASE ~polled /\ turnCh = <<>> /\ reqCh # <<>>
    <3>1. UNCHANGED <<turnCh, updates>>
      BY <1>4, <2>3 DEF Publish
    <3>2. QED
      BY <1>2, <3>1, Zenon DEF Closing
  <2>4. QED
    BY <1>4, <2>1, <2>2, <2>3 DEF Publish
<1>5. CASE StartOver
  <2>1. ~Goes(Update("reset", session'))
    BY DEF Goes, Update
  <2>2. QED
    BY <1>3, <1>5, <2>1 DEF StartOver
<1>6. CASE Apply
  <2>1. updates # <<>> /\ updates' = Tail(updates) /\ UNCHANGED turnCh
    BY <1>6 DEF Apply
  <2>2. Closed(Tail(updates), turnCh, sent, settled)
    BY <1>1, <2>1, ClosedLess, Zenon DEF Closing
  <2>3. QED
    BY <1>2, <2>1, <2>2, Zenon DEF Closing
<1>7. QED
  BY <1>4, <1>5, <1>6

LEMMA ClosingStep ==
  ASSUME Typed, Placed, Closing, [Next]_vars
  PROVE  Closing'
<1>1. CASE Outside
  <2>1. sent' = sent \/ sent' = sent + 1
    BY <1>1, OutsidePlaced
  <2>2. UNCHANGED <<turnCh, updates, settled>>
    BY <1>1 DEF Outside, Gives, Requests, Answers, Cancels, Idles, restOfHost, hostVars
  <2>3. QED
    BY <2>1, <2>2, ClosingSame
<1>2. CASE ApplyLocal \/ Mirror
  BY <1>2, ClosingSame DEF ApplyLocal, Mirror, restOfHost, hostVars
<1>3. CASE Apply
  BY <1>3, MoveClosing DEF Apply
<1>4. CASE HostStep /\ UNCHANGED appVars
  <2>1. UNCHANGED sent
    BY <1>4 DEF appVars
  <2>2. ASSUME NEW i \in DOMAIN spawned, Send(i) PROVE Closing'
    BY <2>1, <2>2, ClosingSame DEF Send
  <2>3. ASSUME NEW by \in {0, serving}, NEW kind \in {"ask", "plan"}, Ask(by, kind)
        PROVE  Closing'
    BY <2>1, <2>3, ClosingSame DEF Ask
  <2>4. ASSUME NEW i \in DOMAIN owed, Adopt(i) PROVE Closing'
    BY <2>1, <2>4, ClosingSame DEF Adopt
  <2>5. CASE CommandFails \/ RunErrand
    BY <2>1, <2>5, ClosingSame DEF CommandFails, RunErrand
  <2>6. CASE Serve \/ Speak
    BY <2>1, <2>6, SayClosing
  <2>7. CASE ServeFails \/ EndTurn \/ FailTurn
    BY <2>1, <2>7, EndClosing
  <2>8. CASE Publish \/ StartOver
    BY <2>1, <2>8, MoveClosing
  <2>9. QED
    BY <1>4, <2>2, <2>3, <2>4, <2>5, <2>6, <2>7, <2>8, HostKinds, Zenon
<1>5. QED
  BY <1>1, <1>2, <1>3, <1>4, StepKinds

-----------------------------------------------------------------------------
(* A busy surface has a reason *)

\* An answer that resumes the turn is given while its prompt is open.
LEMMA AnsweredTurn ==
  ASSUME Placed, OfTheTurn, NEW id, CauseOf(id) = "none"
  PROVE  Open # {}
<1>1. \E w \in waiting : w.by # 0
  BY DEF CauseOf
<1>2. serving # 0
  BY <1>1 DEF OfTheTurn
<1>3. serving \in Open
  BY <1>2 DEF Placed
<1>4. QED
  BY <1>3

LEMMA OutsideReason ==
  ASSUME Typed, Placed, OfTheTurn, HasReason, Outside
  PROVE  HasReason'
<1>1. UNCHANGED <<turnCh, updates>>
  BY DEF Outside, Gives, Requests, Answers, Cancels, Idles, restOfHost, hostVars
<1>2. Open \subseteq Open'
  BY OutsidePlaced
<1>3. CASE Gives
  BY <1>3, GivesPlaced DEF HasReason
<1>4. CASE Requests \/ Idles
  <2>1. UNCHANGED <<turn, cause>>
    BY <1>4 DEF Requests, Idles
  <2>2. Ending(turnCh)' = Ending(turnCh) /\ Ending(updates)' = Ending(updates)
    BY <1>1 DEF Ending
  <2>3. QED
    BY <1>2, <2>1, <2>2 DEF HasReason, Busy
<1>5. CASE Answers
  <2>1. cause' = CauseOf(OpenId)
    BY <1>5 DEF Answers
  <2>2. cause' = "none" => Open # {}
    BY <2>1, AnsweredTurn
  <2>3. QED
    BY <1>2, <2>2 DEF HasReason
<1>6. CASE Cancels
  BY <1>6 DEF Cancels, HasReason, Busy
<1>7. QED
  BY <1>3, <1>4, <1>5, <1>6 DEF Outside

LEMMA ApplyReason ==
  ASSUME Typed, Placed, OfTheTurn, Closing, Apply
  PROVE  HasReason'
<1> DEFINE u == Head(updates)
<1>1. /\ updates \in Seq(Stream) /\ updates # <<>> /\ updates' = Tail(updates)
      /\ Applied(u) /\ UNCHANGED <<turnCh, settled, sent>>
  BY DEF Apply, Typed, Queues
<1>2. 1 \in DOMAIN updates /\ u = updates[1]
  BY <1>1
<1> HIDE DEF u
<1>3. Open' = Open
  BY <1>1 DEF Open
<1>4. CASE Begun(u) /\ Goes(u)
  <2>1. u.of \in Prompts /\ u.of <= sent
    BY <1>2, <1>4, Numbers, Zenon DEF Closing, Closed
  <2>2. settled[u.of] \in {"open", "ok", "failed"}
    BY <2>1 DEF Typed, Registers
  <2>3. CASE settled[u.of] = "open"
    BY <1>3, <2>1, <2>3 DEF Open, HasReason
  <2>4. CASE settled[u.of] = "ok"
    <3>1. EndsAfter(updates, 1, u.of) \/ EndsAfter(turnCh, 0, u.of)
      BY <1>2, <1>4, <2>4, Zenon DEF Closing, Closed
    <3>2. EndsAfter(updates, 1, u.of) => EndsAfter(Tail(updates), 0, u.of)
      <4>1. 0 \in Nat /\ 0 + 1 = 1
        OBVIOUS
      <4>2. QED
        BY <1>1, <4>1, EndsLess
    <3>3. Ending(Tail(updates)) \/ Ending(turnCh)
      BY <3>1, <3>2, EndsIsEnding, Zenon
    <3>4. Ending(updates') \/ Ending(turnCh')
      BY <1>1, <3>3
    <3>5. QED
      BY <3>4, Zenon DEF HasReason, Ending
  <2>5. CASE settled[u.of] = "failed"
    BY <1>4, <2>5 DEF Begun, HasReason
  <2>6. QED
    BY <2>2, <2>3, <2>4, <2>5
<1>5. CASE EndOfTurn
  BY <1>5 DEF EndOfTurn, HasReason, Busy
<1>6. CASE Prompted(u)
  <2>1. cause' = CauseOf(u.of)
    BY <1>6 DEF Prompted
  <2>2. cause' = "none" => Open # {}
    BY <2>1, AnsweredTurn
  <2>3. QED
    BY <1>3, <2>2 DEF HasReason
<1>7. QED
  BY <1>1, <1>4, <1>5, <1>6 DEF Applied, Replaced, Goes

\* What the host does to the updates leaves an end that is on its way there, and
\* adds one for every prompt that ends.
LEMMA HostReason ==
  ASSUME Typed, Placed, HasReason, HostStep, UNCHANGED appVars
  PROVE  HasReason'
<1>1. turnCh \in Seq(OfTurn) /\ reqCh \in Seq(OfAsk) /\ updates \in Seq(Stream)
      /\ UNCHANGED <<turn, cause, sent>>
  BY DEF Typed, Queues, appVars
<1>2. ASSUME NEW c, turnCh' = Append(turnCh, c), UNCHANGED updates
      PROVE  (Ending(turnCh) \/ Ending(updates) => Ending(turnCh') \/ Ending(updates'))
             /\ (c.kind = "ended" => Ending(turnCh'))
  <2>1. /\ Ending(turnCh) => Ending(Append(turnCh, c))
        /\ c.kind = "ended" => Ending(Append(turnCh, c))
    BY <1>1, EndingMore
  <2>2. QED
    BY <1>2, <2>1
<1>3. ASSUME NEW c, updates' = Append(updates, c), UNCHANGED turnCh
      PROVE  (Ending(turnCh) \/ Ending(updates) => Ending(turnCh') \/ Ending(updates'))
             /\ (c.kind = "failed" => Ending(updates'))
  <2>1. /\ Ending(updates) => Ending(Append(updates, c))
        /\ c.kind = "failed" => Ending(Append(updates, c))
    BY <1>1, EndingMore
  <2>2. QED
    BY <1>3, <2>1
<1>4. CASE ServeFails \/ EndTurn \/ FailTurn
  <2>1. Ending(turnCh') \/ Ending(updates')
    BY <1>2, <1>3, <1>4 DEF ServeFails, EndTurn, FailTurn, Update
  <2>2. QED
    BY <2>1, Zenon DEF HasReason, Ending
<1>5. ASSUME Open' = Open, Ending(turnCh) \/ Ending(updates) => Ending(turnCh') \/ Ending(updates')
      PROVE  HasReason'
  <2>1. Busy' = Busy /\ cause' = cause
    BY <1>1 DEF Busy
  <2>2. QED
    BY <1>5, <2>1 DEF HasReason, Ending
<1>6. ASSUME UNCHANGED <<turnCh, updates>>
      PROVE  Ending(turnCh) \/ Ending(updates) => Ending(turnCh') \/ Ending(updates')
  BY <1>6
<1>7. CASE Serve \/ Speak
  <2>1. \E c : turnCh' = Append(turnCh, c) /\ UNCHANGED updates
    BY <1>7 DEF Serve, Speak
  <2>2. QED
    BY <1>2, <1>4, <1>5, <2>1, HostPlaced
<1>8. CASE StartOver
  <2>1. \E c : updates' = Append(updates, c) /\ UNCHANGED turnCh
    BY <1>8 DEF StartOver
  <2>2. QED
    BY <1>3, <1>4, <1>5, <2>1, HostPlaced
<1>9. CASE Publish
  <2>1. CASE ~polled /\ turnCh # <<>>
    <3>1. updates' = Append(updates, Head(turnCh)) /\ turnCh' = Tail(turnCh)
      BY <1>9, <2>1 DEF Publish
    <3>2. Ending(turnCh) => Head(turnCh).kind \in {"ended", "failed", "reset"} \/ Ending(Tail(turnCh))
      BY <1>1, <2>1, EndingLess
    <3>3. /\ Ending(updates) => Ending(Append(updates, Head(turnCh)))
          /\ Head(turnCh).kind \in {"ended", "failed", "reset"}
               => Ending(Append(updates, Head(turnCh)))
      BY <1>1, EndingMore
    <3>4. Ending(turnCh) \/ Ending(updates) => Ending(turnCh') \/ Ending(updates')
      BY <3>1, <3>2, <3>3
    <3>5. QED
      BY <1>4, <1>5, <3>4, HostPlaced
  <2>2. CASE ~(~polled /\ turnCh # <<>>)
    <3>1. UNCHANGED turnCh /\ (UNCHANGED updates \/ \E c : updates' = Append(updates, c))
      BY <1>9, <2>2 DEF Publish
    <3>2. QED
      BY <1>3, <1>4, <1>5, <1>6, <3>1, HostPlaced
  <2>3. QED
    BY <2>1, <2>2
<1>10. ASSUME NEW i \in DOMAIN spawned, Send(i) PROVE HasReason'
  <2>1. UNCHANGED <<turnCh, updates>>
    BY <1>10 DEF Send
  <2>2. QED
    BY <1>4, <1>5, <1>6, <2>1, HostPlaced
<1>11. ASSUME NEW by \in {0, serving}, NEW kind \in {"ask", "plan"}, Ask(by, kind)
       PROVE  HasReason'
  <2>1. UNCHANGED <<turnCh, updates>>
    BY <1>11 DEF Ask
  <2>2. QED
    BY <1>4, <1>5, <1>6, <2>1, HostPlaced
<1>12. ASSUME NEW i \in DOMAIN owed, Adopt(i) PROVE HasReason'
  <2>1. UNCHANGED <<turnCh, updates>>
    BY <1>12 DEF Adopt
  <2>2. QED
    BY <1>4, <1>5, <1>6, <2>1, HostPlaced
<1>13. CASE CommandFails \/ RunErrand
  <2>1. UNCHANGED <<turnCh, updates>>
    BY <1>13 DEF CommandFails, RunErrand
  <2>2. QED
    BY <1>4, <1>5, <1>6, <2>1, HostPlaced
<1>14. QED
  BY <1>4, <1>7, <1>8, <1>9, <1>10, <1>11, <1>12, <1>13, HostKinds, Zenon

\* The invariant.
Reasoned == Placed /\ OfTheTurn /\ Closing /\ HasReason

LEMMA ReasonedStep ==
  ASSUME Typed, Reasoned, [Next]_vars
  PROVE  Reasoned'
<1>1. Placed'
  BY StepKinds, OutsidePlaced, HostPlaced DEF Reasoned
<1>2. OfTheTurn' /\ Closing'
  BY OfTheTurnStep, ClosingStep DEF Reasoned
<1>3. HasReason'
  <2>1. CASE Outside
    BY <2>1, OutsideReason DEF Reasoned
  <2>2. CASE Apply
    BY <2>2, ApplyReason DEF Reasoned
  <2>3. CASE ApplyLocal
    BY <2>3 DEF ApplyLocal, EndOfTurn, HasReason, Busy
  <2>4. CASE Mirror
    <3>1. UNCHANGED <<turnCh, updates, turn, cause, sent, settled>>
      BY <2>4 DEF Mirror, restOfHost
    <3>2. QED
      BY <3>1 DEF Reasoned, HasReason, Ending, Busy, Open
  <2>5. CASE HostStep /\ UNCHANGED appVars
    BY <2>5, HostReason DEF Reasoned
  <2>6. QED
    BY <2>1, <2>2, <2>3, <2>4, <2>5, StepKinds, Zenon
<1>4. QED
  BY <1>1, <1>2, <1>3 DEF Reasoned

LEMMA InitReasoned == Init => Reasoned
<1> SUFFICES ASSUME Init PROVE Reasoned
  OBVIOUS
<1>1. /\ spawned = <<>> /\ inbox = <<>> /\ serving = 0 /\ sent = 0 /\ turnCh = <<>>
      /\ updates = <<>> /\ waiting = {} /\ turn = "Idle"
      /\ settled = [p \in Prompts |-> "open"]
  BY DEF Init, HostInit
<1>2. DOMAIN <<>> = {}
  OBVIOUS
<1>3. Carried(spawned) = {} /\ Carried(inbox) = {} /\ Once(spawned) /\ Once(inbox)
  BY <1>1, <1>2 DEF Carried, Once
<1>4. Open = {}
  BY <1>1 DEF Open, Prompts
<1>5. Placed
  BY <1>1, <1>3, <1>4 DEF Placed
<1>6. Closing
  BY <1>1, <1>2 DEF Closing, Closed
<1>7. OfTheTurn /\ HasReason
  BY <1>1 DEF OfTheTurn, HasReason, Busy
<1>8. QED
  BY <1>5, <1>6, <1>7 DEF Reasoned

\* When all is quiet, a surface that is left busy is so for a named cause.
THEOREM BusyIsExplained == Spec => []BusyHasACause
<1>1. Typed /\ Reasoned => BusyHasACause
  <2> SUFFICES ASSUME Typed, Reasoned, Quiet, Busy, cause = "none" PROVE FALSE
    BY DEF BusyHasACause
  <2>1. /\ spawned = <<>> /\ inbox = <<>> /\ serving = 0 /\ turnCh = <<>> /\ updates = <<>>
    BY DEF Quiet, AtRest
  <2>2. DOMAIN <<>> = {}
    OBVIOUS
  <2>3. Carried(spawned) = {} /\ Carried(inbox) = {}
    BY <2>1, <2>2 DEF Carried
  <2>4. Open = {}
    BY <2>1, <2>3 DEF Reasoned, Placed
  <2>5. ~Ending(turnCh) /\ ~Ending(updates)
    BY <2>1, <2>2 DEF Ending
  <2>6. QED
    BY <2>4, <2>5 DEF Reasoned, HasReason
<1>2. Typed /\ Reasoned /\ [Next]_vars => Reasoned'
  BY ReasonedStep
<1>3. QED
  BY <1>1, <1>2, InitReasoned, AlwaysTyped, PTL DEF Spec

-----------------------------------------------------------------------------
(* Where the prompt raised last is *)

Asking(u) == u.kind \in {"ask", "plan"}

\* It is on its way to the screen, behind the update `i`.
AsksAfter(i) ==
  \/ \E j \in DOMAIN reqCh : reqCh[j].of = asked
  \/ \E j \in DOMAIN updates : j > i /\ Asking(updates[j]) /\ updates[j].of = asked

\* No prompt anywhere is newer, and none comes behind it.
Newest ==
  /\ slot <= asked /\ \A k \in DOMAIN cells : cells[k] <= asked
  /\ \A i \in DOMAIN reqCh : reqCh[i].of <= asked
  /\ \A i \in DOMAIN updates : Asking(updates[i]) => updates[i].of <= asked
  /\ \A w \in waiting : w.id <= asked

NoneBehind == reqCh = <<>> /\ \A j \in DOMAIN updates : ~Asking(updates[j])

LastComesLast ==
  /\ \A i \in DOMAIN reqCh : reqCh[i].of = asked => i = Len(reqCh)
  /\ \A i \in DOMAIN updates : Asking(updates[i]) /\ updates[i].of = asked =>
       reqCh = <<>> /\ \A j \in DOMAIN updates : j > i => ~Asking(updates[j])
  /\ \A k \in DOMAIN cells : cells[k] = asked => k = Len(cells)
  /\ asked # 0 /\ OnScreen(asked) => NoneBehind

\* While its turn waits for it, it is on its way or on the screen, and on its way if
\* something is that empties the screen.
Screened ==
  \A w \in waiting : w.by # 0 /\ w.id = asked =>
    /\ AsksAfter(0) \/ OnScreen(asked)
    /\ \A i \in DOMAIN updates : updates[i].kind = "reset" => AsksAfter(i)

Findable == Newest /\ LastComesLast /\ Screened

LEMMA FindableSame ==
  ASSUME Findable, UNCHANGED <<asked, reqCh, updates, slot, cells>>, waiting' \subseteq waiting
  PROVE  Findable'
<1>1. Newest' /\ LastComesLast'
  BY DEF Findable, Newest, LastComesLast, NoneBehind, OnScreen, Asking
<1>2. Screened'
  BY DEF Findable, Screened, AsksAfter, OnScreen, Asking
<1>3. QED
  BY <1>1, <1>2 DEF Findable

\* An update that asks for nothing and empties nothing is in nobody's way.
LEMMA FindableMore ==
  ASSUME Typed, Findable, NEW c, ~Asking(c), c.kind # "reset", updates' = Append(updates, c),
         UNCHANGED <<asked, reqCh, slot, cells, waiting>>
  PROVE  Findable'
<1>1. /\ \A i \in DOMAIN updates' : \/ i \in DOMAIN updates /\ updates'[i] = updates[i]
                                  \/ updates'[i] = c
      /\ \A i \in DOMAIN updates : i \in DOMAIN updates' /\ updates'[i] = updates[i]
  <2>1. updates \in Seq(Stream)
    BY DEF Typed, Queues
  <2>2. QED
    BY <2>1, AppendIs
<1>2. Newest'
  BY <1>1 DEF Findable, Newest, Asking
<1>3. NoneBehind => NoneBehind'
  BY <1>1 DEF NoneBehind, Asking
<1>4. LastComesLast'
  BY <1>1, <1>3 DEF Findable, LastComesLast, OnScreen, Asking
<1>5. \A i : AsksAfter(i) => AsksAfter(i)'
  BY <1>1 DEF AsksAfter, Asking
<1>6. Screened'
  BY <1>1, <1>5 DEF Findable, Screened, OnScreen
<1>7. QED
  BY <1>2, <1>4, <1>6 DEF Findable

LEMMA AskFindable ==
  ASSUME HostAssumption, Typed, Findable, NEW by \in {0, serving}, NEW kind \in {"ask", "plan"},
         Ask(by, kind), UNCHANGED appVars
  PROVE  Findable'
<1> DEFINE c == Update(kind, asked + 1)
<1>1. /\ asked \in Nat /\ asked' = asked + 1 /\ reqCh' = Append(reqCh, c)
      /\ waiting' = waiting \cup {[id |-> asked + 1, by |-> by, in |-> session]}
      /\ UNCHANGED <<updates, slot, cells>> /\ c.of = asked + 1
      /\ reqCh \in Seq(OfAsk) /\ updates \in Seq(Stream)
  BY DEF Ask, appVars, Typed, Queues, Registers, Update, HostAssumption
<1> HIDE DEF c
<1>2. /\ DOMAIN reqCh' = DOMAIN reqCh \cup {Len(reqCh) + 1} /\ reqCh'[Len(reqCh) + 1] = c
      /\ \A i \in DOMAIN reqCh : reqCh'[i] = reqCh[i]
      /\ Len(reqCh') = Len(reqCh) + 1 /\ reqCh' # <<>>
  BY <1>1, AppendIs
<1>3. \A n \in Nat : n <= asked => n <= asked' /\ n # asked'
  BY <1>1
<1>4. /\ slot \in Nat /\ \A k \in DOMAIN cells : cells[k] \in Nat
      /\ \A i \in DOMAIN reqCh : reqCh[i].of \in Nat
      /\ \A i \in DOMAIN updates : Asking(updates[i]) => updates[i].of \in Nat
      /\ \A w \in waiting : w.id \in Nat
  <2>1. Asks \subseteq Nat /\ slot \in Nat /\ cells \in Seq(Asks)
    BY DEF Asks, Typed, Screen
  <2>2. \A k \in DOMAIN cells : cells[k] \in Asks
    BY <2>1
  <2>3. \A i \in DOMAIN reqCh : reqCh[i] \in OfAsk
    BY <1>1
  <2>4. \A i \in DOMAIN updates : updates[i] \in Stream
    BY <1>1
  <2>5. \A u \in OfAsk : u.of \in Nat
    BY <2>1 DEF OfAsk
  <2>6. \A u \in Stream : Asking(u) => u.of \in Nat
    BY <2>1 DEF Stream, OfTurn, OfAsk, Asking
  <2>7. \A w \in waiting : w.id \in Nat
    BY <2>1 DEF Typed, Registers
  <2>8. QED
    BY <2>1, <2>2, <2>3, <2>4, <2>5, <2>6, <2>7, Zenon
<1>5. Newest'
  <2>1. slot' <= asked' /\ \A k \in DOMAIN cells' : cells'[k] <= asked'
    BY <1>1, <1>3, <1>4 DEF Findable, Newest
  <2>2. \A i \in DOMAIN reqCh' : reqCh'[i].of <= asked'
    BY <1>1, <1>2, <1>3, <1>4 DEF Findable, Newest
  <2>3. \A i \in DOMAIN updates' : Asking(updates'[i]) => updates'[i].of <= asked'
    BY <1>1, <1>3, <1>4 DEF Findable, Newest
  <2>4. \A w \in waiting' : w.id <= asked'
    BY <1>1, <1>3, <1>4 DEF Findable, Newest
  <2>5. QED
    BY <2>1, <2>2, <2>3, <2>4 DEF Newest
<1>6. /\ slot' # asked' /\ \A k \in DOMAIN cells' : cells'[k] # asked'
      /\ \A i \in DOMAIN reqCh : reqCh[i].of # asked'
      /\ \A i \in DOMAIN updates : Asking(updates[i]) => updates[i].of # asked'
      /\ \A w \in waiting : w.id # asked'
  BY <1>1, <1>3, <1>4 DEF Findable, Newest
<1>7. ~OnScreen(asked)'
  <2>1. cells # <<>> => Len(cells) \in DOMAIN cells
    BY DEF Typed, Screen
  <2>2. QED
    BY <1>1, <1>6, <2>1 DEF OnScreen
<1>8. LastComesLast'
  <2>1. \A i \in DOMAIN reqCh' : reqCh'[i].of = asked' => i = Len(reqCh')
    BY <1>2, <1>6
  <2>2. \A i \in DOMAIN updates' : ~(Asking(updates'[i]) /\ updates'[i].of = asked')
    BY <1>1, <1>6
  <2>3. QED
    BY <1>6, <1>7, <2>1, <2>2, Zenon DEF LastComesLast
<1>9. \A i : AsksAfter(i)'
  BY <1>1, <1>2 DEF AsksAfter
<1>10. Screened'
  BY <1>9 DEF Screened
<1>11. QED
  BY <1>5, <1>8, <1>10 DEF Findable

\* A prompt published is as far from the screen as it was.
LEMMA PublishFindable ==
  ASSUME Typed, Findable, Publish, UNCHANGED appVars
  PROVE  Findable'
<1>1. UNCHANGED <<asked, slot, cells, waiting>>
  BY DEF Publish, appVars
<1>2. CASE ~polled /\ turnCh # <<>>
  <2>1. updates' = Append(updates, Head(turnCh)) /\ UNCHANGED reqCh
    BY <1>2 DEF Publish
  <2>2. turnCh \in Seq(OfTurn)
    BY DEF Typed, Queues
  <2>3. Head(turnCh) \in OfTurn
    BY <1>2, <2>2
  <2>4. ~Asking(Head(turnCh)) /\ Head(turnCh).kind # "reset"
    BY <2>3 DEF OfTurn, Asking
  <2>5. QED
    BY <1>1, <2>1, <2>4, FindableMore
<1>3. CASE ~polled /\ turnCh = <<>> /\ reqCh # <<>>
  <2>1. UNCHANGED <<asked, reqCh, updates, slot, cells>> /\ waiting' \subseteq waiting
    BY <1>1, <1>3 DEF Publish
  <2>2. QED
    BY <2>1, FindableSame
<1>4. CASE polled
  <2> DEFINE c == Head(reqCh)
             n == Len(updates) + 1
  <2>1. /\ updates' = Append(updates, c) /\ reqCh' = Tail(reqCh)
        /\ reqCh \in Seq(OfAsk) /\ updates \in Seq(Stream) /\ reqCh # <<>>
    BY <1>4 DEF Publish, Typed, Queues
  <2>2. c = reqCh[1] /\ 1 \in DOMAIN reqCh /\ c \in OfAsk
    BY <2>1
  <2>3. Asking(c) /\ c.kind # "reset"
    BY <2>2 DEF OfAsk, Asking
  <2>4. /\ DOMAIN updates' = DOMAIN updates \cup {n} /\ updates'[n] = c /\ n \notin DOMAIN updates
        /\ \A i \in DOMAIN updates : updates'[i] = updates[i] /\ i < n
    BY <2>1
  <2>5. \A i \in DOMAIN reqCh' : i + 1 \in DOMAIN reqCh /\ reqCh'[i] = reqCh[i + 1] /\ i # 0
    BY <2>1
  <2>6. \A i \in DOMAIN reqCh : i = 1 \/ (i - 1 \in DOMAIN reqCh' /\ reqCh'[i - 1] = reqCh[i])
    BY <2>1
  <2>7. Len(reqCh') = Len(reqCh) - 1 /\ Len(reqCh) \in Nat
        /\ \A i \in DOMAIN reqCh' : i \in Nat /\ (i + 1 = Len(reqCh) => i = Len(reqCh'))
        /\ (1 = Len(reqCh) => reqCh' = <<>>)
    BY <2>1
  <2> HIDE DEF c, n
  <2>8. Newest'
    <3>1. \A i \in DOMAIN reqCh' : reqCh'[i].of <= asked'
      BY <1>1, <2>5 DEF Findable, Newest
    <3>2. \A i \in DOMAIN updates' : Asking(updates'[i]) => updates'[i].of <= asked'
      BY <1>1, <2>2, <2>4 DEF Findable, Newest
    <3>3. QED
      BY <1>1, <3>1, <3>2 DEF Findable, Newest
  <2>9. ~NoneBehind
    BY <2>1 DEF NoneBehind
  <2>10. LastComesLast'
    <3>1. \A i \in DOMAIN reqCh' : reqCh'[i].of = asked' => i = Len(reqCh')
      BY <1>1, <2>5, <2>7 DEF Findable, LastComesLast
    <3>2. ASSUME NEW i \in DOMAIN updates', Asking(updates'[i]), updates'[i].of = asked'
          PROVE  reqCh' = <<>> /\ \A j \in DOMAIN updates' : j > i => ~Asking(updates'[j])
      <4>1. i = n
        BY <1>1, <2>1, <2>4, <3>2 DEF Findable, LastComesLast
      <4>2. c.of = asked
        BY <1>1, <2>4, <3>2, <4>1
      <4>3. reqCh' = <<>>
        BY <2>2, <2>7, <4>2 DEF Findable, LastComesLast
      <4>4. \A j \in DOMAIN updates' : ~(j > i)
        <5>1. n \in Nat /\ DOMAIN updates \subseteq Nat
          BY <2>1 DEF n
        <5>2. QED
          BY <2>4, <4>1, <5>1
      <4>5. QED
        BY <4>3, <4>4
    <3>3. ~(asked' # 0 /\ OnScreen(asked)')
      BY <1>1, <2>9 DEF Findable, LastComesLast, OnScreen
    <3>4. \A k \in DOMAIN cells' : cells'[k] = asked' => k = Len(cells')
      BY <1>1 DEF Findable, LastComesLast
    <3>5. QED
      BY <3>1, <3>2, <3>3, <3>4, Zenon DEF LastComesLast
  <2>11. ASSUME NEW i \in DOMAIN updates \cup {0}, AsksAfter(i)
         PROVE  AsksAfter(i)'
    <3>1. n > i
      BY <2>1, <2>4 DEF n
    <3>2. CASE \E j \in DOMAIN reqCh : reqCh[j].of = asked
      <4>1. PICK j \in DOMAIN reqCh : reqCh[j].of = asked
        BY <3>2
      <4>2. CASE j = 1
        BY <1>1, <2>2, <2>3, <2>4, <3>1, <4>1, <4>2 DEF AsksAfter
      <4>3. CASE j # 1
        BY <1>1, <2>6, <4>1, <4>3 DEF AsksAfter
      <4>4. QED
        BY <4>2, <4>3
    <3>3. CASE \E j \in DOMAIN updates : j > i /\ Asking(updates[j]) /\ updates[j].of = asked
      <4>1. PICK j \in DOMAIN updates : j > i /\ Asking(updates[j]) /\ updates[j].of = asked
        BY <3>3
      <4>2. j \in DOMAIN updates' /\ updates'[j] = updates[j]
        BY <2>4, <4>1
      <4>3. QED
        BY <1>1, <4>1, <4>2 DEF AsksAfter
    <3>4. QED
      BY <2>11, <3>2, <3>3 DEF AsksAfter
  <2>12. Screened'
    <3>1. \A i \in DOMAIN updates' : updates'[i].kind = "reset"
             => i \in DOMAIN updates /\ updates[i].kind = "reset"
      BY <2>3, <2>4
    <3>2. QED
      BY <1>1, <2>11, <3>1 DEF Findable, Screened, OnScreen
  <2>13. QED
    BY <2>8, <2>10, <2>12 DEF Findable
<1>5. QED
  BY <1>2, <1>3, <1>4 DEF Publish

\* What is asked last and taken from the stream is on the screen.
LEMMA ApplyFindable ==
  ASSUME Typed, Findable, Apply
  PROVE  Findable'
<1> DEFINE u == Head(updates)
<1>1. /\ updates \in Seq(Stream) /\ updates # <<>> /\ updates' = Tail(updates) /\ Applied(u)
      /\ UNCHANGED <<asked, reqCh, waiting>> /\ cells \in Seq(Asks) /\ slot \in 0..MaxAsks
      /\ waiting \subseteq [id : Asks, by : 0..MaxPrompts, in : Sessions]
  BY DEF Apply, Typed, Queues, Screen, Registers
<1>2. u = updates[1] /\ 1 \in DOMAIN updates
  BY <1>1
<1>3. \A i \in DOMAIN updates' : i + 1 \in DOMAIN updates /\ updates'[i] = updates[i + 1] /\ i \in Nat
                                 /\ i + 1 > 1
  BY <1>1
<1>4. \A i \in DOMAIN updates : i = 1 \/ (i - 1 \in DOMAIN updates' /\ updates'[i - 1] = updates[i])
  BY <1>1
<1> HIDE DEF u
<1>5. \/ u.kind = "ask" /\ slot' = u.of /\ UNCHANGED cells
      \/ u.kind = "plan" /\ cells' = Append(cells, u.of) /\ UNCHANGED slot
      \/ u.kind = "reset" /\ cells' = <<>> /\ UNCHANGED slot
      \/ ~Asking(u) /\ u.kind # "reset" /\ UNCHANGED <<slot, cells>>
  <2>1. CASE Prompted(u)
    BY <2>1 DEF Prompted
  <2>2. CASE ~Prompted(u)
    BY <1>1, <2>2 DEF Applied, Begun, Replaced, Asking
  <2>3. QED
    BY <2>1, <2>2
<1>6. \A k \in DOMAIN cells' : (k \in DOMAIN cells /\ cells'[k] = cells[k])
                                \/ (Asking(u) /\ cells'[k] = u.of)
  <2>1. CASE u.kind = "plan" /\ cells' = Append(cells, u.of)
    <3>1. /\ DOMAIN cells' = DOMAIN cells \cup {Len(cells) + 1} /\ cells'[Len(cells) + 1] = u.of
          /\ \A k \in DOMAIN cells : cells'[k] = cells[k]
      BY <1>1, <2>1, AppendIs
    <3>2. QED
      BY <2>1, <3>1 DEF Asking
  <2>2. CASE cells' = <<>>
    BY <2>2
  <2>3. CASE UNCHANGED cells
    BY <2>3
  <2>4. QED
    BY <1>5, <2>1, <2>2, <2>3
<1>7. slot' = slot \/ (Asking(u) /\ slot' = u.of)
  BY <1>5 DEF Asking
<1>8. Newest'
  <2>1. Asking(u) => u.of <= asked
    BY <1>2 DEF Findable, Newest
  <2>2. slot' <= asked' /\ \A k \in DOMAIN cells' : cells'[k] <= asked'
    BY <1>1, <1>6, <1>7, <2>1 DEF Findable, Newest
  <2>3. \A i \in DOMAIN updates' : Asking(updates'[i]) => updates'[i].of <= asked'
    BY <1>1, <1>3 DEF Findable, Newest
  <2>4. QED
    BY <1>1, <2>2, <2>3 DEF Findable, Newest
<1>9. Asking(u) => ~NoneBehind
  BY <1>2 DEF NoneBehind
<1>10. NoneBehind => NoneBehind'
  BY <1>1, <1>3 DEF NoneBehind
<1>11. Asking(u) /\ u.of = asked => NoneBehind'
  <2> SUFFICES ASSUME Asking(u), u.of = asked PROVE NoneBehind'
    OBVIOUS
  <2>1. reqCh = <<>> /\ \A j \in DOMAIN updates : j > 1 => ~Asking(updates[j])
    BY <1>2 DEF Findable, LastComesLast
  <2>2. QED
    BY <1>1, <1>3, <2>1 DEF NoneBehind
<1>12. LastComesLast'
  <2>1. \A i \in DOMAIN reqCh' : reqCh'[i].of = asked' => i = Len(reqCh')
    BY <1>1 DEF Findable, LastComesLast
  <2>2. \A i \in DOMAIN updates' : Asking(updates'[i]) /\ updates'[i].of = asked' =>
          reqCh' = <<>> /\ \A j \in DOMAIN updates' : j > i => ~Asking(updates'[j])
    <3> TAKE i \in DOMAIN updates'
    <3> HAVE Asking(updates'[i]) /\ updates'[i].of = asked'
    <3>1. reqCh = <<>> /\ \A j \in DOMAIN updates : j > i + 1 => ~Asking(updates[j])
      BY <1>1, <1>3 DEF Findable, LastComesLast
    <3>2. \A j \in DOMAIN updates' : j > i => j + 1 > i + 1
      BY <1>3
    <3>3. QED
      BY <1>1, <1>3, <3>1, <3>2
  <2>3. asked # 0 /\ OnScreen(asked)' => OnScreen(asked) \/ (Asking(u) /\ u.of = asked)
    <3>1. CASE u.kind = "plan" /\ cells' = Append(cells, u.of)
      <4>1. cells'[Len(cells')] = u.of /\ Asking(u)
        BY <1>1, <3>1 DEF Asking
      <4>2. QED
        BY <1>1, <1>7, <4>1 DEF OnScreen
    <3>2. CASE cells' = <<>>
      BY <1>1, <1>7, <3>2 DEF OnScreen
    <3>3. CASE UNCHANGED cells
      BY <1>1, <1>7, <3>3 DEF OnScreen
    <3>4. QED
      BY <1>5, <3>1, <3>2, <3>3
  <2>4. asked' # 0 /\ OnScreen(asked)' => NoneBehind'
    BY <1>1, <1>10, <1>11, <2>3 DEF Findable, LastComesLast
  <2>5. \A k \in DOMAIN cells' : cells'[k] = asked' => k = Len(cells')
    <3>1. CASE u.kind = "plan" /\ cells' = Append(cells, u.of)
      <4>1. Asking(u)
        BY <3>1 DEF Asking
      <4>2. ASSUME NEW k \in DOMAIN cells PROVE cells[k] # asked
        <5>1. SUFFICES ASSUME cells[k] = asked PROVE FALSE
          OBVIOUS
        <5>2. k = Len(cells) /\ cells # <<>>
          BY <1>1, <5>1 DEF Findable, LastComesLast
        <5>3. OnScreen(asked)
          BY <5>1, <5>2 DEF OnScreen
        <5>4. asked # 0
          <6>1. 0 \notin Asks
            BY DEF Asks
          <6>2. cells[k] \in Asks
            BY <1>1
          <6>3. QED
            BY <5>1, <6>1, <6>2
        <5>5. QED
          BY <1>9, <4>1, <5>3, <5>4 DEF Findable, LastComesLast
      <4>3. \A k \in DOMAIN cells' : \/ k \in DOMAIN cells /\ cells'[k] = cells[k]
                                     \/ k = Len(cells')
        BY <1>1, <3>1
      <4>4. QED
        BY <1>1, <4>2, <4>3
    <3>2. CASE cells' = <<>>
      BY <3>2
    <3>3. CASE UNCHANGED cells
      BY <1>1, <3>3 DEF Findable, LastComesLast
    <3>4. QED
      BY <1>5, <3>1, <3>2, <3>3
  <2>6. QED
    BY <2>1, <2>2, <2>4, <2>5, Zenon DEF LastComesLast
<1>13. ASSUME NEW i \in DOMAIN updates' \cup {0}, AsksAfter(i + 1)
       PROVE  AsksAfter(i)'
  <2>1. CASE \E j \in DOMAIN reqCh : reqCh[j].of = asked
    BY <1>1, <2>1 DEF AsksAfter
  <2>2. CASE \E j \in DOMAIN updates : j > i + 1 /\ Asking(updates[j]) /\ updates[j].of = asked
    <3>1. PICK j \in DOMAIN updates : j > i + 1 /\ Asking(updates[j]) /\ updates[j].of = asked
      BY <2>2
    <3>2. i \in Nat /\ j \in Nat
      BY <1>1, <1>3
    <3>3. j # 1 /\ j - 1 > i
      BY <3>1, <3>2
    <3>4. j - 1 \in DOMAIN updates' /\ updates'[j - 1] = updates[j]
      BY <1>4, <3>3
    <3>5. QED
      BY <1>1, <3>1, <3>3, <3>4 DEF AsksAfter
  <2>3. QED
    BY <1>13, <2>1, <2>2 DEF AsksAfter
<1>14. ASSUME NEW w \in waiting, w.by # 0, w.id = asked
       PROVE  AsksAfter(0)' \/ OnScreen(asked)'
  <2>1. asked # 0
    <3>1. w.id \in Asks
      BY <1>1
    <3>2. QED
      BY <1>14, <3>1 DEF Asks
  <2>2. (AsksAfter(0) \/ OnScreen(asked)) /\ (u.kind = "reset" => AsksAfter(1))
    BY <1>2, <1>14 DEF Findable, Screened
  <2>3. AsksAfter(0) => AsksAfter(1) \/ (Asking(u) /\ u.of = asked)
    <3>1. \A j \in DOMAIN updates : j = 1 \/ j > 1
      BY <1>1
    <3>2. QED
      BY <1>2, <3>1 DEF AsksAfter
  <2>4. AsksAfter(1) => AsksAfter(0)'
    <3>1. 0 \in DOMAIN updates' \cup {0} /\ 0 + 1 = 1
      OBVIOUS
    <3>2. QED
      BY <1>13, <3>1
  <2>5. Asking(u) /\ u.of = asked => OnScreen(asked)'
    <3>1. u.kind = "plan" => ~(u.kind = "ask") /\ ~(u.kind = "reset")
      OBVIOUS
    <3>2. cells' = Append(cells, u.of) => cells' # <<>> /\ cells'[Len(cells')] = u.of
      BY <1>1
    <3>3. QED
      BY <1>1, <1>5, <3>2 DEF OnScreen, Asking
  <2>6. OnScreen(asked) => ~Asking(u)
    BY <1>9, <2>1 DEF Findable, LastComesLast
  <2>7. OnScreen(asked) /\ ~Asking(u) /\ u.kind # "reset" => OnScreen(asked)'
    BY <1>1, <1>5 DEF OnScreen, Asking
  <2>8. QED
    BY <2>2, <2>3, <2>4, <2>5, <2>6, <2>7
<1>15. ASSUME NEW w \in waiting, w.by # 0, w.id = asked, NEW i \in DOMAIN updates',
              updates'[i].kind = "reset"
       PROVE  AsksAfter(i)'
  <2>1. AsksAfter(i + 1)
    BY <1>3, <1>15 DEF Findable, Screened
  <2>2. QED
    BY <1>13, <2>1
<1>16. Screened'
  BY <1>1, <1>14, <1>15 DEF Screened
<1>17. QED
  BY <1>8, <1>12, <1>16 DEF Findable

\* The prompt answered is the one on the screen: the turn's own, if it is there.
LEMMA AnswersFindable ==
  ASSUME Typed, Findable, Answers \/ Cancels
  PROVE  Findable'
<1>1. /\ UNCHANGED <<asked, reqCh, updates>> /\ cells \in Seq(Asks) /\ slot \in 0..MaxAsks
      /\ waiting \subseteq [id : Asks, by : 0..MaxPrompts, in : Sessions]
      /\ waiting' \subseteq waiting
  BY DEF Answers, Cancels, Answered, restOfHost, Typed, Screen, Registers
<1>2. CASE UNCHANGED <<slot, cells>>
  BY <1>1, <1>2, FindableSame
<1>3. CASE Closes
  <2>1. slot' = slot \/ slot' = 0
    BY <1>3 DEF Closes
  <2>2. \/ slot # 0 /\ slot' = 0 /\ UNCHANGED cells /\ OpenId = slot
        \/ /\ slot = 0 /\ slot' = 0 /\ cells # <<>> /\ OpenId = cells[Len(cells)]
           /\ cells' = SubSeq(cells, 1, Len(cells) - 1)
    BY <1>3 DEF Closes, OpenId
  <2>3. \A k \in DOMAIN cells' : k \in DOMAIN cells /\ cells'[k] = cells[k]
                                 /\ (UNCHANGED cells \/ k # Len(cells))
    BY <1>1, <2>2
  <2>4. Newest'
    <3>1. slot' <= asked'
      <4>1. asked \in Nat
        BY DEF Typed, Registers
      <4>2. QED
        BY <1>1, <2>1, <4>1 DEF Findable, Newest
    <3>2. QED
      BY <1>1, <2>3, <3>1 DEF Findable, Newest
  <2>5. \A k \in DOMAIN cells' : cells'[k] = asked' => k = Len(cells') /\ UNCHANGED cells
    BY <1>1, <2>3 DEF Findable, LastComesLast
  <2>6. asked # 0 /\ OnScreen(asked)' => OnScreen(asked)
    <3>1. cells' # <<>> => Len(cells') \in DOMAIN cells'
      BY <1>1, <2>2
    <3>2. QED
      BY <1>1, <2>2, <2>5, <3>1 DEF OnScreen
  <2>7. LastComesLast'
    <3>1. asked' # 0 /\ OnScreen(asked)' => NoneBehind'
      BY <1>1, <2>6 DEF Findable, LastComesLast, NoneBehind
    <3>2. QED
      BY <1>1, <2>5, <3>1 DEF Findable, LastComesLast
  <2>8. ASSUME NEW w \in waiting', w.id = asked, OnScreen(asked)
        PROVE  OnScreen(asked)'
    <3>1. Answers
      BY <2>8 DEF Cancels
    <3>2. w.id # OpenId
      BY <2>8, <3>1 DEF Answers, Answered
    <3>3. w.id # 0
      BY <1>1, <2>8 DEF Asks
    <3>4. QED
      BY <1>1, <2>2, <2>8, <3>2, <3>3 DEF OnScreen
  <2>9. \A i : AsksAfter(i)' <=> AsksAfter(i)
    BY <1>1 DEF AsksAfter
  <2>10. Screened'
    BY <1>1, <2>8, <2>9 DEF Findable, Screened
  <2>11. QED
    BY <2>4, <2>7, <2>10 DEF Findable
<1>4. QED
  BY <1>2, <1>3 DEF Answers, Cancels

\* A session begins when no turn runs: nothing waits that the new screen could lose.
LEMMA StartOverFindable ==
  ASSUME Typed, OfTheTurn, Findable, StartOver, UNCHANGED appVars
  PROVE  Findable'
<1> DEFINE c == Update("reset", session')
<1>1. /\ updates' = Append(updates, c) /\ UNCHANGED <<asked, reqCh, slot, cells, waiting>>
      /\ serving = 0 /\ updates \in Seq(Stream)
  BY DEF StartOver, Received, appVars, Typed, Queues
<1>2. ~Asking(c)
  BY DEF Asking, Update
<1> HIDE DEF c
<1>3. \A i \in DOMAIN updates' : \/ i \in DOMAIN updates /\ updates'[i] = updates[i]
                                \/ ~Asking(updates'[i])
  BY <1>1, <1>2, AppendIs
<1>4. Newest'
  BY <1>1, <1>3 DEF Findable, Newest, Asking
<1>5. NoneBehind => NoneBehind'
  BY <1>1, <1>3 DEF NoneBehind, Asking
<1>6. LastComesLast'
  BY <1>1, <1>3, <1>5 DEF Findable, LastComesLast, OnScreen, Asking
<1>7. \A w \in waiting' : w.by = 0
  BY <1>1 DEF OfTheTurn
<1>8. Screened'
  BY <1>7 DEF Screened
<1>9. QED
  BY <1>4, <1>6, <1>8 DEF Findable

LEMMA FindableStep ==
  ASSUME HostAssumption, Typed, OfTheTurn, Findable, [Next]_vars
  PROVE  Findable'
<1>1. CASE Outside
  <2>1. CASE Gives \/ Requests \/ Idles
    BY <2>1, FindableSame DEF Gives, Requests, Idles, restOfHost, hostVars
  <2>2. CASE Answers \/ Cancels
    BY <2>2, AnswersFindable
  <2>3. QED
    BY <1>1, <2>1, <2>2 DEF Outside
<1>2. CASE Apply
  BY <1>2, ApplyFindable
<1>3. CASE ApplyLocal \/ Mirror
  BY <1>3, FindableSame DEF ApplyLocal, Mirror, restOfHost, hostVars
<1>4. CASE HostStep /\ UNCHANGED appVars
  <2>1. UNCHANGED <<slot, cells>>
    BY <1>4 DEF appVars
  <2>2. ASSUME NEW i \in DOMAIN spawned, Send(i) PROVE Findable'
    BY <2>1, <2>2, FindableSame DEF Send
  <2>3. CASE Serve \/ Speak \/ EndTurn \/ CommandFails \/ RunErrand
    BY <2>1, <2>3, FindableSame DEF Serve, Speak, EndTurn, CommandFails, RunErrand
  <2>4. CASE ServeFails \/ FailTurn
    <3>1. PICK p : updates' = Append(updates, Update("failed", p))
      BY <2>4 DEF ServeFails, FailTurn
    <3>2. UNCHANGED <<asked, reqCh, waiting>>
      BY <2>4 DEF ServeFails, FailTurn
    <3>3. ~Asking(Update("failed", p)) /\ Update("failed", p).kind # "reset"
      BY DEF Asking, Update
    <3>4. QED
      BY <2>1, <3>1, <3>2, <3>3, FindableMore
  <2>5. ASSUME NEW by \in {0, serving}, NEW kind \in {"ask", "plan"}, Ask(by, kind)
        PROVE  Findable'
    BY <1>4, <2>5, AskFindable
  <2>6. ASSUME NEW i \in DOMAIN owed, Adopt(i) PROVE Findable'
    BY <2>1, <2>6, FindableSame DEF Adopt
  <2>7. CASE StartOver
    BY <1>4, <2>7, StartOverFindable
  <2>8. CASE Publish
    BY <1>4, <2>8, PublishFindable
  <2>9. QED
    BY <1>4, <2>2, <2>3, <2>4, <2>5, <2>6, <2>7, <2>8, HostKinds, Zenon
<1>5. QED
  BY <1>1, <1>2, <1>3, <1>4, StepKinds

LEMMA InitFindable == Init => Findable
<1> SUFFICES ASSUME Init PROVE Findable
  OBVIOUS
<1>1. /\ asked = 0 /\ slot = 0 /\ cells = <<>> /\ reqCh = <<>> /\ updates = <<>> /\ waiting = {}
  BY DEF Init, HostInit
<1>2. DOMAIN <<>> = {}
  OBVIOUS
<1>3. Newest
  BY <1>1, <1>2 DEF Newest
<1>4. LastComesLast
  BY <1>1, <1>2 DEF LastComesLast
<1>5. Screened
  BY <1>1 DEF Screened
<1>6. QED
  BY <1>3, <1>4, <1>5 DEF Findable

\* A turn parked on the prompt raised last can be freed once all has been told.
THEOREM ParkedIsFreed == Spec => []ParkedCanBeFreed
<1>1. Findable => ParkedCanBeFreed
  <2> SUFFICES ASSUME Findable, NEW w \in waiting, Told, w.by # 0, w.id = asked
               PROVE  OnScreen(w.id)
    BY DEF ParkedCanBeFreed
  <2>1. reqCh = <<>> /\ updates = <<>>
    BY DEF Told
  <2>2. ~AsksAfter(0)
    BY <2>1 DEF AsksAfter
  <2>3. QED
    BY <2>2 DEF Findable, Screened
<1>2. Init => OfTheTurn
  BY InitReasoned DEF Reasoned
<1>3. Typed /\ OfTheTurn /\ Findable /\ [Next]_vars => OfTheTurn' /\ Findable'
  BY HostAssumption, OfTheTurnStep, FindableStep
<1>4. QED
  BY <1>1, <1>2, <1>3, InitFindable, AlwaysTyped, PTL DEF Spec

=============================================================================
