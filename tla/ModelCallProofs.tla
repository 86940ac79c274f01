--------------------------- MODULE ModelCallProofs ---------------------------
(***************************************************************************)
(* What holds of a model call, for every vendor's frames in any of the     *)
(* three formats: the reader is told how its stream ended, a reply cut off *)
(* is never taken for an answer, and a step hears the reply it was         *)
(* promised.                                                               *)
(*                                                                         *)
(* The argument is about what is on its way.  A queue is heard rightly     *)
(* after what the reader already has (Hears) when nothing follows its end, *)
(* no call in it begins twice, is added to or ends before it began, or     *)
(* ends with arguments that do not parse.  A decoder keeps its table of    *)
(* calls in step with what will have been heard once the queue is empty:   *)
(* the calls in it are begun and not ended, with the pieces on record that *)
(* the reader will have (OpenCalls).  Each decoder adds to that what its   *)
(* own format needs (ChatAt, MsgsAt, RespAt), and every frame, the end of  *)
(* the stream, a break and every chunk heard keeps it.                     *)
(***************************************************************************)
EXTENDS ModelCall, FunctionTheorems, FiniteSetTheorems, WellFoundedInduction, TLAPS

-----------------------------------------------------------------------------
(* The order of indices *)

Greatest(X) == \E m \in X : \A x \in X : x <= m

Ordered(X, s) ==
  /\ s \in [1..Cardinality(X) -> X]
  /\ \A i, j \in 1..Cardinality(X) : i < j => s[i] < s[j]

\* Of finite sets of numbers that have some property there is one with no smaller.
LEMMA LeastSet ==
  ASSUME NEW T \in SUBSET FiniteSubsetsOf(Nat), T # {}
  PROVE  \E X \in T : \A R \in T : ~(R \subseteq X /\ R # X)
<1>1. \E X \in T : \A R \in T : ~(<<R, X>> \in StrictSubsetOrdering(Nat))
  BY FS_StrictSubsetOrderingWellFounded, WFMin, Zenon
<1>2. QED
  BY <1>1 DEF StrictSubsetOrdering, FiniteSubsetsOf

\* A finite set of numbers that is not empty has a greatest one.
LEMMA SetHasGreatest ==
  ASSUME NEW X \in SUBSET Nat, IsFiniteSet(X), X # {}
  PROVE  Greatest(X)
<1> SUFFICES ASSUME ~Greatest(X) PROVE FALSE
  OBVIOUS
<1> DEFINE T == {R \in FiniteSubsetsOf(Nat) : R # {} /\ ~Greatest(R)}
<1>1. X \in T
  BY DEF FiniteSubsetsOf
<1>2. PICK R \in T : \A Q \in T : ~(Q \subseteq R /\ Q # R)
  <2>1. T \in SUBSET FiniteSubsetsOf(Nat) /\ T # {}
    BY <1>1
  <2> HIDE DEF T
  <2>2. QED
    BY <2>1, LeastSet, Zenon
<1>3. R \in SUBSET Nat /\ IsFiniteSet(R) /\ R # {} /\ ~Greatest(R)
  BY <1>2 DEF FiniteSubsetsOf
<1>4. PICK x \in R : TRUE
  BY <1>3
<1>5. R \ {x} \in SUBSET Nat /\ IsFiniteSet(R \ {x}) /\ R \ {x} # R
  BY <1>3, <1>4, FS_RemoveElement
<1>6. R \ {x} \in FiniteSubsetsOf(Nat)
  BY <1>5 DEF FiniteSubsetsOf
<1>7. R \ {x} = {} \/ Greatest(R \ {x})
  BY <1>2, <1>5, <1>6
<1>8. CASE R \ {x} = {}
  <2>1. \A y \in R : y = x
    BY <1>8
  <2>2. QED
    BY <1>3, <1>4, <2>1 DEF Greatest
<1>9. CASE Greatest(R \ {x})
  <2>1. PICK m \in R \ {x} : \A y \in R \ {x} : y <= m
    BY <1>9 DEF Greatest
  <2>2. x \in Nat /\ m \in Nat /\ m \in R /\ \A y \in R : y = x \/ y <= m
    BY <1>3, <1>4, <2>1
  <2>3. \/ \A y \in R : y <= m
        \/ \A y \in R : y <= x
    BY <1>3, <2>2
  <2>4. QED
    BY <1>3, <1>4, <2>2, <2>3 DEF Greatest
<1>10. QED
  BY <1>7, <1>8, <1>9

\* A finite set of numbers can be put in order.
LEMMA OrderExists ==
  ASSUME NEW X \in SUBSET Nat, IsFiniteSet(X)
  PROVE  \E s : Ordered(X, s)
<1> SUFFICES ASSUME \A s : ~Ordered(X, s) PROVE FALSE
  OBVIOUS
<1> DEFINE T == {R \in FiniteSubsetsOf(Nat) : \A s : ~Ordered(R, s)}
<1>1. X \in T
  BY DEF FiniteSubsetsOf
<1>2. PICK R \in T : \A Q \in T : ~(Q \subseteq R /\ Q # R)
  <2>1. T \in SUBSET FiniteSubsetsOf(Nat) /\ T # {}
    BY <1>1
  <2> HIDE DEF T
  <2>2. QED
    BY <2>1, LeastSet, Zenon
<1>3. R \in SUBSET Nat /\ IsFiniteSet(R) /\ \A s : ~Ordered(R, s)
  BY <1>2 DEF FiniteSubsetsOf
<1>4. R # {}
  <2> SUFFICES ASSUME R = {} PROVE FALSE
    OBVIOUS
  <2>1. Cardinality(R) = 0
    BY FS_EmptySet
  <2>2. Ordered(R, [k \in 1..0 |-> 0])
    BY <2>1 DEF Ordered
  <2>3. QED
    BY <1>3, <2>2
<1>5. PICK m \in R : \A x \in R : x <= m
  BY <1>3, <1>4, SetHasGreatest DEF Greatest
<1>6. /\ R \ {m} \in SUBSET Nat /\ IsFiniteSet(R \ {m}) /\ R \ {m} # R
      /\ Cardinality(R) \in Nat /\ Cardinality(R \ {m}) = Cardinality(R) - 1
  BY <1>3, <1>5, FS_RemoveElement, FS_CardinalityType
<1>7. PICK t : Ordered(R \ {m}, t)
  <2>1. R \ {m} \in FiniteSubsetsOf(Nat)
    BY <1>6 DEF FiniteSubsetsOf
  <2>2. QED
    BY <1>2, <1>6, <2>1
<1> DEFINE n == Cardinality(R)
           s == [k \in 1..n |-> IF k < n THEN t[k] ELSE m]
<1>8. Ordered(R, s)
  <2>1. n \in Nat /\ \A k \in 1..n : k < n => k \in 1..(n - 1)
    BY <1>6
  <2>2. /\ t \in [1..(n - 1) -> R \ {m}]
        /\ \A i, j \in 1..(n - 1) : i < j => t[i] < t[j]
    BY <1>6, <1>7 DEF Ordered
  <2>3. \A k \in 1..n : (k < n => s[k] = t[k] /\ t[k] \in R /\ t[k] # m) /\ (~(k < n) => s[k] = m)
    BY <2>1, <2>2
  <2>4. s \in [1..n -> R]
    BY <1>5, <2>3
  <2>5. ASSUME NEW i \in 1..n, NEW j \in 1..n, i < j PROVE s[i] < s[j]
    <3>1. i < n /\ i \in 1..(n - 1)
      BY <2>1, <2>5
    <3>2. CASE j < n
      BY <2>1, <2>2, <2>3, <2>5, <3>1, <3>2
    <3>3. CASE ~(j < n)
      <4>1. s[i] \in R /\ s[i] # m /\ s[j] = m
        BY <2>3, <3>1, <3>3
      <4>2. s[i] \in Nat /\ m \in Nat /\ s[i] <= m
        BY <1>3, <1>5, <4>1
      <4>3. QED
        BY <4>1, <4>2
    <3>4. QED
      BY <3>2, <3>3
  <2>6. QED
    BY <2>4, <2>5 DEF Ordered
<1>9. QED
  BY <1>3, <1>8

\* A set of indices is gone through from the first to the last, each of them once.
LEMMA OrderedIs ==
  ASSUME NEW X \in SUBSET Nat, IsFiniteSet(X), NEW s, Ordered(X, s)
  PROVE  /\ Cardinality(X) \in Nat
         /\ s \in [1..Cardinality(X) -> X]
         /\ \A i, j \in 1..Cardinality(X) : i # j => s[i] # s[j]
         /\ \A x \in X : \E k \in 1..Cardinality(X) : s[k] = x
<1> DEFINE n == Cardinality(X)
           R == {s[k] : k \in 1..n}
<1>1. n \in Nat /\ s \in [1..n -> X]
  BY FS_CardinalityType DEF Ordered
<1>2. ASSUME NEW i \in 1..n, NEW j \in 1..n, i # j PROVE s[i] # s[j]
  <2>1. s[i] \in Nat /\ s[j] \in Nat
    BY <1>1
  <2>2. CASE i < j
    BY <2>1, <2>2 DEF Ordered
  <2>3. CASE j < i
    BY <2>1, <2>3 DEF Ordered
  <2>4. QED
    BY <1>1, <1>2, <2>2, <2>3
<1>3. s \in Bijection(1..n, R)
  BY <1>1, <1>2 DEF Bijection, Injection, Surjection, IsInjective
<1>4. IsFiniteSet(1..n) /\ Cardinality(1..n) = n
  BY <1>1, FS_Interval
<1>5. Cardinality(R) = n
  BY <1>3, <1>4, FS_Bijection DEF ExistsBijection
<1>6. R \in SUBSET X
  BY <1>1
<1>7. X = R
  BY <1>5, <1>6, FS_Subset
<1>8. QED
  BY <1>1, <1>2, <1>7

-----------------------------------------------------------------------------
(* What is on its way to the reader *)

OfCall == {"start", "args", "end"}
Final  == {"done", "error"}
Kinds  == OfCall \cup Final \cup {"shown", "signature", "hosted", "usage"}
Whys   == {"", "Protocol", "Transient", "Unauthorized", "RateLimited", "InvalidRequest",
           "UnknownModel", "Refusal", "MaxTokens", "ToolUse", "EndTurn"} \cup Stops

Chunks == [kind : OfCall, id : CallIds, why : Whys]
          \cup [kind : Kinds \ OfCall, id : {NoId}, why : Whys]

Asms == Seq([id : CallIds, pieces : Nat])

\* What may come before what: nothing after the end of the reply, usage once, and of
\* a call its start, one fragment at most, and its end, in this order.
Before(c, d) ==
  /\ c.kind \notin Final
  /\ c.kind = "usage" => d.kind # "usage"
  /\ c.id = d.id /\ c.id # NoId =>
       \/ c.kind = "start" /\ d.kind \in {"args", "end"}
       \/ c.kind = "args" /\ d.kind = "end"

Orderly(q) == \A i, j \in DOMAIN q : i < j => Before(q[i], q[j])

\* The calls that chunks of a kind are about, and those the assembler has.
Of(q, kind) == {q[k].id : k \in {j \in DOMAIN q : q[j].kind = kind}}

Ids(a) == {a[k].id : k \in 1..Len(a)}

Distinct(a) == \A i, j \in 1..Len(a) : a[i].id = a[j].id => i = j

Held(a, c) == IF c \in Ids(a) THEN a[CHOOSE k \in 1..Len(a) : a[k].id = c].pieces ELSE 0

\* What will have been heard once the queue is empty: of `a`, the calls of the assembler,
\* `e`, those that ended, and `t`, how often usage was told.
AllBegun(a, q) == Ids(a) \cup Of(q, "start")
AllEnded(e, q) == e \cup Of(q, "end")
Count(a, q, c) == Held(a, c) + (IF c \in Of(q, "args") THEN 1 ELSE 0)
Told(t, q)     == t # 0 \/ Of(q, "usage") # {}
Over(q)        == \E k \in DOMAIN q : q[k].kind \in Final

\* The queue holds nothing a reader with `a`, `e` and `t` may not hear.
Hears(a, e, t, q) ==
  /\ a \in Asms /\ Distinct(a)
  /\ e \subseteq Ids(a)
  /\ t \in Nat
  /\ q \in Seq(Chunks) /\ Orderly(q)
  /\ Of(q, "start") \cap Ids(a) = {}
  /\ Of(q, "args") \cup Of(q, "end") \subseteq AllBegun(a, q) \ e
  /\ \A c \in Of(q, "end") : S!Parses(Count(a, q, c))
  /\ Of(q, "usage") # {} => t = 0

\* What a sequence of members of a set is.
LEMMA SeqIs ==
  ASSUME NEW X, NEW s \in Seq(X)
  PROVE  Len(s) \in Nat /\ DOMAIN s = 1..Len(s) /\ \A k \in 1..Len(s) : s[k] \in X
OBVIOUS

\* A chunk has the call it is about.
LEMMA ChunkIs ==
  ASSUME NoId \notin CallIds, NEW c \in Chunks
  PROVE  /\ c.kind \in Kinds
         /\ c.kind \in OfCall => c.id \in CallIds /\ c.id # NoId
         /\ c.kind \notin OfCall => c.id = NoId
BY DEF Chunks, Kinds

\* A chunk of a kind that has a call, and one of a kind that has none.
LEMMA ChunkMade ==
  ASSUME NEW why \in Whys
  PROVE  /\ \A kind \in OfCall : \A id \in CallIds :
              [kind |-> kind, id |-> id, why |-> why] \in Chunks
         /\ \A kind \in Kinds \ OfCall :
              [kind |-> kind, id |-> NoId, why |-> why] \in Chunks
BY DEF Chunks

-----------------------------------------------------------------------------
(* The assembler *)

\* What the assembler has of a call is what it has at its place.
LEMMA HeldIs ==
  ASSUME NEW a \in Asms, Distinct(a), NEW k \in 1..Len(a)
  PROVE  Held(a, a[k].id) = a[k].pieces /\ a[k].id \in Ids(a)
<1>1. a[k].id \in Ids(a)
  BY DEF Ids
<1> DEFINE m == CHOOSE j \in 1..Len(a) : a[j].id = a[k].id
<1>2. m \in 1..Len(a) /\ a[m].id = a[k].id
  OBVIOUS
<1>3. m = k
  BY <1>2 DEF Distinct
<1>4. QED
  BY <1>1, <1>3 DEF Held

\* The assembler has calls of the vendor, and nothing of any other.
LEMMA HeldTyped ==
  ASSUME NEW a \in Asms, Distinct(a)
  PROVE  /\ \A c : Held(a, c) \in Nat
         /\ \A c : c \notin Ids(a) => Held(a, c) = 0
         /\ Ids(a) \subseteq CallIds
<1>1. \A k \in 1..Len(a) : a[k] \in [id : CallIds, pieces : Nat]
  BY SeqIs, Zenon DEF Asms
<1>2. \A c \in Ids(a) : \E k \in 1..Len(a) : c = a[k].id
  BY DEF Ids
<1>3. \A c \in Ids(a) : Held(a, c) \in Nat /\ c \in CallIds
  BY <1>1, <1>2, HeldIs
<1>4. \A c : c \notin Ids(a) => Held(a, c) = 0
  BY DEF Held
<1>5. QED
  BY <1>3, <1>4

\* A call that begins has nothing yet.
LEMMA AsmBegins ==
  ASSUME NEW a \in Asms, Distinct(a), NEW c \in CallIds, c \notin Ids(a)
  PROVE  LET b == Append(a, [id |-> c, pieces |-> 0])
         IN  /\ b \in Asms /\ Distinct(b) /\ Ids(b) = Ids(a) \cup {c}
             /\ \A d : Held(b, d) = Held(a, d)
<1> DEFINE b == Append(a, [id |-> c, pieces |-> 0])
<1>1. /\ b \in Asms /\ Len(a) \in Nat /\ Len(b) = Len(a) + 1
      /\ b[Len(a) + 1] = [id |-> c, pieces |-> 0]
      /\ \A k \in 1..Len(a) : b[k] = a[k]
  BY DEF Asms
<1>2. 1..Len(b) = 1..Len(a) \cup {Len(a) + 1}
  BY <1>1
<1>3. \A k \in 1..Len(a) : a[k].id # c
  BY DEF Ids
<1> HIDE DEF b
<1>4. Distinct(b)
  BY <1>1, <1>2, <1>3 DEF Distinct
<1>5. Ids(b) = Ids(a) \cup {c}
  <2>1. \A d : d \in Ids(b) <=> \E k \in 1..Len(b) : b[k].id = d
    BY DEF Ids
  <2>2. \A d : d \in Ids(a) <=> \E k \in 1..Len(a) : a[k].id = d
    BY DEF Ids
  <2>3. \A d : (\E k \in 1..Len(b) : b[k].id = d) <=> d = c \/ \E k \in 1..Len(a) : a[k].id = d
    BY <1>1, <1>2
  <2>4. QED
    BY <2>1, <2>2, <2>3
<1>6. ASSUME NEW d PROVE Held(b, d) = Held(a, d)
  <2>1. CASE d = c
    <3>1. Len(b) \in 1..Len(b) /\ b[Len(b)].id = c /\ b[Len(b)].pieces = 0
      BY <1>1
    <3>2. Held(b, c) = 0
      BY <1>1, <1>4, <3>1, HeldIs
    <3>3. QED
      BY <2>1, <3>2 DEF Held
  <2>2. CASE d \in Ids(a)
    <3>1. PICK k \in 1..Len(a) : a[k].id = d
      BY <2>2 DEF Ids
    <3>2. k \in 1..Len(b) /\ b[k] = a[k]
      BY <1>1, <1>2
    <3>3. QED
      BY <1>1, <1>4, <3>1, <3>2, HeldIs
  <2>3. CASE d \notin Ids(a) /\ d # c
    BY <1>5, <2>3 DEF Held
  <2>4. QED
    BY <2>1, <2>2, <2>3
<1>7. QED
  BY <1>1, <1>4, <1>5, <1>6 DEF b

\* A fragment is added to its call and to no other.
LEMMA AsmAdds ==
  ASSUME NEW a \in Asms, Distinct(a), NEW c \in Ids(a)
  PROVE  LET b == [k \in 1..Len(a) |->
                     IF a[k].id = c THEN [a[k] EXCEPT !.pieces = @ + 1] ELSE a[k]]
         IN  /\ b \in Asms /\ Distinct(b) /\ Ids(b) = Ids(a)
             /\ Held(b, c) = Held(a, c) + 1
             /\ \A d : d # c => Held(b, d) = Held(a, d)
<1> DEFINE b == [k \in 1..Len(a) |->
                   IF a[k].id = c THEN [a[k] EXCEPT !.pieces = @ + 1] ELSE a[k]]
<1>1. Len(a) \in Nat /\ \A k \in 1..Len(a) : a[k] \in [id : CallIds, pieces : Nat]
  BY SeqIs, Zenon DEF Asms
<1>2. \A k \in 1..Len(a) : /\ b[k] \in [id : CallIds, pieces : Nat]
                          /\ b[k].id = a[k].id
                          /\ b[k].pieces = IF a[k].id = c THEN a[k].pieces + 1 ELSE a[k].pieces
  BY <1>1
<1>3. b \in Asms /\ Len(b) = Len(a)
  BY <1>1, <1>2 DEF Asms
<1> HIDE DEF b
<1>4. Distinct(b)
  BY <1>2, <1>3 DEF Distinct
<1>5. Ids(b) = Ids(a)
  BY <1>2, <1>3 DEF Ids
<1>6. \A k \in 1..Len(a) : Held(a, a[k].id) = a[k].pieces /\ Held(b, b[k].id) = b[k].pieces
  BY <1>3, <1>4, HeldIs
<1>7. PICK k \in 1..Len(a) : a[k].id = c
  BY DEF Ids
<1>8. Held(b, c) = Held(a, c) + 1
  BY <1>2, <1>6, <1>7
<1>9. ASSUME NEW d, d # c PROVE Held(b, d) = Held(a, d)
  <2>1. CASE d \in Ids(a)
    <3>1. PICK j \in 1..Len(a) : a[j].id = d
      BY <2>1 DEF Ids
    <3>2. QED
      BY <1>2, <1>6, <1>9, <3>1
  <2>2. CASE d \notin Ids(a)
    BY <1>5, <2>2 DEF Held
  <2>3. QED
    BY <2>1, <2>2
<1>10. QED
  BY <1>3, <1>4, <1>5, <1>8, <1>9 DEF b

-----------------------------------------------------------------------------
(* A chunk that comes, and one that is heard *)

\* A call is one a kind of chunk is about when such a chunk names it.
LEMMA OfIs ==
  ASSUME NEW q, NEW kind
  PROVE  \A c : c \in Of(q, kind) <=> \E j \in DOMAIN q : q[j].kind = kind /\ q[j].id = c
BY DEF Of

\* An empty queue is about no call.
LEMMA OfEmpty == \A kind : Of(<<>>, kind) = {}
BY DEF Of

\* Where the old elements and the new one are.
LEMMA AppendIs ==
  ASSUME NEW X, NEW q \in Seq(X), NEW c
  PROVE  /\ Len(q) \in Nat /\ DOMAIN q = 1..Len(q)
         /\ DOMAIN Append(q, c) = DOMAIN q \cup {Len(q) + 1} /\ Len(q) + 1 \notin DOMAIN q
         /\ Append(q, c)[Len(q) + 1] = c
         /\ \A i \in DOMAIN q : Append(q, c)[i] = q[i] /\ i \in Nat /\ i < Len(q) + 1
OBVIOUS

\* Where the head and the rest are.
LEMMA TailIs ==
  ASSUME NEW X, NEW q \in Seq(X), q # <<>>
  PROVE  /\ Tail(q) \in Seq(X) /\ Head(q) \in X /\ 1 \in DOMAIN q /\ q[1] = Head(q)
         /\ \A i \in DOMAIN Tail(q) : i \in Nat /\ i + 1 \in DOMAIN q /\ Tail(q)[i] = q[i + 1] /\ 1 < i + 1
         /\ \A i \in DOMAIN q : i = 1 \/ (i - 1 \in DOMAIN Tail(q) /\ Tail(q)[i - 1] = q[i])
OBVIOUS

\* What a chunk at the end adds to the calls a kind is about.
LEMMA OfAppend ==
  ASSUME NEW X, NEW q \in Seq(X), NEW c, NEW kind
  PROVE  Of(Append(q, c), kind) = Of(q, kind) \cup (IF c.kind = kind THEN {c.id} ELSE {})
<1> DEFINE r == Append(q, c)
           n == Len(q) + 1
<1>1. /\ DOMAIN r = DOMAIN q \cup {n} /\ r[n] = c
      /\ \A i \in DOMAIN q : r[i] = q[i]
  BY AppendIs
<1> HIDE DEF r, n
<1>2. \A d : d \in Of(r, kind) <=> d \in Of(q, kind) \/ (c.kind = kind /\ c.id = d)
  <2>1. ASSUME NEW d, d \in Of(r, kind) PROVE d \in Of(q, kind) \/ (c.kind = kind /\ c.id = d)
    BY <1>1, <2>1, OfIs
  <2>2. ASSUME NEW d, d \in Of(q, kind) \/ (c.kind = kind /\ c.id = d) PROVE d \in Of(r, kind)
    BY <1>1, <2>2, OfIs
  <2>3. QED
    BY <2>1, <2>2
<1>3. QED
  BY <1>2 DEF r

\* What the chunk at the head was among the calls a kind is about.
LEMMA OfTail ==
  ASSUME NEW X, NEW q \in Seq(X), q # <<>>, NEW kind
  PROVE  Of(q, kind) = Of(Tail(q), kind) \cup (IF Head(q).kind = kind THEN {Head(q).id} ELSE {})
<1> DEFINE r == Tail(q)
           h == Head(q)
<1>1. /\ 1 \in DOMAIN q /\ q[1] = h
      /\ \A i \in DOMAIN r : i + 1 \in DOMAIN q /\ r[i] = q[i + 1]
      /\ \A i \in DOMAIN q : i = 1 \/ (i - 1 \in DOMAIN r /\ r[i - 1] = q[i])
  BY TailIs
<1> HIDE DEF r, h
<1>2. ASSUME NEW d, d \in Of(q, kind) PROVE d \in Of(r, kind) \/ (h.kind = kind /\ h.id = d)
  BY <1>1, <1>2, OfIs
<1>3. ASSUME NEW d, d \in Of(r, kind) \/ (h.kind = kind /\ h.id = d) PROVE d \in Of(q, kind)
  BY <1>1, <1>3, OfIs
<1>4. \A d : d \in Of(q, kind) <=> d \in Of(r, kind) \/ (h.kind = kind /\ h.id = d)
  BY <1>2, <1>3
<1>5. QED
  BY <1>4 DEF r, h

\* A queue is over when it was, or when what came ends it.
LEMMA OverAppend ==
  ASSUME NEW X, NEW q \in Seq(X), NEW c
  PROVE  Over(Append(q, c)) <=> Over(q) \/ c.kind \in Final
<1> DEFINE r == Append(q, c)
           n == Len(q) + 1
<1>1. /\ DOMAIN r = DOMAIN q \cup {n} /\ r[n] = c
      /\ \A i \in DOMAIN q : r[i] = q[i]
  BY AppendIs
<1> HIDE DEF r, n
<1>2. Over(r) <=> Over(q) \/ c.kind \in Final
  BY <1>1, Zenon DEF Over
<1>3. QED
  BY <1>2 DEF r

\* A queue is over when the rest is, or when its head ends it.
LEMMA OverTail ==
  ASSUME NEW X, NEW q \in Seq(X), q # <<>>
  PROVE  Over(q) <=> Over(Tail(q)) \/ Head(q).kind \in Final
<1> DEFINE r == Tail(q)
           h == Head(q)
<1>1. /\ 1 \in DOMAIN q /\ q[1] = h
      /\ \A i \in DOMAIN r : i + 1 \in DOMAIN q /\ r[i] = q[i + 1]
      /\ \A i \in DOMAIN q : i = 1 \/ (i - 1 \in DOMAIN r /\ r[i - 1] = q[i])
  BY TailIs
<1> HIDE DEF r, h
<1>2. Over(q) => Over(r) \/ h.kind \in Final
  BY <1>1 DEF Over
<1>3. Over(r) \/ h.kind \in Final => Over(q)
  BY <1>1 DEF Over
<1>4. QED
  BY <1>2, <1>3 DEF r, h

\* A queue stays in order when all of it may come before what came.
LEMMA OrderlyAppend ==
  ASSUME NEW q \in Seq(Chunks), NEW c \in Chunks, Orderly(q), \A i \in DOMAIN q : Before(q[i], c)
  PROVE  Orderly(Append(q, c)) /\ Append(q, c) \in Seq(Chunks)
<1>1. Append(q, c) \in Seq(Chunks)
  OBVIOUS
<1>2. ASSUME NEW i \in DOMAIN Append(q, c), NEW j \in DOMAIN Append(q, c), i < j
      PROVE  Before(Append(q, c)[i], Append(q, c)[j])
  <2>1. i \in DOMAIN q
    BY <1>2, AppendIs
  <2>2. CASE j \in DOMAIN q
    BY <1>2, <2>1, <2>2, AppendIs DEF Orderly
  <2>3. CASE j = Len(q) + 1
    BY <2>1, <2>3, AppendIs
  <2>4. QED
    BY <2>2, <2>3, AppendIs
<1>3. QED
  BY <1>1, <1>2 DEF Orderly

\* The rest of a queue in order is in order, and its head may come before all
\* of it.
LEMMA OrderlyTail ==
  ASSUME NEW q \in Seq(Chunks), q # <<>>, Orderly(q)
  PROVE  /\ Tail(q) \in Seq(Chunks) /\ Orderly(Tail(q)) /\ Head(q) \in Chunks
         /\ \A i \in DOMAIN Tail(q) : Before(Head(q), Tail(q)[i])
<1>1. \A i \in DOMAIN Tail(q) : i + 1 \in DOMAIN q /\ Tail(q)[i] = q[i + 1] /\ i \in Nat
  BY TailIs
<1>2. \A i \in DOMAIN Tail(q) : Before(Head(q), Tail(q)[i])
  BY <1>1, TailIs DEF Orderly
<1>3. ASSUME NEW i \in DOMAIN Tail(q), NEW j \in DOMAIN Tail(q), i < j
      PROVE  Before(Tail(q)[i], Tail(q)[j])
  BY <1>1, <1>3 DEF Orderly
<1>4. QED
  BY <1>2, <1>3, TailIs DEF Orderly

\* What may come next for a reader who will have heard the queue.
MayCome(a, e, t, q, c) ==
  /\ c \in Chunks /\ ~Over(q)
  /\ c.kind = "start" => c.id \notin AllBegun(a, q)
  /\ c.kind = "args" => c.id \in AllBegun(a, q) \ AllEnded(e, q) /\ c.id \notin Of(q, "args")
  /\ c.kind = "end" => c.id \in AllBegun(a, q) \ AllEnded(e, q) /\ S!Parses(Count(a, q, c.id))
  /\ c.kind = "usage" => ~Told(t, q)

\* What may come next can be heard after all the rest.
LEMMA Comes ==
  ASSUME NoId \notin CallIds, NEW a, NEW e, NEW t, NEW q, NEW c,
         Hears(a, e, t, q), MayCome(a, e, t, q, c)
  PROVE  Hears(a, e, t, Append(q, c))
<1>1. /\ q \in Seq(Chunks) /\ Orderly(q) /\ c \in Chunks
      /\ \A i \in DOMAIN q : q[i] \in Chunks
  BY DEF Hears, MayCome
<1>2. Of(q, "start") \subseteq AllBegun(a, q) /\ Of(q, "args") \cup Of(q, "end") \subseteq AllBegun(a, q)
  BY DEF Hears, AllBegun
<1>3. ASSUME NEW i \in DOMAIN q PROVE Before(q[i], c)
  <2>1. q[i].kind \notin Final /\ q[i].id \in Of(q, q[i].kind)
    BY OfIs DEF MayCome, Over
  <2>2. c.kind = "usage" => q[i].kind # "usage"
    BY <2>1 DEF MayCome, Told
  <2>3. ASSUME q[i].id = c.id, c.id # NoId
        PROVE  \/ q[i].kind = "start" /\ c.kind \in {"args", "end"}
               \/ q[i].kind = "args" /\ c.kind = "end"
    <3>1. q[i].kind \in OfCall /\ c.kind \in OfCall
      BY <1>1, <2>3, ChunkIs
    <3>2. c.id \in Of(q, q[i].kind)
      BY <2>1, <2>3
    <3>3. c.kind # "start"
      BY <1>2, <3>1, <3>2 DEF MayCome, OfCall
    <3>4. c.kind = "args" => q[i].kind = "start"
      BY <3>1, <3>2 DEF MayCome, OfCall, AllEnded
    <3>5. c.kind = "end" => q[i].kind \in {"start", "args"}
      BY <3>1, <3>2 DEF MayCome, OfCall, AllEnded
    <3>6. QED
      BY <3>1, <3>3, <3>4, <3>5 DEF OfCall
  <2>4. QED
    BY <2>1, <2>2, <2>3 DEF Before
<1>4. Orderly(Append(q, c)) /\ Append(q, c) \in Seq(Chunks)
  BY <1>1, <1>3, OrderlyAppend
<1> DEFINE r == Append(q, c)
<1>5. \A kind : Of(r, kind) = Of(q, kind) \cup (IF c.kind = kind THEN {c.id} ELSE {})
  BY <1>1, OfAppend
<1> HIDE DEF r
<1>6. Of(r, "start") \cap Ids(a) = {}
  BY <1>5 DEF Hears, MayCome, AllBegun
<1>7. Of(r, "args") \cup Of(r, "end") \subseteq AllBegun(a, r) \ e
  BY <1>5 DEF Hears, MayCome, AllBegun, AllEnded
<1>8. ASSUME NEW d \in Of(r, "end") PROVE S!Parses(Count(a, r, d))
  <2>1. CASE c.kind = "end" /\ d = c.id
    <3>1. Of(r, "args") = Of(q, "args")
      BY <1>5, <2>1
    <3>2. QED
      BY <2>1, <3>1 DEF MayCome, Count
  <2>2. CASE d \in Of(q, "end")
    <3>1. d \in Of(r, "args") <=> d \in Of(q, "args")
      BY <1>5, <2>2 DEF MayCome, AllEnded
    <3>2. QED
      BY <2>2, <3>1 DEF Hears, Count
  <2>3. QED
    BY <1>5, <1>8, <2>1, <2>2
<1>9. Of(r, "usage") # {} => t = 0
  BY <1>5 DEF Hears, MayCome, Told
<1>10. QED
  BY <1>4, <1>6, <1>7, <1>8, <1>9 DEF Hears, r

\* The first chunk of a queue that may be heard is heard rightly, and leaves `r`.
First(a, e, t, q, h, r) ==
  /\ h \in Chunks /\ r \in Seq(Chunks) /\ Orderly(r)
  /\ \A kind : Of(q, kind) = Of(r, kind) \cup (IF h.kind = kind THEN {h.id} ELSE {})
  /\ h.kind \in OfCall => h.id \in CallIds
  /\ h.kind = "start" => h.id \notin Ids(a) \cup Of(r, "start")
  /\ h.kind = "args" => /\ h.id \in Ids(a) \ e
                        /\ h.id \notin Of(r, "start") \cup Of(r, "args")
  /\ h.kind = "end" => /\ h.id \in Ids(a) \ e /\ S!Parses(Held(a, h.id))
                       /\ h.id \notin Of(r, "start") \cup Of(r, "args") \cup Of(r, "end")
  /\ h.kind = "usage" => t = 0 /\ Of(r, "usage") = {}
  /\ h.kind \in Final => r = <<>>

\* The head of a queue that may be heard is heard rightly.
LEMMA HeadIs ==
  ASSUME NoId \notin CallIds, NEW a, NEW e, NEW t, NEW q, Hears(a, e, t, q), q # <<>>
  PROVE  First(a, e, t, q, Head(q), Tail(q))
<1> DEFINE h == Head(q)
           r == Tail(q)
<1>1. /\ h \in Chunks /\ r \in Seq(Chunks) /\ Orderly(r)
      /\ \A i \in DOMAIN r : Before(h, r[i])
  BY OrderlyTail DEF Hears
<1>2. \A kind : Of(q, kind) = Of(r, kind) \cup (IF h.kind = kind THEN {h.id} ELSE {})
  BY OfTail DEF Hears
<1>3. h.kind \in Final => r = <<>>
  <2>1. h.kind \in Final => \A i \in DOMAIN r : FALSE
    BY <1>1 DEF Before
  <2>2. (\A i \in DOMAIN r : FALSE) => r = <<>>
    BY <1>1
  <2>3. QED
    BY <2>1, <2>2
<1> HIDE DEF h, r
<1>4. h.kind \in OfCall => h.id \in CallIds /\ h.id # NoId
  BY <1>1, ChunkIs
<1>5. ASSUME NEW kind, h.kind \in OfCall, h.id \in Of(r, kind)
      PROVE  \/ h.kind = "start" /\ kind \in {"args", "end"}
             \/ h.kind = "args" /\ kind = "end"
  <2>1. PICK i \in DOMAIN r : r[i].kind = kind /\ r[i].id = h.id
    BY <1>5, OfIs
  <2>2. QED
    BY <1>1, <1>4, <1>5, <2>1 DEF Before
<1>6. h.kind = "usage" => Of(r, "usage") = {}
  <2>1. h.kind = "usage" => \A i \in DOMAIN r : r[i].kind # "usage"
    BY <1>1 DEF Before
  <2>2. QED
    BY <2>1 DEF Of
<1>7. h.kind = "start" => h.id \notin Ids(a) \cup Of(r, "start")
  BY <1>2, <1>5 DEF Hears, OfCall
<1>8. h.kind \in {"args", "end"} =>
        h.id \in Ids(a) \ e /\ h.id \notin Of(r, "start") \cup Of(r, "args")
  BY <1>2, <1>5 DEF Hears, OfCall, AllBegun
<1>9. h.kind = "end" => S!Parses(Held(a, h.id)) /\ h.id \notin Of(r, "end")
  <2> SUFFICES ASSUME h.kind = "end" PROVE S!Parses(Held(a, h.id)) /\ h.id \notin Of(r, "end")
    OBVIOUS
  <2>1. h.id \in Of(q, "end") /\ h.id \notin Of(q, "args")
    BY <1>2, <1>8
  <2>2. Count(a, q, h.id) = Held(a, h.id) + 0 /\ Held(a, h.id) \in Nat
    BY <2>1, HeldTyped DEF Count, Hears
  <2>3. S!Parses(Count(a, q, h.id))
    BY <2>1 DEF Hears
  <2>4. h.id \notin Of(r, "end")
    BY <1>5 DEF OfCall
  <2>5. QED
    BY <2>2, <2>3, <2>4
<1>10. h.kind = "usage" => t = 0
  BY <1>2 DEF Hears
<1>11. QED
  BY <1>1, <1>2, <1>3, <1>4, <1>6, <1>7, <1>8, <1>9, <1>10 DEF h, r, First

\* What a chunk makes of the calls, of those that ended, and of the usage told.
Hearing(h, a, e, t, b, f, u) ==
  /\ b = IF h.kind = "start" THEN Append(a, [id |-> h.id, pieces |-> 0])
         ELSE IF h.kind = "args"
         THEN [k \in 1..Len(a) |->
                 IF a[k].id = h.id THEN [a[k] EXCEPT !.pieces = @ + 1] ELSE a[k]]
         ELSE a
  /\ f = IF h.kind = "end" THEN e \cup {h.id} ELSE e
  /\ u = IF h.kind = "usage" THEN t + 1 ELSE t

\* What will have been heard in the end is what would have been anyway.
LEMMA IsHeard ==
  ASSUME NoId \notin CallIds, NEW a, NEW e, NEW t, NEW q, Hears(a, e, t, q), q # <<>>,
         NEW b, NEW f, NEW u, Hearing(Head(q), a, e, t, b, f, u)
  PROVE  /\ Hears(b, f, u, Tail(q))
         /\ AllBegun(b, Tail(q)) = AllBegun(a, q)
         /\ AllEnded(f, Tail(q)) = AllEnded(e, q)
         /\ \A c : Count(b, Tail(q), c) = Count(a, q, c)
         /\ Told(u, Tail(q)) <=> Told(t, q)
<1> DEFINE h == Head(q)
           r == Tail(q)
<1>0. First(a, e, t, q, h, r)
  BY HeadIs, Zenon
<1>2. Hearing(h, a, e, t, b, f, u)
  OBVIOUS
<1> HIDE DEF h, r
<1>1. /\ h \in Chunks /\ r \in Seq(Chunks) /\ Orderly(r)
      /\ \A kind : Of(q, kind) = Of(r, kind) \cup (IF h.kind = kind THEN {h.id} ELSE {})
      /\ h.kind \in OfCall => h.id \in CallIds
      /\ h.kind = "start" => h.id \notin Ids(a) \cup Of(r, "start")
      /\ h.kind = "args" => /\ h.id \in Ids(a) \ e
                            /\ h.id \notin Of(r, "start") \cup Of(r, "args")
      /\ h.kind = "end" => /\ h.id \in Ids(a) \ e /\ S!Parses(Held(a, h.id))
                           /\ h.id \notin Of(r, "start") \cup Of(r, "args") \cup Of(r, "end")
      /\ h.kind = "usage" => t = 0 /\ Of(r, "usage") = {}
  BY <1>0 DEF First
<1>3. /\ a \in Asms /\ Distinct(a) /\ e \subseteq Ids(a) /\ t \in Nat
      /\ \A c : Held(a, c) \in Nat
  BY HeldTyped DEF Hears
<1>4. /\ b \in Asms /\ Distinct(b)
      /\ Ids(b) = Ids(a) \cup (IF h.kind = "start" THEN {h.id} ELSE {})
      /\ \A c : Held(b, c) = IF h.kind = "args" /\ c = h.id THEN Held(a, c) + 1 ELSE Held(a, c)
  <2>1. CASE h.kind = "start"
    <3>1. h.id \in CallIds /\ h.id \notin Ids(a)
      BY <1>1, <2>1 DEF OfCall
    <3>2. b = Append(a, [id |-> h.id, pieces |-> 0])
      BY <1>2, <2>1 DEF Hearing
    <3>3. /\ b \in Asms /\ Distinct(b) /\ Ids(b) = Ids(a) \cup {h.id}
          /\ \A d : Held(b, d) = Held(a, d)
      BY <1>3, <3>1, <3>2, AsmBegins, Zenon
    <3>4. QED
      BY <2>1, <3>3
  <2>2. CASE h.kind = "args"
    <3>1. h.id \in Ids(a)
      BY <1>1, <2>2
    <3>2. b = [k \in 1..Len(a) |->
                 IF a[k].id = h.id THEN [a[k] EXCEPT !.pieces = @ + 1] ELSE a[k]]
      BY <1>2, <2>2 DEF Hearing
    <3>3. /\ b \in Asms /\ Distinct(b) /\ Ids(b) = Ids(a)
          /\ Held(b, h.id) = Held(a, h.id) + 1
          /\ \A d : d # h.id => Held(b, d) = Held(a, d)
      BY <1>3, <3>1, <3>2, AsmAdds, Zenon
    <3>4. QED
      BY <2>2, <3>3
  <2>3. CASE h.kind \notin {"start", "args"}
    BY <1>2, <1>3, <2>3 DEF Hearing
  <2>4. QED
    BY <2>1, <2>2, <2>3
<1>5. f = (IF h.kind = "end" THEN e \cup {h.id} ELSE e) /\ u = (IF h.kind = "usage" THEN t + 1 ELSE t)
  BY <1>2 DEF Hearing
<1>6. AllBegun(b, r) = AllBegun(a, q)
  BY <1>1, <1>4 DEF AllBegun
<1>7. AllEnded(f, r) = AllEnded(e, q)
  BY <1>1, <1>5 DEF AllEnded
<1>8. ASSUME NEW c PROVE Count(b, r, c) = Count(a, q, c)
  <2>1. CASE h.kind = "args" /\ c = h.id
    <3>1. c \in Of(q, "args") /\ c \notin Of(r, "args") /\ Held(b, c) = Held(a, c) + 1
      BY <1>1, <1>4, <2>1
    <3>2. QED
      BY <1>3, <3>1 DEF Count
  <2>2. CASE ~(h.kind = "args" /\ c = h.id)
    <3>1. (c \in Of(q, "args") <=> c \in Of(r, "args")) /\ Held(b, c) = Held(a, c)
      BY <1>1, <1>4, <2>2
    <3>2. QED
      BY <3>1 DEF Count
  <2>3. QED
    BY <2>1, <2>2
<1>9. Told(u, r) <=> Told(t, q)
  BY <1>1, <1>3, <1>5 DEF Told
<1>10. Hears(b, f, u, r)
  <2>1. f \subseteq Ids(b) /\ u \in Nat
    BY <1>1, <1>3, <1>4, <1>5
  <2>2. Of(r, "start") \cap Ids(b) = {}
    BY <1>1, <1>4 DEF Hears
  <2>3. Of(r, "args") \cup Of(r, "end") \subseteq AllBegun(b, r) \ f
    <3>1. Of(r, "args") \cup Of(r, "end") \subseteq AllBegun(a, q) \ e
      BY <1>1 DEF Hears
    <3>2. QED
      BY <1>1, <1>5, <1>6, <3>1
  <2>4. ASSUME NEW c \in Of(r, "end") PROVE S!Parses(Count(b, r, c))
    BY <1>1, <1>8, <2>4 DEF Hears
  <2>5. Of(r, "usage") # {} => u = 0
    BY <1>1, <1>5 DEF Hears
  <2>6. QED
    BY <1>1, <1>4, <2>1, <2>2, <2>3, <2>4, <2>5 DEF Hears
<1>11. QED
  BY <1>6, <1>7, <1>8, <1>9, <1>10 DEF r

-----------------------------------------------------------------------------
(* What a chunk that may come adds to what will have been heard *)

\* A call that has not begun has no pieces, and has not ended.
LEMMA Uncounted ==
  ASSUME NEW a, NEW e, NEW t, NEW q, Hears(a, e, t, q), NEW c, c \notin AllBegun(a, q)
  PROVE  Count(a, q, c) = 0 /\ c \notin Of(q, "args") /\ c \notin AllEnded(e, q)
<1>1. c \notin Ids(a) /\ c \notin Of(q, "args") /\ c \notin AllEnded(e, q)
  BY DEF Hears, AllBegun, AllEnded
<1>2. Held(a, c) = 0
  BY <1>1 DEF Held
<1>3. QED
  BY <1>1, <1>2 DEF Count

Adds(a, e, t, q, c, r) ==
  /\ Hears(a, e, t, r)
  /\ AllBegun(a, r) = AllBegun(a, q) \cup (IF c.kind = "start" THEN {c.id} ELSE {})
  /\ AllEnded(e, r) = AllEnded(e, q) \cup (IF c.kind = "end" THEN {c.id} ELSE {})
  /\ \A d : Count(a, r, d) = IF c.kind = "args" /\ d = c.id THEN Count(a, q, d) + 1
                             ELSE Count(a, q, d)
  /\ Told(t, r) <=> Told(t, q) \/ c.kind = "usage"
  /\ Over(r) <=> c.kind \in Final
  /\ Of(r, "args") = Of(q, "args") \cup (IF c.kind = "args" THEN {c.id} ELSE {})
  /\ Of(r, "done") = Of(q, "done") \cup (IF c.kind = "done" THEN {c.id} ELSE {})

\* What a chunk that may come next adds.
LEMMA Added ==
  ASSUME NoId \notin CallIds, NEW a, NEW e, NEW t, NEW q, NEW c,
         Hears(a, e, t, q), MayCome(a, e, t, q, c)
  PROVE  Adds(a, e, t, q, c, Append(q, c))
<1> DEFINE r == Append(q, c)
<1>1. q \in Seq(Chunks) /\ ~Over(q) /\ a \in Asms /\ Distinct(a)
  BY DEF Hears, MayCome
<1>2. Hears(a, e, t, r)
  BY Comes
<1>3. \A kind : Of(r, kind) = Of(q, kind) \cup (IF c.kind = kind THEN {c.id} ELSE {})
  BY <1>1, OfAppend
<1>4. Over(r) <=> c.kind \in Final
  BY <1>1, OverAppend
<1> HIDE DEF r
<1>5. ASSUME NEW d
      PROVE  Count(a, r, d) = IF c.kind = "args" /\ d = c.id THEN Count(a, q, d) + 1
                              ELSE Count(a, q, d)
  <2>1. Held(a, d) \in Nat
    BY <1>1, HeldTyped
  <2>2. CASE c.kind = "args" /\ d = c.id
    <3>1. d \notin Of(q, "args") /\ d \in Of(r, "args")
      BY <1>3, <2>2 DEF MayCome
    <3>2. QED
      BY <2>1, <2>2, <3>1 DEF Count
  <2>3. CASE ~(c.kind = "args" /\ d = c.id)
    <3>1. d \in Of(q, "args") <=> d \in Of(r, "args")
      BY <1>3, <2>3
    <3>2. QED
      BY <2>3, <3>1 DEF Count
  <2>4. QED
    BY <2>2, <2>3
<1>6. AllBegun(a, r) = AllBegun(a, q) \cup (IF c.kind = "start" THEN {c.id} ELSE {})
  BY <1>3 DEF AllBegun
<1>7. AllEnded(e, r) = AllEnded(e, q) \cup (IF c.kind = "end" THEN {c.id} ELSE {})
  BY <1>3 DEF AllEnded
<1>8. Told(t, r) <=> Told(t, q) \/ c.kind = "usage"
  BY <1>3 DEF Told
<1>9. QED
  BY <1>2, <1>3, <1>4, <1>5, <1>6, <1>7, <1>8 DEF Adds, r

\* The ends of several calls, one after the other.
EndsOf(n, d) == [k \in 1..n |-> [kind |-> "end", id |-> d[k], why |-> ""]]

\* Where the elements of two sequences are in the one they make.
LEMMA ConcatIs ==
  ASSUME NEW X, NEW q \in Seq(X), NEW p \in Seq(X)
  PROVE  /\ q \o p \in Seq(X) /\ Len(q) \in Nat /\ DOMAIN q = 1..Len(q)
         /\ \A i \in DOMAIN q : i \in DOMAIN (q \o p) /\ (q \o p)[i] = q[i]
         /\ \A k \in DOMAIN p : Len(q) + k \in DOMAIN (q \o p) /\ (q \o p)[Len(q) + k] = p[k]
         /\ \A i \in DOMAIN (q \o p) :
              \/ i \in DOMAIN q
              \/ \E k \in DOMAIN p : i = Len(q) + k
<1>1. /\ q \o p \in Seq(X) /\ Len(q) \in Nat /\ DOMAIN q = 1..Len(q)
      /\ Len(p) \in Nat /\ DOMAIN p = 1..Len(p)
      /\ DOMAIN (q \o p) = 1..(Len(q) + Len(p))
  OBVIOUS
<1>2. \A i \in DOMAIN q : i \in DOMAIN (q \o p) /\ (q \o p)[i] = q[i]
  BY <1>1
<1>3. ASSUME NEW k \in DOMAIN p
      PROVE  Len(q) + k \in DOMAIN (q \o p) /\ (q \o p)[Len(q) + k] = p[k]
  <2>1. k \in Nat /\ Len(q) + k \in 1..(Len(q) + Len(p)) /\ Len(q) + k > Len(q) /\ (Len(q) + k) - Len(q) = k
    BY <1>1
  <2>2. QED
    BY <1>1, <2>1
<1>4. ASSUME NEW i \in DOMAIN (q \o p), i \notin DOMAIN q
      PROVE  \E k \in DOMAIN p : i = Len(q) + k
  <2>1. i - Len(q) \in DOMAIN p /\ i = Len(q) + (i - Len(q))
    BY <1>1, <1>4
  <2>2. QED
    BY <2>1
<1>5. QED
  BY <1>1, <1>2, <1>3, <1>4

\* A function on the first numbers is a sequence.
LEMMA FunctionIsSeq ==
  ASSUME NEW X, NEW n \in Nat, NEW p \in [1..n -> X]
  PROVE  p \in Seq(X) /\ DOMAIN p = 1..n
OBVIOUS

\* Nothing but the ends of the calls X is added.
Closes(a, e, t, q, X, r) ==
  /\ Hears(a, e, t, r)
  /\ AllBegun(a, r) = AllBegun(a, q)
  /\ AllEnded(e, r) = AllEnded(e, q) \cup X
  /\ \A c : Count(a, r, c) = Count(a, q, c)
  /\ Told(t, r) <=> Told(t, q)
  /\ ~Over(r)
  /\ Of(r, "args") = Of(q, "args") /\ Of(r, "done") = Of(q, "done")

\* Calls that are open and parse may be closed one after the other, in any
\* order.
LEMMA AllAdded ==
  ASSUME NoId \notin CallIds, NEW a, NEW e, NEW t, NEW q, Hears(a, e, t, q), ~Over(q),
         NEW n \in Nat, NEW d \in [1..n -> AllBegun(a, q) \ AllEnded(e, q)],
         \A k, l \in 1..n : k # l => d[k] # d[l],
         \A k \in 1..n : S!Parses(Count(a, q, d[k]))
  PROVE  Closes(a, e, t, q, {d[k] : k \in 1..n}, q \o EndsOf(n, d))
<1> DEFINE p == EndsOf(n, d)
           r == q \o p
<1>1. /\ q \in Seq(Chunks) /\ Orderly(q) /\ a \in Asms /\ Distinct(a)
      /\ Of(q, "start") \subseteq CallIds /\ Ids(a) \subseteq CallIds
  <2>1. q \in Seq(Chunks) /\ Orderly(q) /\ a \in Asms /\ Distinct(a)
    BY DEF Hears
  <2>2. \A c \in Of(q, "start") : \E i \in DOMAIN q : q[i].kind = "start" /\ q[i].id = c
    BY OfIs
  <2>3. \A i \in DOMAIN q : q[i] \in Chunks
    BY <2>1
  <2>4. Of(q, "start") \subseteq CallIds
    BY <2>2, <2>3, ChunkIs DEF OfCall
  <2>5. QED
    BY <2>1, <2>4, HeldTyped
<1>2. \A k \in 1..n : d[k] \in CallIds /\ d[k] \in AllBegun(a, q) /\ d[k] \notin AllEnded(e, q)
  BY <1>1 DEF AllBegun
<1>3. "" \in Whys
  BY DEF Whys
<1>4. /\ p \in Seq(Chunks) /\ DOMAIN p = 1..n
      /\ \A k \in 1..n : p[k].kind = "end" /\ p[k].id = d[k] /\ p[k] \in Chunks
  <2>1. \A k \in 1..n : p[k] = [kind |-> "end", id |-> d[k], why |-> ""]
    BY DEF EndsOf
  <2>2. \A k \in 1..n : p[k] \in Chunks
    BY <1>2, <1>3, <2>1, ChunkMade DEF OfCall
  <2>3. p = [k \in 1..n |-> p[k]]
    BY DEF EndsOf
  <2>6. \A k \in 1..n : p[k].kind = "end" /\ p[k].id = d[k]
    BY DEF EndsOf
  <2> HIDE DEF p
  <2>4. p \in [1..n -> Chunks]
    BY <2>2, <2>3
  <2>5. p \in Seq(Chunks) /\ DOMAIN p = 1..n
    BY <2>4, FunctionIsSeq, Zenon
  <2>7. QED
    BY <2>2, <2>5, <2>6
<1> HIDE DEF p
<1>5. /\ r \in Seq(Chunks) /\ Len(q) \in Nat /\ DOMAIN q = 1..Len(q)
      /\ \A i \in DOMAIN q : i \in DOMAIN r /\ r[i] = q[i]
      /\ \A k \in 1..n : Len(q) + k \in DOMAIN r /\ r[Len(q) + k] = p[k]
      /\ \A i \in DOMAIN r : \/ i \in DOMAIN q
                            \/ \E k \in 1..n : i = Len(q) + k
  <2>1. /\ q \o p \in Seq(Chunks) /\ Len(q) \in Nat /\ DOMAIN q = 1..Len(q)
        /\ \A i \in DOMAIN q : i \in DOMAIN (q \o p) /\ (q \o p)[i] = q[i]
        /\ \A k \in DOMAIN p : Len(q) + k \in DOMAIN (q \o p) /\ (q \o p)[Len(q) + k] = p[k]
        /\ \A i \in DOMAIN (q \o p) : \/ i \in DOMAIN q
                                     \/ \E k \in DOMAIN p : i = Len(q) + k
    BY <1>1, <1>4, ConcatIs, Zenon
  <2>2. DOMAIN p = 1..n
    BY <1>4
  <2> HIDE DEF r
  <2>3. r = q \o p
    BY DEF r
  <2>4. QED
    BY <2>1, <2>2, <2>3, Zenon
<1> HIDE DEF r
<1>6. ASSUME NEW i \in DOMAIN q, NEW k \in 1..n PROVE Before(q[i], p[k])
  <2>1. q[i].kind \notin Final /\ q[i].id \in Of(q, q[i].kind) /\ q[i] \in Chunks
    BY <1>1, OfIs DEF Over
  <2>2. p[k].kind = "end" /\ p[k].id = d[k]
    BY <1>4
  <2>3. q[i].id = d[k] /\ q[i].id # NoId => q[i].kind \in {"start", "args"}
    <3>1. q[i].id = d[k] /\ q[i].id # NoId => q[i].kind \in OfCall
      BY <2>1, ChunkIs
    <3>2. q[i].id = d[k] => q[i].kind # "end"
      BY <1>2, <2>1 DEF AllEnded
    <3>3. QED
      BY <3>1, <3>2 DEF OfCall
  <2>4. QED
    BY <2>1, <2>2, <2>3 DEF Before
<1>7. ASSUME NEW k \in 1..n, NEW l \in 1..n, k # l PROVE Before(p[k], p[l])
  BY <1>4, <1>7 DEF Before, Final
<1>8. Orderly(r)
  <2> SUFFICES ASSUME NEW i \in DOMAIN r, NEW j \in DOMAIN r, i < j PROVE Before(r[i], r[j])
    BY DEF Orderly
  <2>1. CASE i \in DOMAIN q /\ j \in DOMAIN q
    BY <1>1, <1>5, <2>1 DEF Orderly
  <2>2. ASSUME NEW l \in 1..n, j = Len(q) + l, i \in DOMAIN q PROVE Before(r[i], r[j])
    BY <1>5, <1>6, <2>2
  <2>3. ASSUME NEW k \in 1..n, i = Len(q) + k PROVE Before(r[i], r[j])
    <3>1. j \notin DOMAIN q
      BY <1>5, <2>3
    <3>2. PICK l \in 1..n : j = Len(q) + l
      BY <1>5, <3>1
    <3>3. k # l
      BY <2>3, <3>2
    <3>4. QED
      BY <1>5, <1>7, <2>3, <3>2, <3>3
  <2>4. QED
    BY <1>5, <2>1, <2>2, <2>3
<1>9. ASSUME NEW kind
      PROVE  Of(r, kind) = Of(q, kind) \cup (IF kind = "end" THEN {d[k] : k \in 1..n} ELSE {})
  <2>1. ASSUME NEW c \in Of(r, kind) PROVE c \in Of(q, kind) \/ (kind = "end" /\ \E k \in 1..n : d[k] = c)
    <3>1. PICK i \in DOMAIN r : r[i].kind = kind /\ r[i].id = c
      BY OfIs
    <3>2. CASE i \in DOMAIN q
      BY <1>5, <3>1, <3>2, OfIs
    <3>3. CASE \E k \in 1..n : i = Len(q) + k
      <4>1. PICK k \in 1..n : i = Len(q) + k
        BY <3>3
      <4>2. r[i] = p[k]
        BY <1>5, <4>1
      <4>3. p[k].kind = "end" /\ p[k].id = d[k]
        BY <1>4
      <4>4. QED
        BY <3>1, <4>2, <4>3
    <3>4. QED
      BY <1>5, <3>2, <3>3
  <2>2. ASSUME NEW c \in Of(q, kind) PROVE c \in Of(r, kind)
    <3>1. PICK i \in DOMAIN q : q[i].kind = kind /\ q[i].id = c
      BY OfIs
    <3>2. i \in DOMAIN r /\ r[i] = q[i]
      BY <1>5
    <3>3. QED
      BY <3>1, <3>2, OfIs
  <2>3. ASSUME NEW k \in 1..n PROVE d[k] \in Of(r, "end")
    <3>1. Len(q) + k \in DOMAIN r /\ r[Len(q) + k].kind = "end" /\ r[Len(q) + k].id = d[k]
      BY <1>4, <1>5
    <3>2. QED
      BY <3>1, OfIs
  <2>4. QED
    BY <2>1, <2>2, <2>3
<1>10. ~Over(r)
  <2>1. \A i \in DOMAIN q : r[i].kind \notin Final
    BY <1>5 DEF Over
  <2>2. ASSUME NEW k \in 1..n PROVE r[Len(q) + k].kind \notin Final
    <3>1. r[Len(q) + k] = p[k] /\ p[k].kind = "end"
      BY <1>4, <1>5
    <3>2. QED
      BY <3>1 DEF Final
  <2>3. \A i \in DOMAIN r : r[i].kind \notin Final
    BY <1>5, <2>1, <2>2
  <2>4. QED
    BY <2>3 DEF Over
<1>11. /\ AllBegun(a, r) = AllBegun(a, q) /\ Of(r, "args") = Of(q, "args")
       /\ Of(r, "done") = Of(q, "done") /\ Of(r, "start") = Of(q, "start")
       /\ (Told(t, r) <=> Told(t, q)) /\ \A c : Count(a, r, c) = Count(a, q, c)
  <2>1. \A kind \in {"args", "done", "start", "usage"} : Of(r, kind) = Of(q, kind)
    BY <1>9
  <2>2. QED
    BY <2>1 DEF AllBegun, Told, Count
<1>12. Of(r, "end") = Of(q, "end") \cup {d[k] : k \in 1..n}
  BY <1>9
<1>13. AllEnded(e, r) = AllEnded(e, q) \cup {d[k] : k \in 1..n}
  BY <1>12 DEF AllEnded
<1>14. Hears(a, e, t, r)
  <2>1. Of(r, "args") \cup Of(r, "end") \subseteq AllBegun(a, r) \ e
    BY <1>2, <1>11, <1>12 DEF Hears, AllEnded
  <2>2. \A c \in Of(r, "end") : S!Parses(Count(a, r, c))
    BY <1>11, <1>12 DEF Hears
  <2>3. Of(r, "usage") # {} => t = 0
    BY <1>9 DEF Hears
  <2>4. QED
    BY <1>5, <1>8, <1>11, <2>1, <2>2, <2>3 DEF Hears
<1>15. QED
  BY <1>10, <1>11, <1>13, <1>14 DEF r, p, Closes

-----------------------------------------------------------------------------
(* What a decoder keeps of the calls it has open *)

\* The calls of a table at the indices D are open, and their pieces counted.
OpenCalls(a, e, q, D, calls) ==
  /\ \A i \in D : /\ calls[i].id \in AllBegun(a, q) \ AllEnded(e, q)
                  /\ calls[i].pieces = Count(a, q, calls[i].id)
  /\ \A i, j \in D : calls[i].id = calls[j].id => i = j

\* The same calls, at the same indices and with the same pieces.
SameAt(D, calls, later) ==
  \A i \in D : later[i].id = calls[i].id /\ later[i].pieces = calls[i].pieces

\* What the reader has and the queue holds, beside what the driver says of them.
Core(a, e, t, w, s) ==
  /\ Hears(a, e, t, s.queue)
  /\ s.complete <=> Over(s.queue)
  /\ Of(s.queue, "done") # {} => w

\* Text, usage or the end of the reply leave the calls as they are.
LEMMA OpenStays ==
  ASSUME NEW a, NEW e, NEW t, NEW q, NEW c, NEW r, Adds(a, e, t, q, c, r),
         c.kind \notin OfCall, NEW D, NEW calls, OpenCalls(a, e, q, D, calls)
  PROVE  OpenCalls(a, e, r, D, calls)
<1>1. /\ AllBegun(a, r) = AllBegun(a, q) /\ AllEnded(e, r) = AllEnded(e, q)
      /\ \A d : Count(a, r, d) = Count(a, q, d)
  BY DEF Adds, OfCall
<1>2. QED
  BY <1>1 DEF OpenCalls

\* Fewer of the same calls are open as they were.
LEMMA OpenSame ==
  ASSUME NEW a, NEW e, NEW q, NEW D, NEW calls, OpenCalls(a, e, q, D, calls),
         NEW F \in SUBSET D, NEW later, SameAt(F, calls, later)
  PROVE  OpenCalls(a, e, q, F, later)
BY DEF OpenCalls, SameAt

\* A call that begins takes an index, and whatever call was there is forgotten.
LEMMA OpenBegins ==
  ASSUME NEW a, NEW e, NEW t, NEW q, NEW c, NEW r,
         Hears(a, e, t, q), Adds(a, e, t, q, c, r), c.kind = "start", c.id \notin AllBegun(a, q),
         NEW D, NEW calls, OpenCalls(a, e, q, D, calls),
         NEW i, NEW later, SameAt(D \ {i}, calls, later), later[i].id = c.id, later[i].pieces = 0
  PROVE  OpenCalls(a, e, r, D \cup {i}, later)
<1>1. /\ AllBegun(a, r) = AllBegun(a, q) \cup {c.id} /\ AllEnded(e, r) = AllEnded(e, q)
      /\ \A d : Count(a, r, d) = Count(a, q, d)
  BY DEF Adds
<1>2. Count(a, q, c.id) = 0 /\ c.id \notin AllEnded(e, q)
  BY Uncounted
<1>3. ASSUME NEW j \in D \cup {i}
      PROVE  /\ later[j].id \in AllBegun(a, r) \ AllEnded(e, r)
             /\ later[j].pieces = Count(a, r, later[j].id)
  <2>1. CASE j = i
    BY <1>1, <1>2, <2>1
  <2>2. CASE j # i
    BY <1>1, <2>2 DEF OpenCalls, SameAt
  <2>3. QED
    BY <2>1, <2>2
<1>4. ASSUME NEW j \in D \cup {i}, NEW k \in D \cup {i}, later[j].id = later[k].id PROVE j = k
  <2>1. \A l \in D \ {i} : later[l].id # c.id /\ later[l].id = calls[l].id
    BY DEF OpenCalls, SameAt
  <2>2. QED
    BY <1>4, <2>1 DEF OpenCalls
<1>5. QED
  BY <1>3, <1>4 DEF OpenCalls

\* A fragment adds to one call.
LEMMA OpenAdds ==
  ASSUME NEW a, NEW e, NEW t, NEW q, NEW c, NEW r, Adds(a, e, t, q, c, r), c.kind = "args",
         NEW D, NEW calls, OpenCalls(a, e, q, D, calls), NEW i \in D, calls[i].id = c.id,
         NEW later, SameAt(D \ {i}, calls, later),
         later[i].id = c.id, later[i].pieces = calls[i].pieces + 1
  PROVE  OpenCalls(a, e, r, D, later)
<1>1. /\ AllBegun(a, r) = AllBegun(a, q) /\ AllEnded(e, r) = AllEnded(e, q)
      /\ \A d : d # c.id => Count(a, r, d) = Count(a, q, d)
      /\ Count(a, r, c.id) = Count(a, q, c.id) + 1
  BY DEF Adds
<1>2. \A j \in D : later[j].id = calls[j].id
  BY DEF SameAt
<1>3. ASSUME NEW j \in D PROVE later[j].pieces = Count(a, r, later[j].id)
  <2>1. CASE j = i
    BY <1>1, <1>2, <2>1 DEF OpenCalls
  <2>2. CASE j # i
    <3>1. later[j].id # c.id /\ later[j].pieces = calls[j].pieces
      BY <1>2, <2>2 DEF OpenCalls, SameAt
    <3>2. QED
      BY <1>1, <1>2, <3>1 DEF OpenCalls
  <2>3. QED
    BY <2>1, <2>2
<1>4. QED
  BY <1>1, <1>2, <1>3 DEF OpenCalls

\* A call that ended is not open.
LEMMA OpenEnds ==
  ASSUME NEW a, NEW e, NEW t, NEW q, NEW c, NEW r, Adds(a, e, t, q, c, r), c.kind = "end",
         NEW D, NEW calls, OpenCalls(a, e, q, D, calls), NEW i \in D, calls[i].id = c.id,
         NEW later, SameAt(D \ {i}, calls, later)
  PROVE  OpenCalls(a, e, r, D \ {i}, later)
<1>1. /\ AllBegun(a, r) = AllBegun(a, q) /\ AllEnded(e, r) = AllEnded(e, q) \cup {c.id}
      /\ \A d : Count(a, r, d) = Count(a, q, d)
  BY DEF Adds
<1>2. QED
  BY <1>1 DEF OpenCalls, SameAt

\* The instances of the sink count as the model does.
LEMMA CardinalityIs ==
  ASSUME NEW X
  PROVE  /\ S!Cardinality(X) = Cardinality(X)
         /\ Chat!Cardinality(X) = Cardinality(X)
         /\ Resp!Cardinality(X) = Cardinality(X)
BY Zenon DEF S!Cardinality, Chat!Cardinality, Resp!Cardinality, Cardinality

\* The order of the indices is one, and the same in every instance of the sink.
LEMMA AscendingIs ==
  ASSUME NEW X \in SUBSET Nat, IsFiniteSet(X)
  PROVE  /\ Ordered(X, S!Ascending(X))
         /\ Chat!Ascending(X) = S!Ascending(X)
         /\ Resp!Ascending(X) = S!Ascending(X)
<1>1. PICK s : Ordered(X, s)
  BY OrderExists
<1>2. \E z \in [1..Cardinality(X) -> X] :
        \A i, j \in 1..Cardinality(X) : i < j => z[i] < z[j]
  BY <1>1 DEF Ordered
<1>3. S!Ascending(X) = CHOOSE z \in [1..Cardinality(X) -> X] :
        \A i, j \in 1..Cardinality(X) : i < j => z[i] < z[j]
  BY CardinalityIs, Zenon DEF S!Ascending
<1>4. Ordered(X, S!Ascending(X))
  BY <1>2, <1>3, Zenon DEF Ordered
<1>5. Chat!Ascending(X) = S!Ascending(X)
  BY <1>3, CardinalityIs, Zenon DEF Chat!Ascending
<1>6. Resp!Ascending(X) = S!Ascending(X)
  BY <1>3, CardinalityIs, Zenon DEF Resp!Ascending
<1>7. QED
  BY <1>4, <1>5, <1>6

\* The ends of the open calls of a set of indices, in their order, may follow.
LEMMA ClosesAll ==
  ASSUME ModelCallAssumption, NEW a, NEW e, NEW t, NEW q, Hears(a, e, t, q), ~Over(q),
         NEW D, NEW calls, OpenCalls(a, e, q, D, calls),
         NEW G \in SUBSET D, G \subseteq Indices, \A i \in G : S!Parses(calls[i].pieces)
  PROVE  LET order == S!Ascending(G)
         IN  Closes(a, e, t, q, {calls[i].id : i \in G},
                    q \o EndsOf(Cardinality(G), [k \in 1..Cardinality(G) |-> calls[order[k]].id]))
<1> DEFINE order == S!Ascending(G)
           n == Cardinality(G)
           d == [k \in 1..n |-> calls[order[k]].id]
           r == q \o EndsOf(n, d)
<1>1. G \in SUBSET Nat /\ IsFiniteSet(G)
  BY FS_Subset DEF ModelCallAssumption
<1>2. Ordered(G, order)
  BY <1>1, AscendingIs
<1> HIDE DEF order, n
<1>3. /\ n \in Nat /\ order \in [1..n -> G]
      /\ \A i, j \in 1..n : i # j => order[i] # order[j]
      /\ \A x \in G : \E k \in 1..n : order[k] = x
  BY <1>1, <1>2, OrderedIs DEF n
<1>4. \A k \in 1..n : order[k] \in G /\ order[k] \in D /\ d[k] = calls[order[k]].id
  BY <1>3
<1> HIDE DEF d
<1>5. \A k \in 1..n : d[k] \in AllBegun(a, q) \ AllEnded(e, q)
  BY <1>4 DEF OpenCalls
<1>6. d \in [1..n -> AllBegun(a, q) \ AllEnded(e, q)]
  <2>1. d = [k \in 1..n |-> d[k]]
    BY DEF d
  <2>2. QED
    BY <1>5, <2>1
<1>7. \A k, l \in 1..n : k # l => d[k] # d[l]
  BY <1>3, <1>4 DEF OpenCalls
<1>8. \A k \in 1..n : S!Parses(Count(a, q, d[k]))
  <2> SUFFICES ASSUME NEW k \in 1..n PROVE S!Parses(Count(a, q, d[k]))
    OBVIOUS
  <2>1. calls[order[k]].pieces = Count(a, q, d[k])
    BY <1>4 DEF OpenCalls
  <2>2. S!Parses(calls[order[k]].pieces)
    BY <1>4
  <2>3. QED
    BY <2>1, <2>2, Zenon
<1>9. NoId \notin CallIds
  BY DEF ModelCallAssumption
<1>10. Closes(a, e, t, q, {d[k] : k \in 1..n}, r)
  BY <1>3, <1>6, <1>7, <1>8, <1>9, AllAdded, Zenon
<1>11. {d[k] : k \in 1..n} = {calls[i].id : i \in G}
  <2>1. \A i \in G : \E k \in 1..n : d[k] = calls[i].id
    BY <1>3, <1>4
  <2>2. \A k \in 1..n : \E i \in G : d[k] = calls[i].id
    BY <1>4
  <2>3. QED
    BY <2>1, <2>2
<1>12. QED
  BY <1>10, <1>11 DEF d, n, order

-----------------------------------------------------------------------------
(* The tables of calls *)

CallTables == UNION {[D -> [id : CallIds, pieces : Nat]] : D \in SUBSET Indices}

\* What a table of calls holds.
LEMMA TableIs ==
  ASSUME NEW calls \in CallTables
  PROVE  /\ DOMAIN calls \subseteq Indices
         /\ \A i \in DOMAIN calls : calls[i] \in [id : CallIds, pieces : Nat]
BY DEF CallTables

\* What makes a table of calls.
LEMMA TableMade ==
  ASSUME NEW D \in SUBSET Indices, NEW calls, calls = [i \in D |-> calls[i]],
         \A i \in D : calls[i] \in [id : CallIds, pieces : Nat]
  PROVE  calls \in CallTables /\ DOMAIN calls = D
<1>1. calls \in [D -> [id : CallIds, pieces : Nat]]
  OBVIOUS
<1>2. QED
  BY <1>1 DEF CallTables

\* A table starts empty.
LEMMA TableEmpty == [i \in {} |-> 0] \in CallTables /\ DOMAIN [i \in {} |-> 0] = {}
<1>1. [i \in {} |-> 0] \in [{} -> [id : CallIds, pieces : Nat]]
  OBVIOUS
<1>2. QED
  BY <1>1 DEF CallTables

BeginsCall(calls, i, c, later) ==
  /\ later \in CallTables /\ DOMAIN later = DOMAIN calls \cup {i}
  /\ SameAt(DOMAIN calls \ {i}, calls, later)
  /\ later[i].id = c /\ later[i].pieces = 0

\* A call that begins takes its index in the table.
LEMMA TableBegins ==
  ASSUME NEW calls \in CallTables, NEW i \in Indices, NEW c \in CallIds
  PROVE  BeginsCall(calls, i, c,
                    [j \in DOMAIN calls \cup {i} |->
                       IF j = i THEN [id |-> c, pieces |-> 0] ELSE calls[j]])
<1> DEFINE later == [j \in DOMAIN calls \cup {i} |->
                       IF j = i THEN [id |-> c, pieces |-> 0] ELSE calls[j]]
<1>1. /\ DOMAIN calls \subseteq Indices
      /\ \A j \in DOMAIN calls : calls[j] \in [id : CallIds, pieces : Nat]
  BY TableIs
<1>2. \A j \in DOMAIN calls \cup {i} : later[j] \in [id : CallIds, pieces : Nat]
  BY <1>1
<1>3. later[i].id = c /\ later[i].pieces = 0 /\ SameAt(DOMAIN calls \ {i}, calls, later)
  BY DEF SameAt
<1>4. later = [j \in DOMAIN calls \cup {i} |-> later[j]]
  OBVIOUS
<1> HIDE DEF later
<1>5. later \in CallTables /\ DOMAIN later = DOMAIN calls \cup {i}
  BY <1>1, <1>2, <1>4, TableMade
<1>6. QED
  BY <1>3, <1>5 DEF later, BeginsCall

\* A fragment is counted at its index and at no other.
LEMMA TableAdds ==
  ASSUME NEW calls \in CallTables, NEW i \in DOMAIN calls
  PROVE  LET later == [calls EXCEPT ![i].pieces = @ + 1]
         IN  /\ later \in CallTables /\ DOMAIN later = DOMAIN calls
             /\ SameAt(DOMAIN calls \ {i}, calls, later)
             /\ later[i].id = calls[i].id /\ later[i].pieces = calls[i].pieces + 1
<1> DEFINE later == [calls EXCEPT ![i].pieces = @ + 1]
<1>1. /\ DOMAIN calls \subseteq Indices
      /\ \A j \in DOMAIN calls : calls[j] \in [id : CallIds, pieces : Nat]
  BY TableIs
<1>2. /\ later[i] \in [id : CallIds, pieces : Nat]
      /\ later[i].id = calls[i].id /\ later[i].pieces = calls[i].pieces + 1
  BY <1>1
<1>3. \A j \in DOMAIN calls \ {i} : later[j] = calls[j]
  OBVIOUS
<1>4. later = [j \in DOMAIN calls |-> later[j]]
  OBVIOUS
<1> HIDE DEF later
<1>5. later \in CallTables /\ DOMAIN later = DOMAIN calls
  BY <1>1, <1>2, <1>3, <1>4, TableMade
<1>6. QED
  BY <1>2, <1>3, <1>5 DEF later, SameAt

\* A call that is closed leaves the table.
LEMMA TableDrops ==
  ASSUME NEW calls \in CallTables, NEW i \in DOMAIN calls
  PROVE  LET later == [j \in DOMAIN calls \ {i} |-> calls[j]]
         IN  /\ later \in CallTables /\ DOMAIN later = DOMAIN calls \ {i}
             /\ SameAt(DOMAIN calls \ {i}, calls, later)
<1> DEFINE later == [j \in DOMAIN calls \ {i} |-> calls[j]]
<1>1. /\ DOMAIN calls \subseteq Indices
      /\ \A j \in DOMAIN calls : calls[j] \in [id : CallIds, pieces : Nat]
  BY TableIs
<1>2. \A j \in DOMAIN calls \ {i} : later[j] = calls[j]
  OBVIOUS
<1>3. later = [j \in DOMAIN calls \ {i} |-> later[j]]
  OBVIOUS
<1> HIDE DEF later
<1>4. later \in CallTables /\ DOMAIN later = DOMAIN calls \ {i}
  BY <1>1, <1>2, <1>3, TableMade
<1>5. QED
  BY <1>2, <1>4 DEF later, SameAt

-----------------------------------------------------------------------------
(* The sink, whichever decoder writes to it *)

\* What may come next keeps queue and driver in step.
LEMMA CoreAdds ==
  ASSUME NoId \notin CallIds, NEW a, NEW e, NEW t, NEW w, NEW s, NEW c,
         Core(a, e, t, w, s), MayCome(a, e, t, s.queue, c), c.kind = "done" => w,
         NEW r, r.queue = Append(s.queue, c), r.complete <=> c.kind \in Final
  PROVE  Core(a, e, t, w, r) /\ Adds(a, e, t, s.queue, c, r.queue)
<1>1. Hears(a, e, t, s.queue)
  BY DEF Core
<1>2. Adds(a, e, t, s.queue, c, r.queue)
  BY <1>1, Added
<1>3. /\ Hears(a, e, t, r.queue) /\ (Over(r.queue) <=> c.kind \in Final)
      /\ Of(r.queue, "done") = Of(s.queue, "done") \cup (IF c.kind = "done" THEN {c.id} ELSE {})
  BY <1>2 DEF Adds
<1>4. Of(r.queue, "done") # {} => w
  BY <1>3 DEF Core
<1>5. QED
  BY <1>2, <1>3, <1>4 DEF Core

\* What ends the reply may come as long as nothing has.
LEMMA FinalComes ==
  ASSUME NEW a, NEW e, NEW t, NEW w, NEW s, Core(a, e, t, w, s), ~s.complete,
         NEW why \in Whys, NEW kind \in Final
  PROVE  MayCome(a, e, t, s.queue, [kind |-> kind, id |-> NoId, why |-> why])
<1> DEFINE c == [kind |-> kind, id |-> NoId, why |-> why]
<1>1. kind \in Kinds \ OfCall /\ kind \notin {"start", "args", "end", "usage"}
  BY DEF Kinds, OfCall, Final
<1>2. c \in Chunks /\ c.kind = kind
  BY <1>1, ChunkMade
<1> HIDE DEF c
<1>3. MayCome(a, e, t, s.queue, c)
  BY <1>1, <1>2 DEF MayCome, Core
<1>4. QED
  BY <1>3 DEF c

-----------------------------------------------------------------------------
(* Chat completions *)

ChatSinks == [queue : Seq(Chunks), complete : BOOLEAN, calls : CallTables,
              stop : Stops \cup {NoStop}, usageSeen : BOOLEAN]

ChatAt(a, e, t, w, s) ==
  /\ s \in ChatSinks
  /\ Core(a, e, t, w, s)
  /\ s.stop # NoStop => w
  /\ ~s.complete => /\ OpenCalls(a, e, s.queue, DOMAIN s.calls, s.calls)
                    /\ Told(t, s.queue) => s.usageSeen

\* The fields of the decoder of chat completions.
LEMMA ChatIs ==
  ASSUME NEW s \in ChatSinks
  PROVE  /\ s.queue \in Seq(Chunks) /\ s.complete \in BOOLEAN /\ s.calls \in CallTables
         /\ s.stop \in Stops \cup {NoStop} /\ s.usageSeen \in BOOLEAN
         /\ \A q \in Seq(Chunks) : [s EXCEPT !.queue = q] \in ChatSinks
BY DEF ChatSinks

\* An error may come at any time.
LEMMA ChatAborts ==
  ASSUME ModelCallAssumption, NEW a, NEW e, NEW t, NEW w, NEW s, ChatAt(a, e, t, w, s),
         NEW why \in Whys
  PROVE  ChatAt(a, e, t, w, Chat!Abort(s, why))
<1> DEFINE c == [kind |-> "error", id |-> NoId, why |-> why]
           r == [s EXCEPT !.queue = Append(@, c), !.complete = TRUE]
<1>1. Chat!Abort(s, why) = IF s.complete THEN s ELSE r
  BY DEF Chat!Abort, Chat!CloseWith, Chat!Broken, Chat!Chunk
<1>2. CASE s.complete
  BY <1>1, <1>2
<1>3. CASE ~s.complete
  <2>1. MayCome(a, e, t, s.queue, c) /\ s \in ChatSinks /\ Core(a, e, t, w, s)
    BY <1>3, FinalComes DEF Final, ChatAt
  <2>2. c.kind = "error" /\ c \in Chunks
    BY <2>1 DEF MayCome
  <2> HIDE DEF c
  <2>3. /\ r.queue = Append(s.queue, c) /\ r.complete = TRUE /\ r.stop = s.stop
        /\ r \in ChatSinks
    <3>1. Append(s.queue, c) \in Seq(Chunks)
      BY <2>1, <2>2 DEF ChatSinks
    <3>2. r = [s EXCEPT !.queue = Append(s.queue, c), !.complete = TRUE]
      OBVIOUS
    <3>3. QED
      BY <2>1, <3>1, <3>2 DEF ChatSinks
  <2> HIDE DEF r
  <2>4. Core(a, e, t, w, r)
    BY <2>1, <2>2, <2>3, CoreAdds DEF Final, ModelCallAssumption
  <2>5. ChatAt(a, e, t, w, r)
    BY <2>3, <2>4 DEF ChatAt
  <2>6. QED
    BY <1>1, <1>3, <2>5 DEF r, c
<1>4. QED
  BY <1>2, <1>3

\* The end may come once the vendor said that the reply is whole.
LEMMA ChatFinishes ==
  ASSUME ModelCallAssumption, NEW a, NEW e, NEW t, NEW w, NEW s, ChatAt(a, e, t, w, s),
         NEW why \in Whys, w
  PROVE  ChatAt(a, e, t, w, Chat!Finish(s, why))
<1> DEFINE c == [kind |-> "done", id |-> NoId, why |-> why]
           r == [s EXCEPT !.queue = Append(@, c), !.complete = TRUE]
<1>1. Chat!Finish(s, why) = IF s.complete THEN s ELSE r
  BY DEF Chat!Finish, Chat!CloseWith, Chat!Done, Chat!Chunk
<1>2. CASE s.complete
  BY <1>1, <1>2
<1>3. CASE ~s.complete
  <2>1. MayCome(a, e, t, s.queue, c) /\ s \in ChatSinks /\ Core(a, e, t, w, s)
    BY <1>3, FinalComes DEF Final, ChatAt
  <2>2. c.kind = "done" /\ c \in Chunks
    BY <2>1 DEF MayCome
  <2> HIDE DEF c
  <2>3. /\ r.queue = Append(s.queue, c) /\ r.complete = TRUE /\ r.stop = s.stop
        /\ r \in ChatSinks
    <3>1. Append(s.queue, c) \in Seq(Chunks)
      BY <2>1, <2>2 DEF ChatSinks
    <3>2. r = [s EXCEPT !.queue = Append(s.queue, c), !.complete = TRUE]
      OBVIOUS
    <3>3. QED
      BY <2>1, <3>1, <3>2 DEF ChatSinks
  <2> HIDE DEF r
  <2>4. Core(a, e, t, w, r)
    BY <2>1, <2>2, <2>3, CoreAdds DEF Final, ModelCallAssumption
  <2>5. ChatAt(a, e, t, w, r)
    BY <2>3, <2>4 DEF ChatAt
  <2>6. QED
    BY <1>1, <1>3, <2>5 DEF r, c
<1>4. QED
  BY <1>2, <1>3

\* Text, and usage that is not told yet.
ChatTold(a, e, t, w, s, r) ==
  /\ ChatAt(a, e, t, w, r)
  /\ AllBegun(a, r.queue) = AllBegun(a, s.queue)
  /\ Of(r.queue, "args") = Of(s.queue, "args")
  /\ ~r.complete

\* Text may come at any time, usage once.
LEMMA ChatTells ==
  ASSUME ModelCallAssumption, NEW a, NEW e, NEW t, NEW w, NEW s, ChatAt(a, e, t, w, s), ~s.complete,
         NEW kind \in {"shown", "usage"},
         kind = "usage" => ~Told(t, s.queue) /\ s.usageSeen
  PROVE  ChatTold(a, e, t, w, s, Chat!Push(s, [kind |-> kind, id |-> NoId, why |-> ""]))
<1> DEFINE c == [kind |-> kind, id |-> NoId, why |-> ""]
           r == [s EXCEPT !.queue = Append(@, c)]
<1>1. Chat!Push(s, c) = r
  BY DEF Chat!Push
<1>2. c \in Chunks /\ c.kind = kind /\ kind \notin OfCall /\ kind \notin Final
  BY ChunkMade DEF Kinds, OfCall, Final, Whys
<1> HIDE DEF c
<1>3. s \in ChatSinks /\ Core(a, e, t, w, s)
  BY DEF ChatAt
<1>4. MayCome(a, e, t, s.queue, c)
  BY <1>2, <1>3 DEF MayCome, Core, OfCall
<1>5. /\ r.queue = Append(s.queue, c) /\ r.complete = FALSE /\ r.stop = s.stop
      /\ r.calls = s.calls /\ r.usageSeen = s.usageSeen
      /\ r \in ChatSinks
  BY <1>2, <1>3 DEF ChatSinks
<1> HIDE DEF r
<1>6. Core(a, e, t, w, r) /\ Adds(a, e, t, s.queue, c, r.queue)
  BY <1>2, <1>3, <1>4, <1>5, CoreAdds DEF Final, ModelCallAssumption
<1>7. OpenCalls(a, e, r.queue, DOMAIN r.calls, r.calls)
  BY <1>2, <1>5, <1>6, OpenStays DEF ChatAt
<1>8. Told(t, r.queue) => r.usageSeen
  BY <1>2, <1>5, <1>6 DEF ChatAt, Adds
<1>9. ChatAt(a, e, t, w, r)
  BY <1>3, <1>5, <1>6, <1>7, <1>8 DEF ChatAt
<1>10. AllBegun(a, r.queue) = AllBegun(a, s.queue) /\ Of(r.queue, "args") = Of(s.queue, "args")
  BY <1>2, <1>6 DEF Adds, OfCall
<1>11. QED
  BY <1>1, <1>5, <1>9, <1>10 DEF ChatTold, r, c

\* Usage is told at most once.
LEMMA ChatCounts ==
  ASSUME ModelCallAssumption, NEW a, NEW e, NEW t, NEW w, NEW s, ChatAt(a, e, t, w, s), ~s.complete
  PROVE  ChatTold(a, e, t, w, s, Chat!OnUsage(s))
<1>1. CASE s.usageSeen
  BY <1>1 DEF ChatTold, Chat!OnUsage
<1>2. CASE ~s.usageSeen
  <2> DEFINE r == [s EXCEPT !.usageSeen = TRUE]
  <2>1. s \in ChatSinks /\ ~Told(t, s.queue)
    BY <1>2 DEF ChatAt
  <2>2. /\ r \in ChatSinks /\ r.queue = s.queue /\ r.complete = s.complete
        /\ r.calls = s.calls /\ r.stop = s.stop /\ r.usageSeen
    BY <2>1 DEF ChatSinks
  <2>3. Chat!OnUsage(s) = Chat!Push(r, [kind |-> "usage", id |-> NoId, why |-> ""])
    BY <1>2 DEF Chat!OnUsage, Chat!Tally, Chat!Chunk
  <2> HIDE DEF r
  <2>4. ChatAt(a, e, t, w, r)
    BY <2>2 DEF ChatAt, Core
  <2>5. ChatTold(a, e, t, w, r, Chat!OnUsage(s))
    BY <2>1, <2>2, <2>3, <2>4, ChatTells
  <2>6. QED
    BY <2>2, <2>5 DEF ChatTold
<1>3. QED
  BY <1>1, <1>2

\* A call that begins: its index is its own from now on.
ChatBegun(s, d) ==
  [Chat!Push(s, Chat!Start(d.id)) EXCEPT !.calls =
     [i \in DOMAIN @ \cup {d.index} |->
        IF i = d.index THEN [id |-> d.id, pieces |-> 0] ELSE @[i]]]

\* A delta that names a call begins it.
LEMMA ChatBegins ==
  ASSUME ModelCallAssumption, NEW a, NEW e, NEW t, NEW w, NEW s, ChatAt(a, e, t, w, s), ~s.complete,
         NEW d, d.index \in Indices, d.id \in CallIds, d.id \notin AllBegun(a, s.queue)
  PROVE  /\ ChatAt(a, e, t, w, ChatBegun(s, d))
         /\ Of(ChatBegun(s, d).queue, "args") = Of(s.queue, "args")
         /\ ~ChatBegun(s, d).complete
<1> DEFINE c == [kind |-> "start", id |-> d.id, why |-> ""]
           later == [i \in DOMAIN s.calls \cup {d.index} |->
                       IF i = d.index THEN [id |-> d.id, pieces |-> 0] ELSE s.calls[i]]
           q == Append(s.queue, c)
           r == [s EXCEPT !.queue = q, !.calls = later]
<1>1. /\ s \in ChatSinks /\ Core(a, e, t, w, s) /\ s.calls \in CallTables
      /\ OpenCalls(a, e, s.queue, DOMAIN s.calls, s.calls)
  BY DEF ChatAt, ChatSinks
<1>2. /\ c \in Chunks /\ c.kind = "start" /\ c.id = d.id
      /\ c.kind \notin Final
  BY ChunkMade DEF Kinds, OfCall, Final, Whys
<1>3. ChatBegun(s, d) = r
  BY <1>1 DEF ChatBegun, Chat!Push, Chat!Start, Chat!Chunk, ChatSinks
<1>4. /\ later \in CallTables /\ DOMAIN later = DOMAIN s.calls \cup {d.index}
      /\ SameAt(DOMAIN s.calls \ {d.index}, s.calls, later)
      /\ later[d.index].id = d.id /\ later[d.index].pieces = 0
  <2>1. BeginsCall(s.calls, d.index, d.id, later)
    BY <1>1, TableBegins, Zenon
  <2>2. QED
    BY <2>1 DEF BeginsCall
<1> HIDE DEF c, later
<1>5. MayCome(a, e, t, s.queue, c)
  BY <1>1, <1>2 DEF MayCome, Core
<1>6. q \in Seq(Chunks)
  BY <1>1, <1>2 DEF ChatSinks
<1> HIDE DEF q
<1>7. /\ r.queue = q /\ r.complete = FALSE /\ r.stop = s.stop
      /\ r.calls = later /\ r.usageSeen = s.usageSeen
      /\ r \in ChatSinks
  BY <1>1, <1>4, <1>6 DEF ChatSinks
<1> HIDE DEF r
<1>8. r.queue = Append(s.queue, c)
  BY <1>7 DEF q
<1>9. Core(a, e, t, w, r) /\ Adds(a, e, t, s.queue, c, r.queue)
  BY <1>1, <1>2, <1>5, <1>7, <1>8, CoreAdds DEF Final, ModelCallAssumption
<1>10. OpenCalls(a, e, r.queue, DOMAIN r.calls, r.calls)
  <2>1. Hears(a, e, t, s.queue)
    BY <1>1 DEF Core
  <2>2. /\ c.kind = "start" /\ c.id \notin AllBegun(a, s.queue)
        /\ later[d.index].id = c.id /\ later[d.index].pieces = 0
    BY <1>2, <1>4
  <2>3. OpenCalls(a, e, r.queue, DOMAIN s.calls \cup {d.index}, later)
    BY <1>1, <1>4, <1>9, <2>1, <2>2, OpenBegins, Zenon
  <2>4. QED
    BY <1>4, <1>7, <2>3
<1>11. (Told(t, r.queue) => r.usageSeen) /\ Of(r.queue, "args") = Of(s.queue, "args")
  BY <1>2, <1>7, <1>9 DEF ChatAt, Adds
<1>12. ChatAt(a, e, t, w, r)
  BY <1>7, <1>9, <1>10, <1>11 DEF ChatAt
<1>13. QED
  BY <1>3, <1>7, <1>11, <1>12

ChatAdded(s, i) ==
  [Chat!Push(s, Chat!Args(s.calls[i].id)) EXCEPT !.calls[i].pieces = @ + 1]

\* A delta with a piece adds it to the call at its index.
LEMMA ChatAdds ==
  ASSUME ModelCallAssumption, NEW a, NEW e, NEW t, NEW w, NEW s, ChatAt(a, e, t, w, s), ~s.complete,
         Of(s.queue, "args") = {}, NEW i \in DOMAIN s.calls
  PROVE  ChatAt(a, e, t, w, ChatAdded(s, i))
<1> DEFINE c == [kind |-> "args", id |-> s.calls[i].id, why |-> ""]
           later == [s.calls EXCEPT ![i].pieces = @ + 1]
           q == Append(s.queue, c)
           r == [s EXCEPT !.queue = q, !.calls = later]
<1>1. /\ s \in ChatSinks /\ Core(a, e, t, w, s) /\ s.calls \in CallTables
      /\ OpenCalls(a, e, s.queue, DOMAIN s.calls, s.calls)
  BY DEF ChatAt, ChatSinks
<1>2. /\ c \in Chunks /\ c.kind = "args" /\ c.id = s.calls[i].id
      /\ c.kind \notin Final
  BY <1>1, ChunkMade, TableIs DEF Kinds, OfCall, Final, Whys
<1>3. ChatAdded(s, i) = r
  BY <1>1 DEF ChatAdded, Chat!Push, Chat!Args, Chat!Chunk, ChatSinks
<1>4. /\ later \in CallTables /\ DOMAIN later = DOMAIN s.calls
      /\ SameAt(DOMAIN s.calls \ {i}, s.calls, later)
      /\ later[i].id = s.calls[i].id /\ later[i].pieces = s.calls[i].pieces + 1
  BY <1>1, TableAdds, Zenon
<1> HIDE DEF c, later
<1>5. MayCome(a, e, t, s.queue, c)
  BY <1>1, <1>2 DEF MayCome, Core, OpenCalls
<1>6. q \in Seq(Chunks)
  BY <1>1, <1>2 DEF ChatSinks
<1> HIDE DEF q
<1>7. /\ r.queue = q /\ r.complete = FALSE /\ r.stop = s.stop
      /\ r.calls = later /\ r.usageSeen = s.usageSeen
      /\ r \in ChatSinks
  BY <1>1, <1>4, <1>6 DEF ChatSinks
<1> HIDE DEF r
<1>8. r.queue = Append(s.queue, c)
  BY <1>7 DEF q
<1>9. Core(a, e, t, w, r) /\ Adds(a, e, t, s.queue, c, r.queue)
  BY <1>1, <1>2, <1>5, <1>7, <1>8, CoreAdds DEF Final, ModelCallAssumption
<1>10. OpenCalls(a, e, r.queue, DOMAIN r.calls, r.calls)
  <2>1. /\ Adds(a, e, t, s.queue, c, r.queue) /\ c.kind = "args"
        /\ OpenCalls(a, e, s.queue, DOMAIN s.calls, s.calls) /\ s.calls[i].id = c.id
        /\ SameAt(DOMAIN s.calls \ {i}, s.calls, later)
        /\ later[i].id = c.id /\ later[i].pieces = s.calls[i].pieces + 1
    BY <1>1, <1>2, <1>4, <1>9
  <2>2. OpenCalls(a, e, r.queue, DOMAIN s.calls, later)
    BY <2>1, OpenAdds
  <2>3. QED
    BY <1>4, <1>7, <2>2
<1>11. Told(t, r.queue) => r.usageSeen
  BY <1>2, <1>7, <1>9 DEF ChatAt, Adds
<1>12. ChatAt(a, e, t, w, r)
  BY <1>7, <1>9, <1>10, <1>11 DEF ChatAt
<1>13. QED
  BY <1>3, <1>12

\* What a delta of a tool call makes of the queue may be heard.
LEMMA ChatCalled ==
  ASSUME ModelCallAssumption, NEW a, NEW e, NEW t, NEW w, NEW s, ChatAt(a, e, t, w, s), ~s.complete,
         Of(s.queue, "args") = {},
         NEW d, d.index \in Indices, d.id \in CallIds \cup {NoId}, d.id \notin AllBegun(a, s.queue)
  PROVE  ChatAt(a, e, t, w, Chat!OnToolCall(s, d))
<1> DEFINE begun == IF d.id = NoId THEN s ELSE ChatBegun(s, d)
<1>1. ChatAt(a, e, t, w, begun) /\ Of(begun.queue, "args") = {} /\ ~begun.complete
  BY ChatBegins
<1>2. Chat!OnToolCall(s, d) = IF d.index \notin DOMAIN begun.calls THEN Chat!Fail(begun)
                              ELSE IF ~d.piece THEN begun ELSE ChatAdded(begun, d.index)
  BY Zenon DEF Chat!OnToolCall, ChatBegun, ChatAdded
<1> HIDE DEF begun
<1>3. ChatAt(a, e, t, w, Chat!Fail(begun))
  BY <1>1, ChatAborts DEF Chat!Fail, Whys
<1>4. d.index \in DOMAIN begun.calls => ChatAt(a, e, t, w, ChatAdded(begun, d.index))
  BY <1>1, ChatAdds
<1>5. QED
  BY <1>1, <1>2, <1>3, <1>4

\* The open calls are closed at once, or the reply fails for one that does not
\* parse.
LEMMA ChatCloses ==
  ASSUME ModelCallAssumption, NEW a, NEW e, NEW t, NEW w, NEW s, ChatAt(a, e, t, w, s), ~s.complete
  PROVE  ChatAt(a, e, t, w, Chat!CloseCalls(s))
<1> DEFINE bad == {i \in DOMAIN s.calls : ~Chat!Parses(s.calls[i].pieces)}
           good == {i \in DOMAIN s.calls : \A b \in bad : i < b}
           order == S!Ascending(good)
           q == s.queue \o EndsOf(Cardinality(good), [k \in 1..Cardinality(good) |-> s.calls[order[k]].id])
           r == [s EXCEPT !.calls = [i \in {} |-> 0], !.queue = q]
<1>1. /\ s \in ChatSinks /\ Core(a, e, t, w, s) /\ s.calls \in CallTables
      /\ OpenCalls(a, e, s.queue, DOMAIN s.calls, s.calls)
      /\ Hears(a, e, t, s.queue) /\ ~Over(s.queue)
  BY DEF ChatAt, ChatSinks, Core
<1>2. /\ good \in SUBSET DOMAIN s.calls /\ good \subseteq Indices
      /\ good \in SUBSET Nat /\ IsFiniteSet(good)
  BY <1>1, TableIs, FS_Subset DEF ModelCallAssumption
<1>3. \A i \in good : S!Parses(s.calls[i].pieces)
  <2> SUFFICES ASSUME NEW i \in good, ~S!Parses(s.calls[i].pieces) PROVE FALSE
    OBVIOUS
  <2>1. i \in bad
    BY DEF Chat!Parses, S!Parses
  <2>2. i < i /\ i \in Nat
    BY <1>2, <2>1
  <2>3. QED
    BY <2>2
<1>4. Chat!CloseCalls(s) = IF bad = {} THEN r ELSE Chat!Fail(r)
  <2>1. Chat!Ascending(good) = order /\ Chat!Cardinality(good) = Cardinality(good)
    BY <1>2, AscendingIs, CardinalityIs, Zenon
  <2> HIDE DEF order, good, bad
  <2> DEFINE ends == [k \in 1..Cardinality(good) |-> Chat!End(s.calls[order[k]].id)]
             cut == [s EXCEPT !.calls = [i \in {} |-> 0]]
  <2>2. Chat!CloseCalls(s) = LET ended == Chat!PushAll(cut, ends)
                             IN  IF bad = {} THEN ended ELSE Chat!Fail(ended)
    BY <2>1, Zenon DEF Chat!CloseCalls, good, bad
  <2>3. ends = EndsOf(Cardinality(good), [k \in 1..Cardinality(good) |-> s.calls[order[k]].id])
    BY DEF Chat!End, Chat!Chunk, EndsOf
  <2> HIDE DEF ends
  <2>4. Chat!PushAll(cut, ends) = r
    BY <1>1, <2>3 DEF Chat!PushAll, ChatSinks
  <2> HIDE DEF cut, r
  <2>5. QED
    BY <2>2, <2>4
<1>5. Closes(a, e, t, s.queue, {s.calls[i].id : i \in good}, q)
  <2> HIDE DEF good
  <2>1. /\ OpenCalls(a, e, s.queue, DOMAIN s.calls, s.calls)
        /\ Hears(a, e, t, s.queue) /\ ~Over(s.queue)
        /\ good \in SUBSET DOMAIN s.calls /\ good \subseteq Indices
        /\ \A i \in good : S!Parses(s.calls[i].pieces)
    BY <1>1, <1>2, <1>3
  <2>2. QED
    BY <2>1, ClosesAll, Zenon
<1> HIDE DEF good, bad, order, q
<1>6. q \in Seq(Chunks)
  BY <1>5 DEF Closes, Hears
<1>7. [i \in {} |-> 0] \in CallTables /\ DOMAIN [i \in {} |-> 0] = {}
  BY TableEmpty
<1> DEFINE none == [i \in {} |-> 0]
<1>8. /\ r \in ChatSinks /\ r.queue = q /\ r.calls = none /\ r.complete = FALSE
      /\ r.stop = s.stop /\ r.usageSeen = s.usageSeen
  <2>1. none \in CallTables /\ r = [s EXCEPT !.calls = none, !.queue = q]
    BY <1>7
  <2> HIDE DEF none, r
  <2>2. QED
    BY <1>1, <1>6, <2>1 DEF ChatSinks
<1>9. DOMAIN none = {}
  BY <1>7
<1> HIDE DEF r, none
<1>10. Core(a, e, t, w, r)
  BY <1>1, <1>5, <1>8 DEF Core, Closes
<1>11. OpenCalls(a, e, r.queue, DOMAIN r.calls, r.calls)
  BY <1>8, <1>9 DEF OpenCalls
<1>12. Told(t, r.queue) => r.usageSeen
  BY <1>5, <1>8 DEF Closes, ChatAt
<1>13. ChatAt(a, e, t, w, r)
  BY <1>8, <1>10, <1>11, <1>12 DEF ChatAt
<1>14. ChatAt(a, e, t, w, Chat!Fail(r))
  BY <1>13, ChatAborts DEF Chat!Fail, Whys
<1>15. QED
  BY <1>4, <1>13, <1>14

\* With nothing queued, what will have been heard is what was.
LEMMA NothingQueued ==
  ASSUME NEW a, NEW q, q = <<>>
  PROVE  AllBegun(a, q) = Ids(a) /\ \A kind : Of(q, kind) = {}
<1>1. \A kind : Of(q, kind) = {}
  BY OfEmpty, Zenon
<1>2. QED
  BY <1>1 DEF AllBegun

\* The parts of a frame of chat completions.
LEMMA ChatFrameIs ==
  ASSUME NEW f \in Chat!Frames(CallIds, Indices, Stops)
  PROVE  /\ f.is \in {"[DONE]", "garbled", "chunk"}
         /\ f.says \in BOOLEAN /\ f.usage \in BOOLEAN /\ f.piece \in BOOLEAN
         /\ f.index \in SUBSET Indices /\ f.id \in CallIds \cup {NoId}
         /\ f.finish \in Stops \cup {NoStop}
BY DEF Chat!Frames

\* The end of the stream.
LEMMA ChatAtEnd ==
  ASSUME ModelCallAssumption, NEW a, NEW e, NEW t, NEW w, NEW s, ChatAt(a, e, t, w, s)
  PROVE  ChatAt(a, e, t, w, Chat!OnEnd(s))
<1>1. CASE s.stop = NoStop
  BY <1>1, ChatAborts DEF Chat!OnEnd, Chat!Truncated, Whys
<1>2. CASE s.stop # NoStop
  <2> DEFINE r == [s EXCEPT !.stop = NoStop]
  <2>1. s \in ChatSinks /\ s.stop \in Whys /\ w
    BY <1>2 DEF ChatAt, ChatSinks, Whys
  <2>2. /\ r \in ChatSinks /\ r.queue = s.queue /\ r.complete = s.complete
        /\ r.calls = s.calls /\ r.stop = NoStop /\ r.usageSeen = s.usageSeen
    BY <2>1 DEF ChatSinks
  <2>3. Chat!OnEnd(s) = Chat!Finish(r, s.stop)
    BY <1>2 DEF Chat!OnEnd
  <2> HIDE DEF r
  <2>4. ChatAt(a, e, t, w, r)
    BY <2>2 DEF ChatAt, Core
  <2>5. QED
    BY <2>1, <2>3, <2>4, ChatFinishes
<1>3. QED
  BY <1>1, <1>2

\* What a choice makes of the queue may be heard: text, a call, the calls
\* closed, usage.
LEMMA ChatChoice ==
  ASSUME ModelCallAssumption, NEW a, NEW e, NEW t, NEW w, NEW s, ChatAt(a, e, t, w, s), ~s.complete,
         Of(s.queue, "args") = {},
         NEW f \in Chat!Frames(CallIds, Indices, Stops), f.id \notin AllBegun(a, s.queue),
         f.finish # NoStop => w
  PROVE  ChatAt(a, e, t, w, Chat!OnChoice(s, f))
<1> DEFINE said == IF f.says THEN Chat!Push(s, Chat!Shown) ELSE s
           d == [index |-> CHOOSE i \in f.index : TRUE, id |-> f.id, piece |-> f.piece]
           called == IF f.index = {} THEN said ELSE Chat!OnToolCall(said, d)
           closed == Chat!CloseCalls(called)
           r == [closed EXCEPT !.stop = f.finish]
<1>1. f.index \in SUBSET Indices /\ f.id \in CallIds \cup {NoId} /\ f.finish \in Stops \cup {NoStop}
  BY ChatFrameIs
<1>2. ChatTold(a, e, t, w, s, said)
  <2>1. CASE f.says
    <3>1. ChatTold(a, e, t, w, s, Chat!Push(s, [kind |-> "shown", id |-> NoId, why |-> ""]))
      BY ChatTells
    <3>2. QED
      BY <2>1, <3>1 DEF Chat!Shown, Chat!Chunk
  <2>2. CASE ~f.says
    BY <2>2 DEF ChatTold
  <2>3. QED
    BY <2>1, <2>2
<1> HIDE DEF said
<1>3. /\ ChatAt(a, e, t, w, said) /\ ~said.complete
      /\ Of(said.queue, "args") = {} /\ f.id \notin AllBegun(a, said.queue)
  BY <1>2 DEF ChatTold
<1>4. ChatAt(a, e, t, w, called)
  <2>1. CASE f.index = {}
    BY <1>3, <2>1
  <2>2. CASE f.index # {}
    <3>1. (CHOOSE i \in f.index : TRUE) \in Indices
      BY <1>1, <2>2
    <3>2. d.index \in Indices /\ d.id = f.id
      BY <3>1
    <3> HIDE DEF d
    <3>3. ChatAt(a, e, t, w, Chat!OnToolCall(said, d))
      BY <1>1, <1>3, <3>2, ChatCalled
    <3>4. QED
      BY <2>2, <3>3
  <2>3. QED
    BY <2>1, <2>2
<1>5. Chat!OnChoice(s, f) = IF called.complete \/ f.finish = NoStop THEN called ELSE r
  BY Zenon DEF Chat!OnChoice, said
<1> HIDE DEF called
<1>6. ~called.complete => ChatAt(a, e, t, w, closed)
  BY <1>4, ChatCloses
<1> HIDE DEF closed
<1>7. ASSUME ChatAt(a, e, t, w, closed), f.finish # NoStop PROVE ChatAt(a, e, t, w, r)
  <2>1. closed \in ChatSinks /\ w
    BY <1>7 DEF ChatAt
  <2>2. /\ r \in ChatSinks /\ r.queue = closed.queue /\ r.complete = closed.complete
        /\ r.calls = closed.calls /\ r.usageSeen = closed.usageSeen
    BY <1>1, <2>1 DEF ChatSinks
  <2> HIDE DEF r
  <2>3. QED
    BY <1>7, <2>1, <2>2 DEF ChatAt, Core
<1>8. QED
  BY <1>4, <1>5, <1>6, <1>7

\* Every frame of chat completions leaves a queue that may be heard.
LEMMA ChatFrame ==
  ASSUME ModelCallAssumption, NEW a, NEW e, NEW t, NEW w \in BOOLEAN, NEW s, ChatAt(a, e, t, w, s),
         ~s.complete, s.queue = <<>>,
         NEW f \in Chat!Frames(CallIds, Indices, Stops), f.id \notin Ids(a)
  PROVE  ChatAt(a, e, t, w \/ Chat!SaysWhole(f), Chat!OnFrame(s, f))
<1> DEFINE v == w \/ Chat!SaysWhole(f)
           counted == IF f.usage THEN Chat!OnUsage(s) ELSE s
<1>1. ChatAt(a, e, t, v, s)
  BY DEF ChatAt, Core
<1>2. f.is \in {"[DONE]", "garbled", "chunk"}
  BY ChatFrameIs
<1>3. f.is = "chunk" /\ f.finish # NoStop => v
  BY DEF Chat!SaysWhole
<1>4. f.id \notin AllBegun(a, s.queue) /\ Of(s.queue, "args") = {}
  BY NothingQueued, Zenon
<1> HIDE DEF v
<1>5. CASE f.is = "[DONE]"
  BY <1>1, <1>5, ChatAtEnd DEF Chat!OnFrame, v
<1>6. CASE f.is = "garbled"
  BY <1>1, <1>6, ChatAborts DEF Chat!OnFrame, Chat!Fail, Whys, v
<1>7. CASE f.is = "chunk"
  <2>1. ChatTold(a, e, t, v, s, counted)
    BY <1>1, ChatCounts DEF ChatTold
  <2>2. Chat!OnFrame(s, f) = Chat!OnChoice(counted, f)
    BY <1>7 DEF Chat!OnFrame
  <2> HIDE DEF counted
  <2>3. /\ ChatAt(a, e, t, v, counted) /\ ~counted.complete
        /\ Of(counted.queue, "args") = {} /\ f.id \notin AllBegun(a, counted.queue)
    BY <1>4, <2>1 DEF ChatTold
  <2>4. ChatAt(a, e, t, v, Chat!OnChoice(counted, f))
    BY <1>3, <1>7, <2>3, ChatChoice
  <2>5. QED
    BY <2>2, <2>4 DEF v
<1>8. QED
  BY <1>2, <1>5, <1>6, <1>7

-----------------------------------------------------------------------------
(* Anthropic messages *)

MsgsSinks == [queue : Seq(Chunks), complete : BOOLEAN, calls : CallTables,
              stop : Stops \cup {NoStop}]

MsgsAt(a, e, t, w, s) ==
  /\ s \in MsgsSinks
  /\ Core(a, e, t, w, s)
  /\ ~s.complete => /\ OpenCalls(a, e, s.queue, DOMAIN s.calls, s.calls)
                    /\ ~Told(t, s.queue)

\* The reply ends, or fails.
LEMMA MsgsEnds ==
  ASSUME ModelCallAssumption, NEW a, NEW e, NEW t, NEW w, NEW s, s \in MsgsSinks, Core(a, e, t, w, s),
         NEW kind \in Final, NEW why \in Whys, kind = "done" => w
  PROVE  MsgsAt(a, e, t, w, Msgs!CloseWith(s, [kind |-> kind, id |-> NoId, why |-> why]))
<1> DEFINE c == [kind |-> kind, id |-> NoId, why |-> why]
           r == [s EXCEPT !.queue = Append(@, c), !.complete = TRUE]
<1>1. Msgs!CloseWith(s, c) = IF s.complete THEN s ELSE r
  BY DEF Msgs!CloseWith
<1>2. CASE s.complete
  BY <1>1, <1>2 DEF MsgsAt
<1>3. CASE ~s.complete
  <2>1. MayCome(a, e, t, s.queue, c)
    BY <1>3, FinalComes
  <2>2. c.kind = kind /\ c \in Chunks
    BY <2>1 DEF MayCome
  <2> HIDE DEF c
  <2>3. /\ r.queue = Append(s.queue, c) /\ r.complete = TRUE
        /\ r \in MsgsSinks
    <3>1. Append(s.queue, c) \in Seq(Chunks)
      BY <2>2 DEF MsgsSinks
    <3>2. r = [s EXCEPT !.queue = Append(s.queue, c), !.complete = TRUE]
      OBVIOUS
    <3>3. QED
      BY <3>1, <3>2 DEF MsgsSinks
  <2> HIDE DEF r
  <2>4. Core(a, e, t, w, r)
    BY <2>1, <2>2, <2>3, CoreAdds DEF ModelCallAssumption
  <2>5. MsgsAt(a, e, t, w, r)
    BY <2>3, <2>4 DEF MsgsAt
  <2>6. QED
    BY <1>1, <1>3, <2>5 DEF r, c
<1>4. QED
  BY <1>2, <1>3

\* An error may come at any time.
LEMMA MsgsAborts ==
  ASSUME ModelCallAssumption, NEW a, NEW e, NEW t, NEW w, NEW s, MsgsAt(a, e, t, w, s),
         NEW why \in Whys
  PROVE  MsgsAt(a, e, t, w, Msgs!Abort(s, why))
<1>1. Msgs!Abort(s, why) = Msgs!CloseWith(s, [kind |-> "error", id |-> NoId, why |-> why])
  BY DEF Msgs!Abort, Msgs!Broken, Msgs!Chunk
<1>2. QED
  BY <1>1, MsgsEnds DEF MsgsAt, Final

\* A chunk that is pushed, whichever it is, and what the decoder changes beside it.
LEMMA MsgsPushes ==
  ASSUME ModelCallAssumption, NEW a, NEW e, NEW t, NEW w, NEW s, MsgsAt(a, e, t, w, s), ~s.complete,
         NEW c, MayCome(a, e, t, s.queue, c), c.kind \notin Final,
         NEW r, r \in MsgsSinks, r.queue = Append(s.queue, c), r.complete = FALSE
  PROVE  Core(a, e, t, w, r) /\ Adds(a, e, t, s.queue, c, r.queue)
BY CoreAdds DEF MsgsAt, ModelCallAssumption, Final

\* Text and signatures may come at any time, usage at the end.
LEMMA MsgsTells ==
  ASSUME ModelCallAssumption, NEW a, NEW e, NEW t, NEW w, NEW s, MsgsAt(a, e, t, w, s), ~s.complete,
         NEW kind \in {"shown", "signature", "usage"}
  PROVE  LET r == Msgs!Push(s, [kind |-> kind, id |-> NoId, why |-> ""])
         IN  /\ r \in MsgsSinks /\ Core(a, e, t, w, r)
             /\ kind # "usage" => MsgsAt(a, e, t, w, r)
<1> DEFINE c == [kind |-> kind, id |-> NoId, why |-> ""]
           q == Append(s.queue, c)
           r == [s EXCEPT !.queue = q]
<1>1. Msgs!Push(s, c) = r
  BY DEF Msgs!Push
<1>2. c \in Chunks /\ c.kind = kind /\ kind \notin OfCall /\ kind \notin Final
  BY ChunkMade DEF Kinds, OfCall, Final, Whys
<1> HIDE DEF c
<1>3. s \in MsgsSinks /\ Core(a, e, t, w, s)
  BY DEF MsgsAt
<1>4. MayCome(a, e, t, s.queue, c)
  BY <1>2, <1>3 DEF MayCome, Core, OfCall, MsgsAt
<1>5. q \in Seq(Chunks)
  BY <1>2, <1>3 DEF MsgsSinks
<1> HIDE DEF q
<1>6. r.queue = q /\ r.complete = FALSE /\ r.calls = s.calls /\ r \in MsgsSinks
  BY <1>3, <1>5 DEF MsgsSinks
<1> HIDE DEF r
<1>7. Core(a, e, t, w, r) /\ Adds(a, e, t, s.queue, c, r.queue)
  BY <1>2, <1>4, <1>6, MsgsPushes DEF q
<1>8. OpenCalls(a, e, r.queue, DOMAIN r.calls, r.calls)
  BY <1>2, <1>6, <1>7, OpenStays DEF MsgsAt
<1>9. kind # "usage" => ~Told(t, r.queue)
  BY <1>2, <1>7 DEF MsgsAt, Adds
<1>10. kind # "usage" => MsgsAt(a, e, t, w, r)
  BY <1>6, <1>7, <1>8, <1>9 DEF MsgsAt
<1>11. QED
  BY <1>1, <1>6, <1>7, <1>10 DEF r, q, c

\* A block that begins may begin a call.
LEMMA MsgsStarts ==
  ASSUME ModelCallAssumption, NEW a, NEW e, NEW t, NEW w, NEW s, MsgsAt(a, e, t, w, s), ~s.complete,
         NEW f, f.index \in Indices, f.id \in CallIds \cup {NoId}, f.id \notin AllBegun(a, s.queue)
  PROVE  MsgsAt(a, e, t, w, Msgs!OnBlockStart(s, f))
<1> DEFINE c == [kind |-> "start", id |-> f.id, why |-> ""]
           later == [i \in DOMAIN s.calls \cup {f.index} |->
                       IF i = f.index THEN [id |-> f.id, pieces |-> 0] ELSE s.calls[i]]
           q == Append(s.queue, c)
           r == [s EXCEPT !.queue = q, !.calls = later]
<1>1. /\ s \in MsgsSinks /\ Core(a, e, t, w, s) /\ s.calls \in CallTables
      /\ OpenCalls(a, e, s.queue, DOMAIN s.calls, s.calls)
  BY DEF MsgsAt, MsgsSinks
<1>2. Msgs!OnBlockStart(s, f) = IF ~f.tool THEN s ELSE IF f.id = NoId THEN Msgs!Fail(s) ELSE r
  BY <1>1 DEF Msgs!OnBlockStart, Msgs!Push, Msgs!Start, Msgs!Chunk, MsgsSinks
<1>3. MsgsAt(a, e, t, w, Msgs!Fail(s))
  BY MsgsAborts DEF Msgs!Fail, Whys
<1>4. ASSUME f.id # NoId PROVE MsgsAt(a, e, t, w, r)
  <2>1. /\ c \in Chunks /\ c.kind = "start" /\ c.id = f.id
        /\ c.kind \notin Final
    BY <1>4, ChunkMade DEF Kinds, OfCall, Final, Whys
  <2>2. f.id \in CallIds
    BY <1>4
  <2>3. /\ later \in CallTables /\ DOMAIN later = DOMAIN s.calls \cup {f.index}
        /\ SameAt(DOMAIN s.calls \ {f.index}, s.calls, later)
        /\ later[f.index].id = f.id /\ later[f.index].pieces = 0
    <3>1. BeginsCall(s.calls, f.index, f.id, later)
      BY <1>1, <2>2, TableBegins, Zenon
    <3>2. QED
      BY <3>1 DEF BeginsCall
  <2> HIDE DEF c, later
  <2>4. MayCome(a, e, t, s.queue, c)
    BY <1>1, <2>1 DEF MayCome, Core, MsgsAt
  <2>5. q \in Seq(Chunks)
    BY <1>1, <2>1 DEF MsgsSinks
  <2> HIDE DEF q
  <2>6. r.queue = q /\ r.complete = FALSE /\ r.calls = later /\ r \in MsgsSinks
    BY <1>1, <2>3, <2>5 DEF MsgsSinks
  <2> HIDE DEF r
  <2>7. Core(a, e, t, w, r) /\ Adds(a, e, t, s.queue, c, r.queue)
    BY <2>1, <2>4, <2>6, MsgsPushes DEF q
  <2>8. OpenCalls(a, e, r.queue, DOMAIN r.calls, r.calls)
    <3>1. Hears(a, e, t, s.queue)
      BY <1>1 DEF Core
    <3>2. /\ c.kind = "start" /\ c.id \notin AllBegun(a, s.queue)
          /\ later[f.index].id = c.id /\ later[f.index].pieces = 0
      BY <2>1, <2>3
    <3>3. OpenCalls(a, e, r.queue, DOMAIN s.calls \cup {f.index}, later)
      BY <1>1, <2>3, <2>7, <3>1, <3>2, OpenBegins, Zenon
    <3>4. QED
      BY <2>3, <2>6, <3>3
  <2>9. ~Told(t, r.queue)
    BY <2>1, <2>7 DEF MsgsAt, Adds
  <2>10. QED
    BY <2>6, <2>7, <2>8, <2>9 DEF MsgsAt
<1>5. QED
  BY <1>2, <1>3, <1>4

\* A delta shows text, signs it, or adds to the call of its block.
LEMMA MsgsDelta ==
  ASSUME ModelCallAssumption, NEW a, NEW e, NEW t, NEW w, NEW s, MsgsAt(a, e, t, w, s), ~s.complete,
         Of(s.queue, "args") = {}, NEW f
  PROVE  MsgsAt(a, e, t, w, Msgs!OnBlockDelta(s, f))
<1> DEFINE i == f.index
           c == [kind |-> "args", id |-> s.calls[i].id, why |-> ""]
           later == [s.calls EXCEPT ![i].pieces = @ + 1]
           q == Append(s.queue, c)
           r == [s EXCEPT !.queue = q, !.calls = later]
           told == [kind |-> IF f.says = "text" THEN "shown" ELSE "signature", id |-> NoId, why |-> ""]
<1>1. /\ s \in MsgsSinks /\ Core(a, e, t, w, s) /\ s.calls \in CallTables
      /\ OpenCalls(a, e, s.queue, DOMAIN s.calls, s.calls)
  BY DEF MsgsAt, MsgsSinks
<1>2. CASE f.says # "piece"
  <2>1. Msgs!OnBlockDelta(s, f) = Msgs!Push(s, told)
    BY <1>2 DEF Msgs!OnBlockDelta, Msgs!Shown, Msgs!Signature, Msgs!Chunk
  <2>2. MsgsAt(a, e, t, w, Msgs!Push(s, told))
    BY MsgsTells
  <2>3. QED
    BY <2>1, <2>2
<1>3. CASE f.says = "piece" /\ i \notin DOMAIN s.calls
  BY <1>3, MsgsAborts DEF Msgs!OnBlockDelta, Msgs!Fail, Whys
<1>4. CASE f.says = "piece" /\ i \in DOMAIN s.calls
  <2>1. Msgs!OnBlockDelta(s, f) = r
    BY <1>1, <1>4 DEF Msgs!OnBlockDelta, Msgs!Push, Msgs!Args, Msgs!Chunk, MsgsSinks
  <2> HIDE DEF i
  <2>2. /\ c \in Chunks /\ c.kind = "args" /\ c.id = s.calls[i].id
        /\ c.kind \notin Final
    BY <1>1, <1>4, ChunkMade, TableIs DEF Kinds, OfCall, Final, Whys
  <2>3. /\ later \in CallTables /\ DOMAIN later = DOMAIN s.calls
        /\ SameAt(DOMAIN s.calls \ {i}, s.calls, later)
        /\ later[i].id = s.calls[i].id /\ later[i].pieces = s.calls[i].pieces + 1
    BY <1>1, <1>4, TableAdds, Zenon
  <2> HIDE DEF c, later
  <2>4. MayCome(a, e, t, s.queue, c)
    BY <1>1, <1>4, <2>2 DEF MayCome, Core, OpenCalls, MsgsAt
  <2>5. q \in Seq(Chunks)
    BY <1>1, <2>2 DEF MsgsSinks
  <2> HIDE DEF q
  <2>6. r.queue = q /\ r.complete = FALSE /\ r.calls = later /\ r \in MsgsSinks
    BY <1>1, <2>3, <2>5 DEF MsgsSinks
  <2> HIDE DEF r
  <2>7. Core(a, e, t, w, r) /\ Adds(a, e, t, s.queue, c, r.queue)
    BY <2>2, <2>4, <2>6, MsgsPushes DEF q
  <2>8. OpenCalls(a, e, r.queue, DOMAIN r.calls, r.calls)
    <3>1. /\ Adds(a, e, t, s.queue, c, r.queue) /\ c.kind = "args"
          /\ OpenCalls(a, e, s.queue, DOMAIN s.calls, s.calls) /\ s.calls[i].id = c.id
          /\ SameAt(DOMAIN s.calls \ {i}, s.calls, later) /\ i \in DOMAIN s.calls
          /\ later[i].id = c.id /\ later[i].pieces = s.calls[i].pieces + 1
      BY <1>1, <1>4, <2>2, <2>3, <2>7
    <3>2. OpenCalls(a, e, r.queue, DOMAIN s.calls, later)
      BY <3>1, OpenAdds
    <3>3. QED
      BY <2>3, <2>6, <3>2
  <2>9. ~Told(t, r.queue)
    BY <2>2, <2>7 DEF MsgsAt, Adds
  <2>10. MsgsAt(a, e, t, w, r)
    BY <2>6, <2>7, <2>8, <2>9 DEF MsgsAt
  <2>11. QED
    BY <2>1, <2>10
<1>5. QED
  BY <1>2, <1>3, <1>4

\* A block that stops closes its call, or fails for arguments that do not
\* parse.
LEMMA MsgsCloses ==
  ASSUME ModelCallAssumption, NEW a, NEW e, NEW t, NEW w, NEW s, MsgsAt(a, e, t, w, s), ~s.complete,
         NEW i
  PROVE  MsgsAt(a, e, t, w, Msgs!CloseCall(s, i))
<1> DEFINE c == [kind |-> "end", id |-> s.calls[i].id, why |-> ""]
           later == [j \in DOMAIN s.calls \ {i} |-> s.calls[j]]
           q == Append(s.queue, c)
           rest == [s EXCEPT !.calls = later]
           r == [s EXCEPT !.queue = q, !.calls = later]
<1>1. /\ s \in MsgsSinks /\ Core(a, e, t, w, s) /\ s.calls \in CallTables
      /\ OpenCalls(a, e, s.queue, DOMAIN s.calls, s.calls)
  BY DEF MsgsAt, MsgsSinks
<1>2. CASE i \notin DOMAIN s.calls
  BY <1>2 DEF Msgs!CloseCall
<1>3. CASE i \in DOMAIN s.calls
  <2>1. Msgs!CloseCall(s, i) = IF Msgs!Parses(s.calls[i].pieces) THEN r ELSE Msgs!Fail(rest)
    BY <1>1, <1>3 DEF Msgs!CloseCall, Msgs!Push, Msgs!End, Msgs!Chunk, MsgsSinks
  <2>2. /\ c \in Chunks /\ c.kind = "end" /\ c.id = s.calls[i].id
        /\ c.kind \notin Final
    BY <1>1, <1>3, ChunkMade, TableIs DEF Kinds, OfCall, Final, Whys
  <2>3. /\ later \in CallTables /\ DOMAIN later = DOMAIN s.calls \ {i}
        /\ SameAt(DOMAIN s.calls \ {i}, s.calls, later)
    BY <1>1, <1>3, TableDrops, Zenon
  <2> HIDE DEF c, later
  <2>4. MsgsAt(a, e, t, w, rest)
    <3>1. rest \in MsgsSinks /\ rest.queue = s.queue /\ rest.complete = s.complete /\ rest.calls = later
      BY <1>1, <2>3 DEF MsgsSinks
    <3> HIDE DEF rest
    <3>2. OpenCalls(a, e, rest.queue, DOMAIN rest.calls, rest.calls)
      BY <1>1, <2>3, <3>1, OpenSame
    <3>3. QED
      BY <1>1, <3>1, <3>2 DEF MsgsAt, Core
  <2>5. MsgsAt(a, e, t, w, Msgs!Fail(rest))
    BY <2>4, MsgsAborts DEF Msgs!Fail, Whys
  <2>6. ASSUME Msgs!Parses(s.calls[i].pieces) PROVE MsgsAt(a, e, t, w, r)
    <3>1. S!Parses(Count(a, s.queue, c.id))
      BY <1>1, <1>3, <2>2, <2>6 DEF Msgs!Parses, S!Parses, OpenCalls
    <3>2. MayCome(a, e, t, s.queue, c)
      BY <1>1, <1>3, <2>2, <3>1 DEF MayCome, Core, OpenCalls, MsgsAt
    <3>3. q \in Seq(Chunks)
      BY <1>1, <2>2 DEF MsgsSinks
    <3> HIDE DEF q
    <3>4. r.queue = q /\ r.complete = FALSE /\ r.calls = later /\ r \in MsgsSinks
      BY <1>1, <2>3, <3>3 DEF MsgsSinks
    <3> HIDE DEF r
    <3>5. Core(a, e, t, w, r) /\ Adds(a, e, t, s.queue, c, r.queue)
      BY <2>2, <3>2, <3>4, MsgsPushes DEF q
    <3>6. OpenCalls(a, e, r.queue, DOMAIN r.calls, r.calls)
      <4>1. /\ Adds(a, e, t, s.queue, c, r.queue) /\ c.kind = "end"
            /\ OpenCalls(a, e, s.queue, DOMAIN s.calls, s.calls) /\ s.calls[i].id = c.id
            /\ SameAt(DOMAIN s.calls \ {i}, s.calls, later) /\ i \in DOMAIN s.calls
        BY <1>1, <1>3, <2>2, <2>3, <3>5
      <4>2. OpenCalls(a, e, r.queue, DOMAIN s.calls \ {i}, later)
        BY <4>1, OpenEnds
      <4>3. QED
        BY <2>3, <3>4, <4>2
    <3>7. ~Told(t, r.queue)
      BY <2>2, <3>5 DEF MsgsAt, Adds
    <3>8. QED
      BY <3>4, <3>5, <3>6, <3>7 DEF MsgsAt
  <2>7. QED
    BY <2>1, <2>5, <2>6
<1>4. QED
  BY <1>2, <1>3

\* The parts of a frame of messages.
LEMMA MsgsFrameIs ==
  ASSUME NEW f \in Msgs!Frames(CallIds, Indices, Stops)
  PROVE  /\ f.is \in {"garbled", "content_block_start", "content_block_delta", "content_block_stop",
                      "message_delta", "message_stop", "error"}
         /\ f.is = "content_block_start" => f.index \in Indices
         /\ f.id \in CallIds \cup {NoId}
         /\ f.is = "message_delta" => f.stop \in Stops
         /\ f.is = "error" => f.stop \in Whys
BY DEF Msgs!Frames, Whys

\* The message stops: usage is told, and the reply is over.
LEMMA MsgsStopped ==
  ASSUME ModelCallAssumption, NEW a, NEW e, NEW t, NEW w, NEW s, MsgsAt(a, e, t, w, s), ~s.complete, w
  PROVE  MsgsAt(a, e, t, w, Msgs!OnMessageStop(s))
<1> DEFINE told == Msgs!Push(s, [kind |-> "usage", id |-> NoId, why |-> ""])
           r == [told EXCEPT !.stop = NoStop]
           why == IF s.stop = NoStop THEN "EndTurn" ELSE s.stop
<1>1. told \in MsgsSinks /\ Core(a, e, t, w, told)
  BY MsgsTells
<1>2. why \in Whys
  BY DEF MsgsAt, MsgsSinks, Whys
<1>3. Msgs!OnMessageStop(s) = Msgs!CloseWith(r, [kind |-> "done", id |-> NoId, why |-> why])
  BY Zenon DEF Msgs!OnMessageStop, Msgs!Finish, Msgs!Done, Msgs!Tally, Msgs!Chunk
<1> HIDE DEF told, why
<1>4. r \in MsgsSinks /\ r.queue = told.queue /\ r.complete = told.complete
  BY <1>1 DEF MsgsSinks
<1> HIDE DEF r
<1>5. Core(a, e, t, w, r)
  BY <1>1, <1>4 DEF Core
<1>6. QED
  BY <1>2, <1>3, <1>4, <1>5, MsgsEnds DEF Final

\* Every frame of messages leaves a queue that may be heard.
LEMMA MsgsFrame ==
  ASSUME ModelCallAssumption, NEW a, NEW e, NEW t, NEW w \in BOOLEAN, NEW s, MsgsAt(a, e, t, w, s),
         ~s.complete, s.queue = <<>>,
         NEW f \in Msgs!Frames(CallIds, Indices, Stops), f.id \notin Ids(a)
  PROVE  MsgsAt(a, e, t, w \/ Msgs!SaysWhole(f), Msgs!OnFrame(s, f))
<1> DEFINE v == w \/ Msgs!SaysWhole(f)
<1>1. MsgsAt(a, e, t, v, s)
  BY DEF MsgsAt, Core
<1>2. /\ f.is \in {"garbled", "content_block_start", "content_block_delta", "content_block_stop",
                   "message_delta", "message_stop", "error"}
      /\ f.is = "content_block_start" => f.index \in Indices
      /\ f.id \in CallIds \cup {NoId}
      /\ f.is = "message_delta" => f.stop \in Stops
      /\ f.is = "error" => f.stop \in Whys
  BY MsgsFrameIs
<1>3. f.is = "message_stop" => v
  BY DEF Msgs!SaysWhole
<1>4. f.id \notin AllBegun(a, s.queue) /\ Of(s.queue, "args") = {}
  BY NothingQueued, Zenon
<1> HIDE DEF v
<1>5. CASE f.is = "garbled"
  BY <1>1, <1>5, MsgsAborts DEF Msgs!OnFrame, Msgs!Fail, Whys, v
<1>6. CASE f.is = "content_block_start"
  BY <1>1, <1>2, <1>4, <1>6, MsgsStarts DEF Msgs!OnFrame, v
<1>7. CASE f.is = "content_block_delta"
  BY <1>1, <1>4, <1>7, MsgsDelta DEF Msgs!OnFrame, v
<1>8. CASE f.is = "content_block_stop"
  BY <1>1, <1>8, MsgsCloses DEF Msgs!OnFrame, v
<1>9. CASE f.is = "message_delta"
  <2> DEFINE r == [s EXCEPT !.stop = f.stop]
  <2>1. s \in MsgsSinks
    BY <1>1 DEF MsgsAt
  <2>2. r \in MsgsSinks /\ r.queue = s.queue /\ r.complete = s.complete /\ r.calls = s.calls
    BY <1>2, <1>9, <2>1 DEF MsgsSinks
  <2>3. Msgs!OnFrame(s, f) = r
    BY <1>9 DEF Msgs!OnFrame
  <2> HIDE DEF r
  <2>4. MsgsAt(a, e, t, v, r)
    BY <1>1, <2>2 DEF MsgsAt, Core
  <2>5. QED
    BY <2>3, <2>4 DEF v
<1>10. CASE f.is = "message_stop"
  BY <1>1, <1>3, <1>10, MsgsStopped DEF Msgs!OnFrame, v
<1>11. CASE f.is = "error"
  BY <1>1, <1>2, <1>11, MsgsAborts DEF Msgs!OnFrame, v
<1>12. QED
  BY <1>2, <1>5, <1>6, <1>7, <1>8, <1>9, <1>10, <1>11

\* The end of the stream.
LEMMA MsgsAtEnd ==
  ASSUME ModelCallAssumption, NEW a, NEW e, NEW t, NEW w, NEW s, MsgsAt(a, e, t, w, s)
  PROVE  MsgsAt(a, e, t, w, Msgs!OnEnd(s))
BY MsgsAborts DEF Msgs!OnEnd, Msgs!Truncated, Whys

-----------------------------------------------------------------------------
(* OpenAI responses *)

ItemTables == UNION {[D -> [id : CallIds, pieces : Nat, ended : BOOLEAN]] : D \in SUBSET Indices}

RespSinks == [queue : Seq(Chunks), complete : BOOLEAN, calls : ItemTables,
              sawToolCall : BOOLEAN, refused : BOOLEAN, reasoning : BOOLEAN]

Open(calls) == {i \in DOMAIN calls : ~calls[i].ended}

\* Every call that has not ended is open at some index.
AllOpen(a, e, q, calls) ==
  \A c \in AllBegun(a, q) \ AllEnded(e, q) : \E i \in Open(calls) : calls[i].id = c

AllClosed(a, e, q) == AllBegun(a, q) \subseteq AllEnded(e, q)

RespAt(a, e, t, w, s) ==
  /\ s \in RespSinks
  /\ Core(a, e, t, w, s)
  /\ Of(s.queue, "done") # {} => AllClosed(a, e, s.queue)
  /\ ~s.complete => /\ OpenCalls(a, e, s.queue, Open(s.calls), s.calls)
                    /\ AllOpen(a, e, s.queue, s.calls)
                    /\ ~Told(t, s.queue)

\* What a table of output items holds.
LEMMA ItemsAre ==
  ASSUME NEW calls \in ItemTables
  PROVE  /\ DOMAIN calls \subseteq Indices
         /\ \A i \in DOMAIN calls : calls[i] \in [id : CallIds, pieces : Nat, ended : BOOLEAN]
BY DEF ItemTables

\* What makes a table of output items.
LEMMA ItemsMade ==
  ASSUME NEW D \in SUBSET Indices, NEW calls, calls = [i \in D |-> calls[i]],
         \A i \in D : calls[i] \in [id : CallIds, pieces : Nat, ended : BOOLEAN]
  PROVE  calls \in ItemTables /\ DOMAIN calls = D
<1>1. calls \in [D -> [id : CallIds, pieces : Nat, ended : BOOLEAN]]
  OBVIOUS
<1>2. QED
  BY <1>1 DEF ItemTables

BeginsItem(calls, i, c, later) ==
  /\ later \in ItemTables /\ Open(later) = Open(calls) \cup {i}
  /\ \A j \in DOMAIN calls : later[j] = calls[j]
  /\ later[i].id = c /\ later[i].pieces = 0

\* An item that is new takes its index, open.
LEMMA ItemBegins ==
  ASSUME NEW calls \in ItemTables, NEW i \in Indices, i \notin DOMAIN calls, NEW c \in CallIds
  PROVE  BeginsItem(calls, i, c,
                    [j \in DOMAIN calls \cup {i} |->
                       IF j = i THEN [id |-> c, pieces |-> 0, ended |-> FALSE] ELSE calls[j]])
<1> DEFINE later == [j \in DOMAIN calls \cup {i} |->
                       IF j = i THEN [id |-> c, pieces |-> 0, ended |-> FALSE] ELSE calls[j]]
<1>1. /\ DOMAIN calls \subseteq Indices
      /\ \A j \in DOMAIN calls : calls[j] \in [id : CallIds, pieces : Nat, ended : BOOLEAN]
  BY ItemsAre
<1>2. \A j \in DOMAIN calls \cup {i} : later[j] \in [id : CallIds, pieces : Nat, ended : BOOLEAN]
  BY <1>1
<1>3. /\ later[i].id = c /\ later[i].pieces = 0 /\ later[i].ended = FALSE
      /\ \A j \in DOMAIN calls : later[j] = calls[j]
  OBVIOUS
<1>4. later = [j \in DOMAIN calls \cup {i} |-> later[j]]
  OBVIOUS
<1> HIDE DEF later
<1>5. later \in ItemTables /\ DOMAIN later = DOMAIN calls \cup {i}
  BY <1>1, <1>2, <1>4, ItemsMade
<1>6. Open(later) = Open(calls) \cup {i}
  BY <1>3, <1>5 DEF Open
<1>7. QED
  BY <1>3, <1>5, <1>6 DEF later, BeginsItem

\* A fragment is counted at its index and at no other.
LEMMA ItemAdds ==
  ASSUME NEW calls \in ItemTables, NEW i \in DOMAIN calls
  PROVE  LET later == [calls EXCEPT ![i].pieces = @ + 1]
         IN  /\ later \in ItemTables /\ Open(later) = Open(calls)
             /\ \A j \in DOMAIN calls : later[j].id = calls[j].id
             /\ SameAt(DOMAIN calls \ {i}, calls, later)
             /\ later[i].pieces = calls[i].pieces + 1
<1> DEFINE later == [calls EXCEPT ![i].pieces = @ + 1]
<1>1. /\ DOMAIN calls \subseteq Indices
      /\ \A j \in DOMAIN calls : calls[j] \in [id : CallIds, pieces : Nat, ended : BOOLEAN]
  BY ItemsAre
<1>2. /\ later[i] \in [id : CallIds, pieces : Nat, ended : BOOLEAN]
      /\ later[i].id = calls[i].id /\ later[i].pieces = calls[i].pieces + 1
      /\ later[i].ended = calls[i].ended
  BY <1>1
<1>3. \A j \in DOMAIN calls \ {i} : later[j] = calls[j]
  OBVIOUS
<1>4. later = [j \in DOMAIN calls |-> later[j]]
  OBVIOUS
<1> HIDE DEF later
<1>5. later \in ItemTables /\ DOMAIN later = DOMAIN calls
  BY <1>1, <1>2, <1>3, <1>4, ItemsMade
<1>6. \A j \in DOMAIN calls : later[j].id = calls[j].id /\ later[j].ended = calls[j].ended
  BY <1>2, <1>3
<1>7. Open(later) = Open(calls)
  BY <1>5, <1>6 DEF Open
<1>8. QED
  BY <1>2, <1>3, <1>5, <1>6, <1>7 DEF later, SameAt

\* An item that ends stays in the table, closed.
LEMMA ItemEnds ==
  ASSUME NEW calls \in ItemTables, NEW i \in DOMAIN calls
  PROVE  LET later == [calls EXCEPT ![i].ended = TRUE]
         IN  /\ later \in ItemTables /\ Open(later) = Open(calls) \ {i}
             /\ SameAt(DOMAIN calls, calls, later)
<1> DEFINE later == [calls EXCEPT ![i].ended = TRUE]
<1>1. /\ DOMAIN calls \subseteq Indices
      /\ \A j \in DOMAIN calls : calls[j] \in [id : CallIds, pieces : Nat, ended : BOOLEAN]
  BY ItemsAre
<1>2. /\ later[i] \in [id : CallIds, pieces : Nat, ended : BOOLEAN]
      /\ later[i].id = calls[i].id /\ later[i].pieces = calls[i].pieces
      /\ later[i].ended = TRUE
  BY <1>1
<1>3. \A j \in DOMAIN calls \ {i} : later[j] = calls[j]
  OBVIOUS
<1>4. later = [j \in DOMAIN calls |-> later[j]]
  OBVIOUS
<1> HIDE DEF later
<1>5. later \in ItemTables /\ DOMAIN later = DOMAIN calls
  BY <1>1, <1>2, <1>3, <1>4, ItemsMade
<1>6. Open(later) = Open(calls) \ {i}
  BY <1>2, <1>3, <1>5 DEF Open
<1>7. QED
  BY <1>2, <1>3, <1>5, <1>6 DEF later, SameAt

\* Those of a set are ended together.
LEMMA ItemsEnd ==
  ASSUME NEW calls \in ItemTables, NEW G \in SUBSET DOMAIN calls
  PROVE  LET later == [i \in DOMAIN calls |-> [calls[i] EXCEPT !.ended = @ \/ i \in G]]
         IN  /\ later \in ItemTables /\ Open(later) = Open(calls) \ G
             /\ SameAt(DOMAIN calls, calls, later)
<1> DEFINE later == [i \in DOMAIN calls |-> [calls[i] EXCEPT !.ended = @ \/ i \in G]]
<1>1. /\ DOMAIN calls \subseteq Indices
      /\ \A j \in DOMAIN calls : calls[j] \in [id : CallIds, pieces : Nat, ended : BOOLEAN]
  BY ItemsAre
<1>2. ASSUME NEW j \in DOMAIN calls
      PROVE  /\ later[j] \in [id : CallIds, pieces : Nat, ended : BOOLEAN]
             /\ later[j].id = calls[j].id /\ later[j].pieces = calls[j].pieces
             /\ later[j].ended <=> (calls[j].ended \/ j \in G)
  <2> DEFINE g == calls[j].ended \/ j \in G
  <2>1. later[j] = [calls[j] EXCEPT !.ended = g]
    OBVIOUS
  <2>2. g \in BOOLEAN
    BY <1>1
  <2> HIDE DEF g, later
  <2>3. /\ later[j] \in [id : CallIds, pieces : Nat, ended : BOOLEAN]
        /\ later[j].id = calls[j].id /\ later[j].pieces = calls[j].pieces
        /\ later[j].ended = g
    BY <1>1, <2>1, <2>2
  <2>4. QED
    BY <2>3 DEF g
<1>3. later = [j \in DOMAIN calls |-> later[j]]
  OBVIOUS
<1> HIDE DEF later
<1>4. later \in ItemTables /\ DOMAIN later = DOMAIN calls
  BY <1>1, <1>2, <1>3, ItemsMade
<1>5. Open(later) = Open(calls) \ G
  BY <1>2, <1>4 DEF Open
<1>6. QED
  BY <1>2, <1>4, <1>5 DEF later, SameAt

\* A queue that is not over holds no end.
LEMMA NotDone ==
  ASSUME NEW q, ~Over(q)
  PROVE  Of(q, "done") = {}
<1>1. \A c : c \notin Of(q, "done")
  BY OfIs DEF Over, Final
<1>2. QED
  BY <1>1

\* A response ends when all its calls are closed, and may fail at any time.
LEMMA RespEnds ==
  ASSUME ModelCallAssumption, NEW a, NEW e, NEW t, NEW w, NEW s, s \in RespSinks, Core(a, e, t, w, s),
         Of(s.queue, "done") # {} => AllClosed(a, e, s.queue),
         NEW kind \in Final, NEW why \in Whys, kind = "done" => w /\ AllClosed(a, e, s.queue)
  PROVE  RespAt(a, e, t, w, Resp!CloseWith(s, [kind |-> kind, id |-> NoId, why |-> why]))
<1> DEFINE c == [kind |-> kind, id |-> NoId, why |-> why]
           q == Append(s.queue, c)
           r == [s EXCEPT !.queue = q, !.complete = TRUE]
<1>1. Resp!CloseWith(s, c) = IF s.complete THEN s ELSE r
  BY DEF Resp!CloseWith
<1>2. CASE s.complete
  BY <1>1, <1>2 DEF RespAt
<1>3. CASE ~s.complete
  <2>1. MayCome(a, e, t, s.queue, c)
    BY <1>3, FinalComes
  <2>2. c.kind = kind /\ c \in Chunks
    BY <2>1 DEF MayCome
  <2> HIDE DEF c
  <2>3. q \in Seq(Chunks)
    BY <2>2 DEF RespSinks
  <2> HIDE DEF q
  <2>4. r.queue = q /\ r.complete = TRUE /\ r \in RespSinks
    BY <2>3 DEF RespSinks
  <2> HIDE DEF r
  <2>5. Core(a, e, t, w, r) /\ Adds(a, e, t, s.queue, c, r.queue)
    BY <2>1, <2>2, <2>4, CoreAdds DEF ModelCallAssumption, q
  <2>6. Of(r.queue, "done") # {} => AllClosed(a, e, r.queue)
    <3>1. /\ AllBegun(a, r.queue) = AllBegun(a, s.queue) /\ AllEnded(e, r.queue) = AllEnded(e, s.queue)
          /\ kind # "done" => Of(r.queue, "done") = Of(s.queue, "done")
      BY <2>2, <2>5 DEF Adds, Final
    <3>2. QED
      BY <3>1 DEF AllClosed
  <2>7. RespAt(a, e, t, w, r)
    BY <2>4, <2>5, <2>6 DEF RespAt
  <2>8. QED
    BY <1>1, <1>3, <2>7 DEF r, q, c
<1>4. QED
  BY <1>2, <1>3

\* An error may come at any time.
LEMMA RespAborts ==
  ASSUME ModelCallAssumption, NEW a, NEW e, NEW t, NEW w, NEW s, RespAt(a, e, t, w, s),
         NEW why \in Whys
  PROVE  RespAt(a, e, t, w, Resp!Abort(s, why))
<1>1. Resp!Abort(s, why) = Resp!CloseWith(s, [kind |-> "error", id |-> NoId, why |-> why])
  BY DEF Resp!Abort, Resp!Broken, Resp!Chunk
<1>2. QED
  BY <1>1, RespEnds DEF RespAt, Final

\* A frame that makes no sense may come at any time.
LEMMA RespFails ==
  ASSUME ModelCallAssumption, NEW a, NEW e, NEW t, NEW w, NEW s, RespAt(a, e, t, w, s)
  PROVE  RespAt(a, e, t, w, Resp!Fail(s))
BY RespAborts DEF Resp!Fail, Whys

RespPushed(a, e, t, w, s, c, r) ==
  /\ Core(a, e, t, w, r)
  /\ Adds(a, e, t, s.queue, c, r.queue)
  /\ Of(r.queue, "done") = {}

\* What may come next and ends nothing.
LEMMA RespPushes ==
  ASSUME ModelCallAssumption, NEW a, NEW e, NEW t, NEW w, NEW s, Core(a, e, t, w, s),
         NEW c, MayCome(a, e, t, s.queue, c), c.kind \notin Final,
         NEW r, r.queue = Append(s.queue, c), r.complete = FALSE
  PROVE  RespPushed(a, e, t, w, s, c, r)
<1>1. Core(a, e, t, w, r) /\ Adds(a, e, t, s.queue, c, r.queue)
  BY CoreAdds DEF ModelCallAssumption, Final
<1>2. Of(r.queue, "done") = {}
  BY <1>1, NotDone DEF Core
<1>3. QED
  BY <1>1, <1>2 DEF RespPushed

RespTold(a, e, t, w, s, kind, r) ==
  /\ r \in RespSinks /\ Core(a, e, t, w, r)
  /\ r.complete = FALSE /\ r.calls = s.calls
  /\ AllBegun(a, r.queue) = AllBegun(a, s.queue)
  /\ AllEnded(e, r.queue) = AllEnded(e, s.queue)
  /\ RespAt(a, e, t, w, s) /\ kind # "usage" => RespAt(a, e, t, w, r)

\* A chunk that is about no call leaves the table as it is.
LEMMA RespTells ==
  ASSUME ModelCallAssumption, NEW a, NEW e, NEW t, NEW w, NEW s, s \in RespSinks, Core(a, e, t, w, s),
         ~s.complete, NEW kind \in {"shown", "hosted", "signature", "usage"},
         kind = "usage" => ~Told(t, s.queue)
  PROVE  RespTold(a, e, t, w, s, kind, Resp!Push(s, [kind |-> kind, id |-> NoId, why |-> ""]))
<1> DEFINE c == [kind |-> kind, id |-> NoId, why |-> ""]
           q == Append(s.queue, c)
           r == [s EXCEPT !.queue = q]
<1>1. Resp!Push(s, c) = r
  BY DEF Resp!Push
<1>2. c \in Chunks /\ c.kind = kind /\ kind \notin OfCall /\ kind \notin Final
  BY ChunkMade DEF Kinds, OfCall, Final, Whys
<1> HIDE DEF c
<1>3. MayCome(a, e, t, s.queue, c)
  BY <1>2 DEF MayCome, Core, OfCall
<1>4. q \in Seq(Chunks)
  BY <1>2 DEF RespSinks
<1> HIDE DEF q
<1>5. r.queue = q /\ r.complete = FALSE /\ r.calls = s.calls /\ r \in RespSinks
  BY <1>4 DEF RespSinks
<1> HIDE DEF r
<1>6. RespPushed(a, e, t, w, s, c, r)
  BY <1>2, <1>3, <1>5, RespPushes DEF q
<1>7. /\ AllBegun(a, r.queue) = AllBegun(a, s.queue)
      /\ AllEnded(e, r.queue) = AllEnded(e, s.queue)
      /\ Told(t, r.queue) <=> Told(t, s.queue) \/ kind = "usage"
  BY <1>2, <1>6 DEF RespPushed, Adds, OfCall
<1>8. ASSUME RespAt(a, e, t, w, s), kind # "usage" PROVE RespAt(a, e, t, w, r)
  <2>1. OpenCalls(a, e, r.queue, Open(r.calls), r.calls)
    <3>1. OpenCalls(a, e, s.queue, Open(s.calls), s.calls)
      BY <1>8 DEF RespAt
    <3>2. QED
      BY <1>2, <1>5, <1>6, <3>1, OpenStays DEF RespPushed
  <2>2. AllOpen(a, e, r.queue, r.calls) /\ ~Told(t, r.queue)
    BY <1>5, <1>7, <1>8 DEF RespAt, AllOpen
  <2>3. QED
    BY <1>5, <1>6, <2>1, <2>2 DEF RespAt, RespPushed
<1>9. RespTold(a, e, t, w, s, kind, r)
  BY <1>5, <1>6, <1>7, <1>8 DEF RespTold, RespPushed
<1>10. QED
  BY <1>1, <1>9 DEF r, q, c

\* The flags a decoder keeps say nothing of what is heard.
LEMMA RespFlags ==
  ASSUME NEW a, NEW e, NEW t, NEW w, NEW s, RespAt(a, e, t, w, s),
         NEW r \in RespSinks, r.queue = s.queue, r.complete = s.complete, r.calls = s.calls
  PROVE  RespAt(a, e, t, w, r)
BY DEF RespAt, Core

\* An item that is added may begin a call.
LEMMA RespItem ==
  ASSUME ModelCallAssumption, NEW a, NEW e, NEW t, NEW w, NEW s, RespAt(a, e, t, w, s), ~s.complete,
         NEW f, f.index \in Indices, f.id \in CallIds \cup {NoId}, f.id \notin AllBegun(a, s.queue),
         f.index \notin DOMAIN s.calls
  PROVE  RespAt(a, e, t, w, Resp!OnItemAdded(s, f))
<1> DEFINE i == f.index
           c == [kind |-> "start", id |-> f.id, why |-> ""]
           later == [j \in DOMAIN s.calls \cup {i} |->
                       IF j = i THEN [id |-> f.id, pieces |-> 0, ended |-> FALSE] ELSE s.calls[j]]
           q == Append(s.queue, c)
           r == [s EXCEPT !.queue = q, !.sawToolCall = TRUE, !.calls = later]
<1>1. /\ s \in RespSinks /\ Core(a, e, t, w, s) /\ s.calls \in ItemTables
      /\ OpenCalls(a, e, s.queue, Open(s.calls), s.calls)
      /\ AllOpen(a, e, s.queue, s.calls) /\ ~Told(t, s.queue)
  BY DEF RespAt, RespSinks
<1>2. CASE f.id = NoId
  BY <1>2, RespFails DEF Resp!OnItemAdded
<1>3. CASE f.id # NoId
  <2>1. Resp!OnItemAdded(s, f) = r
    BY <1>1, <1>3 DEF Resp!OnItemAdded, Resp!Push, Resp!Start, Resp!Chunk, RespSinks
  <2>2. f.id \in CallIds /\ i \in Indices /\ i \notin DOMAIN s.calls
    BY <1>3
  <2>3. /\ c \in Chunks /\ c.kind = "start" /\ c.id = f.id
        /\ c.kind \notin Final
    BY <2>2, ChunkMade DEF Kinds, OfCall, Final, Whys
  <2> HIDE DEF i
  <2>4. /\ later \in ItemTables /\ Open(later) = Open(s.calls) \cup {i}
        /\ \A j \in DOMAIN s.calls : later[j] = s.calls[j]
        /\ later[i].id = f.id /\ later[i].pieces = 0
    <3>1. BeginsItem(s.calls, i, f.id, later)
      BY <1>1, <2>2, ItemBegins, Zenon
    <3>2. QED
      BY <3>1 DEF BeginsItem
  <2> HIDE DEF c, later
  <2>5. MayCome(a, e, t, s.queue, c)
    BY <1>1, <2>3 DEF MayCome, Core
  <2>6. q \in Seq(Chunks)
    BY <1>1, <2>3 DEF RespSinks
  <2> HIDE DEF q
  <2>7. r.queue = q /\ r.complete = FALSE /\ r.calls = later /\ r \in RespSinks
    BY <1>1, <2>4, <2>6 DEF RespSinks
  <2> HIDE DEF r
  <2>8. RespPushed(a, e, t, w, s, c, r)
    BY <1>1, <2>3, <2>5, <2>7, RespPushes DEF q
  <2>9. OpenCalls(a, e, r.queue, Open(r.calls), r.calls)
    <3>1. Hears(a, e, t, s.queue) /\ Adds(a, e, t, s.queue, c, r.queue)
      BY <1>1, <2>8 DEF Core, RespPushed
    <3>2. /\ c.kind = "start" /\ c.id \notin AllBegun(a, s.queue)
          /\ later[i].id = c.id /\ later[i].pieces = 0
      BY <2>3, <2>4
    <3>3. SameAt(Open(s.calls) \ {i}, s.calls, later)
      BY <2>4 DEF SameAt, Open
    <3>4. OpenCalls(a, e, r.queue, Open(s.calls) \cup {i}, later)
      BY <1>1, <3>1, <3>2, <3>3, OpenBegins, Zenon
    <3>5. QED
      BY <2>4, <2>7, <3>4
  <2>10. /\ AllBegun(a, r.queue) = AllBegun(a, s.queue) \cup {c.id}
         /\ AllEnded(e, r.queue) = AllEnded(e, s.queue)
         /\ ~Told(t, r.queue)
    BY <1>1, <2>3, <2>8 DEF RespPushed, Adds
  <2>11. AllOpen(a, e, r.queue, r.calls)
    <3> SUFFICES ASSUME NEW d \in AllBegun(a, r.queue) \ AllEnded(e, r.queue)
                 PROVE  \E j \in Open(r.calls) : r.calls[j].id = d
      BY DEF AllOpen
    <3>1. CASE d = c.id
      BY <2>3, <2>4, <2>7, <3>1
    <3>2. CASE d # c.id
      <4>1. PICK j \in Open(s.calls) : s.calls[j].id = d
        BY <1>1, <2>10, <3>2 DEF AllOpen
      <4>2. j \in Open(r.calls) /\ r.calls[j].id = d
        BY <2>4, <2>7, <4>1 DEF Open
      <4>3. QED
        BY <4>2
    <3>3. QED
      BY <3>1, <3>2
  <2>12. RespAt(a, e, t, w, r)
    BY <2>7, <2>8, <2>9, <2>10, <2>11 DEF RespAt, RespPushed
  <2>13. QED
    BY <2>1, <2>12
<1>4. QED
  BY <1>2, <1>3

\* A fragment is added to the call of its item, if the item is one.
LEMMA RespDelta ==
  ASSUME ModelCallAssumption, NEW a, NEW e, NEW t, NEW w, NEW s, RespAt(a, e, t, w, s), ~s.complete,
         Of(s.queue, "args") = {},
         NEW f, f.index \in DOMAIN s.calls => ~s.calls[f.index].ended
  PROVE  RespAt(a, e, t, w, Resp!OnArgumentsDelta(s, f))
<1> DEFINE i == f.index
           c == [kind |-> "args", id |-> s.calls[i].id, why |-> ""]
           later == [s.calls EXCEPT ![i].pieces = @ + 1]
           q == Append(s.queue, c)
           r == [s EXCEPT !.queue = q, !.calls = later]
<1>1. /\ s \in RespSinks /\ Core(a, e, t, w, s) /\ s.calls \in ItemTables
      /\ OpenCalls(a, e, s.queue, Open(s.calls), s.calls)
      /\ AllOpen(a, e, s.queue, s.calls) /\ ~Told(t, s.queue)
  BY DEF RespAt, RespSinks
<1>2. CASE i \notin DOMAIN s.calls
  BY <1>2, RespFails DEF Resp!OnArgumentsDelta
<1>3. CASE i \in DOMAIN s.calls
  <2>1. Resp!OnArgumentsDelta(s, f) = r
    BY <1>1, <1>3 DEF Resp!OnArgumentsDelta, Resp!Push, Resp!Args, Resp!Chunk, RespSinks
  <2>2. i \in Open(s.calls)
    BY <1>3 DEF Open
  <2> HIDE DEF i
  <2>3. /\ c \in Chunks /\ c.kind = "args" /\ c.id = s.calls[i].id
        /\ c.kind \notin Final
    BY <1>1, <1>3, ChunkMade, ItemsAre DEF Kinds, OfCall, Final, Whys
  <2>4. /\ later \in ItemTables /\ Open(later) = Open(s.calls)
        /\ \A j \in DOMAIN s.calls : later[j].id = s.calls[j].id
        /\ SameAt(DOMAIN s.calls \ {i}, s.calls, later)
        /\ later[i].pieces = s.calls[i].pieces + 1
    BY <1>1, <1>3, ItemAdds, ZenonT(60)
  <2> HIDE DEF c, later
  <2>5. MayCome(a, e, t, s.queue, c)
    BY <1>1, <2>2, <2>3 DEF MayCome, Core, OpenCalls
  <2>6. q \in Seq(Chunks)
    BY <1>1, <2>3 DEF RespSinks
  <2> HIDE DEF q
  <2>7. r.queue = q /\ r.complete = FALSE /\ r.calls = later /\ r \in RespSinks
    BY <1>1, <2>4, <2>6 DEF RespSinks
  <2> HIDE DEF r
  <2>8. RespPushed(a, e, t, w, s, c, r)
    BY <1>1, <2>3, <2>5, <2>7, RespPushes DEF q
  <2>9. OpenCalls(a, e, r.queue, Open(r.calls), r.calls)
    <3>1. /\ Adds(a, e, t, s.queue, c, r.queue) /\ c.kind = "args"
          /\ OpenCalls(a, e, s.queue, Open(s.calls), s.calls) /\ s.calls[i].id = c.id
          /\ SameAt(Open(s.calls) \ {i}, s.calls, later) /\ i \in Open(s.calls)
          /\ later[i].id = c.id /\ later[i].pieces = s.calls[i].pieces + 1
      BY <1>1, <1>3, <2>2, <2>3, <2>4, <2>8 DEF RespPushed, SameAt, Open
    <3>2. OpenCalls(a, e, r.queue, Open(s.calls), later)
      BY <3>1, OpenAdds
    <3>3. QED
      BY <2>4, <2>7, <3>2
  <2>10. /\ AllBegun(a, r.queue) = AllBegun(a, s.queue)
         /\ AllEnded(e, r.queue) = AllEnded(e, s.queue)
         /\ ~Told(t, r.queue)
    BY <1>1, <2>3, <2>8 DEF RespPushed, Adds
  <2>11. AllOpen(a, e, r.queue, r.calls)
    BY <1>1, <2>4, <2>7, <2>10 DEF AllOpen, Open
  <2>12. RespAt(a, e, t, w, r)
    BY <2>7, <2>8, <2>9, <2>10, <2>11 DEF RespAt, RespPushed
  <2>13. QED
    BY <2>1, <2>12
<1>4. QED
  BY <1>2, <1>3

\* A call reported done is closed, or the response fails for what does not
\* parse.
LEMMA RespCloses ==
  ASSUME ModelCallAssumption, NEW a, NEW e, NEW t, NEW w, NEW s, RespAt(a, e, t, w, s), ~s.complete,
         NEW i
  PROVE  RespAt(a, e, t, w, Resp!CloseCall(s, i))
<1> DEFINE c == [kind |-> "end", id |-> s.calls[i].id, why |-> ""]
           later == [s.calls EXCEPT ![i].ended = TRUE]
           q == Append(s.queue, c)
           r == [s EXCEPT !.queue = q, !.calls = later]
<1>1. /\ s \in RespSinks /\ Core(a, e, t, w, s) /\ s.calls \in ItemTables
      /\ OpenCalls(a, e, s.queue, Open(s.calls), s.calls)
      /\ AllOpen(a, e, s.queue, s.calls) /\ ~Told(t, s.queue)
  BY DEF RespAt, RespSinks
<1>2. CASE i \notin DOMAIN s.calls \/ s.calls[i].ended
  BY <1>2 DEF Resp!CloseCall
<1>3. CASE i \in DOMAIN s.calls /\ ~s.calls[i].ended /\ ~Resp!Parses(s.calls[i].pieces)
  BY <1>3, RespFails DEF Resp!CloseCall
<1>4. CASE i \in DOMAIN s.calls /\ ~s.calls[i].ended /\ Resp!Parses(s.calls[i].pieces)
  <2>1. Resp!CloseCall(s, i) = r
    BY <1>1, <1>4 DEF Resp!CloseCall, Resp!Push, Resp!End, Resp!Chunk, RespSinks
  <2>2. i \in Open(s.calls)
    BY <1>4 DEF Open
  <2>3. /\ c \in Chunks /\ c.kind = "end" /\ c.id = s.calls[i].id
        /\ c.kind \notin Final
    BY <1>1, <1>4, ChunkMade, ItemsAre DEF Kinds, OfCall, Final, Whys
  <2>4. /\ later \in ItemTables /\ Open(later) = Open(s.calls) \ {i}
        /\ SameAt(DOMAIN s.calls, s.calls, later)
    BY <1>1, <1>4, ItemEnds, ZenonT(60)
  <2> HIDE DEF c, later
  <2>5. MayCome(a, e, t, s.queue, c)
    <3>1. S!Parses(Count(a, s.queue, c.id))
      BY <1>1, <1>4, <2>2, <2>3 DEF Resp!Parses, S!Parses, OpenCalls
    <3>2. QED
      BY <1>1, <2>2, <2>3, <3>1 DEF MayCome, Core, OpenCalls
  <2>6. q \in Seq(Chunks)
    BY <1>1, <2>3 DEF RespSinks
  <2> HIDE DEF q
  <2>7. r.queue = q /\ r.complete = FALSE /\ r.calls = later /\ r \in RespSinks
    BY <1>1, <2>4, <2>6 DEF RespSinks
  <2> HIDE DEF r
  <2>8. RespPushed(a, e, t, w, s, c, r)
    BY <1>1, <2>3, <2>5, <2>7, RespPushes DEF q
  <2>9. OpenCalls(a, e, r.queue, Open(r.calls), r.calls)
    <3>1. /\ Adds(a, e, t, s.queue, c, r.queue) /\ c.kind = "end"
          /\ OpenCalls(a, e, s.queue, Open(s.calls), s.calls) /\ s.calls[i].id = c.id
          /\ SameAt(Open(s.calls) \ {i}, s.calls, later) /\ i \in Open(s.calls)
      BY <1>1, <2>2, <2>3, <2>4, <2>8 DEF RespPushed, SameAt, Open
    <3>2. OpenCalls(a, e, r.queue, Open(s.calls) \ {i}, later)
      BY <3>1, OpenEnds
    <3>3. QED
      BY <2>4, <2>7, <3>2
  <2>10. /\ AllBegun(a, r.queue) = AllBegun(a, s.queue)
         /\ AllEnded(e, r.queue) = AllEnded(e, s.queue) \cup {c.id}
         /\ ~Told(t, r.queue)
    BY <1>1, <2>3, <2>8 DEF RespPushed, Adds
  <2>11. AllOpen(a, e, r.queue, r.calls)
    <3> SUFFICES ASSUME NEW d \in AllBegun(a, r.queue) \ AllEnded(e, r.queue)
                 PROVE  \E j \in Open(r.calls) : r.calls[j].id = d
      BY DEF AllOpen
    <3>1. d # c.id
      BY <2>10
    <3>2. PICK j \in Open(s.calls) : s.calls[j].id = d
      BY <1>1, <2>10, <3>1 DEF AllOpen
    <3>3. j # i
      BY <2>3, <3>1, <3>2
    <3>4. j \in Open(r.calls) /\ r.calls[j].id = d
      BY <2>4, <2>7, <3>2, <3>3 DEF Open, SameAt
    <3>5. QED
      BY <3>4
  <2>12. RespAt(a, e, t, w, r)
    BY <2>7, <2>8, <2>9, <2>10, <2>11 DEF RespAt, RespPushed
  <2>13. QED
    BY <2>1, <2>12
<1>5. QED
  BY <1>2, <1>3, <1>4

\* Calls closed together are no longer open, and the others are as they were.
LEMMA OpenAfterCloses ==
  ASSUME NEW a, NEW e, NEW t, NEW q, NEW r, NEW D, NEW calls, OpenCalls(a, e, q, D, calls),
         NEW G \in SUBSET D, Closes(a, e, t, q, {calls[i].id : i \in G}, r),
         NEW later, SameAt(D, calls, later)
  PROVE  OpenCalls(a, e, r, D \ G, later)
<1>1. /\ AllBegun(a, r) = AllBegun(a, q)
      /\ AllEnded(e, r) = AllEnded(e, q) \cup {calls[i].id : i \in G}
      /\ \A c : Count(a, r, c) = Count(a, q, c)
  BY DEF Closes
<1>2. \A i \in D : /\ calls[i].id \in AllBegun(a, q) \ AllEnded(e, q)
                   /\ calls[i].pieces = Count(a, q, calls[i].id)
                   /\ later[i].id = calls[i].id /\ later[i].pieces = calls[i].pieces
  BY DEF OpenCalls, SameAt
<1>3. \A i, j \in D : calls[i].id = calls[j].id => i = j
  BY DEF OpenCalls
<1>4. ASSUME NEW i \in D \ G PROVE later[i].id \notin AllEnded(e, r)
  BY <1>1, <1>2, <1>3
<1>5. QED
  BY <1>1, <1>2, <1>3, <1>4 DEF OpenCalls

\* Before a response completes the calls left open are closed, all of them.
LEMMA RespRest ==
  ASSUME ModelCallAssumption, NEW a, NEW e, NEW t, NEW w, NEW s, RespAt(a, e, t, w, s), ~s.complete
  PROVE  /\ RespAt(a, e, t, w, Resp!CloseRest(s))
         /\ ~Resp!CloseRest(s).complete => AllClosed(a, e, Resp!CloseRest(s).queue)
<1> DEFINE bad == {i \in Open(s.calls) : ~Resp!Parses(s.calls[i].pieces)}
           good == {i \in Open(s.calls) : \A b \in bad : i < b}
           order == S!Ascending(good)
           later == [i \in DOMAIN s.calls |-> [s.calls[i] EXCEPT !.ended = @ \/ i \in good]]
           q == s.queue \o EndsOf(Cardinality(good), [k \in 1..Cardinality(good) |-> s.calls[order[k]].id])
           r == [s EXCEPT !.queue = q, !.calls = later]
<1>1. /\ s \in RespSinks /\ Core(a, e, t, w, s) /\ s.calls \in ItemTables
      /\ OpenCalls(a, e, s.queue, Open(s.calls), s.calls)
      /\ AllOpen(a, e, s.queue, s.calls) /\ ~Told(t, s.queue)
      /\ Hears(a, e, t, s.queue) /\ ~Over(s.queue)
  BY DEF RespAt, RespSinks, Core
<1>2. /\ good \in SUBSET Open(s.calls) /\ good \subseteq Indices
      /\ good \in SUBSET Nat /\ IsFiniteSet(good) /\ good \in SUBSET DOMAIN s.calls
  BY <1>1, ItemsAre, FS_Subset DEF ModelCallAssumption, Open
<1>3. \A i \in good : S!Parses(s.calls[i].pieces)
  <2> SUFFICES ASSUME NEW i \in good, ~S!Parses(s.calls[i].pieces) PROVE FALSE
    OBVIOUS
  <2>1. i \in bad
    BY DEF Resp!Parses, S!Parses
  <2>2. i < i /\ i \in Nat
    BY <1>2, <2>1
  <2>3. QED
    BY <2>2
<1>4. Resp!CloseRest(s) = IF bad = {} THEN r ELSE Resp!Fail(r)
  <2>1. Resp!Ascending(good) = order /\ Resp!Cardinality(good) = Cardinality(good)
    BY <1>2, AscendingIs, CardinalityIs, Zenon
  <2> HIDE DEF order, good, bad
  <2> DEFINE ends == [k \in 1..Cardinality(good) |-> Resp!End(s.calls[order[k]].id)]
             pushed == Resp!PushAll(s, ends)
             ended == [pushed EXCEPT !.calls = later]
  <2>2. Resp!CloseRest(s) = IF bad = {} THEN ended ELSE Resp!Fail(ended)
    BY <2>1, Zenon DEF Resp!CloseRest, good, bad, Open
  <2>3. ends = EndsOf(Cardinality(good), [k \in 1..Cardinality(good) |-> s.calls[order[k]].id])
    BY DEF Resp!End, Resp!Chunk, EndsOf
  <2> HIDE DEF ends
  <2>4. pushed = [s EXCEPT !.queue = s.queue \o ends]
    BY DEF Resp!PushAll
  <2> HIDE DEF pushed, later
  <2>5. ended = r
    BY <2>3, <2>4
  <2> HIDE DEF ended, r
  <2>6. QED
    BY <2>2, <2>5
<1>5. Closes(a, e, t, s.queue, {s.calls[i].id : i \in good}, q)
  <2> HIDE DEF good
  <2>1. /\ OpenCalls(a, e, s.queue, Open(s.calls), s.calls)
        /\ Hears(a, e, t, s.queue) /\ ~Over(s.queue)
        /\ good \in SUBSET Open(s.calls) /\ good \subseteq Indices
        /\ \A i \in good : S!Parses(s.calls[i].pieces)
    BY <1>1, <1>2, <1>3
  <2>2. QED
    BY <2>1, ClosesAll, Zenon
<1>6. bad = {} => good = Open(s.calls)
  OBVIOUS
<1>7. /\ later \in ItemTables /\ Open(later) = Open(s.calls) \ good
      /\ SameAt(DOMAIN s.calls, s.calls, later)
  <2> HIDE DEF good
  <2>1. QED
    BY <1>1, <1>2, ItemsEnd, ZenonT(60)
<1> HIDE DEF good, bad, order, q, later
<1>8. q \in Seq(Chunks)
  BY <1>5 DEF Closes, Hears
<1>9. r \in RespSinks /\ r.queue = q /\ r.calls = later /\ r.complete = FALSE
  BY <1>1, <1>7, <1>8 DEF RespSinks
<1> HIDE DEF r
<1>10. Core(a, e, t, w, r) /\ Of(r.queue, "done") = {}
  BY <1>5, <1>9, NotDone DEF Core, Closes
<1>11. OpenCalls(a, e, r.queue, Open(r.calls), r.calls)
  <2>1. SameAt(Open(s.calls), s.calls, later)
    BY <1>7 DEF SameAt, Open
  <2>2. OpenCalls(a, e, q, Open(s.calls) \ good, later)
    BY <1>1, <1>2, <1>5, <2>1, OpenAfterCloses
  <2>3. QED
    BY <1>7, <1>9, <2>2
<1>12. /\ AllBegun(a, q) = AllBegun(a, s.queue)
       /\ AllEnded(e, q) = AllEnded(e, s.queue) \cup {s.calls[i].id : i \in good}
       /\ Told(t, q) <=> Told(t, s.queue)
  BY <1>5 DEF Closes
<1>13. AllOpen(a, e, r.queue, r.calls)
  <2> SUFFICES ASSUME NEW d \in AllBegun(a, q) \ AllEnded(e, q)
               PROVE  \E j \in Open(later) : later[j].id = d
    BY <1>9 DEF AllOpen
  <2>1. PICK j \in Open(s.calls) : s.calls[j].id = d
    BY <1>1, <1>12 DEF AllOpen
  <2>2. j \notin good
    BY <1>12, <2>1
  <2>3. j \in Open(later) /\ later[j].id = d
    BY <1>7, <2>1, <2>2 DEF SameAt, Open
  <2>4. QED
    BY <2>3
<1>14. RespAt(a, e, t, w, r)
  BY <1>1, <1>9, <1>10, <1>11, <1>12, <1>13 DEF RespAt
<1>15. bad = {} => AllClosed(a, e, r.queue)
  BY <1>1, <1>6, <1>9, <1>12 DEF AllClosed, AllOpen
<1>16. RespAt(a, e, t, w, Resp!Fail(r))
  BY <1>14, RespFails
<1>17. Resp!Fail(r).complete
  <2> DEFINE u == Append(r.queue, Resp!Broken("Protocol"))
  <2>1. Resp!Fail(r) = [r EXCEPT !.queue = u, !.complete = TRUE]
    BY <1>9 DEF Resp!Fail, Resp!Abort, Resp!CloseWith
  <2> HIDE DEF u
  <2>2. QED
    BY <1>9, <2>1 DEF RespSinks
<1>18. QED
  BY <1>4, <1>14, <1>15, <1>16, <1>17

\* A response that completes has every call closed.
LEMMA RespCompletes ==
  ASSUME ModelCallAssumption, NEW a, NEW e, NEW t, NEW w, NEW s, RespAt(a, e, t, w, s), ~s.complete,
         w, NEW f
  PROVE  RespAt(a, e, t, w, Resp!OnCompleted(s, f))
<1> DEFINE closed == Resp!CloseRest(s)
           pushed == Resp!Push(closed, [kind |-> "signature", id |-> NoId, why |-> ""])
           signed == IF closed.reasoning THEN [pushed EXCEPT !.reasoning = FALSE] ELSE closed
           counted == Resp!Push(signed, [kind |-> "usage", id |-> NoId, why |-> ""])
           told == IF f.usage THEN counted ELSE signed
           r == [told EXCEPT !.refused = FALSE]
           why == Resp!Stop(told, f)
<1>1. RespAt(a, e, t, w, closed) /\ (~closed.complete => AllClosed(a, e, closed.queue))
  BY RespRest
<1>2. Resp!OnCompleted(s, f) =
        IF closed.complete THEN closed
        ELSE Resp!CloseWith(r, [kind |-> "done", id |-> NoId, why |-> why])
  BY Zenon DEF Resp!OnCompleted, Resp!Finish, Resp!Done, Resp!Signature, Resp!Tally, Resp!Chunk
<1>3. why \in Whys
  BY DEF Resp!Stop, Whys
<1> HIDE DEF closed, why
<1>4. CASE closed.complete
  BY <1>1, <1>2, <1>4
<1>5. CASE ~closed.complete
  <2>1. /\ RespAt(a, e, t, w, signed) /\ ~signed.complete
        /\ AllClosed(a, e, signed.queue)
    <3>1. CASE ~closed.reasoning
      BY <1>1, <1>5, <3>1
    <3>2. CASE closed.reasoning
      <4>1. closed \in RespSinks /\ Core(a, e, t, w, closed)
        BY <1>1 DEF RespAt
      <4>2. /\ pushed \in RespSinks /\ RespAt(a, e, t, w, pushed) /\ pushed.complete = FALSE
            /\ AllBegun(a, pushed.queue) = AllBegun(a, closed.queue)
            /\ AllEnded(e, pushed.queue) = AllEnded(e, closed.queue)
        <5>1. RespTold(a, e, t, w, closed, "signature", pushed)
          BY <1>5, <4>1, RespTells, Zenon
        <5> HIDE DEF pushed
        <5>2. QED
          BY <1>1, <5>1 DEF RespTold
      <4> HIDE DEF pushed
      <4>3. /\ signed \in RespSinks /\ signed.queue = pushed.queue
            /\ signed.complete = pushed.complete /\ signed.calls = pushed.calls
        BY <3>2, <4>2 DEF RespSinks
      <4> HIDE DEF signed
      <4>4. RespAt(a, e, t, w, signed)
        BY <4>2, <4>3, RespFlags
      <4>5. QED
        BY <1>1, <1>5, <4>2, <4>3, <4>4 DEF AllClosed
    <3>3. QED
      BY <3>1, <3>2
  <2> HIDE DEF signed
  <2>2. /\ told \in RespSinks /\ Core(a, e, t, w, told)
        /\ AllClosed(a, e, told.queue)
    <3>1. signed \in RespSinks /\ Core(a, e, t, w, signed) /\ ~Told(t, signed.queue)
      BY <2>1 DEF RespAt
    <3>2. CASE f.usage
      <4>1. /\ counted \in RespSinks /\ Core(a, e, t, w, counted)
            /\ AllBegun(a, counted.queue) = AllBegun(a, signed.queue)
            /\ AllEnded(e, counted.queue) = AllEnded(e, signed.queue)
        <5>1. RespTold(a, e, t, w, signed, "usage", counted)
          BY <2>1, <3>1, RespTells, Zenon
        <5> HIDE DEF counted
        <5>2. QED
          BY <5>1 DEF RespTold
      <4> HIDE DEF counted
      <4>2. QED
        BY <2>1, <3>2, <4>1 DEF AllClosed
    <3>3. CASE ~f.usage
      BY <2>1, <3>1, <3>3
    <3>4. QED
      BY <3>2, <3>3
  <2> HIDE DEF told
  <2>3. r \in RespSinks /\ r.queue = told.queue /\ r.complete = told.complete
    BY <2>2 DEF RespSinks
  <2> HIDE DEF r
  <2>4. Core(a, e, t, w, r) /\ AllClosed(a, e, r.queue)
    BY <2>2, <2>3 DEF Core
  <2>5. QED
    BY <1>2, <1>3, <1>5, <2>3, <2>4, RespEnds DEF Final
<1>6. QED
  BY <1>4, <1>5

\* The parts of a frame of responses.
LEMMA RespFrameIs ==
  ASSUME NEW f \in Resp!Frames(CallIds, Indices)
  PROVE  /\ f.is \in {"garbled", "text.delta", "refusal.delta", "reasoning.done", "search.done", "failed",
                      "item.added", "arguments.delta", "call.done", "completed"}
         /\ f.is = "item.added" => f.index \in Indices
         /\ f.id \in CallIds \cup {NoId}
BY DEF Resp!Frames

\* Every frame of responses leaves a queue that may be heard.
LEMMA RespFrame ==
  ASSUME ModelCallAssumption, NEW a, NEW e, NEW t, NEW w \in BOOLEAN, NEW s, RespAt(a, e, t, w, s),
         ~s.complete, s.queue = <<>>,
         NEW f \in Resp!Frames(CallIds, Indices), f.id \notin Ids(a),
         f.is = "item.added" => f.index \notin DOMAIN s.calls,
         f.is = "arguments.delta" /\ f.index \in DOMAIN s.calls => ~s.calls[f.index].ended
  PROVE  RespAt(a, e, t, w \/ Resp!SaysWhole(f), Resp!OnFrame(s, f))
<1> DEFINE v == w \/ Resp!SaysWhole(f)
<1>1. RespAt(a, e, t, v, s)
  BY DEF RespAt, Core
<1>2. /\ f.is \in {"garbled", "text.delta", "refusal.delta", "reasoning.done", "search.done", "failed",
                   "item.added", "arguments.delta", "call.done", "completed"}
      /\ f.is = "item.added" => f.index \in Indices
      /\ f.id \in CallIds \cup {NoId}
  BY RespFrameIs
<1>3. f.is = "completed" => v
  BY DEF Resp!SaysWhole
<1>4. f.id \notin AllBegun(a, s.queue) /\ Of(s.queue, "args") = {}
  BY NothingQueued, Zenon
<1> HIDE DEF v
<1>5. s \in RespSinks /\ Core(a, e, t, v, s)
  BY <1>1 DEF RespAt
<1>6. CASE f.is = "garbled"
  BY <1>1, <1>6, RespFails DEF Resp!OnFrame, v
<1>7. CASE f.is = "text.delta"
  <2>1. Resp!OnFrame(s, f) = Resp!Push(s, [kind |-> "shown", id |-> NoId, why |-> ""])
    BY <1>7 DEF Resp!OnFrame, Resp!Shown, Resp!Chunk
  <2>2. RespAt(a, e, t, v, Resp!Push(s, [kind |-> "shown", id |-> NoId, why |-> ""]))
    BY <1>1, <1>5, RespTells DEF RespTold
  <2>3. QED
    BY <2>1, <2>2 DEF v
<1>8. CASE f.is = "refusal.delta"
  <2> DEFINE r == [s EXCEPT !.refused = TRUE]
  <2>1. r \in RespSinks /\ r.queue = s.queue /\ r.complete = s.complete /\ r.calls = s.calls
    BY <1>5 DEF RespSinks
  <2>2. Resp!OnFrame(s, f) = r
    BY <1>8 DEF Resp!OnFrame
  <2> HIDE DEF r
  <2>3. QED
    BY <1>1, <2>1, <2>2, RespFlags DEF v
<1>9. CASE f.is = "reasoning.done"
  <2> DEFINE r == [s EXCEPT !.reasoning = TRUE]
  <2>1. r \in RespSinks /\ r.queue = s.queue /\ r.complete = s.complete /\ r.calls = s.calls
    BY <1>5 DEF RespSinks
  <2>2. Resp!OnFrame(s, f) = r
    BY <1>9 DEF Resp!OnFrame
  <2> HIDE DEF r
  <2>3. QED
    BY <1>1, <2>1, <2>2, RespFlags DEF v
<1>10. CASE f.is = "search.done"
  <2> DEFINE p == Resp!Push(s, [kind |-> "hosted", id |-> NoId, why |-> ""])
             r == [p EXCEPT !.sawToolCall = TRUE]
  <2>1. Resp!OnFrame(s, f) = r
    BY <1>10 DEF Resp!OnFrame, Resp!Hosted, Resp!Chunk
  <2>2. RespAt(a, e, t, v, p)
    BY <1>1, <1>5, RespTells DEF RespTold
  <2> HIDE DEF p
  <2>3. r \in RespSinks /\ r.queue = p.queue /\ r.complete = p.complete /\ r.calls = p.calls
    BY <2>2 DEF RespSinks, RespAt
  <2> HIDE DEF r
  <2>4. QED
    BY <2>1, <2>2, <2>3, RespFlags DEF v
<1>11. CASE f.is = "failed"
  BY <1>1, <1>11, RespAborts DEF Resp!OnFrame, Whys, v
<1>12. CASE f.is = "item.added"
  BY <1>1, <1>2, <1>4, <1>12, RespItem DEF Resp!OnFrame, v
<1>13. CASE f.is = "arguments.delta"
  BY <1>1, <1>4, <1>13, RespDelta DEF Resp!OnFrame, v
<1>14. CASE f.is = "call.done"
  BY <1>1, <1>14, RespCloses DEF Resp!OnFrame, v
<1>15. CASE f.is = "completed"
  BY <1>1, <1>3, <1>15, RespCompletes DEF Resp!OnFrame, v
<1>16. QED
  BY <1>2, <1>6, <1>7, <1>8, <1>9, <1>10, <1>11, <1>12, <1>13, <1>14, <1>15

\* The end of the stream.
LEMMA RespAtEnd ==
  ASSUME ModelCallAssumption, NEW a, NEW e, NEW t, NEW w, NEW s, RespAt(a, e, t, w, s)
  PROVE  RespAt(a, e, t, w, Resp!OnEnd(s))
BY RespAborts DEF Resp!OnEnd, Resp!Truncated, Whys

-----------------------------------------------------------------------------
(* What the reader takes off the queue was already counted *)

Same(a, e, t, q, b, f, u, r) ==
  /\ AllBegun(b, r) = AllBegun(a, q)
  /\ AllEnded(f, r) = AllEnded(e, q)
  /\ \A c : Count(b, r, c) = Count(a, q, c)
  /\ Told(u, r) <=> Told(t, q)
  /\ Of(r, "done") \subseteq Of(q, "done")

\* A chunk that is heard was already counted: what will have been heard is the
\* same.
LEMMA CoreHears ==
  ASSUME NoId \notin CallIds, NEW a, NEW e, NEW t, NEW w, NEW s, Core(a, e, t, w, s),
         s.queue # <<>>, Head(s.queue).kind \notin Final,
         NEW b, NEW f, NEW u, Hearing(Head(s.queue), a, e, t, b, f, u),
         NEW r, r.queue = Tail(s.queue), r.complete = s.complete
  PROVE  Core(b, f, u, w, r) /\ Same(a, e, t, s.queue, b, f, u, r.queue)
<1> DEFINE q == s.queue
<1>1. Hears(a, e, t, q) /\ q \in Seq(Chunks)
  BY DEF Core, Hears
<1>2. /\ Hears(b, f, u, Tail(q))
      /\ AllBegun(b, Tail(q)) = AllBegun(a, q)
      /\ AllEnded(f, Tail(q)) = AllEnded(e, q)
      /\ \A c : Count(b, Tail(q), c) = Count(a, q, c)
      /\ Told(u, Tail(q)) <=> Told(t, q)
  <2> HIDE DEF q
  <2>1. q # <<>> /\ Hearing(Head(q), a, e, t, b, f, u)
    BY DEF q
  <2>2. QED
    BY <1>1, <2>1, IsHeard, Zenon
<1>3. Over(q) <=> Over(Tail(q)) \/ Head(q).kind \in Final
  BY <1>1, OverTail
<1>4. Of(q, "done") = Of(Tail(q), "done") \cup (IF Head(q).kind = "done" THEN {Head(q).id} ELSE {})
  BY <1>1, OfTail
<1>5. Of(Tail(q), "done") \subseteq Of(q, "done")
  BY <1>4
<1>6. r.queue = Tail(q)
  OBVIOUS
<1>7. Over(r.queue) <=> Over(q)
  BY <1>3, <1>6
<1>8. Of(r.queue, "done") # {} => w
  BY <1>5, <1>6 DEF Core
<1>9. Core(b, f, u, w, r)
  BY <1>2, <1>6, <1>7, <1>8 DEF Core
<1>10. QED
  BY <1>2, <1>5, <1>6, <1>9 DEF Same

\* Calls are open or not whatever part of the queue has been heard.
LEMMA OpenHears ==
  ASSUME NEW a, NEW e, NEW t, NEW q, NEW b, NEW f, NEW u, NEW r, Same(a, e, t, q, b, f, u, r),
         NEW D, NEW calls, OpenCalls(a, e, q, D, calls)
  PROVE  OpenCalls(b, f, r, D, calls)
BY DEF OpenCalls, Same

\* The reader of chat completions hears a chunk.
LEMMA ChatHears ==
  ASSUME NoId \notin CallIds, NEW a, NEW e, NEW t, NEW w, NEW s, ChatAt(a, e, t, w, s),
         s.queue # <<>>, Head(s.queue).kind \notin Final,
         NEW b, NEW f, NEW u, Hearing(Head(s.queue), a, e, t, b, f, u)
  PROVE  ChatAt(b, f, u, w, [s EXCEPT !.queue = Tail(@)])
<1> DEFINE q == Tail(s.queue)
           r == [s EXCEPT !.queue = q]
<1>1. s \in ChatSinks /\ Core(a, e, t, w, s) /\ s.queue \in Seq(Chunks)
  BY DEF ChatAt, ChatSinks
<1>2. q \in Seq(Chunks)
  BY <1>1, TailIs
<1> HIDE DEF q
<1>3. /\ r \in ChatSinks /\ r.queue = q /\ r.complete = s.complete /\ r.calls = s.calls
      /\ r.stop = s.stop /\ r.usageSeen = s.usageSeen
  BY <1>1, <1>2 DEF ChatSinks
<1> HIDE DEF r
<1>4. Core(b, f, u, w, r) /\ Same(a, e, t, s.queue, b, f, u, r.queue)
  BY <1>1, <1>3, CoreHears DEF q
<1>5. ~r.complete => OpenCalls(b, f, r.queue, DOMAIN r.calls, r.calls)
  BY <1>3, <1>4, OpenHears DEF ChatAt
<1>6. ~r.complete => (Told(u, r.queue) => r.usageSeen)
  BY <1>3, <1>4 DEF ChatAt, Same
<1>7. ChatAt(b, f, u, w, r)
  BY <1>3, <1>4, <1>5, <1>6 DEF ChatAt
<1>8. QED
  BY <1>7 DEF r, q

\* The reader of messages hears a chunk.
LEMMA MsgsHears ==
  ASSUME NoId \notin CallIds, NEW a, NEW e, NEW t, NEW w, NEW s, MsgsAt(a, e, t, w, s),
         s.queue # <<>>, Head(s.queue).kind \notin Final,
         NEW b, NEW f, NEW u, Hearing(Head(s.queue), a, e, t, b, f, u)
  PROVE  MsgsAt(b, f, u, w, [s EXCEPT !.queue = Tail(@)])
<1> DEFINE q == Tail(s.queue)
           r == [s EXCEPT !.queue = q]
<1>1. s \in MsgsSinks /\ Core(a, e, t, w, s) /\ s.queue \in Seq(Chunks)
  BY DEF MsgsAt, MsgsSinks
<1>2. q \in Seq(Chunks)
  BY <1>1, TailIs
<1> HIDE DEF q
<1>3. /\ r \in MsgsSinks /\ r.queue = q /\ r.complete = s.complete /\ r.calls = s.calls
  BY <1>1, <1>2 DEF MsgsSinks
<1> HIDE DEF r
<1>4. Core(b, f, u, w, r) /\ Same(a, e, t, s.queue, b, f, u, r.queue)
  BY <1>1, <1>3, CoreHears DEF q
<1>5. ~r.complete => OpenCalls(b, f, r.queue, DOMAIN r.calls, r.calls)
  BY <1>3, <1>4, OpenHears DEF MsgsAt
<1>6. ~r.complete => ~Told(u, r.queue)
  BY <1>3, <1>4 DEF MsgsAt, Same
<1>7. MsgsAt(b, f, u, w, r)
  BY <1>3, <1>4, <1>5, <1>6 DEF MsgsAt
<1>8. QED
  BY <1>7 DEF r, q

\* The reader of responses hears a chunk.
LEMMA RespHears ==
  ASSUME NoId \notin CallIds, NEW a, NEW e, NEW t, NEW w, NEW s, RespAt(a, e, t, w, s),
         s.queue # <<>>, Head(s.queue).kind \notin Final,
         NEW b, NEW f, NEW u, Hearing(Head(s.queue), a, e, t, b, f, u)
  PROVE  RespAt(b, f, u, w, [s EXCEPT !.queue = Tail(@)])
<1> DEFINE q == Tail(s.queue)
           r == [s EXCEPT !.queue = q]
<1>1. s \in RespSinks /\ Core(a, e, t, w, s) /\ s.queue \in Seq(Chunks)
  BY DEF RespAt, RespSinks
<1>2. q \in Seq(Chunks)
  BY <1>1, TailIs
<1> HIDE DEF q
<1>3. /\ r \in RespSinks /\ r.queue = q /\ r.complete = s.complete /\ r.calls = s.calls
  BY <1>1, <1>2 DEF RespSinks
<1> HIDE DEF r
<1>4. Core(b, f, u, w, r) /\ Same(a, e, t, s.queue, b, f, u, r.queue)
  BY <1>1, <1>3, CoreHears DEF q
<1>5. ~r.complete => OpenCalls(b, f, r.queue, Open(r.calls), r.calls)
  BY <1>3, <1>4, OpenHears DEF RespAt
<1>6. ~r.complete => ~Told(u, r.queue) /\ AllOpen(b, f, r.queue, r.calls)
  BY <1>3, <1>4 DEF RespAt, Same, AllOpen
<1>7. Of(r.queue, "done") # {} => AllClosed(b, f, r.queue)
  BY <1>4 DEF RespAt, Same, AllClosed
<1>8. RespAt(b, f, u, w, r)
  BY <1>3, <1>4, <1>5, <1>6, <1>7 DEF RespAt
<1>9. QED
  BY <1>8 DEF r, q

-----------------------------------------------------------------------------
(* The decoder of whichever format the provider speaks *)

WireTyped(way, s) ==
  /\ way = "chat" => s \in ChatSinks
  /\ way = "messages" => s \in MsgsSinks
  /\ way = "responses" => s \in RespSinks

WireAt(way, a, e, t, w, s) ==
  /\ way = "chat" => ChatAt(a, e, t, w, s)
  /\ way = "messages" => MsgsAt(a, e, t, w, s)
  /\ way = "responses" => RespAt(a, e, t, w, s)

\* The calls of a table are the vendor's.
LEMMA TableTyped ==
  /\ \A calls \in CallTables : DOMAIN calls \subseteq Indices /\ \A i \in DOMAIN calls : calls[i].id \in CallIds
  /\ \A calls \in ItemTables : DOMAIN calls \subseteq Indices /\ \A i \in DOMAIN calls : calls[i].id \in CallIds
BY TableIs, ItemsAre

\* What every decoder has.
LEMMA WireIs ==
  ASSUME NoId \notin CallIds, NEW way \in {"chat", "messages", "responses"}, NEW s, WireTyped(way, s)
  PROVE  /\ s.queue \in Seq(Chunks) /\ s.complete \in BOOLEAN
         /\ \A k \in 1..Len(s.queue) : s.queue[k].id \in CallIds \cup {NoId}
         /\ DOMAIN s.calls \subseteq Indices
         /\ \A i \in DOMAIN s.calls : s.calls[i].id \in CallIds
<1>1. s.queue \in Seq(Chunks) /\ s.complete \in BOOLEAN /\ (s.calls \in CallTables \/ s.calls \in ItemTables)
  BY DEF WireTyped, ChatSinks, MsgsSinks, RespSinks
<1>2. \A k \in 1..Len(s.queue) : s.queue[k] \in Chunks
  BY <1>1, SeqIs
<1>3. \A k \in 1..Len(s.queue) : s.queue[k].id \in CallIds \cup {NoId}
  BY <1>2, ChunkIs
<1>4. QED
  BY <1>1, <1>3, TableTyped

\* What every decoder keeps of what its reader has.
LEMMA WireAtIs ==
  ASSUME NEW way \in {"chat", "messages", "responses"}, NEW a, NEW e, NEW t, NEW w, NEW s,
         WireAt(way, a, e, t, w, s)
  PROVE  /\ WireTyped(way, s) /\ Core(a, e, t, w, s)
         /\ way = "responses" /\ Of(s.queue, "done") # {} => AllClosed(a, e, s.queue)
BY DEF WireAt, WireTyped, ChatAt, MsgsAt, RespAt

\* A chunk that does not end the reply is taken off the queue and made something of.
LEMMA WireHears ==
  ASSUME NoId \notin CallIds, NEW way, NEW a, NEW e, NEW t, NEW w, NEW s, WireAt(way, a, e, t, w, s),
         s.queue # <<>>, Head(s.queue).kind \notin Final,
         NEW b, NEW f, NEW u, Hearing(Head(s.queue), a, e, t, b, f, u)
  PROVE  WireAt(way, b, f, u, w, [s EXCEPT !.queue = Tail(@)])
<1>1. way = "chat" => ChatAt(b, f, u, w, [s EXCEPT !.queue = Tail(@)])
  BY ChatHears DEF WireAt
<1>2. way = "messages" => MsgsAt(b, f, u, w, [s EXCEPT !.queue = Tail(@)])
  BY MsgsHears DEF WireAt
<1>3. way = "responses" => RespAt(b, f, u, w, [s EXCEPT !.queue = Tail(@)])
  BY RespHears DEF WireAt
<1>4. QED
  BY <1>1, <1>2, <1>3 DEF WireAt

\* A chunk taken off the queue leaves the decoder what it was.
LEMMA WireTaken ==
  ASSUME NEW way \in {"chat", "messages", "responses"}, NEW s, WireTyped(way, s), s.queue # <<>>
  PROVE  WireTyped(way, [s EXCEPT !.queue = Tail(@)])
<1> DEFINE q == Tail(s.queue)
           r == [s EXCEPT !.queue = q]
<1>1. s.queue \in Seq(Chunks)
  BY DEF WireTyped, ChatSinks, MsgsSinks, RespSinks
<1>2. q \in Seq(Chunks)
  BY <1>1, TailIs
<1> HIDE DEF q
<1>3. way = "chat" => r \in ChatSinks
  BY <1>2 DEF ChatSinks, WireTyped
<1>4. way = "messages" => r \in MsgsSinks
  BY <1>2 DEF MsgsSinks, WireTyped
<1>5. way = "responses" => r \in RespSinks
  BY <1>2 DEF RespSinks, WireTyped
<1>6. QED
  BY <1>3, <1>4, <1>5 DEF WireTyped, q

\* Each decoder has the sink's operators from its own instance; they are the same.
LEMMA OneSink ==
  ASSUME NEW s, NEW why
  PROVE  /\ Chat!Abort(s, why) = S!Abort(s, why)
         /\ Msgs!Abort(s, why) = S!Abort(s, why)
         /\ Resp!Abort(s, why) = S!Abort(s, why)
BY Zenon DEF Chat!Abort, Chat!CloseWith, Chat!Broken, Chat!Chunk,
       Msgs!Abort, Msgs!CloseWith, Msgs!Broken, Msgs!Chunk,
       Resp!Abort, Resp!CloseWith, Resp!Broken, Resp!Chunk,
       S!Abort, S!CloseWith, S!Broken, S!Chunk

\* The transport may break at any time, and then the stream is complete.
LEMMA WireBreaks ==
  ASSUME ModelCallAssumption, NEW way \in {"chat", "messages", "responses"},
         NEW a, NEW e, NEW t, NEW w, NEW s, WireAt(way, a, e, t, w, s), NEW why \in Whys
  PROVE  WireAt(way, a, e, t, w, S!Abort(s, why)) /\ S!Abort(s, why).complete = TRUE
<1>1. WireAt(way, a, e, t, w, S!Abort(s, why))
  <2>1. way = "chat" => ChatAt(a, e, t, w, S!Abort(s, why))
    BY ChatAborts, OneSink DEF WireAt
  <2>2. way = "messages" => MsgsAt(a, e, t, w, S!Abort(s, why))
    BY MsgsAborts, OneSink DEF WireAt
  <2>3. way = "responses" => RespAt(a, e, t, w, S!Abort(s, why))
    BY RespAborts, OneSink DEF WireAt
  <2>4. QED
    BY <2>1, <2>2, <2>3 DEF WireAt
<1>2. S!Abort(s, why).complete = TRUE
  <2> DEFINE u == Append(s.queue, S!Broken(why))
             r == [s EXCEPT !.queue = u, !.complete = TRUE]
  <2>1. S!Abort(s, why) = IF s.complete THEN s ELSE r
    BY DEF S!Abort, S!CloseWith
  <2>2. s \in ChatSinks \/ s \in MsgsSinks \/ s \in RespSinks
    BY WireAtIs DEF WireTyped
  <2> HIDE DEF u
  <2>3. s.complete \in BOOLEAN /\ r.complete = TRUE
    BY <2>2 DEF ChatSinks, MsgsSinks, RespSinks
  <2>4. QED
    BY <2>1, <2>3
<1>3. QED
  BY <1>1, <1>2

\* The stream may end at any time, and then it is complete.
LEMMA WireEnds ==
  ASSUME ModelCallAssumption, format \in {"chat", "messages", "responses"},
         NEW a, NEW e, NEW t, NEW w, NEW s, WireAt(format, a, e, t, w, s)
  PROVE  /\ WireAt(format, a, e, t, w, S!Truncated(OnEnd(s)))
         /\ S!Truncated(OnEnd(s)).complete = TRUE
<1>1. WireAt(format, a, e, t, w, OnEnd(s))
  <2>1. CASE format = "chat"
    BY <2>1, ChatAtEnd DEF WireAt, OnEnd
  <2>2. CASE format = "messages"
    BY <2>2, MsgsAtEnd DEF WireAt, OnEnd
  <2>3. CASE format = "responses"
    BY <2>3, RespAtEnd DEF WireAt, OnEnd
  <2>4. QED
    BY <2>1, <2>2, <2>3
<1>2. "Transient" \in Whys
  BY DEF Whys
<1>3. QED
  BY <1>1, <1>2, WireBreaks DEF S!Truncated

\* Every plausible frame of the format leaves a queue that may be heard.
LEMMA WireFrames ==
  ASSUME ModelCallAssumption, format \in {"chat", "messages", "responses"},
         NEW a, NEW e, NEW t, NEW w \in BOOLEAN, NEW s, WireAt(format, a, e, t, w, s),
         ~s.complete, s.queue = <<>>, NEW f \in Frames, f.id \notin Ids(a),
         f.is = "item.added" => f.index \notin DOMAIN s.calls,
         f.is = "arguments.delta" /\ f.index \in DOMAIN s.calls => ~s.calls[f.index].ended
  PROVE  WireAt(format, a, e, t, w \/ SaysWhole(f), OnFrame(s, f))
<1>1. CASE format = "chat"
  BY <1>1, ChatFrame DEF WireAt, OnFrame, SaysWhole, Frames
<1>2. CASE format = "messages"
  BY <1>2, MsgsFrame DEF WireAt, OnFrame, SaysWhole, Frames
<1>3. CASE format = "responses"
  BY <1>3, RespFrame DEF WireAt, OnFrame, SaysWhole, Frames
<1>4. QED
  BY <1>1, <1>2, <1>3

\* Nothing is heard of an empty queue.
LEMMA HearsNothing ==
  ASSUME NEW q, q = <<>>, q \in Seq(Chunks)
  PROVE  Hears(<<>>, {}, 0, q) /\ ~Over(q) /\ ~Told(0, q) /\ AllBegun(<<>>, q) = {} /\ Of(q, "done") = {}
<1>1. /\ DOMAIN q = {} /\ <<>> \in Asms /\ Len(<<>>) = 0
  BY DEF Asms
<1>2. \A kind : Of(q, kind) = {}
  BY OfEmpty, Zenon
<1>3. Ids(<<>>) = {} /\ Distinct(<<>>)
  BY <1>1 DEF Ids, Distinct
<1>4. Orderly(q) /\ ~Over(q)
  BY <1>1 DEF Orderly, Over
<1>5. AllBegun(<<>>, q) = {} /\ ~Told(0, q)
  BY <1>2, <1>3 DEF AllBegun, Told
<1>6. Hears(<<>>, {}, 0, q)
  BY <1>1, <1>2, <1>3, <1>4, <1>5 DEF Hears
<1>7. QED
  BY <1>2, <1>4, <1>5, <1>6

\* A fresh decoder has nothing, and its reader has heard nothing.
LEMMA WireFresh ==
  ASSUME format \in {"chat", "messages", "responses"}, NEW w
  PROVE  WireAt(format, <<>>, {}, 0, w, Fresh) /\ Fresh.complete = FALSE
<1> DEFINE q == <<>>
           none == [i \in {} |-> 0]
<1>1. q \in Seq(Chunks)
  OBVIOUS
<1>2. none \in CallTables /\ none \in ItemTables /\ DOMAIN none = {}
  <2>1. none \in [{} -> [id : CallIds, pieces : Nat, ended : BOOLEAN]]
    OBVIOUS
  <2>2. QED
    BY <2>1, TableEmpty DEF ItemTables
<1>3. Hears(<<>>, {}, 0, q) /\ ~Over(q) /\ ~Told(0, q) /\ AllBegun(<<>>, q) = {} /\ Of(q, "done") = {}
  BY <1>1, HearsNothing
<1>4. /\ OpenCalls(<<>>, {}, q, DOMAIN none, none) /\ OpenCalls(<<>>, {}, q, Open(none), none)
      /\ AllOpen(<<>>, {}, q, none)
  BY <1>2, <1>3 DEF OpenCalls, AllOpen, Open
<1>5. CASE format = "chat"
  <2>1. Fresh = [queue |-> q, complete |-> FALSE, calls |-> none, stop |-> NoStop, usageSeen |-> FALSE]
    BY <1>5 DEF Fresh, Chat!Fresh
  <2> HIDE DEF q, none
  <2>2. /\ Fresh.queue = q /\ Fresh.complete = FALSE /\ Fresh.calls = none /\ Fresh.stop = NoStop
        /\ Fresh \in ChatSinks
    BY <1>1, <1>2, <2>1 DEF ChatSinks
  <2> HIDE DEF Fresh
  <2>3. ChatAt(<<>>, {}, 0, w, Fresh)
    BY <1>3, <1>4, <2>2 DEF ChatAt, Core
  <2>4. QED
    BY <1>5, <2>2, <2>3 DEF WireAt
<1>6. CASE format = "messages"
  <2>1. Fresh = [queue |-> q, complete |-> FALSE, calls |-> none, stop |-> NoStop]
    BY <1>6 DEF Fresh, Msgs!Fresh
  <2> HIDE DEF q, none
  <2>2. /\ Fresh.queue = q /\ Fresh.complete = FALSE /\ Fresh.calls = none
        /\ Fresh \in MsgsSinks
    BY <1>1, <1>2, <2>1 DEF MsgsSinks
  <2> HIDE DEF Fresh
  <2>3. MsgsAt(<<>>, {}, 0, w, Fresh)
    BY <1>3, <1>4, <2>2 DEF MsgsAt, Core
  <2>4. QED
    BY <1>6, <2>2, <2>3 DEF WireAt
<1>7. CASE format = "responses"
  <2>1. Fresh = [queue |-> q, complete |-> FALSE, calls |-> none, sawToolCall |-> FALSE,
                 refused |-> FALSE, reasoning |-> FALSE]
    BY <1>7 DEF Fresh, Resp!Fresh
  <2> HIDE DEF q, none
  <2>2. /\ Fresh.queue = q /\ Fresh.complete = FALSE /\ Fresh.calls = none
        /\ Fresh \in RespSinks
    BY <1>1, <1>2, <2>1 DEF RespSinks
  <2> HIDE DEF Fresh
  <2>3. RespAt(<<>>, {}, 0, w, Fresh)
    BY <1>3, <1>4, <2>2 DEF RespAt, Core
  <2>4. QED
    BY <1>7, <2>2, <2>3 DEF WireAt
<1>8. QED
  BY <1>5, <1>6, <1>7

-----------------------------------------------------------------------------
(* The inductive invariant of a model call *)

\* How many requests a refusal, a refresh and their repetitions may make of one.
PerReply == MaxRetries + 2

Seens == [ended : SUBSET CallIds, tallies : Nat, shown : BOOLEAN, requests : Nat, whole : BOOLEAN]

CallTyped ==
  /\ format \in Formats /\ WireTyped(format, wire)
  /\ drained \in BOOLEAN /\ emitted \in BOOLEAN /\ cancelled \in BOOLEAN
  /\ frames \in 0..MaxFrames /\ retries \in 0..MaxRetries /\ tries \in 0..MaxRetries
  /\ pc \in {"request", "reading", "returned"}
  /\ outcome \in {"none", "message", "cancelled", "failed"}
  /\ outcome = "none" <=> pc # "returned"
  /\ seen \in Seens
  /\ asm \in Asms /\ Distinct(asm) /\ seen.ended \subseteq Ids(asm)

\* Nothing was heard or shown of a reply that is yet to be asked for.
AsksAnew ==
  pc = "request" => asm = <<>> /\ seen.ended = {} /\ seen.tallies = 0 /\ ~seen.shown

\* The decoder and its queue agree with what the reader has heard.
ReadsOn ==
  pc = "reading" =>
    /\ WireAt(format, asm, seen.ended, seen.tallies, seen.whole, wire)
    /\ drained = wire.complete
    /\ emitted = seen.shown
    /\ tries = 0

ReturnsWell ==
  outcome = "message" =>
    seen.whole /\ (format = "responses" => Begun \subseteq seen.ended)

RequestsSpent ==
  seen.requests <= IF pc = "request" THEN retries * PerReply + tries
                   ELSE (retries + 1) * PerReply

CallIInv == CallTyped /\ AsksAnew /\ ReadsOn /\ ReturnsWell /\ RequestsSpent

-----------------------------------------------------------------------------
(* How many requests *)

\* The products of numbers.
LEMMA Products ==
  ASSUME NEW m \in Nat, NEW n \in Nat
  PROVE  m * n \in Nat /\ (m + 1) * n = m * n + n
OBVIOUS

\* What the replies of a step may cost, one by one and together.
LEMMA Spending ==
  ASSUME ModelCallAssumption, NEW r \in 0..MaxRetries
  PROVE  /\ r * PerReply \in Nat /\ (r + 1) * PerReply = r * PerReply + MaxRetries + 2
         /\ (r + 1) * PerReply <= (MaxRetries + 1) * PerReply
<1>1. MaxRetries \in Nat /\ PerReply \in Nat /\ r \in Nat /\ r + 1 \in Nat /\ PerReply = MaxRetries + 2
  BY DEF ModelCallAssumption, PerReply
<1> DEFINE d == MaxRetries - r
           p == PerReply
<1>2. d \in Nat /\ MaxRetries + 1 = (r + 1) + d
  BY <1>1
<1>3. p \in Nat
  BY <1>1
<1> HIDE DEF d, p
<1>4. r * p \in Nat /\ (r + 1) * p = r * p + p
  BY <1>1, <1>3, Products
<1>5. d * p \in Nat
  BY <1>2, <1>3, Products
<1>6. ((r + 1) + d) * p = (r + 1) * p + d * p
  BY <1>1, <1>2, <1>3
<1>7. (r + 1) * p <= (MaxRetries + 1) * p
  <2>1. (r + 1) * p \in Nat
    BY <1>1, <1>3, Products
  <2>2. QED
    BY <1>2, <1>5, <1>6, <2>1
<1>8. QED
  BY <1>1, <1>4, <1>7 DEF p

-----------------------------------------------------------------------------
(* The invariant is inductive *)

\* The provider speaks one of the three formats.
LEMMA FormatIs ==
  ASSUME ModelCallAssumption, CallTyped
  PROVE  format \in {"chat", "messages", "responses"}
BY DEF ModelCallAssumption, CallTyped

\* An assembler starts with no call.
LEMMA NothingAssembled == <<>> \in Asms /\ Distinct(<<>>) /\ Ids(<<>>) = {}
<1>1. <<>> \in Asms /\ Len(<<>>) = 0
  BY DEF Asms
<1>2. QED
  BY <1>1 DEF Ids, Distinct

\* A fresh decoder has its type.
LEMMA FreshTyped ==
  ASSUME format \in {"chat", "messages", "responses"}
  PROVE  WireTyped(format, Fresh)
BY WireFresh, WireAtIs

\* The invariant holds at the start.
LEMMA CallBegins ==
  ASSUME ModelCallAssumption
  PROVE  Init => CallIInv
<1> SUFFICES ASSUME Init PROVE CallIInv
  OBVIOUS
<1>1. format \in {"chat", "messages", "responses"}
  BY DEF ModelCallAssumption, Init
<1>2. WireTyped(format, wire)
  BY <1>1, FreshTyped DEF Init
<1>3. /\ pc = "request" /\ outcome = "none" /\ frames = 0 /\ retries = 0 /\ tries = 0 /\ format \in Formats
      /\ drained = FALSE /\ emitted = FALSE /\ cancelled = FALSE
      /\ seen \in Seens /\ seen.ended = {} /\ seen.tallies = 0 /\ seen.shown = FALSE /\ seen.requests = 0
  BY DEF Init, Seens
<1>4. asm = <<>>
  BY DEF Init
<1>5. asm \in Asms /\ Distinct(asm) /\ seen.ended \subseteq Ids(asm)
  BY <1>3, <1>4, NothingAssembled
<1>6. CallTyped
  <2>1. frames \in 0..MaxFrames /\ retries \in 0..MaxRetries /\ tries \in 0..MaxRetries
    BY <1>3 DEF ModelCallAssumption
  <2>2. drained \in BOOLEAN /\ emitted \in BOOLEAN /\ cancelled \in BOOLEAN
    BY <1>3
  <2>3. (outcome = "none" <=> pc # "returned") /\ pc \in {"request", "reading", "returned"}
        /\ outcome \in {"none", "message", "cancelled", "failed"}
    BY <1>3
  <2>4. QED
    BY <1>2, <1>3, <1>5, <2>1, <2>2, <2>3 DEF CallTyped
<1>7. RequestsSpent
  <2>1. 0 * PerReply = 0
    BY DEF PerReply, ModelCallAssumption
  <2>2. QED
    BY <1>3, <2>1 DEF RequestsSpent
<1>8. QED
  BY <1>3, <1>4, <1>6, <1>7 DEF CallIInv, AsksAnew, ReadsOn, ReturnsWell

\* Requests are counted, and nothing else is seen.
LEMMA SentIs ==
  ASSUME seen \in Seens, NEW n \in Nat, Sent(n)
  PROVE  /\ seen' \in Seens /\ seen'.requests = seen.requests + n
         /\ seen'.ended = seen.ended /\ seen'.tallies = seen.tallies
         /\ seen'.shown = seen.shown /\ seen'.whole = seen.whole
BY DEF Seens, Sent

\* What a step that leaves the reply alone leaves as it was.
LEMMA StaysTyped ==
  ASSUME CallTyped, format' = format, WireTyped(format, wire'),
         drained' \in BOOLEAN, emitted' \in BOOLEAN, cancelled' \in BOOLEAN,
         frames' \in 0..MaxFrames, retries' \in 0..MaxRetries, tries' \in 0..MaxRetries,
         pc' \in {"request", "reading", "returned"},
         outcome' \in {"none", "message", "cancelled", "failed"},
         outcome' = "none" <=> pc' # "returned", seen' \in Seens,
         asm' \in Asms, Distinct(asm'), seen'.ended \subseteq Ids(asm')
  PROVE  CallTyped'
<1>1. format' \in Formats /\ WireTyped(format', wire')
  BY DEF CallTyped
<1>2. QED
  BY <1>1 DEF CallTyped

-----------------------------------------------------------------------------
(* The request *)

\* A stream that opens is read from nothing.
LEMMA OpensWell ==
  ASSUME ModelCallAssumption, CallIInv, pc = "request", Opens, NEW n \in 1..2, Sent(n)
  PROVE  CallIInv'
<1>1. format \in {"chat", "messages", "responses"}
  BY FormatIs DEF CallIInv
<1>2. /\ pc' = "reading" /\ wire' = Fresh /\ drained' = FALSE /\ frames' = 0 /\ asm' = <<>>
      /\ emitted' = FALSE /\ tries' = 0 /\ format' = format /\ retries' = retries
      /\ outcome' = outcome /\ cancelled' = cancelled
  BY DEF Opens
<1>3. /\ seen' \in Seens /\ seen'.requests = seen.requests + n /\ seen'.ended = {} /\ seen'.tallies = 0
      /\ seen'.shown = FALSE /\ seen'.whole = seen.whole
  BY SentIs DEF CallIInv, CallTyped, AsksAnew, Seens
<1>4. WireAt(format, <<>>, {}, 0, seen.whole, Fresh) /\ Fresh.complete = FALSE
  BY <1>1, WireFresh
<1>5. outcome = "none" /\ retries \in 0..MaxRetries /\ tries \in 0..MaxRetries /\ cancelled \in BOOLEAN
      /\ seen.requests \in Nat
  BY DEF CallIInv, CallTyped, Seens
<1>6. CallTyped'
  <2>1. WireTyped(format, wire') /\ format' = format
    BY <1>1, <1>2, FreshTyped
  <2>2. frames' \in 0..MaxFrames /\ retries' \in 0..MaxRetries /\ tries' \in 0..MaxRetries
    BY <1>2, <1>5 DEF ModelCallAssumption
  <2>3. drained' \in BOOLEAN /\ emitted' \in BOOLEAN /\ cancelled' \in BOOLEAN
    BY <1>2, <1>5
  <2>4. (outcome' = "none" <=> pc' # "returned") /\ pc' \in {"request", "reading", "returned"}
        /\ outcome' \in {"none", "message", "cancelled", "failed"}
    BY <1>2, <1>5
  <2>5. asm' \in Asms /\ Distinct(asm') /\ seen'.ended \subseteq Ids(asm') /\ seen' \in Seens
    BY <1>2, <1>3, NothingAssembled
  <2>6. CallTyped
    BY DEF CallIInv
  <2>7. QED
    BY <2>1, <2>2, <2>3, <2>4, <2>5, <2>6, StaysTyped, Zenon
<1>7. ReadsOn'
  BY <1>2, <1>3, <1>4 DEF ReadsOn
<1>8. RequestsSpent'
  <2>1. seen.requests <= retries * PerReply + tries
    BY DEF CallIInv, RequestsSpent
  <2>2. seen'.requests <= (retries + 1) * PerReply
    BY <1>3, <1>5, <2>1, Spending DEF ModelCallAssumption
  <2>3. QED
    BY <1>2, <2>2 DEF RequestsSpent, PerReply
<1>9. AsksAnew' /\ ReturnsWell'
  BY <1>2, <1>5 DEF AsksAnew, ReturnsWell
<1>10. QED
  BY <1>6, <1>7, <1>8, <1>9 DEF CallIInv

\* A refusal asks again or gives up, and leaves the reply as it was: nothing.
LEMMA RefusedWell ==
  ASSUME ModelCallAssumption, CallIInv, pc = "request", Unread, NEW n \in 1..2, Sent(n),
         \/ n = 1 /\ tries < MaxRetries /\ tries' = tries + 1 /\ UNCHANGED <<pc, outcome>>
         \/ Return("failed") /\ UNCHANGED tries
  PROVE  CallIInv'
<1>1. /\ format' = format /\ wire' = wire /\ drained' = drained /\ frames' = frames /\ asm' = asm
      /\ emitted' = emitted /\ retries' = retries /\ cancelled' = cancelled
  BY DEF Unread
<1>2. /\ seen' \in Seens /\ seen'.requests = seen.requests + n /\ seen'.ended = {} /\ seen'.tallies = 0
      /\ seen'.shown = FALSE /\ seen'.ended \subseteq Ids(asm)
  BY SentIs DEF CallIInv, CallTyped, AsksAnew, Seens
<1>3. /\ outcome = "none" /\ retries \in 0..MaxRetries /\ tries \in 0..MaxRetries
      /\ seen.requests \in Nat /\ MaxRetries \in Nat
  BY DEF CallIInv, CallTyped, Seens, ModelCallAssumption
<1>4. \/ n = 1 /\ tries < MaxRetries /\ tries' = tries + 1 /\ pc' = "request" /\ outcome' = "none"
      \/ pc' = "returned" /\ outcome' = "failed" /\ tries' = tries
  BY <1>3 DEF Return
<1>5. CallTyped'
  <2>1. CallTyped /\ WireTyped(format, wire') /\ format' = format
    BY <1>1 DEF CallIInv, CallTyped
  <2>2. frames' \in 0..MaxFrames /\ retries' \in 0..MaxRetries /\ tries' \in 0..MaxRetries
    <3>1. frames' \in 0..MaxFrames /\ retries' \in 0..MaxRetries
      BY <1>1 DEF CallIInv, CallTyped
    <3>2. QED
      BY <1>3, <1>4, <3>1
  <2>3. drained' \in BOOLEAN /\ emitted' \in BOOLEAN /\ cancelled' \in BOOLEAN
    BY <1>1 DEF CallIInv, CallTyped
  <2>4. (outcome' = "none" <=> pc' # "returned") /\ pc' \in {"request", "reading", "returned"}
        /\ outcome' \in {"none", "message", "cancelled", "failed"}
    BY <1>4
  <2>5. asm' \in Asms /\ Distinct(asm') /\ seen'.ended \subseteq Ids(asm') /\ seen' \in Seens
    BY <1>1, <1>2 DEF CallIInv, CallTyped
  <2>6. QED
    BY <2>1, <2>2, <2>3, <2>4, <2>5, StaysTyped, Zenon
<1>6. AsksAnew'
  BY <1>1, <1>2 DEF CallIInv, AsksAnew
<1>7. ReadsOn' /\ ReturnsWell'
  BY <1>4 DEF ReadsOn, ReturnsWell
<1>8. RequestsSpent'
  <2>1. seen.requests <= retries * PerReply + tries
    BY DEF CallIInv, RequestsSpent
  <2>2. CASE pc' = "request"
    <3>1. seen'.requests <= retries * PerReply + tries'
      BY <1>2, <1>3, <1>4, <2>1, <2>2, Spending
    <3>2. QED
      BY <1>1, <2>2, <3>1 DEF RequestsSpent, PerReply
  <2>3. CASE pc' # "request"
    <3>1. seen'.requests <= (retries + 1) * PerReply
      BY <1>2, <1>3, <2>1, Spending
    <3>2. QED
      BY <1>1, <2>3, <3>1 DEF RequestsSpent, PerReply
  <2>4. QED
    BY <2>2, <2>3
<1>9. QED
  BY <1>5, <1>6, <1>7, <1>8 DEF CallIInv

\* Every answer to a request keeps the invariant.
LEMMA Requests ==
  ASSUME ModelCallAssumption, CallIInv,
         Answered \/ RefusedForNow \/ RefusedForGood \/ RefusedUnauthorized
  PROVE  CallIInv'
<1>1. CASE Answered
  BY <1>1, OpensWell DEF Answered
<1>2. CASE RefusedForNow
  <2>1. tries = MaxRetries \/ tries < MaxRetries
    BY <1>2 DEF RefusedForNow
  <2>2. pc = "request" /\ Unread /\ Sent(1) /\
         (\/ 1 = 1 /\ tries < MaxRetries /\ tries' = tries + 1 /\ UNCHANGED <<pc, outcome>>
          \/ Return("failed") /\ UNCHANGED tries)
    BY <1>2 DEF RefusedForNow
  <2>3. QED
    BY <2>2, RefusedWell
<1>3. CASE RefusedForGood
  <2>1. pc = "request" /\ Unread /\ Sent(1) /\ Return("failed") /\ UNCHANGED tries
    BY <1>3 DEF RefusedForGood
  <2>2. QED
    BY <2>1, RefusedWell
<1>4. CASE RefusedUnauthorized
  <2>1. CASE pc = "request" /\ Opens /\ Sent(2)
    BY <2>1, OpensWell
  <2>2. ASSUME NEW sent \in 1..2, pc = "request", Unread, Sent(sent), Return("failed"), UNCHANGED tries
        PROVE  CallIInv'
    BY <2>2, RefusedWell
  <2>3. QED
    BY <1>4, <2>1, <2>2 DEF RefusedUnauthorized
<1>5. QED
  BY <1>1, <1>2, <1>3, <1>4

-----------------------------------------------------------------------------
(* The driver *)

\* What the driver did to the stream, the reader's side being as it was.
LEMMA Driven ==
  ASSUME ModelCallAssumption, CallIInv, Reading, Yields, frames' \in 0..MaxFrames,
         drained' = wire'.complete, NEW w \in BOOLEAN, seen' = [seen EXCEPT !.whole = w],
         WireAt(format, asm, seen.ended, seen.tallies, w, wire')
  PROVE  CallIInv'
<1>1. format \in {"chat", "messages", "responses"}
  BY FormatIs DEF CallIInv
<1>2. /\ format' = format /\ asm' = asm /\ emitted' = emitted /\ retries' = retries /\ tries' = tries
      /\ pc' = pc /\ outcome' = outcome /\ cancelled' = cancelled /\ pc = "reading"
  BY DEF Yields, Reading
<1>3. /\ seen' \in Seens /\ seen'.requests = seen.requests /\ seen'.ended = seen.ended
      /\ seen'.tallies = seen.tallies /\ seen'.shown = seen.shown /\ seen'.whole = w
  BY DEF CallIInv, CallTyped, Seens
<1>4. outcome = "none" /\ WireTyped(format, wire')
  BY <1>1, <1>2, WireAtIs DEF CallIInv, CallTyped
<1>5. CallTyped'
  <2>1. CallTyped /\ WireTyped(format, wire') /\ format' = format
    BY <1>2, <1>4 DEF CallIInv
  <2>2. retries' \in 0..MaxRetries /\ tries' \in 0..MaxRetries
    BY <1>2 DEF CallIInv, CallTyped
  <2>3. drained' \in BOOLEAN /\ emitted' \in BOOLEAN /\ cancelled' \in BOOLEAN
    <3>1. wire'.complete \in BOOLEAN
      BY <1>1, <1>4, WireIs DEF ModelCallAssumption
    <3>2. QED
      BY <1>2, <3>1 DEF CallIInv, CallTyped
  <2>4. (outcome' = "none" <=> pc' # "returned") /\ pc' \in {"request", "reading", "returned"}
        /\ outcome' \in {"none", "message", "cancelled", "failed"}
    BY <1>2, <1>4
  <2>5. asm' \in Asms /\ Distinct(asm') /\ seen'.ended \subseteq Ids(asm') /\ seen' \in Seens
    BY <1>2, <1>3 DEF CallIInv, CallTyped
  <2>6. QED
    BY <2>1, <2>2, <2>3, <2>4, <2>5, StaysTyped, Zenon
<1>6. ReadsOn'
  <2>1. emitted' = seen'.shown /\ tries' = 0
    BY <1>2, <1>3 DEF CallIInv, ReadsOn
  <2>2. QED
    BY <1>2, <1>3, <2>1 DEF ReadsOn
<1>7. AsksAnew' /\ ReturnsWell'
  BY <1>2, <1>4 DEF AsksAnew, ReturnsWell
<1>8. RequestsSpent'
  <2>1. seen.requests <= (retries + 1) * PerReply
    BY <1>2 DEF CallIInv, RequestsSpent
  <2>2. seen'.requests <= (retries' + 1) * PerReply
    BY <1>2, <1>3, <2>1
  <2>3. QED
    BY <1>2, <2>2 DEF RequestsSpent, PerReply
<1>9. QED
  BY <1>5, <1>6, <1>7, <1>8 DEF CallIInv

\* The frames, a break and the end keep the invariant.
LEMMA Drives ==
  ASSUME ModelCallAssumption, CallIInv, Frame \/ Breaks \/ Ends
  PROVE  CallIInv'
<1>1. format \in {"chat", "messages", "responses"}
  BY FormatIs DEF CallIInv
<1>2. pc = "reading" /\ wire.queue = <<>> /\ ~drained /\ Reading
  BY DEF Frame, Breaks, Ends, Reading
<1>3. /\ WireAt(format, asm, seen.ended, seen.tallies, seen.whole, wire) /\ ~wire.complete
      /\ seen.whole \in BOOLEAN /\ seen \in Seens
  BY <1>2 DEF CallIInv, ReadsOn, CallTyped, Seens
<1>4. seen = [seen EXCEPT !.whole = seen.whole]
  BY <1>3 DEF Seens
<1>5. CASE Frame
  <2>1. PICK f \in Frames : /\ Plausible(f)
                            /\ wire' = OnFrame(wire, f)
                            /\ drained' = wire'.complete
                            /\ seen' = [seen EXCEPT !.whole = @ \/ SaysWhole(f)]
    BY <1>5 DEF Frame
  <2> DEFINE w == seen.whole \/ SaysWhole(f)
  <2>2. /\ f.id \notin Ids(asm)
        /\ f.is = "item.added" => f.index \notin DOMAIN wire.calls
        /\ f.is = "arguments.delta" /\ f.index \in DOMAIN wire.calls => ~wire.calls[f.index].ended
    BY <2>1 DEF Plausible, Begun, Ids
  <2>3. WireAt(format, asm, seen.ended, seen.tallies, seen.whole \/ SaysWhole(f), OnFrame(wire, f))
    BY <1>1, <1>2, <1>3, <2>2, WireFrames
  <2>4. w \in BOOLEAN /\ seen' = [seen EXCEPT !.whole = w]
    BY <2>1
  <2>5. WireAt(format, asm, seen.ended, seen.tallies, w, wire')
    BY <2>1, <2>3
  <2>6. frames' \in 0..MaxFrames /\ Yields
    BY <1>5 DEF Frame, CallIInv, CallTyped, ModelCallAssumption
  <2> HIDE DEF w
  <2>7. drained' = wire'.complete
    BY <2>1
  <2>8. QED
    BY <1>2, <2>4, <2>5, <2>6, <2>7, Driven
<1>6. CASE Breaks
  <2>1. "Transient" \in Whys
    BY DEF Whys
  <2>2. WireAt(format, asm, seen.ended, seen.tallies, seen.whole, S!Abort(wire, "Transient"))
        /\ S!Abort(wire, "Transient").complete = TRUE
    BY <1>1, <1>3, <2>1, WireBreaks
  <2>3. wire' = S!Abort(wire, "Transient") /\ drained' = TRUE /\ frames' = frames /\ seen' = seen /\ Yields
    BY <1>6 DEF Breaks
  <2>4. WireAt(format, asm, seen.ended, seen.tallies, seen.whole, wire') /\ drained' = wire'.complete
    BY <2>2, <2>3
  <2>5. frames' \in 0..MaxFrames /\ seen' = [seen EXCEPT !.whole = seen.whole]
    BY <1>4, <2>3 DEF CallIInv, CallTyped
  <2>6. QED
    BY <1>2, <1>3, <2>3, <2>4, <2>5, Driven
<1>7. CASE Ends
  <2>2. WireAt(format, asm, seen.ended, seen.tallies, seen.whole, S!Truncated(OnEnd(wire)))
        /\ S!Truncated(OnEnd(wire)).complete = TRUE
    BY <1>1, <1>3, WireEnds
  <2>3. wire' = S!Truncated(OnEnd(wire)) /\ drained' = TRUE /\ frames' = frames /\ seen' = seen /\ Yields
    BY <1>7 DEF Ends
  <2>4. WireAt(format, asm, seen.ended, seen.tallies, seen.whole, wire') /\ drained' = wire'.complete
    BY <2>2, <2>3
  <2>5. frames' \in 0..MaxFrames /\ seen' = [seen EXCEPT !.whole = seen.whole]
    BY <1>4, <2>3 DEF CallIInv, CallTyped
  <2>6. QED
    BY <1>2, <1>3, <2>3, <2>4, <2>5, Driven
<1>8. QED
  BY <1>5, <1>6, <1>7

-----------------------------------------------------------------------------
(* The reader *)

\* A reply has not ended with calls or text still on their way.
LEMMA DoneIsLast ==
  ASSUME ModelCallAssumption, CallIInv, pc = "reading", wire.queue # <<>>,
         Head(wire.queue).kind = "done"
  PROVE  seen.whole /\ (format = "responses" => Ids(asm) \subseteq seen.ended)
<1> DEFINE q == wire.queue
<1>1. format \in {"chat", "messages", "responses"} /\ NoId \notin CallIds
  BY FormatIs DEF CallIInv, ModelCallAssumption
<1>2. WireAt(format, asm, seen.ended, seen.tallies, seen.whole, wire)
  BY DEF CallIInv, ReadsOn
<1>3. /\ Core(asm, seen.ended, seen.tallies, seen.whole, wire)
      /\ format = "responses" /\ Of(q, "done") # {} => AllClosed(asm, seen.ended, q)
  BY <1>1, <1>2, WireAtIs
<1>4. Hears(asm, seen.ended, seen.tallies, q) /\ q # <<>>
  BY <1>3 DEF Core
<1>5. First(asm, seen.ended, seen.tallies, q, Head(q), Tail(q))
  <2> HIDE DEF q
  <2>1. QED
    BY <1>1, <1>4, HeadIs, Zenon
<1>6. Tail(q) = <<>> /\ \A kind : Of(q, kind) = Of(Tail(q), kind) \cup (IF Head(q).kind = kind THEN {Head(q).id} ELSE {})
  BY <1>5 DEF First, Final
<1>7. Of(q, "done") # {}
  BY <1>6
<1>8. Of(q, "end") = {}
  <2>1. Of(Tail(q), "end") = {}
    BY <1>6, OfEmpty
  <2>2. QED
    BY <1>6, <2>1
<1>9. format = "responses" => Ids(asm) \subseteq seen.ended
  BY <1>3, <1>7, <1>8 DEF AllClosed, AllBegun, AllEnded
<1>10. QED
  BY <1>3, <1>7, <1>9 DEF Core

\* The step returns with what it has.
LEMMA Leaves ==
  ASSUME ModelCallAssumption, CallIInv, pc = "reading", wire.queue # <<>>, Took, Reads,
         NEW how \in {"message", "cancelled", "failed"}, Return(how),
         UNCHANGED <<asm, emitted, retries, seen>>,
         how = "message" => Head(wire.queue).kind = "done"
  PROVE  CallIInv'
<1>1. format \in {"chat", "messages", "responses"}
  BY FormatIs DEF CallIInv
<1>2. /\ format' = format /\ asm' = asm /\ emitted' = emitted /\ retries' = retries /\ tries' = tries
      /\ cancelled' = cancelled /\ drained' = drained /\ frames' = frames /\ seen' = seen
      /\ pc' = "returned" /\ outcome' = how
  BY DEF Reads, Return
<1>3. WireTyped(format, wire')
  BY <1>1, WireTaken DEF Took, CallIInv, CallTyped
<1>4. CallTyped'
  <2>1. CallTyped /\ WireTyped(format, wire') /\ format' = format
    BY <1>2, <1>3 DEF CallIInv
  <2>2. frames' \in 0..MaxFrames /\ retries' \in 0..MaxRetries /\ tries' \in 0..MaxRetries
    BY <1>2 DEF CallIInv, CallTyped
  <2>3. drained' \in BOOLEAN /\ emitted' \in BOOLEAN /\ cancelled' \in BOOLEAN
    BY <1>2 DEF CallIInv, CallTyped
  <2>4. (outcome' = "none" <=> pc' # "returned") /\ pc' \in {"request", "reading", "returned"}
        /\ outcome' \in {"none", "message", "cancelled", "failed"}
    BY <1>2
  <2>5. asm' \in Asms /\ Distinct(asm') /\ seen'.ended \subseteq Ids(asm') /\ seen' \in Seens
    BY <1>2 DEF CallIInv, CallTyped
  <2>6. QED
    BY <2>1, <2>2, <2>3, <2>4, <2>5, StaysTyped, Zenon
<1>5. ReturnsWell'
  <2>1. how = "message" => seen.whole /\ (format = "responses" => Ids(asm) \subseteq seen.ended)
    BY DoneIsLast
  <2>2. Begun' = Ids(asm)
    BY <1>2 DEF Begun, Ids
  <2>3. QED
    BY <1>2, <2>1, <2>2 DEF ReturnsWell
<1>6. AsksAnew' /\ ReadsOn'
  BY <1>2 DEF AsksAnew, ReadsOn
<1>7. RequestsSpent'
  <2>1. seen.requests <= (retries + 1) * PerReply
    BY DEF CallIInv, RequestsSpent
  <2>2. seen'.requests <= (retries' + 1) * PerReply
    BY <1>2, <2>1
  <2>3. QED
    BY <1>2, <2>2 DEF RequestsSpent, PerReply
<1>8. QED
  BY <1>4, <1>5, <1>6, <1>7 DEF CallIInv

\* The reader goes on, with what a chunk made of what it has.
LEMMA Continues ==
  ASSUME ModelCallAssumption, CallIInv, pc = "reading", wire.queue # <<>>, Took, Reads,
         Head(wire.queue).kind \notin Final, UNCHANGED <<retries, pc, outcome>>,
         NEW f, NEW u, NEW x \in BOOLEAN,
         seen' = [seen EXCEPT !.ended = f, !.tallies = u, !.shown = x], emitted' = x,
         Hearing(Head(wire.queue), asm, seen.ended, seen.tallies, asm', f, u)
  PROVE  CallIInv'
<1>1. format \in {"chat", "messages", "responses"} /\ NoId \notin CallIds
  BY FormatIs DEF CallIInv, ModelCallAssumption
<1>2. /\ format' = format /\ retries' = retries /\ tries' = tries
      /\ cancelled' = cancelled /\ drained' = drained /\ frames' = frames
      /\ pc' = "reading" /\ pc = "reading" /\ outcome' = outcome
  BY DEF Reads
<1>3. WireAt(format, asm, seen.ended, seen.tallies, seen.whole, wire)
  BY DEF CallIInv, ReadsOn
<1>4. wire' = [wire EXCEPT !.queue = Tail(@)]
  BY DEF Took
<1>5. WireAt(format, asm', f, u, seen.whole, wire')
  BY <1>1, <1>3, <1>4, WireHears
<1>6. WireTyped(format, wire') /\ Core(asm', f, u, seen.whole, wire')
  BY <1>1, <1>5, WireAtIs
<1>7. asm' \in Asms /\ Distinct(asm') /\ f \subseteq Ids(asm') /\ u \in Nat /\ Ids(asm') \subseteq CallIds
  BY <1>6, HeldTyped DEF Core, Hears
<1>8. /\ seen' \in Seens /\ seen'.ended = f /\ seen'.tallies = u /\ seen'.shown = x
      /\ seen'.whole = seen.whole /\ seen'.requests = seen.requests
  BY <1>7 DEF CallIInv, CallTyped, Seens
<1>9. outcome = "none" /\ CallTyped
  BY <1>2 DEF CallIInv, CallTyped
<1>10. CallTyped'
  <2>1. WireTyped(format, wire') /\ format' = format
    BY <1>2, <1>6
  <2>2. frames' \in 0..MaxFrames /\ retries' \in 0..MaxRetries /\ tries' \in 0..MaxRetries
    BY <1>2, <1>9 DEF CallTyped
  <2>3. drained' \in BOOLEAN /\ emitted' \in BOOLEAN /\ cancelled' \in BOOLEAN
    BY <1>2, <1>9 DEF CallTyped
  <2>4. (outcome' = "none" <=> pc' # "returned") /\ pc' \in {"request", "reading", "returned"}
        /\ outcome' \in {"none", "message", "cancelled", "failed"}
    BY <1>2, <1>9
  <2>5. asm' \in Asms /\ Distinct(asm') /\ seen'.ended \subseteq Ids(asm') /\ seen' \in Seens
    BY <1>7, <1>8
  <2>6. QED
    BY <1>9, <2>1, <2>2, <2>3, <2>4, <2>5, StaysTyped, Zenon
<1>11. ReadsOn'
  <2>1. drained = wire.complete /\ tries = 0 /\ wire'.complete = wire.complete
    <3>1. drained = wire.complete /\ tries = 0
      BY DEF CallIInv, ReadsOn
    <3>2. wire \in ChatSinks \/ wire \in MsgsSinks \/ wire \in RespSinks
      BY <1>1, <1>9 DEF CallTyped, WireTyped
    <3>3. wire'.complete = wire.complete
      BY <1>4, <3>2 DEF ChatSinks, MsgsSinks, RespSinks
    <3>4. QED
      BY <3>1, <3>3
  <2>2. QED
    BY <1>2, <1>5, <1>8, <2>1 DEF ReadsOn
<1>12. AsksAnew' /\ ReturnsWell'
  BY <1>2, <1>9 DEF AsksAnew, ReturnsWell
<1>13. RequestsSpent'
  <2>1. seen.requests <= (retries + 1) * PerReply
    BY <1>2 DEF CallIInv, RequestsSpent
  <2>2. seen'.requests <= (retries' + 1) * PerReply
    BY <1>2, <1>8, <2>1
  <2>3. QED
    BY <1>2, <2>2 DEF RequestsSpent, PerReply
<1>14. QED
  BY <1>10, <1>11, <1>12, <1>13 DEF CallIInv

\* A reply asked for again keeps the invariant.
LEMMA AsksAgain ==
  ASSUME ModelCallAssumption, CallIInv, FallsBack
  PROVE  CallIInv'
<1>1. format \in {"chat", "messages", "responses"}
  BY FormatIs DEF CallIInv
<1>2. /\ format' = format /\ asm' = <<>> /\ emitted' = FALSE /\ retries' = retries + 1 /\ tries' = tries
      /\ cancelled' = cancelled /\ drained' = drained /\ frames' = frames
      /\ pc' = "request" /\ outcome' = outcome /\ pc = "reading" /\ wire.queue # <<>> /\ ~emitted
      /\ retries < MaxRetries /\ Took
      /\ seen' = [seen EXCEPT !.ended = {}, !.tallies = 0, !.whole = FALSE]
  BY DEF FallsBack, Reads, Heard
<1>3. WireTyped(format, wire')
  BY <1>1, <1>2, WireTaken DEF Took, CallIInv, CallTyped
<1>4. CallTyped /\ outcome = "none" /\ ~seen.shown /\ tries = 0
  BY <1>2 DEF CallIInv, CallTyped, ReadsOn
<1>5. /\ seen' \in Seens /\ seen'.ended = {} /\ seen'.tallies = 0 /\ seen'.shown = seen.shown
      /\ seen'.requests = seen.requests
  BY <1>2, <1>4 DEF CallTyped, Seens
<1>6. CallTyped'
  <2>1. WireTyped(format, wire') /\ format' = format
    BY <1>2, <1>3
  <2>2. frames' \in 0..MaxFrames /\ retries' \in 0..MaxRetries /\ tries' \in 0..MaxRetries
    <3>1. frames \in 0..MaxFrames /\ retries \in 0..MaxRetries /\ tries \in 0..MaxRetries /\ MaxRetries \in Nat
      BY <1>4 DEF CallTyped, ModelCallAssumption
    <3>2. QED
      BY <1>2, <3>1
  <2>3. drained' \in BOOLEAN /\ emitted' \in BOOLEAN /\ cancelled' \in BOOLEAN
    BY <1>2, <1>4 DEF CallTyped
  <2>4. (outcome' = "none" <=> pc' # "returned") /\ pc' \in {"request", "reading", "returned"}
        /\ outcome' \in {"none", "message", "cancelled", "failed"}
    BY <1>2, <1>4
  <2>5. asm' \in Asms /\ Distinct(asm') /\ seen'.ended \subseteq Ids(asm') /\ seen' \in Seens
    BY <1>2, <1>5, NothingAssembled
  <2>6. QED
    BY <1>4, <2>1, <2>2, <2>3, <2>4, <2>5, StaysTyped, Zenon
<1>7. AsksAnew' /\ ReadsOn' /\ ReturnsWell'
  BY <1>2, <1>4, <1>5 DEF AsksAnew, ReadsOn, ReturnsWell
<1>8. RequestsSpent'
  <2>1. seen.requests <= (retries + 1) * PerReply
    BY <1>2 DEF CallIInv, RequestsSpent
  <2>2. retries' * PerReply = (retries + 1) * PerReply /\ tries' = 0
    BY <1>2, <1>4
  <2>3. (retries + 1) * PerReply \in Nat
    <3>1. retries + 1 \in Nat /\ PerReply \in Nat
      BY <1>4 DEF CallTyped, ModelCallAssumption, PerReply
    <3>2. QED
      BY <3>1, Products
  <2>4. seen'.requests <= retries' * PerReply + tries'
    BY <1>5, <2>1, <2>2, <2>3
  <2>5. QED
    BY <1>2, <2>4 DEF RequestsSpent, PerReply
<1>9. QED
  BY <1>6, <1>7, <1>8 DEF CallIInv

\* What the reader makes of a chunk is what `Hearing` says.
LEMMA ShowsHears ==
  ASSUME seen \in Seens, Shows
  PROVE  /\ Head(wire.queue).kind \notin Final
         /\ Hearing(Head(wire.queue), asm, seen.ended, seen.tallies, asm', seen.ended, seen.tallies)
         /\ seen' = [seen EXCEPT !.ended = seen.ended, !.tallies = seen.tallies, !.shown = TRUE]
<1>1. Head(wire.queue).kind \in {"shown", "hosted"} /\ asm' = asm
      /\ seen' = [seen EXCEPT !.shown = TRUE]
  BY DEF Shows, Heard
<1>2. seen' = [seen EXCEPT !.ended = seen.ended, !.tallies = seen.tallies, !.shown = TRUE]
  BY <1>1 DEF Seens
<1>3. QED
  BY <1>1, <1>2 DEF Final, Hearing

\* So is what the assembler makes of it.
LEMMA AssemblesHears ==
  ASSUME seen \in Seens, Assembles
  PROVE  LET h == Head(wire.queue)
             f == IF h.kind = "end" THEN seen.ended \cup {h.id} ELSE seen.ended
             u == IF h.kind = "usage" THEN seen.tallies + 1 ELSE seen.tallies
         IN  /\ h.kind \in {"start", "args", "end", "usage", "signature"}
             /\ Hearing(h, asm, seen.ended, seen.tallies, asm', f, u)
             /\ seen' = [seen EXCEPT !.ended = f, !.tallies = u, !.shown = seen.shown]
<1> DEFINE h == Head(wire.queue)
           f == IF h.kind = "end" THEN seen.ended \cup {h.id} ELSE seen.ended
           u == IF h.kind = "usage" THEN seen.tallies + 1 ELSE seen.tallies
<1>0. seen = [seen EXCEPT !.ended = seen.ended, !.tallies = seen.tallies, !.shown = seen.shown]
  BY DEF Seens
<1>1. \/ /\ h.kind = "start" /\ seen' = seen
         /\ asm' = Append(asm, [id |-> h.id, pieces |-> 0])
      \/ /\ h.kind = "args" /\ seen' = seen
         /\ asm' = [k \in 1..Len(asm) |->
                      IF asm[k].id = h.id THEN [asm[k] EXCEPT !.pieces = @ + 1] ELSE asm[k]]
      \/ h.kind = "end" /\ asm' = asm /\ seen' = [seen EXCEPT !.ended = seen.ended \cup {h.id}]
      \/ h.kind = "usage" /\ asm' = asm /\ seen' = [seen EXCEPT !.tallies = seen.tallies + 1]
      \/ h.kind = "signature" /\ asm' = asm /\ seen' = seen
  BY DEF Assembles, Heard
<1> HIDE DEF h
<1>2. CASE h.kind = "start"
  <2>1. Hearing(h, asm, seen.ended, seen.tallies, asm', f, u) /\ seen' = seen
    BY <1>1, <1>2 DEF Hearing
  <2>2. QED
    BY <1>0, <1>2, <2>1 DEF h
<1>3. CASE h.kind = "args"
  <2>1. Hearing(h, asm, seen.ended, seen.tallies, asm', f, u) /\ seen' = seen
    BY <1>1, <1>3 DEF Hearing
  <2>2. QED
    BY <1>0, <1>3, <2>1 DEF h
<1>4. CASE h.kind = "end"
  <2>1. Hearing(h, asm, seen.ended, seen.tallies, asm', f, u)
    BY <1>1, <1>4 DEF Hearing
  <2>2. seen' = [seen EXCEPT !.ended = f, !.tallies = u, !.shown = seen.shown]
    BY <1>1, <1>4 DEF Seens
  <2>3. QED
    BY <1>4, <2>1, <2>2 DEF h
<1>5. CASE h.kind = "usage"
  <2>1. Hearing(h, asm, seen.ended, seen.tallies, asm', f, u)
    BY <1>1, <1>5 DEF Hearing
  <2>2. seen' = [seen EXCEPT !.ended = f, !.tallies = u, !.shown = seen.shown]
    BY <1>1, <1>5 DEF Seens
  <2>3. QED
    BY <1>5, <2>1, <2>2 DEF h
<1>6. CASE h.kind = "signature"
  <2>1. Hearing(h, asm, seen.ended, seen.tallies, asm', f, u) /\ seen' = seen
    BY <1>1, <1>6 DEF Hearing
  <2>2. QED
    BY <1>0, <1>6, <2>1 DEF h
<1>7. QED
  BY <1>1, <1>2, <1>3, <1>4, <1>5, <1>6

\* What the reader hears keeps the invariant.
LEMMA Listens ==
  ASSUME ModelCallAssumption, CallIInv, Shows \/ Assembles
  PROVE  CallIInv'
<1>1. seen \in Seens
  BY DEF CallIInv, CallTyped
<1>2. CASE Shows
  <2>1. /\ pc = "reading" /\ wire.queue # <<>> /\ Took /\ Reads /\ UNCHANGED <<retries, pc, outcome>>
        /\ emitted' = TRUE
    BY <1>2 DEF Shows, Heard
  <2>2. /\ Head(wire.queue).kind \notin Final
        /\ Hearing(Head(wire.queue), asm, seen.ended, seen.tallies, asm', seen.ended, seen.tallies)
        /\ seen' = [seen EXCEPT !.ended = seen.ended, !.tallies = seen.tallies, !.shown = TRUE]
    BY <1>1, <1>2, ShowsHears
  <2>3. QED
    BY <2>1, <2>2, Continues
<1>3. CASE Assembles
  <2>1. /\ pc = "reading" /\ wire.queue # <<>> /\ Took /\ Reads /\ UNCHANGED <<retries, pc, outcome>>
        /\ emitted' = emitted
    BY <1>3 DEF Assembles, Heard
  <2>2. emitted' = seen.shown /\ seen.shown \in BOOLEAN
    BY <1>1, <2>1 DEF CallIInv, ReadsOn, Seens
  <2> DEFINE h == Head(wire.queue)
             f == IF h.kind = "end" THEN seen.ended \cup {h.id} ELSE seen.ended
             u == IF h.kind = "usage" THEN seen.tallies + 1 ELSE seen.tallies
  <2>3. /\ h.kind \in {"start", "args", "end", "usage", "signature"}
        /\ Hearing(h, asm, seen.ended, seen.tallies, asm', f, u)
        /\ seen' = [seen EXCEPT !.ended = f, !.tallies = u, !.shown = seen.shown]
    BY <1>1, <1>3, AssemblesHears
  <2>4. h.kind \notin Final
    BY <2>3 DEF Final
  <2> HIDE DEF f, u
  <2>5. QED
    BY <2>1, <2>2, <2>3, <2>4, Continues
<1>4. QED
  BY <1>2, <1>3

\* However the step returns, it keeps the invariant.
LEMMA Returns ==
  ASSUME ModelCallAssumption, CallIInv, LeavesOff \/ GivesUp \/ Completes
  PROVE  CallIInv'
<1>1. CASE LeavesOff
  BY <1>1, Leaves DEF LeavesOff
<1>2. CASE GivesUp
  BY <1>2, Leaves DEF GivesUp, Heard
<1>3. CASE Completes
  BY <1>3, Leaves DEF Completes, Heard
<1>4. QED
  BY <1>1, <1>2, <1>3

\* A step that touches nothing of the reply, and the person's cancel.
LEMMA CallStays ==
  ASSUME CallIInv, cancelled' \in BOOLEAN,
         UNCHANGED <<format, wire, drained, frames, asm, emitted, retries, tries, pc, outcome, seen>>
  PROVE  CallIInv'
<1>1. CallTyped'
  BY DEF CallIInv, CallTyped
<1>2. AsksAnew' /\ RequestsSpent'
  BY DEF CallIInv, AsksAnew, RequestsSpent, PerReply
<1>3. ReadsOn'
  BY DEF CallIInv, ReadsOn
<1>4. ReturnsWell'
  BY DEF CallIInv, ReturnsWell, Begun
<1>5. QED
  BY <1>1, <1>2, <1>3, <1>4 DEF CallIInv

\* Every step keeps the invariant.
LEMMA CallSteps ==
  ASSUME ModelCallAssumption, CallIInv, [Next]_vars
  PROVE  CallIInv'
<1>1. CASE Answered \/ RefusedForNow \/ RefusedForGood \/ RefusedUnauthorized
  BY <1>1, Requests
<1>2. CASE Frame \/ Breaks \/ Ends
  BY <1>2, Drives
<1>3. CASE Shows \/ Assembles
  BY <1>3, Listens
<1>4. CASE FallsBack
  BY <1>4, AsksAgain
<1>5. CASE LeavesOff \/ GivesUp \/ Completes
  BY <1>5, Returns
<1>6. CASE Cancel
  BY <1>6, CallStays DEF Cancel
<1>7. CASE UNCHANGED vars
  BY <1>7, CallStays DEF vars, CallIInv, CallTyped
<1>8. CASE Returned
  BY <1>7, <1>8 DEF Returned
<1>9. QED
  BY <1>1, <1>2, <1>3, <1>4, <1>5, <1>6, <1>7, <1>8 DEF Next

-----------------------------------------------------------------------------
(* What follows *)

\* The invariant always holds.
LEMMA CallHolds == Spec => []CallIInv
<1>1. Init => CallIInv
  BY ModelCallAssumption, CallBegins
<1>2. CallIInv /\ [Next]_vars => CallIInv'
  BY ModelCallAssumption, CallSteps
<1>3. QED
  BY <1>1, <1>2, PTL DEF Spec

\* The invariant gives the types.
LEMMA CallIsTyped ==
  ASSUME ModelCallAssumption, CallIInv
  PROVE  TypeOK
<1>1. format \in {"chat", "messages", "responses"} /\ NoId \notin CallIds
  BY FormatIs DEF CallIInv, ModelCallAssumption
<1>2. /\ wire.complete \in BOOLEAN
      /\ \A k \in 1..Len(wire.queue) : wire.queue[k].id \in CallIds \cup {NoId}
      /\ DOMAIN wire.calls \subseteq Indices
      /\ \A i \in DOMAIN wire.calls : wire.calls[i].id \in CallIds
  BY <1>1, WireIs DEF CallIInv, CallTyped
<1>3. \A k \in 1..Len(asm) : asm[k].id \in CallIds /\ asm[k].pieces \in Nat
  <2>1. \A k \in 1..Len(asm) : asm[k] \in [id : CallIds, pieces : Nat]
    BY SeqIs, Zenon DEF Asms, CallIInv, CallTyped
  <2>2. QED
    BY <2>1
<1>4. QED
  BY <1>2, <1>3 DEF TypeOK, CallIInv, CallTyped

\* A stream that is drained has its end still in the queue.
LEMMA NeverLeftWaiting ==
  ASSUME ModelCallAssumption, CallIInv
  PROVE  NeverSilent
<1> SUFFICES ASSUME pc = "reading", wire.queue = <<>> PROVE ~drained
  BY DEF NeverSilent
<1>1. format \in {"chat", "messages", "responses"}
  BY FormatIs DEF CallIInv
<1>2. WireAt(format, asm, seen.ended, seen.tallies, seen.whole, wire) /\ drained = wire.complete
  BY DEF CallIInv, ReadsOn
<1>3. Core(asm, seen.ended, seen.tallies, seen.whole, wire)
  BY <1>1, <1>2, WireAtIs
<1>4. wire.complete <=> Over(wire.queue)
  BY <1>3 DEF Core
<1>5. ~Over(wire.queue)
  <2>1. DOMAIN wire.queue = {}
    OBVIOUS
  <2>2. QED
    BY <2>1 DEF Over
<1>6. QED
  BY <1>2, <1>4, <1>5

\* A reader is told how its stream ended, a response it is given is closed to its last
\* call, and the requests of a step are bounded (`run`, crates/wire/src/decode.rs;
\* `stream_one_step` and `stream_with_reauth`, crates/core/src/turn.rs).
THEOREM CallIsSound == Spec => []CallInv
<1>1. CallIInv => CallInv
  <2> SUFFICES ASSUME CallIInv PROVE CallInv
    OBVIOUS
  <2>1. TypeOK /\ NeverSilent
    BY ModelCallAssumption, CallIsTyped, NeverLeftWaiting
  <2>2. ResponseCallsChecked
    BY DEF CallIInv, ReturnsWell, ResponseCallsChecked
  <2>3. RequestsBounded
    <3>1. /\ retries \in 0..MaxRetries /\ tries \in 0..MaxRetries /\ seen.requests \in Nat
          /\ MaxRetries \in Nat
      BY ModelCallAssumption DEF CallIInv, CallTyped, Seens, ModelCallAssumption
    <3>2. seen.requests <= (retries + 1) * PerReply
      <4>1. seen.requests <= retries * PerReply + tries \/ seen.requests <= (retries + 1) * PerReply
        BY DEF CallIInv, RequestsSpent
      <4>2. QED
        BY ModelCallAssumption, <3>1, <4>1, Spending
    <3>3. (retries + 1) * PerReply <= (MaxRetries + 1) * PerReply
      BY ModelCallAssumption, <3>1, Spending
    <3>4. (retries + 1) * PerReply \in Nat /\ (MaxRetries + 1) * PerReply \in Nat
      <4>1. retries + 1 \in Nat /\ MaxRetries + 1 \in Nat /\ PerReply \in Nat
        BY <3>1 DEF PerReply
      <4>2. QED
        BY <4>1, Products
    <3>5. seen.requests <= (MaxRetries + 1) * PerReply
      BY <3>1, <3>2, <3>3, <3>4
    <3>6. QED
      BY <3>5 DEF RequestsBounded, PerReply
  <2>4. QED
    BY <2>1, <2>2, <2>3 DEF CallInv
<1>2. QED
  BY <1>1, CallHolds, PTL

\* A reply cut off on the way is never taken for an answer (crates/core/src/turn.rs,
\* `stream_one_step`).
THEOREM RepliesAreWhole == Spec => []WholeReplies
<1>1. CallIInv => WholeReplies
  BY DEF CallIInv, ReturnsWell, WholeReplies
<1>2. QED
  BY <1>1, CallHolds, PTL

\* Once a turn is cancelled nothing more of its reply is shown, whatever the queue holds
\* (crates/core/src/turn.rs, the flag `stream_one_step` looks at with every chunk).
THEOREM CancelIsHeeded == Spec => CancelShowsNothing
<1>1. CallIInv /\ [Next]_vars => [cancelled => seen'.shown = seen.shown]_vars
  <2> SUFFICES ASSUME CallIInv, Next, cancelled PROVE seen'.shown = seen.shown
    OBVIOUS
  <2>1. seen \in Seens
    BY DEF CallIInv, CallTyped
  <2>2. CASE Answered
    BY <2>1, <2>2, SentIs DEF Answered
  <2>3. CASE RefusedForNow \/ RefusedForGood
    BY <2>1, <2>3, SentIs DEF RefusedForNow, RefusedForGood
  <2>4. CASE RefusedUnauthorized
    <3>1. \E n \in Nat : Sent(n)
      BY <2>4 DEF RefusedUnauthorized
    <3>2. QED
      BY <2>1, <3>1, SentIs
  <2>5. CASE Frame
    BY <2>1, <2>5 DEF Frame, Seens
  <2>6. CASE Breaks \/ Ends \/ LeavesOff \/ Returned
    BY <2>6 DEF Breaks, Ends, LeavesOff, Returned, vars
  <2>7. CASE Shows \/ Assembles \/ FallsBack \/ GivesUp \/ Completes \/ Cancel
    BY <2>7 DEF Shows, Assembles, FallsBack, GivesUp, Completes, Cancel
  <2>8. QED
    BY <2>2, <2>3, <2>4, <2>5, <2>6, <2>7 DEF Next
<1>2. QED
  BY <1>1, CallHolds, PTL DEF Spec, CancelShowsNothing

-----------------------------------------------------------------------------
(* The reply as it was promised *)

\* The calls of the promise, and how it ends.
Promised == [c \in Begun |-> asm[CHOOSE k \in 1..Len(asm) : asm[k].id = c].pieces]

Closing == CASE outcome = "none" -> "open"
             [] outcome = "message" -> "done"
             [] outcome = "failed" -> "failed"
             [] outcome = "cancelled" -> "left"

\* The calls of the promise are those of the assembler.
LEMMA PromisedIs ==
  /\ Promised = [c \in Ids(asm) |-> Held(asm, c)]
  /\ Promised' = [c \in Ids(asm') |-> Held(asm', c)]
BY DEF Promised, Begun, Ids, Held

\* How the step returned is how the reply ends.
LEMMA ClosingIs ==
  /\ outcome = "none" => Closing = "open"
  /\ outcome' = "none" => Closing' = "open"
  /\ outcome' \in {"message", "failed", "cancelled"} => Closing' \in {"done", "failed", "left"}
BY DEF Closing

\* A call that begins is promised from nothing.
LEMMA PromisedBegins ==
  ASSUME NEW a, NEW b, NEW c, Ids(b) = Ids(a) \cup {c}, \A d : Held(b, d) = Held(a, d), Held(a, c) = 0,
         NEW p, p = [d \in Ids(a) |-> Held(a, d)], NEW r, r = [d \in Ids(b) |-> Held(b, d)]
  PROVE  DOMAIN p = Ids(a) /\ r = [d \in DOMAIN p \cup {c} |-> IF d = c THEN 0 ELSE p[d]]
OBVIOUS

\* A piece is promised of its call and of no other.
LEMMA PromisedAdds ==
  ASSUME NEW a, NEW b, NEW c \in Ids(a), Ids(b) = Ids(a), Held(b, c) = Held(a, c) + 1,
         \A d : d # c => Held(b, d) = Held(a, d),
         NEW p, p = [d \in Ids(a) |-> Held(a, d)], NEW r, r = [d \in Ids(b) |-> Held(b, d)]
  PROVE  DOMAIN p = Ids(a) /\ r = [p EXCEPT ![c] = p[c] + 1]
OBVIOUS

\* What a step does to the promise is told of these five.
LEMMA ReplyStays ==
  ASSUME asm' = asm, seen'.ended = seen.ended, seen'.tallies = seen.tallies,
         seen'.shown = seen.shown, outcome' = outcome
  PROVE  UNCHANGED Reply!vars
<1>1. Promised' = Promised
  BY PromisedIs
<1>2. Closing' = Closing
  BY DEF Closing
<1>3. QED
  BY <1>1, <1>2 DEF Reply!vars, Promised, Closing

\* A step that returns ends the reply.
LEMMA ReplyEnds ==
  ASSUME asm' = asm, seen'.ended = seen.ended, seen'.tallies = seen.tallies,
         seen'.shown = seen.shown, outcome = "none", outcome' \in {"message", "failed", "cancelled"}
  PROVE  Reply!Next
<1>1. Promised' = Promised
  BY PromisedIs
<1>2. Closing = "open" /\ Closing' \in {"done", "failed", "left"}
  BY ClosingIs
<1>3. Reply!Over
  BY <1>1, <1>2 DEF Reply!Over, Promised, Closing
<1>4. QED
  BY <1>3 DEF Reply!Next

\* The step starts as the promise does.
LEMMA ReplyStarts ==
  ASSUME ModelCallAssumption, Init
  PROVE  Reply!Init
<1>1. Ids(asm) = {}
  BY NothingAssembled DEF Init
<1>2. Promised = [c \in {} |-> 0]
  BY <1>1, PromisedIs
<1>3. Closing = "open"
  BY ClosingIs DEF Init
<1>4. seen.ended = {} /\ seen.tallies = 0 /\ seen.shown = FALSE
  BY DEF Init
<1>5. QED
  BY <1>2, <1>3, <1>4 DEF Reply!Init, Promised, Closing

\* What is shown is shown of an open reply.
LEMMA ReplyShows ==
  ASSUME CallIInv, Shows
  PROVE  Reply!Next
<1>1. asm' = asm /\ outcome' = outcome /\ outcome = "none" /\ seen' = [seen EXCEPT !.shown = TRUE]
      /\ seen \in Seens
  BY DEF Shows, Heard, CallIInv, CallTyped
<1>2. Promised' = Promised /\ Closing = "open" /\ Closing' = "open"
  BY <1>1, PromisedIs, ClosingIs
<1>3. seen'.shown = TRUE /\ seen'.ended = seen.ended /\ seen'.tallies = seen.tallies
  BY <1>1 DEF Seens
<1>4. Reply!Show
  BY <1>2, <1>3 DEF Reply!Show, Promised, Closing
<1>5. QED
  BY <1>4 DEF Reply!Next

\* A reply is asked for again while nothing of it was shown.
LEMMA ReplyAgain ==
  ASSUME CallIInv, FallsBack
  PROVE  Reply!Next
<1>1. /\ asm' = <<>> /\ outcome' = outcome /\ outcome = "none" /\ ~emitted /\ pc = "reading"
      /\ seen' = [seen EXCEPT !.ended = {}, !.tallies = 0, !.whole = FALSE] /\ seen \in Seens
  BY DEF FallsBack, Heard, CallIInv, CallTyped
<1>2. Ids(asm') = {}
  BY <1>1, NothingAssembled
<1>3. Promised' = [c \in {} |-> 0] /\ Closing = "open" /\ Closing' = "open"
  <2>1. Promised' = [c \in {} |-> 0]
    BY <1>2, PromisedIs
  <2>2. QED
    BY <1>1, <2>1, ClosingIs
<1>4. ~seen.shown /\ seen'.shown = seen.shown /\ seen'.ended = {} /\ seen'.tallies = 0
  BY <1>1 DEF Seens, CallIInv, ReadsOn
<1>5. Reply!Again
  BY <1>3, <1>4 DEF Reply!Again, Promised, Closing
<1>6. QED
  BY <1>5 DEF Reply!Next

\* What is assembled is a step of the promise, or none.
LEMMA ReplyAssembles ==
  ASSUME ModelCallAssumption, CallIInv, Assembles
  PROVE  Reply!Next \/ UNCHANGED Reply!vars
<1> DEFINE h == Head(wire.queue)
           f == IF h.kind = "end" THEN seen.ended \cup {h.id} ELSE seen.ended
           u == IF h.kind = "usage" THEN seen.tallies + 1 ELSE seen.tallies
<1>1. format \in {"chat", "messages", "responses"} /\ NoId \notin CallIds /\ seen \in Seens
  BY FormatIs DEF CallIInv, CallTyped, ModelCallAssumption
<1>2. /\ pc = "reading" /\ wire.queue # <<>> /\ outcome' = outcome
  BY DEF Assembles, Heard
<1>3. outcome = "none" /\ asm \in Asms /\ Distinct(asm)
  BY <1>2 DEF CallIInv, CallTyped
<1>4. Closing = "open" /\ Closing' = "open"
  BY <1>2, <1>3, ClosingIs
<1>5. Hears(asm, seen.ended, seen.tallies, wire.queue)
  <2>1. WireAt(format, asm, seen.ended, seen.tallies, seen.whole, wire)
    BY <1>2 DEF CallIInv, ReadsOn
  <2>2. QED
    BY <1>1, <2>1, WireAtIs DEF Core
<1>6. First(asm, seen.ended, seen.tallies, wire.queue, h, Tail(wire.queue))
  BY <1>1, <1>2, <1>5, HeadIs, Zenon
<1>7. /\ h.kind \in OfCall => h.id \in CallIds
      /\ h.kind = "start" => h.id \notin Ids(asm)
      /\ h.kind = "args" => h.id \in Ids(asm) \ seen.ended
      /\ h.kind = "end" => h.id \in Ids(asm) \ seen.ended /\ S!Parses(Held(asm, h.id))
      /\ h.kind = "usage" => seen.tallies = 0
  BY <1>6 DEF First
<1>8. /\ h.kind \in {"start", "args", "end", "usage", "signature"}
      /\ Hearing(h, asm, seen.ended, seen.tallies, asm', f, u)
      /\ seen' = [seen EXCEPT !.ended = f, !.tallies = u, !.shown = seen.shown]
  BY <1>1, AssemblesHears
<1> HIDE DEF h, f, u
<1>9. seen'.ended = f /\ seen'.tallies = u /\ seen'.shown = seen.shown
  BY <1>1, <1>8 DEF Seens
<1>10. CASE h.kind = "start"
  <2>1. asm' = Append(asm, [id |-> h.id, pieces |-> 0])
    BY <1>8, <1>10 DEF Hearing
  <2>2. f = seen.ended /\ u = seen.tallies /\ h.id \in CallIds /\ h.id \notin Ids(asm)
    BY <1>7, <1>10 DEF f, u, OfCall
  <2>3. Ids(asm') = Ids(asm) \cup {h.id} /\ \A d : Held(asm', d) = Held(asm, d)
    BY <1>3, <2>1, <2>2, AsmBegins, Zenon
  <2>4. Held(asm, h.id) = 0
    BY <1>3, <2>2, HeldTyped
  <2>5. /\ DOMAIN Promised = Ids(asm)
        /\ Promised' = [d \in DOMAIN Promised \cup {h.id} |-> IF d = h.id THEN 0 ELSE Promised[d]]
    <3>1. Promised = [c \in Ids(asm) |-> Held(asm, c)] /\ Promised' = [c \in Ids(asm') |-> Held(asm', c)]
      BY PromisedIs
    <3>2. QED
      BY <2>3, <2>4, <3>1, PromisedBegins, Zenon
  <2>6. PICK c \in CallIds : c = h.id
    BY <2>2
  <2>7. /\ c \notin DOMAIN Promised
        /\ Promised' = [d \in DOMAIN Promised \cup {c} |-> IF d = c THEN 0 ELSE Promised[d]]
    BY <2>2, <2>5, <2>6, Zenon
  <2>8. seen'.ended = seen.ended /\ seen'.tallies = seen.tallies
    BY <1>9, <2>2
  <2>9. Reply!Begin(c)
    BY <1>4, <1>9, <2>7, <2>8 DEF Reply!Begin, Promised, Closing
  <2>10. QED
    BY <2>9 DEF Reply!Next
<1>11. CASE h.kind = "args"
  <2>1. asm' = [k \in 1..Len(asm) |->
                  IF asm[k].id = h.id THEN [asm[k] EXCEPT !.pieces = @ + 1] ELSE asm[k]]
    BY <1>8, <1>11 DEF Hearing
  <2>2. f = seen.ended /\ u = seen.tallies /\ h.id \in CallIds /\ h.id \in Ids(asm) \ seen.ended
    BY <1>7, <1>11 DEF f, u, OfCall
  <2>3. /\ Ids(asm') = Ids(asm) /\ Held(asm', h.id) = Held(asm, h.id) + 1
        /\ \A d : d # h.id => Held(asm', d) = Held(asm, d)
    BY <1>3, <2>1, <2>2, AsmAdds, Zenon
  <2>4. /\ DOMAIN Promised = Ids(asm)
        /\ Promised' = [Promised EXCEPT ![h.id] = Promised[h.id] + 1]
    <3>1. Promised = [c \in Ids(asm) |-> Held(asm, c)] /\ Promised' = [c \in Ids(asm') |-> Held(asm', c)]
      BY PromisedIs
    <3>2. QED
      BY <2>2, <2>3, <3>1, PromisedAdds, Zenon
  <2>5. PICK c \in CallIds : c = h.id
    BY <2>2
  <2>6. Reply!Piece(c)
    BY <1>4, <1>9, <2>2, <2>4, <2>5 DEF Reply!Piece, Promised, Closing
  <2>7. QED
    BY <2>6 DEF Reply!Next
<1>12. CASE h.kind = "end"
  <2>1. asm' = asm
    BY <1>8, <1>12 DEF Hearing
  <2>2. /\ f = seen.ended \cup {h.id} /\ u = seen.tallies /\ h.id \in CallIds
        /\ h.id \in Ids(asm) \ seen.ended /\ S!Parses(Held(asm, h.id))
    BY <1>7, <1>12 DEF f, u, OfCall
  <2>3. Promised' = Promised /\ DOMAIN Promised = Ids(asm) /\ Promised[h.id] = Held(asm, h.id)
    BY <2>1, <2>2, PromisedIs
  <2>4. Reply!Parses(Promised[h.id])
    BY <2>2, <2>3 DEF Reply!Parses, S!Parses
  <2>5. PICK c \in CallIds : c = h.id
    BY <2>2
  <2>6. Reply!Close(c)
    BY <1>4, <1>9, <2>2, <2>3, <2>4, <2>5 DEF Reply!Close, Promised, Closing
  <2>7. QED
    BY <2>6 DEF Reply!Next
<1>13. CASE h.kind = "usage"
  <2>1. asm' = asm /\ f = seen.ended /\ u = seen.tallies + 1 /\ seen.tallies = 0
    BY <1>7, <1>8, <1>13 DEF Hearing, f, u
  <2>2. Promised' = Promised /\ u = 1
    BY <2>1, PromisedIs
  <2>3. Reply!Tally
    BY <1>4, <1>9, <2>1, <2>2 DEF Reply!Tally, Promised, Closing
  <2>4. QED
    BY <2>3 DEF Reply!Next
<1>14. CASE h.kind = "signature"
  <2>1. asm' = asm /\ f = seen.ended /\ u = seen.tallies
    BY <1>8, <1>14 DEF Hearing, f, u
  <2>2. QED
    BY <1>2, <1>9, <2>1, ReplyStays
<1>15. QED
  BY <1>8, <1>10, <1>11, <1>12, <1>13, <1>14

\* Every step is one of the promise, or leaves it alone.
LEMMA ReplySteps ==
  ASSUME ModelCallAssumption, CallIInv, [Next]_vars
  PROVE  [Reply!Next]_Reply!vars
<1> SUFFICES Reply!Next \/ UNCHANGED Reply!vars
  OBVIOUS
<1>0. seen \in Seens /\ (pc # "returned" => outcome = "none")
  BY DEF CallIInv, CallTyped
<1>1. ASSUME pc = "request", Opens, NEW n \in Nat, Sent(n) PROVE UNCHANGED Reply!vars
  <2>1. seen'.ended = seen.ended /\ seen'.tallies = seen.tallies /\ seen'.shown = seen.shown
    BY <1>0, <1>1, SentIs
  <2>2. asm' = asm /\ outcome' = outcome
    BY <1>1 DEF Opens, CallIInv, AsksAnew
  <2>3. QED
    BY <2>1, <2>2, ReplyStays
<1>2. ASSUME pc = "request", Unread, NEW n \in Nat, Sent(n), Return("failed") PROVE Reply!Next
  <2>1. seen'.ended = seen.ended /\ seen'.tallies = seen.tallies /\ seen'.shown = seen.shown
    BY <1>0, <1>2, SentIs
  <2>2. asm' = asm /\ outcome' = "failed" /\ outcome = "none"
    BY <1>0, <1>2 DEF Unread, Return
  <2>3. QED
    BY <2>1, <2>2, ReplyEnds
<1>3. CASE Answered
  BY <1>1, <1>3 DEF Answered
<1>4. CASE RefusedForNow
  <2>1. CASE UNCHANGED <<pc, outcome>>
    <3>1. seen'.ended = seen.ended /\ seen'.tallies = seen.tallies /\ seen'.shown = seen.shown
      BY <1>0, <1>4, SentIs DEF RefusedForNow
    <3>2. asm' = asm /\ outcome' = outcome
      BY <1>4, <2>1 DEF RefusedForNow, Unread
    <3>3. QED
      BY <3>1, <3>2, ReplyStays
  <2>2. CASE Return("failed")
    BY <1>2, <1>4, <2>2 DEF RefusedForNow
  <2>3. QED
    BY <1>4, <2>1, <2>2 DEF RefusedForNow
<1>5. CASE RefusedForGood
  BY <1>2, <1>5 DEF RefusedForGood
<1>6. CASE RefusedUnauthorized
  <2>1. CASE pc = "request" /\ Opens /\ Sent(2)
    BY <1>1, <2>1
  <2>2. ASSUME NEW sent \in 1..2, pc = "request", Unread, Sent(sent), Return("failed")
        PROVE  Reply!Next
    BY <1>2, <2>2
  <2>3. QED
    BY <1>6, <2>1, <2>2 DEF RefusedUnauthorized
<1>7. CASE Frame \/ Breaks \/ Ends \/ Cancel \/ UNCHANGED vars
  <2>1. seen'.ended = seen.ended /\ seen'.tallies = seen.tallies /\ seen'.shown = seen.shown
    BY <1>0, <1>7 DEF Frame, Breaks, Ends, Cancel, vars, Seens
  <2>2. asm' = asm /\ outcome' = outcome
    BY <1>7 DEF Frame, Breaks, Ends, Yields, Cancel, vars
  <2>3. QED
    BY <2>1, <2>2, ReplyStays
<1>8. CASE LeavesOff \/ GivesUp \/ Completes
  <2>1. /\ asm' = asm /\ seen' = seen /\ outcome = "none"
        /\ outcome' \in {"message", "failed", "cancelled"}
    BY <1>0, <1>8 DEF LeavesOff, GivesUp, Completes, Return, Heard
  <2>2. QED
    BY <2>1, ReplyEnds
<1>9. CASE Shows
  BY <1>9, ReplyShows
<1>10. CASE Assembles
  BY <1>10, ReplyAssembles
<1>11. CASE FallsBack
  BY <1>11, ReplyAgain
<1>12. CASE Returned
  BY <1>7, <1>12 DEF Returned
<1>13. QED
  BY <1>3, <1>4, <1>5, <1>6, <1>7, <1>8, <1>9, <1>10, <1>11, <1>12 DEF Next

\* A step hears the reply it was promised, whatever the vendor's frames were and in
\* whichever format they came: calls begin once, are added to while they are open, and
\* end when their arguments parse; usage is told once; nothing follows the end; and a
\* reply is asked for again only while nothing of it was shown.
THEOREM CallKeepsItsPromise == Spec => ReplySpec
<1>1. Init => Reply!Init
  BY ModelCallAssumption, ReplyStarts
<1>2. CallIInv /\ [Next]_vars => [Reply!Next]_Reply!vars
  BY ModelCallAssumption, ReplySteps
<1>3. QED
  BY <1>1, <1>2, CallHolds, PTL DEF Spec, ReplySpec, Reply!Spec
=============================================================================
