--------------------------- MODULE McpServerProofs ---------------------------
(***************************************************************************)
(* Whoever is given an answer by an MCP server is given its own, for any   *)
(* number of calls under way: ids are never given out twice, and a waiter, *)
(* a request the child has read and an answer it wrote all keep to the id  *)
(* and the connection of their request.                                    *)
(* The second half is about the connection the session is left with.       *)
(***************************************************************************)
EXTENDS McpServer, FiniteSetTheorems, TLAPS

Pcs == {"none", "registered", "writing", "flushing", "waiting", "done"}

Words == {"nothing", "ok", "old", "no", "closed", "transport", "cut", "timeout"}

Gots == [of : Reqs \cup {None}, says : Words]

ReqType == [pc : Pcs, conn : {0} \cup Conns, id : Nat, got : Gots]

ReqTyped ==
  /\ req \in [Reqs -> ReqType]
  /\ count \in [Conns -> Nat]
  /\ pending \in [Conns -> SUBSET (Nat \X Reqs)]
  /\ asked \in [Conns -> SUBSET Reqs]
  /\ out \in [Conns -> SUBSET [id : Nat, of : Reqs, says : Words]]
  /\ conn \in {0} \cup Conns
  /\ stage \notin {"unlisted", "failed"} => conn \in Conns

Sent(r, c) == req[r].pc # "none" /\ req[r].conn = c

\* What is sent has an id of its own on its connection.
IdsDiffer ==
  /\ \A r \in Reqs, c \in Conns : Sent(r, c) => req[r].id \in 1..count[c]
  /\ \A r, q \in Reqs, c \in Conns :
       Sent(r, c) /\ Sent(q, c) /\ req[r].id = req[q].id => r = q

\* What waits, was read or was answered is a request of that connection.
Filed ==
  \A c \in Conns :
    /\ \A i \in Nat, r \in Reqs :
         <<i, r>> \in pending[c] => Sent(r, c) /\ i = req[r].id
    /\ \A r \in asked[c] : Sent(r, c)
    /\ \A a \in out[c] : Sent(a.of, c) /\ a.id = req[a.of].id

\* Discovery sends each of its requests once.
OneByOne ==
  /\ stage = "unlisted" => req["probe"].pc = "none"
  /\ stage \in {"unlisted", "probe"} => req["init"].pc = "none"
  /\ stage \in {"unlisted", "probe", "init"} => req["list"].pc = "none"

\* A request that is under way is on a connection.
Placed == \A r \in Reqs : req[r].pc # "none" => req[r].conn \in Conns

IInv == ReqTyped /\ IdsDiffer /\ Filed /\ OneByOne /\ Placed /\ OwnAnswer

-----------------------------------------------------------------------------

LEMMA NothingTyped == Nothing \in Gots
BY DEF Nothing, Gots, Words

LEMMA InitHolds == Init => IInv
<1> SUFFICES ASSUME Init PROVE IInv
  OBVIOUS
<1>1. Unsent \in ReqType
  BY NothingTyped DEF Unsent, ReqType, Pcs
<1>2. \A r \in Reqs : /\ req[r] = Unsent
                      /\ req[r].pc = "none"
                      /\ req[r].got.of = None
  BY DEF Init, Unsent, Nothing
<1>3. ReqTyped
  BY <1>1 DEF Init, ReqTyped
<1>4. IdsDiffer /\ Filed /\ Placed
  BY <1>2 DEF Init, IdsDiffer, Filed, Placed, Sent
<1>5. OneByOne /\ OwnAnswer
  BY <1>2 DEF OneByOne, OwnAnswer, Reqs
<1> QED BY <1>3, <1>4, <1>5 DEF IInv

\* To send a request that was not sent, with the next id of a connection, keeps
\* what is said of ids.
LEMMA RegistersKeeps ==
  ASSUME IInv, NEW r \in Reqs, NEW c \in Conns, req[r].pc = "none",
         Registers(r, c), UNCHANGED <<asked, out>>
  PROVE  /\ req' \in [Reqs -> ReqType]
         /\ count' \in [Conns -> Nat]
         /\ pending' \in [Conns -> SUBSET (Nat \X Reqs)]
         /\ IdsDiffer' /\ Filed' /\ Placed' /\ OwnAnswer'
         /\ \A q \in Reqs \ {r} : req'[q] = req[q]
<1> USE DEF IInv, NextId
<1>1. /\ req'[r] = [pc |-> "registered", conn |-> c, id |-> count[c] + 1, got |-> Nothing]
      /\ \A q \in Reqs \ {r} : req'[q] = req[q]
      /\ count'[c] = count[c] + 1
      /\ \A d \in Conns \ {c} : count'[d] = count[d] /\ pending'[d] = pending[d]
      /\ pending'[c] = pending[c] \cup {<<count[c] + 1, r>>}
      /\ count[c] \in Nat
  BY DEF Registers, ReqTyped
<1>2. /\ req' \in [Reqs -> ReqType]
      /\ count' \in [Conns -> Nat]
      /\ pending' \in [Conns -> SUBSET (Nat \X Reqs)]
  <2>1. [pc |-> "registered", conn |-> c, id |-> count[c] + 1, got |-> Nothing]
          \in ReqType
    BY <1>1, NothingTyped DEF ReqType, Pcs
  <2> QED BY <1>1, <2>1 DEF Registers, ReqTyped
<1>3. \A q \in Reqs, d \in Conns :
        /\ q # r => (Sent(q, d)' <=> Sent(q, d))
        /\ q = r => (Sent(q, d)' <=> d = c)
        /\ q = r => ~Sent(q, d)
  BY <1>1 DEF Sent
<1>4. IdsDiffer'
  <2>1. ASSUME NEW q \in Reqs, NEW d \in Conns, Sent(q, d)'
        PROVE  req'[q].id \in 1..count'[d]
    BY <1>1, <1>3, <2>1 DEF IdsDiffer, ReqTyped
  <2>2. ASSUME NEW q \in Reqs, NEW p \in Reqs, NEW d \in Conns,
               Sent(q, d)', Sent(p, d)', req'[q].id = req'[p].id
        PROVE  q = p
    BY <1>1, <1>3, <2>2 DEF IdsDiffer, ReqTyped
  <2> QED BY <2>1, <2>2 DEF IdsDiffer, Sent
<1>5. Filed'
  <2> SUFFICES ASSUME NEW d \in Conns
      PROVE /\ \A i \in Nat, q \in Reqs :
                 <<i, q>> \in pending'[d] => Sent(q, d)' /\ i = req'[q].id
            /\ \A q \in asked[d] : Sent(q, d)'
            /\ \A a \in out[d] : Sent(a.of, d)' /\ a.id = req'[a.of].id
    BY DEF Filed, Sent
  <2>1. ASSUME NEW i \in Nat, NEW q \in Reqs, <<i, q>> \in pending'[d]
        PROVE  Sent(q, d)' /\ i = req'[q].id
    BY <1>1, <1>3, <2>1 DEF Filed
  <2>2. ASSUME NEW q \in asked[d] PROVE Sent(q, d)'
    BY <1>3, <2>2 DEF Filed, ReqTyped
  <2>3. ASSUME NEW a \in out[d] PROVE Sent(a.of, d)' /\ a.id = req'[a.of].id
    BY <1>1, <1>3, <2>3 DEF Filed, ReqTyped
  <2> QED BY <2>1, <2>2, <2>3
<1>6. Placed' /\ OwnAnswer'
  BY <1>1 DEF Placed, OwnAnswer, Nothing
<1> QED BY <1>1, <1>2, <1>4, <1>5, <1>6

\* A step that only moves requests along keeps what is said of ids.
LEMMA MovesKeep ==
  ASSUME IInv,
         req' \in [Reqs -> ReqType],
         \A r \in Reqs : /\ req'[r].conn = req[r].conn
                         /\ req'[r].id = req[r].id
                         /\ (req'[r].pc = "none") <=> (req[r].pc = "none")
                         /\ req'[r].got.of \in {None, r},
         pending' \in [Conns -> SUBSET (Nat \X Reqs)],
         \A c \in Conns : pending'[c] \subseteq pending[c],
         asked' \in [Conns -> SUBSET Reqs],
         \A c \in Conns : \A r \in asked'[c] : Sent(r, c),
         out' \in [Conns -> SUBSET [id : Nat, of : Reqs, says : Words]],
         \A c \in Conns : \A a \in out'[c] : Sent(a.of, c) /\ a.id = req[a.of].id,
         UNCHANGED <<stage, conn, count>>
  PROVE  IInv'
<1>1. \A r \in Reqs, c \in Conns : Sent(r, c)' <=> Sent(r, c)
  BY DEF Sent
<1>2. ReqTyped'
  BY DEF IInv, ReqTyped
<1>3. IdsDiffer'
  BY <1>1 DEF IInv, IdsDiffer
<1>4. Filed'
  <2> SUFFICES ASSUME NEW d \in Conns
      PROVE /\ \A i \in Nat, q \in Reqs :
                 <<i, q>> \in pending'[d] => Sent(q, d)' /\ i = req'[q].id
            /\ \A q \in asked'[d] : Sent(q, d)'
            /\ \A a \in out'[d] : Sent(a.of, d)' /\ a.id = req'[a.of].id
    BY DEF Filed, Sent
  <2>1. ASSUME NEW i \in Nat, NEW q \in Reqs, <<i, q>> \in pending'[d]
        PROVE  Sent(q, d)' /\ i = req'[q].id
    BY <1>1, <2>1 DEF IInv, Filed
  <2>2. ASSUME NEW q \in asked'[d] PROVE Sent(q, d)'
    BY <1>1
  <2>3. ASSUME NEW a \in out'[d] PROVE Sent(a.of, d)' /\ a.id = req'[a.of].id
    BY <1>1
  <2> QED BY <2>1, <2>2, <2>3
<1>5. OneByOne'
  BY DEF IInv, OneByOne, Reqs
<1>6. Placed' /\ OwnAnswer'
  BY DEF IInv, Placed, OwnAnswer
<1> QED BY <1>2, <1>3, <1>4, <1>5, <1>6 DEF IInv

-----------------------------------------------------------------------------

\* What every request, waiter and answer has by its type.
LEMMA Fields ==
  ASSUME IInv
  PROVE  /\ \A r \in Reqs : /\ req[r].pc \in Pcs /\ req[r].got \in Gots
                            /\ req[r].got.of \in {None, r}
                            /\ req[r] \in ReqType
         /\ \A c \in Conns : \A a \in out[c] : a.of \in Reqs /\ a.says \in Words
BY DEF IInv, ReqTyped, ReqType, OwnAnswer

\* To be told something that is one's own, or an error, moves a request along.
LEMMA ToldMoves ==
  ASSUME IInv, NEW r \in Reqs, req[r].pc # "none",
         NEW got \in Gots, got.of \in {None, r}
  PROVE  /\ Told(r, got) \in ReqType
         /\ Told(r, got).conn = req[r].conn
         /\ Told(r, got).id = req[r].id
         /\ Told(r, got).pc # "none"
         /\ Told(r, got).got.of \in {None, r}
<1>1. req[r] \in ReqType /\ req[r].got.of \in {None, r}
  BY Fields
<1> QED BY <1>1 DEF Told, ReqType, Pcs

LEMMA BeginWriteKeeps == ASSUME IInv, NEW r \in Reqs, BeginWrite(r) PROVE IInv'
<1>1. req[r] \in ReqType
  BY Fields
<1>2. req' \in [Reqs -> ReqType]
  BY <1>1 DEF IInv, ReqTyped, ReqType, Pcs, BeginWrite
<1>3. \A q \in Reqs : /\ req'[q].conn = req[q].conn
                      /\ req'[q].id = req[q].id
                      /\ (req'[q].pc = "none") <=> (req[q].pc = "none")
                      /\ req'[q].got.of \in {None, q}
  BY <1>1, Fields DEF IInv, ReqTyped, ReqType, BeginWrite
<1> QED BY <1>2, <1>3, MovesKeep DEF BeginWrite, wait, pipe, IInv, ReqTyped, Filed

LEMMA WriteLineKeeps == ASSUME IInv, NEW r \in Reqs, WriteLine(r) PROVE IInv'
<1>1. req[r] \in ReqType
  BY Fields
<1>2. req' \in [Reqs -> ReqType]
  BY <1>1 DEF IInv, ReqTyped, ReqType, Pcs, WriteLine
<1>3. \A q \in Reqs : /\ req'[q].conn = req[q].conn
                      /\ req'[q].id = req[q].id
                      /\ (req'[q].pc = "none") <=> (req[q].pc = "none")
                      /\ req'[q].got.of \in {None, q}
  BY <1>1, Fields DEF IInv, ReqTyped, ReqType, WriteLine
<1>4. /\ asked' \in [Conns -> SUBSET Reqs]
      /\ \A c \in Conns : \A q \in asked'[c] : Sent(q, c)
  <2> DEFINE d == req[r].conn
  <2>1. Sent(r, d) BY DEF Sent, WriteLine
  <2>2. asked \in [Conns -> SUBSET Reqs] /\ \A c \in Conns : \A q \in asked[c] : Sent(q, c)
    BY DEF IInv, ReqTyped, Filed
  <2>3. \/ asked' = [asked EXCEPT ![d] = asked[d] \cup {r}]
        \/ asked' = [asked EXCEPT ![d] = asked[d]]
    BY DEF WriteLine
  <2> HIDE DEF d
  <2> QED BY <2>1, <2>2, <2>3
<1> QED BY <1>2, <1>3, <1>4, MovesKeep DEF WriteLine, wait, IInv, ReqTyped, Filed

LEMMA FlushKeeps == ASSUME IInv, NEW r \in Reqs, Flush(r) PROVE IInv'
<1>1. req[r] \in ReqType
  BY Fields
<1>2. req' \in [Reqs -> ReqType]
  BY <1>1 DEF IInv, ReqTyped, ReqType, Pcs, Flush
<1>3. \A q \in Reqs : /\ req'[q].conn = req[q].conn
                      /\ req'[q].id = req[q].id
                      /\ (req'[q].pc = "none") <=> (req[q].pc = "none")
                      /\ req'[q].got.of \in {None, q}
  BY <1>1, Fields DEF IInv, ReqTyped, ReqType, Flush
<1> QED BY <1>2, <1>3, MovesKeep DEF Flush, wait, pipe, IInv, ReqTyped, Filed

LEMMA WriteFailsKeeps == ASSUME IInv, NEW r \in Reqs, WriteFails(r) PROVE IInv'
<1>1. req[r] \in ReqType /\ Error("transport") \in Gots /\ Error("transport").of = None
  BY Fields DEF Error, Gots, Words
<1>2. req' \in [Reqs -> ReqType]
  BY <1>1 DEF IInv, ReqTyped, ReqType, Pcs, WriteFails
<1>3. \A q \in Reqs : /\ req'[q].conn = req[q].conn
                      /\ req'[q].id = req[q].id
                      /\ (req'[q].pc = "none") <=> (req[q].pc = "none")
                      /\ req'[q].got.of \in {None, q}
  BY <1>1, Fields DEF IInv, ReqTyped, ReqType, WriteFails
<1>4. /\ pending' \in [Conns -> SUBSET (Nat \X Reqs)]
      /\ \A c \in Conns : pending'[c] \subseteq pending[c]
  BY DEF WriteFails, IInv, ReqTyped
<1> QED BY <1>2, <1>3, <1>4, MovesKeep DEF WriteFails, pipe, IInv, ReqTyped, Filed

LEMMA TimeOutKeeps == ASSUME IInv, NEW r \in Reqs, TimeOut(r) PROVE IInv'
<1>1. /\ req[r] \in ReqType
      /\ \A w \in {"cut", "timeout"} : Error(w) \in Gots /\ Error(w).of = None
  BY Fields DEF Error, Gots, Words
<1>2. req' \in [Reqs -> ReqType]
  BY <1>1 DEF IInv, ReqTyped, ReqType, Pcs, TimeOut, Late
<1>3. \A q \in Reqs : /\ req'[q].conn = req[q].conn
                      /\ req'[q].id = req[q].id
                      /\ (req'[q].pc = "none") <=> (req[q].pc = "none")
                      /\ req'[q].got.of \in {None, q}
  BY <1>1, Fields DEF IInv, ReqTyped, ReqType, TimeOut, Late
<1> QED BY <1>2, <1>3, MovesKeep DEF TimeOut, Late, wait, IInv, ReqTyped, Filed

LEMMA ChildAnswersKeeps == ASSUME IInv, NEW c \in Conns, ChildAnswers(c) PROVE IInv'
<1> PICK r \in asked[c], says \in {"ok", "old", "no"} :
      /\ asked' = [asked EXCEPT ![c] = @ \ {r}]
      /\ out' = [out EXCEPT ![c] = @ \cup {[id |-> req[r].id, of |-> r, says |-> says]}]
  BY DEF ChildAnswers
<1>1. r \in Reqs /\ Sent(r, c) /\ req[r] \in ReqType
  BY Fields DEF IInv, ReqTyped, Filed
<1>2. [id |-> req[r].id, of |-> r, says |-> says] \in [id : Nat, of : Reqs, says : Words]
  BY <1>1 DEF ReqType, Words
<1>3. /\ out' \in [Conns -> SUBSET [id : Nat, of : Reqs, says : Words]]
      /\ \A d \in Conns : \A a \in out'[d] : Sent(a.of, d) /\ a.id = req[a.of].id
  BY <1>1, <1>2 DEF IInv, ReqTyped, Filed
<1>4. /\ asked' \in [Conns -> SUBSET Reqs]
      /\ \A d \in Conns : \A q \in asked'[d] : Sent(q, d)
  BY DEF IInv, ReqTyped, Filed
<1> QED BY <1>3, <1>4, Fields, MovesKeep DEF ChildAnswers, wait, IInv, ReqTyped

LEMMA ReadKeeps == ASSUME IInv, NEW c \in Conns, Read(c) PROVE IInv'
<1> PICK a \in out[c] :
      /\ out' = [out EXCEPT ![c] = @ \ {a}]
      /\ pending' = [pending EXCEPT ![c] = @ \ {w \in pending[c] : w[1] = a.id}]
      /\ req' = [r \in Reqs |->
                   IF <<a.id, r>> \in {w \in pending[c] : w[1] = a.id}
                   THEN Told(r, [of |-> a.of, says |-> a.says]) ELSE req[r]]
  BY DEF Read
<1>1. /\ a.of \in Reqs /\ a.says \in Words /\ a.id \in Nat
      /\ Sent(a.of, c) /\ a.id = req[a.of].id
  BY DEF IInv, ReqTyped, Filed
<1>2. ASSUME NEW r \in Reqs, <<a.id, r>> \in pending[c]
      PROVE  r = a.of /\ req[r].pc # "none"
  <2>1. Sent(r, c) /\ a.id = req[r].id
    BY <1>1, <1>2 DEF IInv, Filed
  <2> QED BY <1>1, <2>1 DEF IInv, IdsDiffer, Sent
<1>3. ASSUME NEW r \in Reqs
      PROVE  /\ req'[r] \in ReqType
             /\ req'[r].conn = req[r].conn
             /\ req'[r].id = req[r].id
             /\ (req'[r].pc = "none") <=> (req[r].pc = "none")
             /\ req'[r].got.of \in {None, r}
  <2>1. CASE <<a.id, r>> \in pending[c]
    <3>1. [of |-> a.of, says |-> a.says] \in Gots
      BY <1>1 DEF Gots
    <3>2. req'[r] = Told(r, [of |-> a.of, says |-> a.says])
      BY <2>1
    <3> QED BY <1>2, <2>1, <3>1, <3>2, ToldMoves
  <2>2. CASE <<a.id, r>> \notin pending[c]
    BY <2>2, Fields
  <2> QED BY <2>1, <2>2
<1>4. req' \in [Reqs -> ReqType]
  BY <1>3
<1>5. /\ pending' \in [Conns -> SUBSET (Nat \X Reqs)]
      /\ \A d \in Conns : pending'[d] \subseteq pending[d]
  BY DEF IInv, ReqTyped
<1>6. /\ out' \in [Conns -> SUBSET [id : Nat, of : Reqs, says : Words]]
      /\ \A d \in Conns : \A b \in out'[d] : Sent(b.of, d) /\ b.id = req[b.of].id
  BY DEF IInv, ReqTyped, Filed
<1>7. /\ asked' \in [Conns -> SUBSET Reqs]
      /\ \A d \in Conns : \A q \in asked'[d] : Sent(q, d)
  BY DEF Read, IInv, ReqTyped, Filed
<1>8. UNCHANGED <<stage, conn, count>>
  BY DEF Read
<1> QED BY <1>3, <1>4, <1>5, <1>6, <1>7, <1>8, MovesKeep

LEMMA EndOfFileKeeps == ASSUME IInv, NEW c \in Conns, EndOfFile(c) PROVE IInv'
<1>1. Error("closed") \in Gots /\ Error("closed").of = None
  BY DEF Error, Gots, Words
<1>2. ASSUME NEW r \in Reqs
      PROVE  /\ req'[r] \in ReqType
             /\ req'[r].conn = req[r].conn
             /\ req'[r].id = req[r].id
             /\ (req'[r].pc = "none") <=> (req[r].pc = "none")
             /\ req'[r].got.of \in {None, r}
  <2>1. CASE <<req[r].id, r>> \in pending[c]
    <3>1. req'[r] = Told(r, Error("closed"))
      BY <2>1 DEF EndOfFile
    <3>2. req[r].pc # "none"
      BY <2>1, Fields DEF IInv, Filed, Sent, ReqType
    <3> QED BY <1>1, <3>1, <3>2, ToldMoves
  <2>2. CASE <<req[r].id, r>> \notin pending[c]
    BY <2>2, Fields DEF EndOfFile
  <2> QED BY <2>1, <2>2
<1>3. req' \in [Reqs -> ReqType]
  BY <1>2 DEF EndOfFile
<1>4. /\ pending' \in [Conns -> SUBSET (Nat \X Reqs)]
      /\ \A d \in Conns : pending'[d] \subseteq pending[d]
  BY DEF EndOfFile, IInv, ReqTyped
<1>5. UNCHANGED <<stage, conn, count, asked, out>>
  BY DEF EndOfFile, pipe
<1> QED BY <1>2, <1>3, <1>4, <1>5, MovesKeep DEF IInv, ReqTyped, Filed

\* What discovery sends it has not sent before.
LEMMA DiscoverySends ==
  ASSUME IInv, NEW r \in {"probe", "init", "list"}, NEW c \in Conns,
         req[r].pc = "none", Registers(r, c), UNCHANGED <<asked, out>>,
         stage' = r, conn' = c, stage \in {"unlisted", "probe", "init"},
         stage = "unlisted" => r = "probe",
         stage = "probe" => r \in {"init", "list"},
         stage = "init" => r = "list"
  PROVE  IInv'
<1>1. r \in Reqs
  BY DEF Reqs
<1>2. /\ req' \in [Reqs -> ReqType]
      /\ count' \in [Conns -> Nat]
      /\ pending' \in [Conns -> SUBSET (Nat \X Reqs)]
      /\ IdsDiffer' /\ Filed' /\ Placed' /\ OwnAnswer'
      /\ \A q \in Reqs \ {r} : req'[q] = req[q]
  BY <1>1, RegistersKeeps
<1>3. ReqTyped'
  BY <1>2 DEF IInv, ReqTyped
<1>4. OneByOne'
  BY <1>2 DEF IInv, OneByOne, Reqs
<1> QED BY <1>2, <1>3, <1>4 DEF IInv

LEMMA StillKeeps ==
  ASSUME IInv, UNCHANGED <<conn, count, pending, req, asked, out>>,
         \/ stage' = stage
         \/ stage' \in {"ready", "toolless"} /\ stage = "list"
         \/ stage' = "failed"
  PROVE  IInv'
<1>1. ReqTyped' BY DEF IInv, ReqTyped
<1>2. IdsDiffer' /\ Filed' /\ Placed' /\ OwnAnswer'
  BY DEF IInv, IdsDiffer, Filed, Placed, OwnAnswer, Sent
<1>3. OneByOne' BY DEF IInv, OneByOne
<1> QED BY <1>1, <1>2, <1>3 DEF IInv

LEMMA DiscoveryKeeps == ASSUME IInv, Discovery PROVE IInv'
<1> USE DEF pipe, wait
<1>1. CASE Discover
  <2>1. CASE Opens(1, "probe")
    BY <1>1, <2>1, DiscoverySends DEF Discover, Opens, IInv, OneByOne, Conns
  <2>2. CASE Fails
    BY <2>2, StillKeeps DEF Fails
  <2> QED BY <1>1, <2>1, <2>2 DEF Discover
<1>2. CASE Probed
  <2> USE <1>2 DEF Probed
  <2>0. conn \in Conns /\ stage = "probe" /\ req["init"].pc = "none" /\ req["list"].pc = "none"
    BY DEF IInv, ReqTyped, OneByOne
  <2>1. CASE Opened("modern")
    BY <2>0, <2>1, DiscoverySends DEF Opened
  <2>2. CASE Fails
    BY <2>2, StillKeeps DEF Fails
  <2>3. CASE /\ stage' = "init"
             /\ Registers("init", conn)
             /\ UNCHANGED <<conn, era, child, reader, pipe>>
    BY <2>0, <2>3, DiscoverySends
  <2>4. CASE Opens(2, "init")
    BY <2>0, <2>4, DiscoverySends DEF Opens, Conns
  <2> QED BY <2>1, <2>2, <2>3, <2>4
<1>3. CASE Initialized
  <2>0. conn \in Conns /\ stage = "init" /\ req["list"].pc = "none"
    BY <1>3 DEF Initialized, IInv, ReqTyped, OneByOne
  <2>1. CASE Opened("legacy")
    BY <2>0, <2>1, DiscoverySends DEF Opened
  <2>2. CASE Fails
    BY <2>2, StillKeeps DEF Fails
  <2> QED BY <1>3, <2>1, <2>2 DEF Initialized
<1>4. CASE Listed
  BY <1>4, StillKeeps DEF Listed
<1> QED BY <1>1, <1>2, <1>3, <1>4 DEF Discovery

LEMMA CallKeeps == ASSUME IInv, NEW r \in Reqs, Call(r) PROVE IInv'
<1> USE DEF Call, pipe
<1>1. conn \in Conns /\ req[r].pc = "none"
  BY DEF IInv, ReqTyped, Unsent
<1>2. /\ req' \in [Reqs -> ReqType]
      /\ count' \in [Conns -> Nat]
      /\ pending' \in [Conns -> SUBSET (Nat \X Reqs)]
      /\ IdsDiffer' /\ Filed' /\ Placed' /\ OwnAnswer'
  BY <1>1, RegistersKeeps
<1>3. ReqTyped' /\ OneByOne'
  BY <1>2 DEF IInv, ReqTyped, OneByOne
<1> QED BY <1>2, <1>3 DEF IInv

LEMMA NextKeeps == IInv /\ [Next]_vars => IInv'
<1> SUFFICES ASSUME IInv, [Next]_vars PROVE IInv'
  OBVIOUS
<1>1. CASE Discovery
  BY <1>1, DiscoveryKeeps
<1>2. ASSUME NEW r \in Reqs, Client(r) PROVE IInv'
  BY <1>2, BeginWriteKeeps, WriteLineKeeps, FlushKeeps, WriteFailsKeeps,
     TimeOutKeeps, CallKeeps DEF Client
<1>3. ASSUME NEW c \in Conns,
             ChildAnswers(c) \/ ChildFalls(c) \/ Read(c) \/ EndOfFile(c)
      PROVE  IInv'
  <2>1. CASE ChildFalls(c)
    BY <2>1, StillKeeps DEF ChildFalls, wait, pipe
  <2> QED BY <1>3, <2>1, ChildAnswersKeeps, ReadKeeps, EndOfFileKeeps
<1>4. CASE UNCHANGED vars
  BY <1>4, StillKeeps DEF vars
<1> QED BY <1>1, <1>2, <1>3, <1>4 DEF Next

\* Whoever is given an answer is given its own, for any number of calls.
THEOREM AnswersAreOwn == Spec => []OwnAnswer
<1>1. IInv => OwnAnswer
  BY DEF IInv
<1> QED BY InitHolds, NextKeeps, <1>1, PTL DEF Spec

-----------------------------------------------------------------------------
(* The connection the session is left with.                                *)

Cuts == {r \in Reqs : Says(r) = "cut"}
Torn == {c \in Conns : torn[c]}

LinkTyped ==
  /\ stage \in {"unlisted", "probe", "init", "list", "ready", "toolless", "failed"}
  /\ era \in {"none", "modern", "legacy"}
  /\ child \in [Conns -> {"none", "up", "mute", "gone"}]
  /\ torn \in [Conns -> BOOLEAN]
  /\ reader \in [Conns -> {"none", "reading", "ended"}]
  /\ spoiled \subseteq Reqs

\* Only a request that is over was cut off, what is over has got something, and
\* nobody is told that of an answer.
Heard ==
  /\ \A r \in Reqs : /\ Says(r) = "cut" => Done(r)
                     /\ Done(r) => Says(r) # "nothing"
                     /\ req[r].pc = "none" => Says(r) = "nothing"
                     /\ Says(r) = "nothing" => req[r].got = Nothing
  /\ \A c \in Conns : \A a \in out[c] : a.says \in {"ok", "old", "no"}

\* One request at a time has the stdin of a child.
OneWriter == \A c \in Conns : \A r, q \in Reqs : Writes(r, c) /\ Writes(q, c) => r = q

\* A line that lies torn on a stdin is of a cut that has spoiled nothing yet.
Counted ==
  /\ IsFiniteSet(spoiled) /\ IsFiniteSet(Cuts)
  /\ Cardinality(spoiled) + Cardinality(Torn) <= Cardinality(Cuts)

\* The probe is sent over the first connection, the handshake over the one in
\* use, and what they came to is what the era is.
Course ==
  /\ req["probe"].pc # "none" => req["probe"].conn = 1
  /\ stage = "unlisted" => \A c \in Conns : child[c] = "none"
  /\ stage = "probe" => child[2] = "none" /\ conn = 1 /\ req["probe"].pc # "none"
  /\ stage = "init" => req["init"].conn = conn /\ req["init"].pc # "none" /\ Done("probe")
  /\ stage \in {"unlisted", "probe", "init"} => era = "none"
  /\ era = "modern" => Done("probe")
  /\ era = "legacy" => Done("init")
  /\ Says("probe") \in {"closed", "transport"} => child[1] # "up"

LinkInv == LinkTyped /\ Heard /\ OneWriter /\ Counted /\ Course /\ EraKept /\ SecondIsNeeded

LEMMA LinkInitHolds == Init => LinkInv
<1> SUFFICES ASSUME Init PROVE LinkInv
  OBVIOUS
<1>1. \A r \in Reqs : /\ req[r].pc = "none" /\ Says(r) = "nothing"
                      /\ req[r].conn = 0 /\ req[r].got = Nothing
  BY DEF Init, Unsent, Nothing, Says
<1>2. LinkTyped /\ Heard /\ OneWriter /\ Course /\ EraKept /\ SecondIsNeeded
  <2>1. LinkTyped /\ EraKept /\ SecondIsNeeded
    BY DEF Init, LinkTyped, EraKept, SecondIsNeeded, Conns
  <2>2. Heard /\ OneWriter
    BY <1>1 DEF Init, Heard, OneWriter, Done, Writes
  <2>3. Course
    BY <1>1 DEF Init, Course, Done, Reqs, Conns
  <2> QED BY <2>1, <2>2, <2>3
<1>3. Counted
  <2>1. Cuts = {} /\ Torn = {} /\ spoiled = {}
    BY <1>1 DEF Cuts, Torn, Init
  <2> QED BY <2>1, FS_EmptySet DEF Counted
<1> QED BY <1>2, <1>3 DEF LinkInv

LEMMA TornFinite == LinkTyped => IsFiniteSet(Torn) /\ Cardinality(Torn) \in Nat
<1>1. IsFiniteSet(Conns)
  <2>1. IsFiniteSet({1} \cup {2})
    BY FS_Singleton, FS_AddElement
  <2> QED BY <2>1 DEF Conns
<1> QED BY <1>1, FS_Subset, FS_CardinalityType DEF Torn

\* The count holds on where nothing is cut off, torn or spoiled.
LEMMA CountStays ==
  ASSUME Counted, UNCHANGED <<torn, spoiled>>, Cuts' = Cuts
  PROVE  Counted'
BY DEF Counted, Torn

\* To send a request cuts off and writes nothing.
LEMMA LinkRegisters ==
  ASSUME IInv, LinkInv, NEW r \in Reqs, NEW c \in Conns, req[r].pc = "none",
         Registers(r, c), UNCHANGED pipe
  PROVE  Heard' /\ OneWriter' /\ Counted'
<1>1. /\ req'[r].pc = "registered" /\ req'[r].got = Nothing
      /\ \A q \in Reqs \ {r} : req'[q] = req[q]
  BY DEF Registers, IInv, ReqTyped
<1>2. Heard'
  BY <1>1 DEF LinkInv, Heard, Done, Says, pipe, Nothing
<1>3. OneWriter'
  BY <1>1 DEF LinkInv, OneWriter, Writes
<1>4. Cuts' = Cuts
  BY <1>1 DEF Cuts, Says, LinkInv, Heard, Nothing
<1> QED BY <1>2, <1>3, <1>4, CountStays DEF LinkInv, pipe

\* A step of one request that is under way: where it may go, and what keeps.
LEMMA LinkMoves ==
  ASSUME IInv, LinkInv, NEW r \in Reqs, ~Done(r), req[r].pc # "none",
         req' \in [Reqs -> ReqType],
         \A q \in Reqs \ {r} : req'[q] = req[q],
         req'[r].conn = req[r].conn, req'[r].pc # "none",
         Says(r)' = "cut" => Done(r)',
         Done(r)' => Says(r)' # "nothing",
         Says(r)' = "nothing" => req'[r].got = Nothing,
         UNCHANGED <<stage, conn, era, child, reader, out>>,
         r = "probe" /\ Says(r)' \in {"closed", "transport"}
            => Says(r)' = Says(r) \/ child[req[r].conn] # "up"
  PROVE  Heard' /\ Course' /\ EraKept' /\ SecondIsNeeded'
<1>1. Heard'
  BY DEF LinkInv, Heard, Done, Says
<1>2. Course'
  BY DEF LinkInv, Course, Done, Says, Reqs
<1>3. EraKept' /\ SecondIsNeeded'
  BY DEF LinkInv, EraKept, SecondIsNeeded, Says, Course, Done, Reqs
<1> QED BY <1>1, <1>2, <1>3

LEMMA LinkBeginWrite == ASSUME IInv, LinkInv, NEW r \in Reqs, BeginWrite(r) PROVE LinkInv'
<1> USE DEF BeginWrite, wait, pipe
<1>1. /\ req' \in [Reqs -> ReqType]
      /\ \A q \in Reqs \ {r} : req'[q] = req[q]
      /\ req'[r].conn = req[r].conn /\ req'[r].pc = "writing" /\ req'[r].got = req[r].got
  BY Fields DEF IInv, ReqTyped, ReqType, Pcs
<1>2. Heard' /\ Course' /\ EraKept' /\ SecondIsNeeded'
  BY <1>1, LinkMoves DEF Done, Says, LinkInv, Heard
<1>3. OneWriter'
  BY <1>1 DEF LinkInv, OneWriter, Writes
<1>4. Cuts' = Cuts
  BY <1>1 DEF Cuts, Says
<1> QED BY <1>2, <1>3, <1>4, CountStays DEF LinkInv, LinkTyped

LEMMA LinkWriteLine == ASSUME IInv, LinkInv, NEW r \in Reqs, WriteLine(r) PROVE LinkInv'
<1> USE DEF WriteLine, wait
<1> DEFINE c == req[r].conn
<1>1. /\ req' \in [Reqs -> ReqType]
      /\ \A q \in Reqs \ {r} : req'[q] = req[q]
      /\ req'[r].conn = c /\ req'[r].pc = "flushing" /\ req'[r].got = req[r].got
      /\ c \in Conns
  BY Fields DEF IInv, ReqTyped, ReqType, Pcs, Placed
<1>2. Heard' /\ Course' /\ EraKept' /\ SecondIsNeeded'
  BY <1>1, LinkMoves DEF Done, Says, LinkInv, Heard
<1>3. OneWriter'
  BY <1>1 DEF LinkInv, OneWriter, Writes
<1>4. Cuts' = Cuts
  BY <1>1 DEF Cuts, Says
<1>5. ~\E q \in Reqs \ {r} : Writes(q, c) /\ req[q].pc = "writing"
  BY <1>1 DEF LinkInv, OneWriter, Writes
<1>6. /\ torn' = [torn EXCEPT ![c] = FALSE]
      /\ spoiled' = IF torn[c] THEN spoiled \cup {r} ELSE spoiled
  BY <1>5, <1>1 DEF LinkInv, LinkTyped
<1>7. LinkTyped'
  BY <1>6 DEF LinkInv, LinkTyped
<1>8. Counted'
  <2>0. /\ IsFiniteSet(Torn) /\ Cardinality(Torn) \in Nat
        /\ IsFiniteSet(spoiled) /\ Cardinality(spoiled) \in Nat
        /\ IsFiniteSet(Cuts) /\ Cardinality(Cuts) \in Nat
        /\ Cardinality(spoiled) + Cardinality(Torn) <= Cardinality(Cuts)
    BY TornFinite, FS_CardinalityType DEF LinkInv, Counted
  <2>1. Torn' = Torn \ {c}
    BY <1>1, <1>6 DEF Torn, LinkInv, LinkTyped
  <2>2. CASE torn[c]
    <3>0. c \in Torn
      BY <1>1, <2>2 DEF Torn
    <3>1. Cardinality(Torn') = Cardinality(Torn) - 1
      BY <2>0, <2>1, <3>0, FS_RemoveElement
    <3>2. /\ IsFiniteSet(spoiled')
          /\ Cardinality(spoiled') \in {Cardinality(spoiled), Cardinality(spoiled) + 1}
      BY <1>6, <2>0, <2>2, FS_AddElement
    <3> QED BY <1>4, <2>0, <3>1, <3>2 DEF Counted
  <2>3. CASE ~torn[c]
    <3>1. Torn' = Torn /\ spoiled' = spoiled
      BY <1>6, <2>1, <2>3 DEF Torn
    <3> QED BY <1>4, <2>0, <3>1 DEF Counted
  <2> QED BY <2>2, <2>3
<1> QED BY <1>2, <1>3, <1>7, <1>8 DEF LinkInv

\* What a record becomes when its request moves on.
LEMMA Advanced ==
  ASSUME req \in [Reqs -> ReqType], NEW r \in Reqs, NEW p \in Pcs,
         req' = [req EXCEPT ![r].pc = p]
  PROVE  /\ req' \in [Reqs -> ReqType]
         /\ \A q \in Reqs \ {r} : req'[q] = req[q]
         /\ req'[r].conn = req[r].conn /\ req'[r].pc = p /\ req'[r].got = req[r].got
BY DEF ReqType

\* A request that takes no stdin up leaves one writer at a time.
LEMMA WriterStays ==
  ASSUME OneWriter, NEW r \in Reqs,
         \A q \in Reqs \ {r} : req'[q] = req[q],
         req'[r].conn = req[r].conn,
         req'[r].pc \in {"writing", "flushing"} => req[r].pc \in {"writing", "flushing"}
  PROVE  OneWriter'
<1>1. ASSUME NEW q \in Reqs, NEW c \in Conns, Writes(q, c)'
      PROVE  Writes(q, c)
  BY <1>1 DEF Writes
<1> QED BY <1>1 DEF OneWriter

LEMMA LinkFlush == ASSUME IInv, LinkInv, NEW r \in Reqs, Flush(r) PROVE LinkInv'
<1> USE DEF Flush, wait, pipe
<1>1. /\ req' \in [Reqs -> ReqType]
      /\ \A q \in Reqs \ {r} : req'[q] = req[q]
      /\ req'[r].conn = req[r].conn /\ req'[r].got = req[r].got
      /\ req'[r].pc = IF req[r].got = Nothing THEN "waiting" ELSE "done"
  <2> DEFINE p == IF req[r].got = Nothing THEN "waiting" ELSE "done"
  <2>1. req' = [req EXCEPT ![r].pc = p] /\ p \in Pcs /\ req \in [Reqs -> ReqType]
    BY DEF Pcs, IInv, ReqTyped
  <2> HIDE DEF p, Flush, wait, pipe
  <2>2. /\ req' \in [Reqs -> ReqType]
        /\ \A q \in Reqs \ {r} : req'[q] = req[q]
        /\ req'[r].conn = req[r].conn /\ req'[r].pc = p /\ req'[r].got = req[r].got
    BY <2>1, Advanced
  <2> QED BY <2>2 DEF p
<1>2. Says(r) = "nothing" => req[r].got = Nothing
  BY DEF LinkInv, Heard
<1>3. Heard' /\ Course' /\ EraKept' /\ SecondIsNeeded'
  BY <1>1, <1>2, LinkMoves DEF Done, Says, LinkInv, Heard
<1>4. OneWriter'
  <2>1. OneWriter /\ (req'[r].pc \in {"writing", "flushing"} => req[r].pc \in {"writing", "flushing"})
    BY <1>1 DEF LinkInv
  <2> HIDE DEF Flush, wait, pipe
  <2> QED BY <1>1, <2>1, WriterStays
<1>5. Cuts' = Cuts
  BY <1>1 DEF Cuts, Says
<1> QED BY <1>3, <1>4, <1>5, CountStays DEF LinkInv, LinkTyped

LEMMA LinkWriteFails == ASSUME IInv, LinkInv, NEW r \in Reqs, WriteFails(r) PROVE LinkInv'
<1> USE DEF WriteFails, pipe
<1>1. /\ req' \in [Reqs -> ReqType]
      /\ \A q \in Reqs \ {r} : req'[q] = req[q]
      /\ req'[r].conn = req[r].conn /\ req'[r].pc = "done"
      /\ req'[r].got = Error("transport")
  <2> DEFINE g == Error("transport")
  <2>1. g \in Gots /\ "done" \in Pcs /\ req \in [Reqs -> ReqType]
    BY DEF Error, Gots, Words, Pcs, IInv, ReqTyped
  <2>2. req' = [req EXCEPT ![r].pc = "done", ![r].got = g]
    OBVIOUS
  <2> HIDE DEF g, WriteFails, pipe
  <2>3. /\ req' \in [Reqs -> ReqType]
        /\ \A q \in Reqs \ {r} : req'[q] = req[q]
        /\ req'[r].conn = req[r].conn /\ req'[r].pc = "done" /\ req'[r].got = g
    BY <2>1, <2>2 DEF ReqType
  <2> QED BY <2>3 DEF g
<1>2. Heard' /\ Course' /\ EraKept' /\ SecondIsNeeded'
  BY <1>1, LinkMoves DEF Done, Says, Error
<1>3. OneWriter'
  <2>1. OneWriter /\ (req'[r].pc \in {"writing", "flushing"} => req[r].pc \in {"writing", "flushing"})
    BY <1>1 DEF LinkInv
  <2> HIDE DEF WriteFails, pipe
  <2> QED BY <1>1, <2>1, WriterStays
<1>4. Cuts' = Cuts
  BY <1>1 DEF Cuts, Says, Error, LinkInv, Heard, Done
<1> QED BY <1>2, <1>3, <1>4, CountStays DEF LinkInv, LinkTyped

LEMMA LinkTimeOut == ASSUME IInv, LinkInv, NEW r \in Reqs, TimeOut(r) PROVE LinkInv'
<1> USE DEF TimeOut, Late, wait
<1> DEFINE c == req[r].conn
<1> DEFINE word == IF req[r].pc = "writing" THEN "cut" ELSE "timeout"
<1>1. /\ req' \in [Reqs -> ReqType]
      /\ \A q \in Reqs \ {r} : req'[q] = req[q]
      /\ req'[r].conn = c /\ req'[r].pc = "done"
      /\ req'[r].got = Error(word)
      /\ c \in Conns
  <2> DEFINE g == Error(word)
  <2>1. g \in Gots /\ "done" \in Pcs /\ req \in [Reqs -> ReqType]
    BY DEF Error, Gots, Words, Pcs, IInv, ReqTyped
  <2>2. req' = [req EXCEPT ![r].pc = "done", ![r].got = g]
    OBVIOUS
  <2>3. c \in Conns
    BY DEF IInv, Placed
  <2> HIDE DEF g, TimeOut, Late, wait, word
  <2>4. /\ req' \in [Reqs -> ReqType]
        /\ \A q \in Reqs \ {r} : req'[q] = req[q]
        /\ req'[r].conn = c /\ req'[r].pc = "done" /\ req'[r].got = g
    BY <2>1, <2>2 DEF ReqType
  <2> QED BY <2>3, <2>4 DEF g
<1>2. Heard' /\ Course' /\ EraKept' /\ SecondIsNeeded'
  BY <1>1, LinkMoves DEF Done, Says, Error
<1>3. OneWriter'
  <2>1. OneWriter /\ (req'[r].pc \in {"writing", "flushing"} => req[r].pc \in {"writing", "flushing"})
    BY <1>1 DEF LinkInv
  <2> HIDE DEF TimeOut, Late, wait
  <2> QED BY <1>1, <2>1, WriterStays
<1>4. torn' = [torn EXCEPT ![c] = @ \/ req[r].pc = "writing"] /\ spoiled' = spoiled
  OBVIOUS
<1>5. LinkTyped'
  BY <1>1, <1>4 DEF LinkInv, LinkTyped
<1>6. Counted'
  <2>0. /\ IsFiniteSet(Torn) /\ Cardinality(Torn) \in Nat
        /\ IsFiniteSet(spoiled) /\ Cardinality(spoiled) \in Nat
        /\ IsFiniteSet(Cuts) /\ Cardinality(Cuts) \in Nat
        /\ Cardinality(spoiled) + Cardinality(Torn) <= Cardinality(Cuts)
    BY TornFinite, FS_CardinalityType DEF LinkInv, Counted
  <2>1. r \notin Cuts
    BY DEF Cuts, Says, LinkInv, Heard, Done
  <2>2. CASE req[r].pc = "writing"
    <3>0. torn' = [torn EXCEPT ![c] = TRUE]
      BY <1>4, <2>2
    <3>1. Torn' = Torn \cup {c}
      BY <1>1, <3>0 DEF Torn, LinkInv, LinkTyped
    <3>2. Cardinality(Torn') \in {Cardinality(Torn), Cardinality(Torn) + 1}
      BY <2>0, <3>1, FS_AddElement
    <3>3. Cuts' = Cuts \cup {r}
      BY <1>1, <2>2 DEF Cuts, Says, Error
    <3>4. IsFiniteSet(Cuts') /\ Cardinality(Cuts') = Cardinality(Cuts) + 1
      BY <2>0, <2>1, <3>3, FS_AddElement
    <3> QED BY <1>4, <2>0, <3>2, <3>4 DEF Counted
  <2>3. CASE req[r].pc # "writing"
    <3>1. torn' = torn
      BY <1>1, <1>4, <2>3 DEF LinkInv, LinkTyped
    <3>2. Cuts' = Cuts
      BY <1>1, <2>1, <2>3 DEF Cuts, Says, Error
    <3> QED BY <1>4, <3>1, <3>2, CountStays DEF LinkInv
  <2> QED BY <2>2, <2>3
<1> QED BY <1>2, <1>3, <1>5, <1>6 DEF LinkInv

\* The child reads nothing out of a request, and falls for good.
LEMMA LinkChild ==
  ASSUME IInv, LinkInv, NEW c \in Conns, ChildAnswers(c) \/ ChildFalls(c)
  PROVE  LinkInv'
<1>1. UNCHANGED <<stage, conn, era, torn, reader, req, spoiled>>
  BY DEF ChildAnswers, ChildFalls, pipe
<1>2. OneWriter' /\ Counted' /\ EraKept'
  BY <1>1, CountStays DEF LinkInv, OneWriter, Writes, Cuts, Says, EraKept
<1>3. LinkTyped' /\ \A d \in Conns : child'[d] # child[d] => child'[d] # "up" /\ child[d] # "none"
  BY <1>1 DEF ChildAnswers, ChildFalls, LinkInv, LinkTyped
<1>4. Course' /\ SecondIsNeeded'
  BY <1>1, <1>3 DEF LinkInv, Course, SecondIsNeeded, Conns, Done, Says
<1>5. Heard'
  <2>1. \A d \in Conns : \A a \in out'[d] : a \in out[d] \/ a.says \in {"ok", "old", "no"}
    BY DEF ChildAnswers, ChildFalls, pipe, IInv, ReqTyped
  <2> QED BY <1>1, <2>1 DEF LinkInv, Heard, Done, Says
<1> QED BY <1>2, <1>3, <1>4, <1>5 DEF LinkInv

\* What the reader tells those it finds waiting: an answer, or that the child is
\* no more.
LEMMA LinkTold ==
  ASSUME IInv, LinkInv, NEW c \in Conns, NEW got, NEW S \in SUBSET Reqs,
         got.says \in {"ok", "old", "no"} \/ (got.says = "closed" /\ child[c] # "up"),
         \A r \in S : Sent(r, c),
         req' = [r \in Reqs |-> IF r \in S THEN Told(r, got) ELSE req[r]],
         \A d \in Conns : out'[d] \subseteq out[d],
         reader' \in [Conns -> {"none", "reading", "ended"}],
         UNCHANGED <<stage, conn, era, child, torn, spoiled>>
  PROVE  LinkInv'
<1>1. ASSUME NEW r \in Reqs
      PROVE  /\ req'[r].conn = req[r].conn
             /\ Done(r) => req'[r] = req[r]
             /\ ~Done(r) /\ r \in S => req'[r].got = got
             /\ r \notin S => req'[r] = req[r]
             /\ \/ req'[r].pc = req[r].pc
                \/ req[r].pc = "waiting" /\ req'[r].pc = "done" /\ r \in S
    <2>1. req[r] \in ReqType
      BY Fields
    <2> QED BY <2>1 DEF Told, Done, ReqType
<1>2. Heard'
  <2>1. ASSUME NEW r \in Reqs
        PROVE  /\ Says(r)' = "cut" => Done(r)'
               /\ Done(r)' => Says(r)' # "nothing"
               /\ req'[r].pc = "none" => Says(r)' = "nothing"
               /\ Says(r)' = "nothing" => req'[r].got = Nothing
    <3>1. r \in S => req[r].pc # "none"
      BY DEF Sent
    <3> QED BY <1>1, <3>1 DEF LinkInv, Heard, Done, Says
  <2> QED BY <2>1 DEF LinkInv, Heard
<1>3. OneWriter'
  BY <1>1 DEF LinkInv, OneWriter, Writes
<1>4. Counted'
  <2>1. Cuts' = Cuts
    BY <1>1 DEF Cuts, Says, LinkInv, Heard, Done
  <2> QED BY <2>1, CountStays DEF LinkInv
<1>5. \A r \in {"probe", "init"} :
        /\ Done(r) => req'[r] = req[r]
        /\ (req'[r].pc = "none") <=> (req[r].pc = "none")
        /\ req'[r].conn = req[r].conn
  BY <1>1 DEF Done, Reqs
<1>6. Says("probe")' \in {"closed", "transport"} => child[1] # "up"
  <2>1. "probe" \in S => c = 1
    BY DEF LinkInv, Course, Sent
  <2> QED BY <1>1, <2>1 DEF Says, LinkInv, Course, Reqs
<1>7. Course'
  BY <1>5, <1>6 DEF LinkInv, Course, Done
<1>8. EraKept' /\ SecondIsNeeded' /\ LinkTyped'
  BY <1>5 DEF LinkInv, EraKept, SecondIsNeeded, LinkTyped, Course, Done, Says
<1> QED BY <1>2, <1>3, <1>4, <1>7, <1>8 DEF LinkInv

LEMMA LinkRead == ASSUME IInv, LinkInv, NEW c \in Conns, Read(c) PROVE LinkInv'
<1>0. PICK a \in out[c] :
      /\ out' = [out EXCEPT ![c] = @ \ {a}]
      /\ req' = [r \in Reqs |->
                   IF <<a.id, r>> \in {w \in pending[c] : w[1] = a.id}
                   THEN Told(r, [of |-> a.of, says |-> a.says]) ELSE req[r]]
  BY DEF Read
<1> DEFINE S == {r \in Reqs : <<a.id, r>> \in pending[c]}
<1> DEFINE got == [of |-> a.of, says |-> a.says]
<1>1. got.says \in {"ok", "old", "no"} /\ a.id \in Nat
  BY <1>0 DEF LinkInv, Heard, IInv, ReqTyped
<1>2. \A r \in S : Sent(r, c)
  BY <1>0, <1>1 DEF IInv, Filed
<1>3. req' = [r \in Reqs |-> IF r \in S THEN Told(r, got) ELSE req[r]]
  BY <1>0
<1>4. /\ \A d \in Conns : out'[d] \subseteq out[d]
      /\ reader' \in [Conns -> {"none", "reading", "ended"}]
      /\ UNCHANGED <<stage, conn, era, child, torn, spoiled>>
  BY <1>0 DEF Read, IInv, ReqTyped, LinkInv, LinkTyped
<1> HIDE DEF S, got
<1>5. S \in SUBSET Reqs
  BY DEF S
<1> QED BY <1>1, <1>2, <1>3, <1>4, <1>5, LinkTold

LEMMA LinkEndOfFile == ASSUME IInv, LinkInv, NEW c \in Conns, EndOfFile(c) PROVE LinkInv'
<1> DEFINE S == {r \in Reqs : <<req[r].id, r>> \in pending[c]}
<1> DEFINE got == Error("closed")
<1>1. got.says = "closed" /\ child[c] # "up"
  BY DEF EndOfFile, Error
<1>2. \A r \in S : Sent(r, c)
  BY Fields DEF IInv, Filed, ReqType
<1>3. req' = [r \in Reqs |-> IF r \in S THEN Told(r, got) ELSE req[r]]
  BY DEF EndOfFile
<1>4. /\ \A d \in Conns : out'[d] \subseteq out[d]
      /\ reader' \in [Conns -> {"none", "reading", "ended"}]
      /\ UNCHANGED <<stage, conn, era, child, torn, spoiled>>
  BY DEF EndOfFile, pipe, LinkInv, LinkTyped
<1> HIDE DEF S, got
<1>5. S \in SUBSET Reqs
  BY DEF S
<1> QED BY <1>1, <1>2, <1>3, <1>4, <1>5, LinkTold

\* A failed discovery takes its children along.
LEMMA LinkFails ==
  ASSUME IInv, LinkInv, Fails, stage # "list"
  PROVE  LinkInv'
<1> USE DEF Fails, wait, pipe
<1>1. Heard' /\ OneWriter' /\ Counted' /\ EraKept'
  BY CountStays DEF LinkInv, Heard, Done, Says, OneWriter, Writes, Cuts, EraKept
<1>2. LinkTyped' /\ \A d \in Conns : child'[d] # "up" /\ (child'[d] = "none" <=> child[d] = "none")
  BY DEF LinkInv, LinkTyped
<1>3. Course' /\ SecondIsNeeded'
  BY <1>2 DEF LinkInv, Course, SecondIsNeeded, Conns, Done, Says
<1> QED BY <1>1, <1>2, <1>3 DEF LinkInv

\* The session opens in an era that was named or shaken hands on.
LEMMA LinkOpened ==
  ASSUME IInv, LinkInv, NEW e \in {"modern", "legacy"}, Opened(e), conn \in Conns,
         req["list"].pc = "none",
         stage \in {"probe", "init"},
         e = "modern" => stage = "probe" /\ Done("probe") /\ Says("probe") = "ok",
         e = "legacy" => stage = "init" /\ Done("init") /\ Says("init") = "ok"
  PROVE  LinkInv'
<1> USE DEF Opened
<1>0. "list" \in Reqs BY DEF Reqs
<1>1. Heard' /\ OneWriter' /\ Counted'
  BY <1>0, LinkRegisters
<1>2. req'["probe"] = req["probe"] /\ req'["init"] = req["init"]
  BY DEF Registers, IInv, ReqTyped, Reqs
<1>3. /\ LinkTyped'
      /\ \A d \in Conns : /\ child'[d] = "up" => child[d] = "up"
                          /\ child'[d] = "none" <=> child[d] = "none"
  BY DEF LinkInv, LinkTyped, pipe
<1>4. Course'
  BY <1>2, <1>3 DEF LinkInv, Course, Done, Says, Conns
<1>5. EraKept'
  BY <1>2 DEF LinkInv, EraKept, Course, Says, Done
<1>6. SecondIsNeeded'
  BY <1>3 DEF LinkInv, SecondIsNeeded, Conns
<1> QED BY <1>1, <1>3, <1>4, <1>5, <1>6 DEF LinkInv

LEMMA LinkDiscover == ASSUME IInv, LinkInv, Discover PROVE LinkInv'
<1>1. CASE Opens(1, "probe")
  <2> USE <1>1 DEF Discover, Opens
  <2>0. /\ "probe" \in Reqs /\ "init" \in Reqs /\ 1 \in Conns /\ 2 \in Conns
        /\ stage = "unlisted" /\ req["probe"].pc = "none"
    BY DEF Reqs, IInv, OneByOne, Conns
  <2>1. Heard' /\ OneWriter' /\ Counted'
    BY <2>0, LinkRegisters
  <2>2. req'["probe"].conn = 1 /\ req'["probe"].pc = "registered" /\ Says("probe")' = "nothing"
    BY <2>0 DEF Registers, IInv, ReqTyped, Nothing, Says
  <2>3. LinkTyped' /\ child'[2] = "none"
    BY <2>0 DEF LinkInv, LinkTyped, Course, pipe
  <2>4. Course' /\ EraKept' /\ SecondIsNeeded'
    BY <2>0, <2>2, <2>3 DEF LinkInv, Course, EraKept, SecondIsNeeded, Says, Done
  <2> QED BY <2>1, <2>3, <2>4 DEF LinkInv
<1>2. CASE Fails
  BY <1>2, LinkFails DEF Discover
<1> QED BY <1>1, <1>2 DEF Discover

LEMMA LinkProbed == ASSUME IInv, LinkInv, Probed PROVE LinkInv'
<1> USE DEF Probed
<1>0. /\ "init" \in Reqs /\ "probe" \in Reqs /\ 1 \in Conns /\ 2 \in Conns
      /\ conn = 1 /\ stage = "probe" /\ Done("probe")
      /\ req["init"].pc = "none" /\ req["list"].pc = "none"
      /\ era = "none"
  BY DEF Reqs, Conns, IInv, OneByOne, LinkInv, Course
<1>1. CASE Says("probe") = "ok" /\ Opened("modern")
  BY <1>0, <1>1, LinkOpened
<1>2. CASE Fails
  BY <1>0, <1>2, LinkFails
<1>3. ASSUME NEW c \in Conns, conn' = c, stage' = "init", Registers("init", c),
             UNCHANGED <<era, pipe>>, LinkTyped', SecondIsNeeded',
             Says("probe") \in {"closed", "transport"} => child'[1] # "up"
      PROVE  LinkInv'
  <2>1. Heard' /\ OneWriter' /\ Counted'
    BY <1>0, <1>3, LinkRegisters
  <2>2. /\ req'["probe"] = req["probe"]
        /\ req'["init"].conn = c /\ req'["init"].pc = "registered"
    BY <1>0, <1>3 DEF Registers, IInv, ReqTyped
  <2>3. Course' /\ EraKept'
    BY <1>0, <1>3, <2>2 DEF LinkInv, Course, EraKept, Says, Done
  <2> QED BY <1>3, <2>1, <2>3 DEF LinkInv
<1>4. CASE /\ stage' = "init"
           /\ Registers("init", conn)
           /\ UNCHANGED <<conn, era, child, reader, pipe>>
  <2>1. LinkTyped' /\ SecondIsNeeded'
    BY <1>4 DEF pipe, LinkInv, LinkTyped, SecondIsNeeded
  <2>2. Says("probe") \in {"closed", "transport"} => child'[1] # "up"
    BY <1>4 DEF LinkInv, Course
  <2> QED BY <1>0, <1>3, <1>4, <2>1, <2>2
<1>5. CASE ~Usable(req["probe"].got) /\ Opens(2, "init")
  <2>1. child[1] # "up" /\ Says("probe") \in {"closed", "transport"}
    BY <1>5 DEF Usable, LinkInv, Course, Says
  <2>2. LinkTyped' /\ child'[1] = child[1]
    BY <1>0, <1>5 DEF Opens, pipe, LinkInv, LinkTyped
  <2>3. SecondIsNeeded'
    BY <2>1, <2>2 DEF SecondIsNeeded
  <2> QED BY <1>0, <1>3, <1>5, <2>1, <2>2, <2>3 DEF Opens
<1> QED BY <1>1, <1>2, <1>4, <1>5

LEMMA LinkDiscovery == ASSUME IInv, LinkInv, Discovery PROVE LinkInv'
<1>1. CASE Initialized
  <2>0. conn \in Conns /\ stage = "init" /\ req["list"].pc = "none" /\ Done("init")
    BY <1>1 DEF Initialized, IInv, ReqTyped, OneByOne
  <2>1. CASE Says("init") = "ok" /\ Opened("legacy")
    BY <2>0, <2>1, LinkOpened
  <2>2. CASE Fails
    BY <2>0, <2>2, LinkFails
  <2> QED BY <1>1, <2>1, <2>2 DEF Initialized
<1>2. CASE Listed
  <2> USE <1>2 DEF Listed, wait, pipe
  <2>1. Heard' /\ OneWriter' /\ Counted' /\ EraKept' /\ SecondIsNeeded' /\ LinkTyped'
    BY CountStays DEF LinkInv, Heard, Done, Says, OneWriter, Writes, Cuts, EraKept,
       SecondIsNeeded, LinkTyped
  <2>2. Course'
    BY DEF LinkInv, Course, Done, Says
  <2> QED BY <2>1, <2>2 DEF LinkInv
<1> QED BY <1>1, <1>2, LinkDiscover, LinkProbed DEF Discovery

LEMMA LinkCall == ASSUME IInv, LinkInv, NEW r \in Reqs, Call(r) PROVE LinkInv'
<1> USE DEF Call
<1>0. conn \in Conns /\ req[r].pc = "none" /\ r \notin {"probe", "init", "list"}
  BY McpAssumption DEF IInv, ReqTyped, Unsent
<1>1. Heard' /\ OneWriter' /\ Counted'
  BY <1>0, LinkRegisters
<1>2. req'["probe"] = req["probe"] /\ req'["init"] = req["init"]
  BY <1>0 DEF Registers, IInv, ReqTyped, Reqs
<1>3. LinkTyped' /\ EraKept' /\ SecondIsNeeded' /\ Course'
  BY <1>2 DEF LinkInv, LinkTyped, pipe, EraKept, SecondIsNeeded, Course, Says, Done
<1> QED BY <1>1, <1>3 DEF LinkInv

LEMMA LinkKeeps == IInv /\ LinkInv /\ [Next]_vars => LinkInv'
<1> SUFFICES ASSUME IInv, LinkInv, [Next]_vars PROVE LinkInv'
  OBVIOUS
<1>1. CASE Discovery
  BY <1>1, LinkDiscovery
<1>2. ASSUME NEW r \in Reqs, Client(r) PROVE LinkInv'
  BY <1>2, LinkBeginWrite, LinkWriteLine, LinkFlush, LinkWriteFails, LinkTimeOut,
     LinkCall DEF Client
<1>3. ASSUME NEW c \in Conns,
             ChildAnswers(c) \/ ChildFalls(c) \/ Read(c) \/ EndOfFile(c)
      PROVE  LinkInv'
  BY <1>3, LinkChild, LinkRead, LinkEndOfFile
<1>4. CASE UNCHANGED vars
  <2> USE <1>4 DEF vars
  <2>1. Heard' /\ OneWriter' /\ Counted' /\ EraKept' /\ SecondIsNeeded' /\ LinkTyped'
    BY CountStays DEF LinkInv, Heard, Done, Says, OneWriter, Writes, Cuts, EraKept,
       SecondIsNeeded, LinkTyped
  <2>2. Course'
    BY DEF LinkInv, Course, Done, Says
  <2> QED BY <2>1, <2>2 DEF LinkInv
<1> QED BY <1>1, <1>2, <1>3, <1>4 DEF Next

\* The connection the session is left with speaks the era that was agreed on
\* over it, no second child runs beside it, and a cut-off line spoils one
\* request at most.
THEOREM ConnectionIsSound == Spec => []ConnectionInv
<1>1. IInv /\ LinkInv => ConnectionInv
  <2> SUFFICES ASSUME IInv, LinkInv PROVE ConnectionInv
    OBVIOUS
  <2>1. ASSUME NEW c \in Conns, NEW v \in pending[c], NEW w \in pending[c], v[1] = w[1]
        PROVE  v = w
    <3>1. PICK i \in Nat, r \in Reqs : v = <<i, r>>
      BY DEF IInv, ReqTyped
    <3>2. PICK j \in Nat, q \in Reqs : w = <<j, q>>
      BY DEF IInv, ReqTyped
    <3>3. i = j /\ Sent(r, c) /\ Sent(q, c) /\ req[r].id = req[q].id
      BY <2>1, <3>1, <3>2 DEF IInv, Filed
    <3> QED BY <3>1, <3>2, <3>3 DEF IInv, IdsDiffer
  <2>2. TypeOK
    BY <2>1, Fields DEF TypeOK, IInv, ReqTyped, LinkInv, LinkTyped, Heard, Done, Says,
       Nothing, Pcs
  <2>3. CutSpoilsOne
    BY TornFinite, FS_CardinalityType DEF CutSpoilsOne, LinkInv, Counted, Cuts
  <2> QED BY <2>2, <2>3 DEF ConnectionInv, LinkInv
<1>2. Init => IInv /\ LinkInv
  BY InitHolds, LinkInitHolds
<1>3. (IInv /\ LinkInv) /\ [Next]_vars => (IInv /\ LinkInv)'
  BY NextKeeps, LinkKeeps
<1> QED BY <1>1, <1>2, <1>3, PTL DEF Spec
=============================================================================
