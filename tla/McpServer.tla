------------------------------ MODULE McpServer ------------------------------
(***************************************************************************)
(* One MCP server that runs as a child process, and the requests it is     *)
(* sent (crates/mcp/src/server.rs, client.rs).  Discovery opens the        *)
(* server, finds which era of the protocol it speaks, opens it once more   *)
(* if finding out broke the pipe, and lists its tools; the calls of these  *)
(* tools then share the connection.                                        *)
(*                                                                         *)
(* A connection is the child, the line that is being written to its stdin, *)
(* the requests that wait for an answer and the task that reads them.  The *)
(* child answers what it has read whenever it likes, or never; it may stop *)
(* reading, close its stdout or exit at any moment.                        *)
(***************************************************************************)
EXTENDS Naturals, FiniteSets

CONSTANTS Calls,      \* the tool calls that sessions make
          None

Reqs == {"probe", "init", "list"} \cup Calls

\* Assumed of the constants: a call is not one of discovery's own requests.
ASSUME McpAssumption == Calls \cap {"probe", "init", "list"} = {} /\ None \notin Reqs

\* The first connection, and the second that is opened when that one broke.
Conns == {1, 2}

VARIABLES
  stage,    \* what discovery is at
  conn,     \* the connection in use, or 0
  era,      \* the era the session is in
  child,    \* the child of a connection: none, up, mute (stdout closed), gone
  torn,     \* whether a line without its end is on the child's stdin
  asked,    \* the requests the child has read and not answered
  out,      \* the answers on its stdout
  reader,   \* the task that reads them: none, reading, ended
  pending,  \* who waits for which id
  count,    \* how many ids were given out
  req,      \* what each request has come to
  spoiled   \* the requests that were written and cannot be read

vars == <<stage, conn, era, child, torn, asked, out, reader, pending, count,
          req, spoiled>>

pipe == <<torn, asked, out, spoiled>>
wait == <<pending, count>>

\* What a request has got: nothing yet, an answer and whose it is, or an error.
Nothing == [of |-> None, says |-> "nothing"]
Error(e) == [of |-> None, says |-> e]

Unsent == [pc |-> "none", conn |-> 0, id |-> 0, got |-> Nothing]

Init ==
  /\ stage = "unlisted"
  /\ conn = 0
  /\ era = "none"
  /\ child = [c \in Conns |-> "none"]
  /\ torn = [c \in Conns |-> FALSE]
  /\ asked = [c \in Conns |-> {}]
  /\ out = [c \in Conns |-> {}]
  /\ reader = [c \in Conns |-> "none"]
  /\ pending = [c \in Conns |-> {}]
  /\ count = [c \in Conns |-> 0]
  /\ req = [r \in Reqs |-> Unsent]
  /\ spoiled = {}

Done(r) == req[r].pc = "done"
Says(r) == req[r].got.says
Writes(r, c) == req[r].pc \in {"writing", "flushing"} /\ req[r].conn = c

-----------------------------------------------------------------------------
(* A request (`Connection::request` under `call_with_timeout`).            *)

\* MUTANT of NextId: an id that only tells apart those who wait now.
NextIdBySize(c) == Cardinality(pending[c]) + 1

\* `next_id`: an id is never given out twice.
NextId(c) == count[c] + 1

\* The waiter is entered before anything is written.
Registers(r, c) ==
  /\ req' = [req EXCEPT ![r] = [pc |-> "registered", conn |-> c,
                                id |-> NextId(c), got |-> Nothing]]
  /\ count' = [count EXCEPT ![c] = @ + 1]
  /\ pending' = [pending EXCEPT ![c] = @ \cup {<<NextId(c), r>>}]

\* MUTANT of BeginWrite: nobody keeps the other writers out.
BeginWriteUnlocked(r) ==
  /\ req[r].pc = "registered"
  /\ child[req[r].conn] # "gone"
  /\ req' = [req EXCEPT ![r].pc = "writing"]
  /\ UNCHANGED <<stage, conn, era, child, reader, wait, pipe>>

\* One request at a time has the stdin, and part of its line may be all that
\* the pipe takes for now.
BeginWrite(r) ==
  /\ req[r].pc = "registered"
  /\ \A q \in Reqs : ~Writes(q, req[r].conn)
  /\ child[req[r].conn] # "gone"
  /\ req' = [req EXCEPT ![r].pc = "writing"]
  /\ UNCHANGED <<stage, conn, era, child, reader, wait, pipe>>

\* The line is whole.  If it began in the middle of another it is no request.
WriteLine(r) ==
  LET c == req[r].conn
      others == \E q \in Reqs \ {r} : Writes(q, c) /\ req[q].pc = "writing"
      clean == ~torn[c] /\ ~others
  IN /\ req[r].pc = "writing"
     /\ child[c] # "gone"
     /\ req' = [req EXCEPT ![r].pc = "flushing"]
     /\ torn' = [torn EXCEPT ![c] = others]
     /\ asked' = [asked EXCEPT ![c] = IF clean THEN @ \cup {r} ELSE @]
     /\ spoiled' = IF clean THEN spoiled ELSE spoiled \cup {r}
     /\ UNCHANGED <<stage, conn, era, child, reader, wait, out>>

\* The stdin is let go, and the answer awaited if it is not there already.
Flush(r) ==
  /\ req[r].pc = "flushing"
  /\ req' = [req EXCEPT ![r].pc = IF req[r].got = Nothing THEN "waiting" ELSE "done"]
  /\ UNCHANGED <<stage, conn, era, child, reader, wait, pipe>>

\* A child that is gone takes no line: the waiter is forgotten.
WriteFails(r) ==
  LET c == req[r].conn
  IN /\ req[r].pc \in {"registered", "writing", "flushing"}
     /\ child[c] = "gone"
     /\ req' = [req EXCEPT ![r].pc = "done", ![r].got = Error("transport")]
     /\ pending' = [pending EXCEPT ![c] = @ \ {<<req[r].id, r>>}]
     /\ UNCHANGED <<stage, conn, era, child, reader, count, pipe>>

Late(r, pcs) ==
  /\ req[r].pc \in pcs
  /\ req' = [req EXCEPT ![r].pc = "done",
                        ![r].got = Error(IF req[r].pc = "writing"
                                         THEN "cut" ELSE "timeout")]
  /\ torn' = [torn EXCEPT ![req[r].conn] = @ \/ req[r].pc = "writing"]
  /\ UNCHANGED <<stage, conn, era, child, reader, wait, asked, out, spoiled>>

\* MUTANT of TimeOut: only the wait for the answer has an end.
TimeOutWaiting(r) == Late(r, {"waiting"})

\* The budget of a request is over, whatever it is at.  Its future is dropped:
\* a line that was half written stays so, and the waiter stays entered.
TimeOut(r) == Late(r, {"registered", "writing", "flushing", "waiting"})

-----------------------------------------------------------------------------
(* The child.                                                              *)

\* It answers something that it was asked, in any order.
ChildAnswers(c) ==
  \E r \in asked[c], says \in {"ok", "old", "no"} :
    /\ child[c] = "up"
    /\ says = "old" => r = "probe"
    /\ asked' = [asked EXCEPT ![c] = @ \ {r}]
    /\ out' = [out EXCEPT ![c] = @ \cup {[id |-> req[r].id, of |-> r, says |-> says]}]
    /\ UNCHANGED <<stage, conn, era, child, torn, reader, wait, req, spoiled>>

ChildFalls(c) ==
  \E state \in {"mute", "gone"} :
    /\ child[c] \in {"up", "mute"} \ {state}
    /\ child' = [child EXCEPT ![c] = state]
    /\ UNCHANGED <<stage, conn, era, reader, wait, req, pipe>>

-----------------------------------------------------------------------------
(* The reader (`read_loop`).                                               *)

\* Whoever is told something while it waits goes on with that.
Told(r, got) ==
  IF req[r].pc = "done" THEN req[r]
  ELSE [req[r] EXCEPT !.got = got,
                      !.pc = IF @ = "waiting" THEN "done" ELSE @]

\* An answer goes to the waiter of its id, if there is one.
Read(c) ==
  /\ reader[c] = "reading"
  /\ \E a \in out[c] :
       LET waiters == {w \in pending[c] : w[1] = a.id}
       IN /\ out' = [out EXCEPT ![c] = @ \ {a}]
          /\ pending' = [pending EXCEPT ![c] = @ \ waiters]
          /\ req' = [r \in Reqs |-> IF <<a.id, r>> \in waiters
                                    THEN Told(r, [of |-> a.of, says |-> a.says])
                                    ELSE req[r]]
  /\ UNCHANGED <<stage, conn, era, child, torn, asked, reader, count, spoiled>>

\* The stdout is over: everyone who waits is told so.
EndOfFile(c) ==
  /\ reader[c] = "reading"
  /\ child[c] \in {"mute", "gone"}
  /\ out[c] = {}
  /\ reader' = [reader EXCEPT ![c] = "ended"]
  /\ pending' = [pending EXCEPT ![c] = {}]
  /\ req' = [r \in Reqs |-> IF <<req[r].id, r>> \in pending[c]
                            THEN Told(r, Error("closed")) ELSE req[r]]
  /\ UNCHANGED <<stage, conn, era, child, count, pipe>>

-----------------------------------------------------------------------------
(* Discovery (`list_tools`, `connect`, `start`, `probe`, `initialize`).    *)

\* A child is started, with its reader, and sent a first request.
Opens(c, r) ==
  /\ child' = [child EXCEPT ![c] = "up"]
  /\ reader' = [reader EXCEPT ![c] = "reading"]
  /\ conn' = c
  /\ stage' = r
  /\ Registers(r, c)
  /\ UNCHANGED <<era, pipe>>

\* Discovery fails, and with it the connections go, and their children.
Fails ==
  /\ stage' = "failed"
  /\ child' = [c \in Conns |-> IF child[c] = "none" THEN "none" ELSE "gone"]
  /\ UNCHANGED <<conn, era, reader, wait, req, pipe>>

Discover ==
  /\ stage = "unlisted"
  /\ Opens(1, "probe") \/ Fails

\* The session is there, and only its own connection stays; it is asked for
\* the tools.
Opened(e) ==
  /\ era' = e
  /\ stage' = "list"
  /\ child' = [c \in Conns |-> IF c # conn /\ child[c] # "none" THEN "gone" ELSE child[c]]
  /\ Registers("list", conn)
  /\ UNCHANGED <<conn, reader, pipe>>

\* MUTANT of Usable: a child that was slow is taken for one that is gone.
UsableIfAnswered(got) == got.says \notin {"closed", "transport", "timeout", "cut"}

\* What the pipe is still good for after the probe.
Usable(got) == got.says \notin {"closed", "transport"}

Probed ==
  /\ stage = "probe"
  /\ Done("probe")
  /\ \/ Says("probe") = "ok" /\ Opened("modern")
     \/ Says("probe") = "no" /\ Fails
     \/ /\ Says("probe") \notin {"ok", "no"}
        /\ \/ /\ Usable(req["probe"].got)
              /\ stage' = "init"
              /\ Registers("init", conn)
              /\ UNCHANGED <<conn, era, child, reader, pipe>>
           \/ /\ ~Usable(req["probe"].got)
              /\ Opens(2, "init") \/ Fails

\* MUTANT of Initialized: the session opens however the handshake went.
InitializedAnyway ==
  /\ stage = "init"
  /\ Done("init")
  /\ Opened("legacy")

\* The handshake is over; the notice that says so is not waited for.
Initialized ==
  /\ stage = "init"
  /\ Done("init")
  /\ IF Says("init") = "ok" THEN Opened("legacy") ELSE Fails

\* A server that does not list its tools has none, and is not asked again.
Listed ==
  /\ stage = "list"
  /\ Done("list")
  /\ stage' = IF Says("list") = "ok" THEN "ready" ELSE "toolless"
  /\ UNCHANGED <<conn, era, child, reader, wait, req, pipe>>

\* `call_tool`: only a listed tool can be called.
Call(r) ==
  /\ r \in Calls
  /\ stage = "ready"
  /\ req[r] = Unsent
  /\ Registers(r, conn)
  /\ UNCHANGED <<stage, conn, era, child, reader, pipe>>

Client(r) ==
  \/ BeginWrite(r) \/ WriteLine(r) \/ Flush(r) \/ WriteFails(r) \/ TimeOut(r)
  \/ Call(r)

Discovery == Discover \/ Probed \/ Initialized \/ Listed

Next ==
  \/ Discovery
  \/ \E r \in Reqs : Client(r)
  \/ \E c \in Conns : ChildAnswers(c) \/ ChildFalls(c) \/ Read(c) \/ EndOfFile(c)

\* Timers fire and what can go on here does; the child owes nothing.
Fairness ==
  /\ WF_vars(Discovery)
  /\ \A r \in Reqs : WF_vars(Flush(r)) /\ WF_vars(WriteFails(r)) /\ WF_vars(TimeOut(r))
  /\ \A c \in Conns : WF_vars(Read(c)) /\ WF_vars(EndOfFile(c))

Spec == Init /\ [][Next]_vars /\ Fairness

-----------------------------------------------------------------------------
(* Properties.                                                             *)

\* Every variable keeps to the values its field in the code can hold, and no
\* two that wait on a connection wait for the same id.
TypeOK ==
  /\ stage \in {"unlisted", "probe", "init", "list", "ready", "toolless", "failed"}
  /\ conn \in {0} \cup Conns
  /\ era \in {"none", "modern", "legacy"}
  /\ child \in [Conns -> {"none", "up", "mute", "gone"}]
  /\ torn \in [Conns -> BOOLEAN]
  /\ asked \in [Conns -> SUBSET Reqs]
  /\ reader \in [Conns -> {"none", "reading", "ended"}]
  /\ \A r \in Reqs :
       /\ req[r].pc \in {"none", "registered", "writing", "flushing", "waiting", "done"}
       /\ req[r].pc = "done" => req[r].got # Nothing
  /\ spoiled \subseteq Reqs
  /\ \A c \in Conns : \A v, w \in pending[c] : v[1] = w[1] => v = w

\* Whoever is given an answer is given its own: one that comes late is not
\* handed to whoever asked next.
OwnAnswer == \A r \in Reqs : req[r].got.of \in {None, r}

\* The era of the session is the one its server named, or shook hands on, and
\* on the connection that is kept.
EraKept ==
  /\ era = "modern" => Says("probe") = "ok" /\ req["probe"].conn = conn
  /\ era = "legacy" => Says("init") = "ok" /\ req["init"].conn = conn

\* A second child is started only if the first can answer no more, so that no
\* server runs twice.
SecondIsNeeded == child[2] # "none" => child[1] # "up"

\* A request is spoiled only by one that was cut off in the middle of its line,
\* and each of those spoils one at most.
CutSpoilsOne ==
  Cardinality(spoiled) <= Cardinality({r \in Reqs : Says(r) = "cut"})

\* Every request ends, whatever the child does: discovery, which the session
\* waits for, does too.
EveryRequestEnds == \A r \in Reqs : req[r].pc = "registered" ~> Done(r)

\* The connection the session is left with: it speaks the era that was agreed on over it,
\* no second child runs beside it, and a cut-off line spoils one request.
ConnectionInv == TypeOK /\ EraKept /\ SecondIsNeeded /\ CutSpoilsOne
=============================================================================
