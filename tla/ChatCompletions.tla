--------------------------- MODULE ChatCompletions ---------------------------
(***************************************************************************)
(* The decoder of the chat completions wire                                *)
(* (crates/wire/src/chat_completions.rs): calls are told apart by an index *)
(* until a `finish_reason` ends them all, and the reply is over at         *)
(* `[DONE]`, or where the transport ends, if a reason was given before.    *)
(*                                                                         *)
(* A frame here carries at most one tool call delta.  One that carries     *)
(* several is these frames one after another: `on_choice` takes the deltas *)
(* in order and stops at the first that fails.                             *)
(***************************************************************************)
EXTENDS Sink

CONSTANTS NoStop      \* no finish_reason yet

Fresh ==
  [queue |-> <<>>, complete |-> FALSE,
   calls |-> [i \in {} |-> 0],  \* index -> the id and the pieces of a call
   stop |-> NoStop, usageSeen |-> FALSE]

OnEnd(s) ==
  IF s.stop = NoStop THEN Truncated(s)
  ELSE Finish([s EXCEPT !.stop = NoStop], s.stop)

\* A delta that has an id begins a call; one that has none adds to the call
\* its index names, and to no call at all it is a fault.
OnToolCall(s, d) ==
  LET begun == IF d.id = NoId THEN s
               ELSE [Push(s, Start(d.id)) EXCEPT !.calls =
                      [i \in DOMAIN @ \cup {d.index} |->
                        IF i = d.index THEN [id |-> d.id, pieces |-> 0]
                        ELSE @[i]]]
  IN IF d.index \notin DOMAIN begun.calls THEN Fail(begun)
     ELSE IF ~d.piece THEN begun
     ELSE [Push(begun, Args(begun.calls[d.index].id))
             EXCEPT !.calls[d.index].pieces = @ + 1]

\* Every open call is ended in the order of the indices, up to the first
\* whose arguments do not parse; none stays open.
CloseCalls(s) ==
  LET bad == {i \in DOMAIN s.calls : ~Parses(s.calls[i].pieces)}
      good == {i \in DOMAIN s.calls : \A b \in bad : i < b}
      order == Ascending(good)
      ended == PushAll([s EXCEPT !.calls = [i \in {} |-> 0]],
                       [k \in 1..Cardinality(good) |->
                          End(s.calls[order[k]].id)])
  IN IF bad = {} THEN ended ELSE Fail(ended)

OnChoice(s, f) ==
  LET said == IF f.says THEN Push(s, Shown) ELSE s
      called == IF f.index = {} THEN said
                ELSE OnToolCall(said, [index |-> CHOOSE i \in f.index : TRUE,
                                       id |-> f.id, piece |-> f.piece])
  IN IF called.complete \/ f.finish = NoStop THEN called
     ELSE [CloseCalls(called) EXCEPT !.stop = f.finish]

OnUsage(s) ==
  IF s.usageSeen THEN s ELSE Push([s EXCEPT !.usageSeen = TRUE], Tally)

OnFrame(s, f) ==
  CASE f.is = "[DONE]" -> OnEnd(s)
    [] f.is = "garbled" -> Fail(s)
    [] f.is = "chunk" -> OnChoice(IF f.usage THEN OnUsage(s) ELSE s, f)

\* Whether a frame says that the reply is whole.
SaysWhole(f) == f.is = "chunk" /\ f.finish # NoStop

Frames(ids, indices, stops) ==
  LET Told(is, says, usage, finish) ==
        [is : is, says : says, index : {{}}, id : {NoId}, piece : {FALSE},
         usage : usage, finish : finish]
  IN Told({"[DONE]", "garbled"}, {FALSE}, {FALSE}, {NoStop})
     \cup Told({"chunk"}, {TRUE}, {FALSE}, {NoStop})
     \cup Told({"chunk"}, {FALSE}, {TRUE}, {NoStop})
     \cup Told({"chunk"}, {FALSE}, BOOLEAN, stops)
     \cup [is : {"chunk"}, says : {FALSE}, index : {{i} : i \in indices},
           id : ids \cup {NoId}, piece : BOOLEAN, usage : {FALSE},
           finish : stops \cup {NoStop}]
=============================================================================
