------------------------------ MODULE Responses ------------------------------
(***************************************************************************)
(* The decoder of the OpenAI responses wire                                *)
(* (crates/wire/src/responses.rs): output items are added, grow and are    *)
(* done by index, a call may be reported done twice, and the completed     *)
(* response closes what is left and ends the reply.                        *)
(***************************************************************************)
EXTENDS Sink

Fresh ==
  [queue |-> <<>>, complete |-> FALSE,
   calls |-> [i \in {} |-> 0],  \* index -> id, pieces, and whether it ended
   sawToolCall |-> FALSE, refused |-> FALSE, reasoning |-> FALSE]

OnItemAdded(s, f) ==
  IF f.id = NoId THEN Fail(s)
  ELSE [Push(s, Start(f.id)) EXCEPT
          !.sawToolCall = TRUE,
          !.calls = [i \in DOMAIN @ \cup {f.index} |->
                       IF i = f.index
                       THEN [id |-> f.id, pieces |-> 0, ended |-> FALSE]
                       ELSE @[i]]]

OnArgumentsDelta(s, f) ==
  IF f.index \notin DOMAIN s.calls THEN Fail(s)
  ELSE [Push(s, Args(s.calls[f.index].id))
          EXCEPT !.calls[f.index].pieces = @ + 1]

\* The arguments and the item of a call are each reported done: the first of
\* the two ends it.
CloseCall(s, i) ==
  IF i \notin DOMAIN s.calls THEN s
  ELSE IF s.calls[i].ended THEN s
  ELSE IF ~Parses(s.calls[i].pieces) THEN Fail(s)
  ELSE [Push(s, End(s.calls[i].id)) EXCEPT !.calls[i].ended = TRUE]

\* MUTANT of CloseRest: a call nobody reported done is left as it is.
CloseRestNot(s) == s

\* The calls nobody reported done are closed in the order of their indices,
\* up to the first that cannot be.
CloseRest(s) ==
  LET open == {i \in DOMAIN s.calls : ~s.calls[i].ended}
      bad == {i \in open : ~Parses(s.calls[i].pieces)}
      good == {i \in open : \A b \in bad : i < b}
      order == Ascending(good)
      ended == [PushAll(s, [k \in 1..Cardinality(good) |->
                              End(s.calls[order[k]].id)])
                  EXCEPT !.calls = [i \in DOMAIN s.calls |->
                    [s.calls[i] EXCEPT !.ended = @ \/ i \in good]]]
  IN IF bad = {} THEN ended ELSE Fail(ended)

\* Why the reply ended: a refusal first, then a reply cut short, then a tool.
Stop(s, f) ==
  CASE s.refused -> "Refusal"
    [] ~s.refused /\ f.cut -> "MaxTokens"
    [] ~s.refused /\ ~f.cut /\ s.sawToolCall -> "ToolUse"
    [] OTHER -> "EndTurn"

OnCompleted(s, f) ==
  LET closed == CloseRest(s)
      signed == IF closed.reasoning
                THEN [Push(closed, Signature) EXCEPT !.reasoning = FALSE]
                ELSE closed
      told == IF f.usage THEN Push(signed, Tally) ELSE signed
  IN IF closed.complete THEN closed
     ELSE Finish([told EXCEPT !.refused = FALSE], Stop(told, f))

OnFrame(s, f) ==
  CASE f.is = "garbled" -> Fail(s)
    [] f.is = "text.delta" -> Push(s, Shown)
    [] f.is = "refusal.delta" -> [s EXCEPT !.refused = TRUE]
    [] f.is = "item.added" -> OnItemAdded(s, f)
    [] f.is = "arguments.delta" -> OnArgumentsDelta(s, f)
    [] f.is = "call.done" -> CloseCall(s, f.index)
    [] f.is = "reasoning.done" -> [s EXCEPT !.reasoning = TRUE]
    [] f.is = "search.done" -> [Push(s, Hosted) EXCEPT !.sawToolCall = TRUE]
    [] f.is = "completed" -> OnCompleted(s, f)
    [] f.is = "failed" -> Abort(s, "Transient")

OnEnd(s) == Truncated(s)

SaysWhole(f) == f.is = "completed"

Frames(ids, indices) ==
  LET Item(is, index, id) ==
        [is : is, index : index, id : id, cut : {FALSE}, usage : {FALSE}]
  IN Item({"garbled", "text.delta", "refusal.delta", "reasoning.done",
           "search.done", "failed"}, {0}, {NoId})
     \cup Item({"item.added"}, indices, ids \cup {NoId})
     \cup Item({"arguments.delta", "call.done"}, indices, {NoId})
     \cup [is : {"completed"}, index : {0}, id : {NoId}, cut : BOOLEAN,
           usage : BOOLEAN]
=============================================================================
