------------------------------ MODULE Messages ------------------------------
(***************************************************************************)
(* The decoder of the Anthropic messages wire                              *)
(* (crates/wire/src/messages.rs): content blocks start, grow and stop by   *)
(* index, and only `message_stop` ends the reply.                          *)
(***************************************************************************)
EXTENDS Sink

CONSTANTS NoStop

Fresh ==
  [queue |-> <<>>, complete |-> FALSE,
   calls |-> [i \in {} |-> 0],
   stop |-> NoStop]

OnBlockStart(s, f) ==
  IF ~f.tool THEN s
  ELSE IF f.id = NoId THEN Fail(s)
  ELSE [Push(s, Start(f.id)) EXCEPT !.calls =
          [i \in DOMAIN @ \cup {f.index} |->
             IF i = f.index THEN [id |-> f.id, pieces |-> 0] ELSE @[i]]]

OnBlockDelta(s, f) ==
  IF f.says # "piece" THEN Push(s, IF f.says = "text" THEN Shown ELSE Signature)
  ELSE IF f.index \notin DOMAIN s.calls THEN Fail(s)
  ELSE [Push(s, Args(s.calls[f.index].id))
          EXCEPT !.calls[f.index].pieces = @ + 1]

\* A block that stops takes its call with it, whether or not its arguments
\* parse; the block of a text has none.
CloseCall(s, i) ==
  IF i \notin DOMAIN s.calls THEN s
  ELSE LET rest == [s EXCEPT !.calls = [j \in DOMAIN @ \ {i} |-> @[j]]]
       IN IF Parses(s.calls[i].pieces) THEN Push(rest, End(s.calls[i].id))
          ELSE Fail(rest)

\* A stop without a reason before it still ends the reply, and it ends it
\* whatever blocks are open.
OnMessageStop(s) ==
  Finish([Push(s, Tally) EXCEPT !.stop = NoStop],
         IF s.stop = NoStop THEN "EndTurn" ELSE s.stop)

\* MUTANT of OnEnd: a reply that gave its reason is taken for a whole one.
OnEndWithReason(s) ==
  IF s.stop = NoStop THEN Truncated(s) ELSE Finish(s, s.stop)

OnEnd(s) == Truncated(s)

OnFrame(s, f) ==
  CASE f.is = "garbled" -> Fail(s)
    [] f.is = "content_block_start" -> OnBlockStart(s, f)
    [] f.is = "content_block_delta" -> OnBlockDelta(s, f)
    [] f.is = "content_block_stop" -> CloseCall(s, f.index)
    [] f.is = "message_delta" -> [s EXCEPT !.stop = f.stop]
    [] f.is = "message_stop" -> OnMessageStop(s)
    [] f.is = "error" -> Abort(s, f.stop)

SaysWhole(f) == f.is = "message_stop"

Frames(ids, indices, stops) ==
  LET Plain(is, stop) ==
        [is : is, index : {0}, id : {NoId}, tool : {FALSE}, says : {""},
         stop : stop]
      Block(is, id, tool, says) ==
        [is : is, index : indices, id : id, tool : tool, says : says,
         stop : {NoStop}]
  IN Plain({"garbled", "message_stop"}, {NoStop})
     \cup Plain({"message_delta"}, stops)
     \cup Plain({"error"}, {"Unauthorized", "RateLimited", "InvalidRequest",
                            "UnknownModel", "Transient"})
     \cup Block({"content_block_start"}, ids \cup {NoId}, {TRUE}, {""})
     \cup Block({"content_block_start", "content_block_stop"}, {NoId}, {FALSE},
                {""})
     \cup Block({"content_block_delta"}, {NoId}, {FALSE},
                {"text", "signature", "piece"})
=============================================================================
