-------------------------------- MODULE Sink --------------------------------
(***************************************************************************)
(* Where a decoder writes what it has made of a vendor's frames            *)
(* (`Sink`, crates/wire/src/decode.rs).  A decoding state is a record that *)
(* holds the sink, `queue` and `complete`, beside the fields of the        *)
(* decoder that writes to it; an operator takes the state and returns the  *)
(* next one.                                                               *)
(***************************************************************************)
EXTENDS Naturals, Sequences, FiniteSets

CONSTANTS NoId,       \* no call
          Whole       \* how many pieces the arguments of a call are sent in

\* A chunk: its kind, the call it is about, and how the reply ends.
Chunk(kind, id, why) == [kind |-> kind, id |-> id, why |-> why]

Shown == Chunk("shown", NoId, "")          \* TextDelta, ThinkingDelta
Signature == Chunk("signature", NoId, "")  \* ThinkingSignature
Hosted == Chunk("hosted", NoId, "")        \* HostedToolCall
Tally == Chunk("usage", NoId, "")          \* Usage
Start(id) == Chunk("start", id, "")        \* ToolCallStart
Args(id) == Chunk("args", id, "")          \* ToolCallArgsDelta
End(id) == Chunk("end", id, "")            \* ToolCallEnd
Done(stop) == Chunk("done", NoId, stop)    \* Done
Broken(error) == Chunk("error", NoId, error) \* an Err in the stream

-----------------------------------------------------------------------------

\* A chunk is kept only while the reply is not complete.
Push(s, chunk) ==
  IF s.complete THEN s ELSE [s EXCEPT !.queue = Append(@, chunk)]

PushAll(s, chunks) ==
  IF s.complete THEN s ELSE [s EXCEPT !.queue = @ \o chunks]

\* The terminal chunk, and the flag that drops whatever a decoder makes of
\* the frames after it.
CloseWith(s, chunk) ==
  IF s.complete THEN s
  ELSE [s EXCEPT !.queue = Append(@, chunk), !.complete = TRUE]

Finish(s, stop) == CloseWith(s, Done(stop))
Abort(s, error) == CloseWith(s, Broken(error))
Fail(s) == Abort(s, "Protocol")
Truncated(s) == Abort(s, "Transient")

\* `check_arguments`: no arguments are as good as whole ones.
Parses(pieces) == pieces \in {0, Whole}

\* The indices of a set in their order, as a map of the code gives them
\* (`BTreeMap`).  SetToSortSeq says the same, but rests on an operator of TLC
\* that a prover has no definition of.
Ascending(S) ==
  CHOOSE s \in [1..Cardinality(S) -> S] :
    \A i, j \in 1..Cardinality(S) : i < j => s[i] < s[j]
=============================================================================
