------------------------------ MODULE ModelCall ------------------------------
(***************************************************************************)
(* One model call of a turn, from the request to the message it returns:   *)
(* `stream_one_step` and `stream_with_reauth` (crates/core/src/turn.rs)    *)
(* over the driver of the wire decoders (`run`, crates/wire/src/decode.rs) *)
(* and the decoder of one of the three formats.                            *)
(*                                                                         *)
(* The vendor is outside: it answers a request or refuses it, sends any    *)
(* frames of its format in any order, breaks off or ends at any point.     *)
(* Three things are taken from it: that it gives every call of a reply an  *)
(* id of its own, every output item of a response an index of its own, and *)
(* that it sends no fragment of a call it has reported done.  The person   *)
(* may cancel at any time.                                                 *)
(***************************************************************************)
EXTENDS Naturals, Sequences, FiniteSets

CONSTANTS CallIds, Indices, Stops, NoId, NoStop, Whole,
          Formats,    \* the wire formats, of which a provider speaks one
          MaxRetries, \* MAX_INITIAL_STREAM_RETRIES
          MaxFrames   \* bound: how many frames a vendor sends in one reply

\* Assumed of the constants: no call has the id that stands for none, an index is
\* a number, and a provider speaks one of the three formats.
ASSUME ModelCallAssumption ==
  /\ NoId \notin CallIds
  /\ Indices \subseteq Nat /\ IsFiniteSet(Indices)
  /\ Formats \subseteq {"chat", "messages", "responses"}
  /\ MaxRetries \in Nat /\ MaxFrames \in Nat

VARIABLES
  format,     \* the provider's wire format
  wire,       \* the driver's sink and decoder
  drained,    \* the driver reads no more frames
  frames,     \* how many frames came in this reply
  asm,        \* the assembler's calls: their ids and pieces, as they began
  emitted,    \* stream_one_step: something of this reply was shown
  retries,    \* stream_one_step: replies asked for again
  tries,      \* stream_with_reauth: requests sent again
  pc,         \* "request", "reading" or "returned"
  outcome,    \* how the step ended
  cancelled,  \* the turn's cancel flag
  seen        \* what no variable of the code keeps: the calls that ended, the
              \* usage told, what was shown in the whole step, the requests
              \* sent, and whether the vendor said that the reply is whole

vars == <<format, wire, drained, frames, asm, emitted, retries, tries, pc,
          outcome, cancelled, seen>>

Chat == INSTANCE ChatCompletions
Msgs == INSTANCE Messages
Resp == INSTANCE Responses
S == INSTANCE Sink

Fresh == CASE format = "chat" -> Chat!Fresh
           [] format = "messages" -> Msgs!Fresh
           [] format = "responses" -> Resp!Fresh

Frames == CASE format = "chat" -> Chat!Frames(CallIds, Indices, Stops)
            [] format = "messages" -> Msgs!Frames(CallIds, Indices, Stops)
            [] format = "responses" -> Resp!Frames(CallIds, Indices)

OnFrame(s, f) == CASE format = "chat" -> Chat!OnFrame(s, f)
                   [] format = "messages" -> Msgs!OnFrame(s, f)
                   [] format = "responses" -> Resp!OnFrame(s, f)

OnEnd(s) == CASE format = "chat" -> Chat!OnEnd(s)
              [] format = "messages" -> Msgs!OnEnd(s)
              [] format = "responses" -> Resp!OnEnd(s)

SaysWhole(f) == CASE format = "chat" -> Chat!SaysWhole(f)
                  [] format = "messages" -> Msgs!SaysWhole(f)
                  [] format = "responses" -> Resp!SaysWhole(f)

Begun == {asm[k].id : k \in 1..Len(asm)}

\* `is_retryable`
Retryable(error) == error \in {"RateLimited", "Transient", "Protocol"}

Init ==
  /\ format \in Formats
  /\ wire = Fresh
  /\ drained = FALSE
  /\ frames = 0
  /\ asm = <<>>
  /\ emitted = FALSE
  /\ retries = 0
  /\ tries = 0
  /\ pc = "request"
  /\ outcome = "none"
  /\ cancelled = FALSE
  /\ seen = [ended |-> {}, tallies |-> 0, shown |-> FALSE, requests |-> 0,
             whole |-> FALSE]

-----------------------------------------------------------------------------
(* `stream_with_reauth`: the request.                                      *)

Return(how) ==
  /\ pc' = "returned"
  /\ outcome' = how

Sent(n) == seen' = [seen EXCEPT !.requests = @ + n]

\* The stream a request opens is read from the start, into a new assembler.
Opens ==
  /\ pc' = "reading"
  /\ wire' = Fresh
  /\ drained' = FALSE
  /\ frames' = 0
  /\ asm' = <<>>
  /\ emitted' = FALSE
  /\ tries' = 0
  /\ UNCHANGED <<format, retries, outcome, cancelled>>

Answered ==
  /\ pc = "request"
  /\ Opens
  /\ Sent(1)

Unread == UNCHANGED <<format, wire, drained, frames, asm, emitted, retries,
                      cancelled>>

\* MUTANT of RefusedForNow: a request sent again is not counted.
RefusedForNowUncounted ==
  /\ pc = "request"
  /\ Unread
  /\ Sent(1)
  /\ UNCHANGED <<tries, pc, outcome>>

\* A refusal that may pass: slept over, unread flag and all, and sent again,
\* until the budget of this request is spent.
RefusedForNow ==
  /\ pc = "request"
  /\ Unread
  /\ Sent(1)
  /\ \/ /\ tries < MaxRetries
        /\ tries' = tries + 1
        /\ UNCHANGED <<pc, outcome>>
     \/ /\ tries = MaxRetries
        /\ Return("failed")
        /\ UNCHANGED tries

RefusedForGood ==
  /\ pc = "request"
  /\ Unread
  /\ Sent(1)
  /\ Return("failed")
  /\ UNCHANGED tries

\* A credential that was refused is refreshed, if it can be, and the request
\* sent once more, whose answer is final.
RefusedUnauthorized ==
  /\ pc = "request"
  /\ \/ Opens /\ Sent(2)
     \/ \E sent \in 1..2 :
          /\ Unread
          /\ Sent(sent)
          /\ Return("failed")
          /\ UNCHANGED tries

-----------------------------------------------------------------------------
(* `decode::run`: the driver.  It reads on only when it has nothing left   *)
(* to yield.                                                               *)

Reading == pc = "reading" /\ wire.queue = <<>> /\ ~drained

Yields == UNCHANGED <<format, asm, emitted, retries, tries, pc, outcome,
                      cancelled>>

\* What the vendor does not do: give a second call an id that is taken, give
\* an output item an index that is taken, or add to a call it reported done.
Plausible(f) ==
  /\ f.id \notin Begun
  /\ f.is = "item.added" => f.index \notin DOMAIN wire.calls
  /\ f.is = "arguments.delta" /\ f.index \in DOMAIN wire.calls =>
       ~wire.calls[f.index].ended

Frame ==
  /\ Reading
  /\ frames < MaxFrames
  /\ \E f \in Frames :
       /\ Plausible(f)
       /\ wire' = OnFrame(wire, f)
       /\ drained' = wire'.complete
       /\ seen' = [seen EXCEPT !.whole = @ \/ SaysWhole(f)]
  /\ frames' = frames + 1
  /\ Yields

\* The transport breaks in the middle: the vendor's part may be repeated.
Breaks ==
  /\ Reading
  /\ wire' = S!Abort(wire, "Transient")
  /\ drained' = TRUE
  /\ UNCHANGED <<frames, seen>>
  /\ Yields

\* MUTANT of Ends: what the decoder makes of the end is not waited for.
EndsUnheard ==
  /\ Reading
  /\ drained' = TRUE
  /\ UNCHANGED <<wire, frames, seen>>
  /\ Yields

Ends ==
  /\ Reading
  /\ wire' = S!Truncated(OnEnd(wire))
  /\ drained' = TRUE
  /\ UNCHANGED <<frames, seen>>
  /\ Yields

-----------------------------------------------------------------------------
(* `stream_one_step`: the reader.                                          *)

Took == wire' = [wire EXCEPT !.queue = Tail(@)]

Heard(k) == pc = "reading" /\ wire.queue # <<>> /\ Head(wire.queue).kind = k

\* What every step of the reader leaves alone.
Reads == UNCHANGED <<format, drained, frames, tries, cancelled>>

\* The flag is looked at with every chunk, before anything is made of it.
LeavesOff ==
  /\ pc = "reading"
  /\ wire.queue # <<>>
  /\ cancelled
  /\ Took
  /\ Return("cancelled")
  /\ Reads
  /\ UNCHANGED <<asm, emitted, retries, seen>>

\* MUTANT of Shows: what the vendor did for itself does not count as output.
ShowsButHosted ==
  /\ ~cancelled
  /\ Heard("shown") \/ Heard("hosted")
  /\ Took
  /\ emitted' = (emitted \/ Head(wire.queue).kind = "shown")
  /\ seen' = [seen EXCEPT !.shown = TRUE]
  /\ Reads
  /\ UNCHANGED <<asm, retries, pc, outcome>>

\* MUTANT of Shows: shown before the flag is looked at.
ShowsHeedless ==
  /\ Heard("shown") \/ Heard("hosted")
  /\ Took
  /\ emitted' = TRUE
  /\ seen' = [seen EXCEPT !.shown = TRUE]
  /\ Reads
  /\ UNCHANGED <<asm, retries, pc, outcome>>

\* Text and thinking go to the surface, a hosted call to the log as well.
Shows ==
  /\ ~cancelled
  /\ Heard("shown") \/ Heard("hosted")
  /\ Took
  /\ emitted' = TRUE
  /\ seen' = [seen EXCEPT !.shown = TRUE]
  /\ Reads
  /\ UNCHANGED <<asm, retries, pc, outcome>>

Assembles ==
  /\ ~cancelled
  /\ \/ /\ Heard("start")
        /\ asm' = Append(asm, [id |-> Head(wire.queue).id, pieces |-> 0])
        /\ UNCHANGED seen
     \/ /\ Heard("args")
        /\ asm' = [k \in 1..Len(asm) |->
                     IF asm[k].id = Head(wire.queue).id
                     THEN [asm[k] EXCEPT !.pieces = @ + 1] ELSE asm[k]]
        /\ UNCHANGED seen
     \/ /\ Heard("end")
        /\ seen' = [seen EXCEPT !.ended = @ \cup {Head(wire.queue).id}]
        /\ UNCHANGED asm
     \/ /\ Heard("usage")
        /\ seen' = [seen EXCEPT !.tallies = @ + 1]
        /\ UNCHANGED asm
     \/ /\ Heard("signature")
        /\ UNCHANGED <<asm, seen>>
  /\ Took
  /\ Reads
  /\ UNCHANGED <<emitted, retries, pc, outcome>>

\* An error that may pass, in a reply nothing was shown of, asks for the
\* reply again: the assembler is dropped, and the delay slept over.
FallsBack ==
  /\ ~cancelled
  /\ Heard("error")
  /\ ~emitted /\ Retryable(Head(wire.queue).why) /\ retries < MaxRetries
  /\ Took
  /\ retries' = retries + 1
  /\ pc' = "request"
  /\ asm' = <<>>
  /\ emitted' = FALSE
  /\ seen' = [seen EXCEPT !.ended = {}, !.tallies = 0, !.whole = FALSE]
  /\ UNCHANGED outcome
  /\ Reads

GivesUp ==
  /\ ~cancelled
  /\ Heard("error")
  /\ emitted \/ ~Retryable(Head(wire.queue).why) \/ retries = MaxRetries
  /\ Took
  /\ Return("failed")
  /\ Reads
  /\ UNCHANGED <<asm, emitted, retries, seen>>

Completes ==
  /\ ~cancelled
  /\ Heard("done")
  /\ Took
  /\ Return("message")
  /\ Reads
  /\ UNCHANGED <<asm, emitted, retries, seen>>

Cancel ==
  /\ ~cancelled
  /\ pc # "returned"
  /\ cancelled' = TRUE
  /\ UNCHANGED <<format, wire, drained, frames, asm, emitted, retries, tries,
                 pc, outcome, seen>>

\* The step has returned.
Returned == pc = "returned" /\ UNCHANGED vars

Next ==
  \/ Answered \/ RefusedForNow \/ RefusedForGood \/ RefusedUnauthorized
  \/ Frame \/ Breaks \/ Ends
  \/ LeavesOff \/ Shows \/ Assembles \/ FallsBack \/ GivesUp \/ Completes
  \/ Cancel \/ Returned

Spec == Init /\ [][Next]_vars

-----------------------------------------------------------------------------
(* Properties.                                                             *)

\* Every variable keeps to the values its field in the code can hold.
TypeOK ==
  /\ format \in Formats
  /\ wire.complete \in BOOLEAN
  /\ \A k \in 1..Len(wire.queue) :
       wire.queue[k].id \in CallIds \cup {NoId}
  /\ DOMAIN wire.calls \subseteq Indices
  /\ \A i \in DOMAIN wire.calls : wire.calls[i].id \in CallIds
  /\ drained \in BOOLEAN
  /\ frames \in 0..MaxFrames
  /\ \A k \in 1..Len(asm) : asm[k].id \in CallIds /\ asm[k].pieces \in Nat
  /\ emitted \in BOOLEAN
  /\ retries \in 0..MaxRetries
  /\ tries \in 0..MaxRetries
  /\ pc \in {"request", "reading", "returned"}
  /\ outcome \in {"none", "message", "cancelled", "failed"}
  /\ cancelled \in BOOLEAN

\* A reader is never left at the end of a stream that did not say how it
\* ended (decode.rs: the stream "never ends silently on a truncated reply").
NeverSilent == pc = "reading" /\ wire.queue = <<>> => ~drained

\* A step returns a message as complete only when the vendor said it was: a
\* reply cut off on the way, with whatever frames before the cut, is never
\* taken for an answer.
WholeReplies == outcome = "message" => seen.whole

\* A response that completes has closed every call it began, so each was
\* checked before the engine runs it.
ResponseCallsChecked ==
  format = "responses" /\ outcome = "message" => Begun \subseteq seen.ended

\* A dead endpoint does not hold a turn forever: the requests of one step are
\* bounded, however refusals and broken replies alternate.  The two budgets
\* multiply, each request of the outer one having the inner one to itself.
RequestsBounded == seen.requests <= (MaxRetries + 1) * (MaxRetries + 2)

\* A reader is told how its stream ended, a response it is given is closed to its
\* last call, and no sequence of refusals and breaks makes the requests many.
CallInv == TypeOK /\ NeverSilent /\ ResponseCallsChecked /\ RequestsBounded

\* Once a turn is cancelled nothing more of its reply reaches the person,
\* whatever the decoder still has in its queue.
CancelShowsNothing == [][cancelled => seen'.shown = seen.shown]_vars

\* What a step hears is the reply it was promised: calls begin once, are
\* added to while they are open and end when their arguments parse, usage is
\* told once, nothing follows the end, and a reply is asked for again only
\* while nothing of it was shown.
Reply == INSTANCE ReplyStream WITH
  calls <- [c \in Begun |->
              asm[CHOOSE k \in 1..Len(asm) : asm[k].id = c].pieces],
  closed <- seen.ended,
  tallies <- seen.tallies,
  shown <- seen.shown,
  end <- CASE outcome = "none" -> "open"
           [] outcome = "message" -> "done"
           [] outcome = "failed" -> "failed"
           [] outcome = "cancelled" -> "left"

ReplySpec == Reply!Spec
=============================================================================
