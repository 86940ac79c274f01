---------------------------- MODULE ReplyStream ----------------------------
(***************************************************************************)
(* What one model call promises whoever asked for it: the contract of      *)
(* `StreamEvent` (crates/provider-api/src/stream.rs) and of                *)
(* `stream_one_step` (crates/core/src/turn.rs), with no word of how a      *)
(* vendor frames its stream.                                               *)
(*                                                                         *)
(* A reply is open until it is done, has failed, or is left because the    *)
(* turn was cancelled; nothing is heard of it afterwards.  A call is begun *)
(* once, its arguments arrive piece by piece while it is open, and it is   *)
(* reported complete only when what has arrived parses.  Usage is told at  *)
(* most once.  A reply that failed may be asked for again, but only while  *)
(* the person has been shown nothing of it.                                *)
(***************************************************************************)
EXTENDS Naturals

CONSTANTS CallIds,   \* the ids a vendor gives its calls
          Whole      \* how many pieces the arguments of a call are sent in

VARIABLES calls,     \* the calls begun, and the pieces heard of each
          closed,    \* the calls reported complete
          tallies,   \* how many times usage was told
          shown,     \* whether the person has been shown any of it
          end        \* "open", "done", "failed" or "left"

vars == <<calls, closed, tallies, shown, end>>

\* Arguments parse when there are none and when they are all there.
Parses(pieces) == pieces \in {0, Whole}

Init ==
  /\ calls = [c \in {} |-> 0]
  /\ closed = {}
  /\ tallies = 0
  /\ shown = FALSE
  /\ end = "open"

Show ==
  /\ end = "open"
  /\ shown' = TRUE
  /\ UNCHANGED <<calls, closed, tallies, end>>

Begin(c) ==
  /\ end = "open"
  /\ c \notin DOMAIN calls
  /\ calls' = [d \in DOMAIN calls \cup {c} |-> IF d = c THEN 0 ELSE calls[d]]
  /\ UNCHANGED <<closed, tallies, shown, end>>

Piece(c) ==
  /\ end = "open"
  /\ c \in DOMAIN calls \ closed
  /\ calls' = [calls EXCEPT ![c] = @ + 1]
  /\ UNCHANGED <<closed, tallies, shown, end>>

Close(c) ==
  /\ end = "open"
  /\ c \in DOMAIN calls \ closed
  /\ Parses(calls[c])
  /\ closed' = closed \cup {c}
  /\ UNCHANGED <<calls, tallies, shown, end>>

Tally ==
  /\ end = "open"
  /\ tallies = 0
  /\ tallies' = 1
  /\ UNCHANGED <<calls, closed, shown, end>>

\* The reply is over, one way or another; what was heard of it stands.
Over ==
  /\ end = "open"
  /\ end' \in {"done", "failed", "left"}
  /\ UNCHANGED <<calls, closed, tallies, shown>>

\* The reply broke off and is asked for again, from nothing.
Again ==
  /\ end = "open"
  /\ ~shown
  /\ calls' = [c \in {} |-> 0]
  /\ closed' = {}
  /\ tallies' = 0
  /\ UNCHANGED <<shown, end>>

Next ==
  \/ Show \/ Tally \/ Over \/ Again
  \/ \E c \in CallIds : Begin(c) \/ Piece(c) \/ Close(c)

Spec == Init /\ [][Next]_vars
=============================================================================
