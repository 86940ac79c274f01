------------------------------ MODULE Dispatch ------------------------------
(***************************************************************************)
(* Tool calls on their way to their bodies, and the permissions given on   *)
(* the way: `dispatch` and RuntimePermissionReviewer                       *)
(* (crates/core/src/dispatch.rs), what a session remembers, and the bridge *)
(* to a person, Approvals (crates/acp/src/local.rs).                       *)
(*                                                                         *)
(* The turn dispatches the calls of a batch one after the other; a command *)
(* left running in the background keeps its reviewer and goes on asking    *)
(* for network domains, so a dispatch, several such requests, the person,  *)
(* the policy switch and an abort interleave.  A step is what runs between *)
(* two awaits.                                                             *)
(*                                                                         *)
(* SessionNetworkPermissions lives in the extension context, and run_turn  *)
(* (crates/core/src/turn.rs:86) builds that context anew for every turn:   *)
(* the network grants and their lock are kept here per turn.               *)
(***************************************************************************)
EXTENDS Naturals, FiniteSets, ApprovalPolicy

CONSTANTS
  Tools,            \* tool names
  Domains,          \* network domains
  Ruled,            \* tools a require_approval rule matches
  Shapes,           \* the calls a model may make, by what dispatch tells apart
  SwitchTo,         \* the policies the person switches between
  Stored,           \* domains the permission store holds at the start
  GuardianEnabled,  \* the guardian takes part in the on-request flow
  Surfaces,         \* whether a surface is there to show prompts: not in `keke exec`
  MaxTurns,         \* bound: turns in a behaviour
  MaxCalls,         \* bound: calls in a behaviour
  MaxBatch,         \* bound: calls in one reply
  MaxRequests       \* bound: runtime requests for a domain

Calls == 1..MaxCalls
Turns == 1..MaxTurns

\* What dispatch reads of a call: `refused` for an unknown tool, a reserved argument
\* or a guard's denial; `rights` for ports, listeners, sockets or writable roots.
Shape == [tool : Tools, kind : Kinds, approval : Requirements,
          domains : SUBSET Domains, rights : BOOLEAN, refused : BOOLEAN]

ASSUME DispatchAssumption ==
  /\ Ruled \subseteq Tools
  /\ Shapes \subseteq Shape /\ Shapes # {}
  /\ SwitchTo \subseteq Policies /\ SwitchTo # {}
  /\ Stored \subseteq Domains
  /\ GuardianEnabled \in BOOLEAN /\ Surfaces \subseteq BOOLEAN
  /\ MaxTurns \in Nat /\ MaxCalls \in Nat /\ MaxBatch \in Nat /\ MaxRequests \in Nat
  /\ "declared" \notin Domains

VARIABLES
  attended,        \* the session was built with the bridge to a surface
  turn,            \* turns started so far: the current or the last one
  on,              \* a turn is running
  left,            \* calls of the current batch still to dispatch
  made,            \* calls dispatched so far: the next is made + 1
  policy,          \* the session's ApprovalPolicy cell
  cancelled,       \* Session::flag
  withdrawing,     \* the surface's cancel has raised the flag, not yet withdrawn
  shape,           \* per call: what it is (arbitrary until it is dispatched)
  sampled,         \* per call: Dispatch::policy
  turnOf,          \* per call: the turn whose context it was dispatched with
  stage,           \* per call: where its dispatch is
  grants,          \* per call: approved domains, then RuntimePermissionReviewer::allowed
  rights,          \* calls whose ports, listeners, sockets and roots were granted
  request,         \* per call: its reviewer's request in progress
  awaits,          \* per call: the prompt it is parked on, 0 for none
  reply,           \* per call: what its oneshot has received
  holder,          \* per turn: who holds SessionNetworkPermissions::allowed, or 0
  sessionAllowed,  \* per turn: what that mutex guards
  persisted,       \* the permission store
  always,          \* ApprovalMemory::always
  waiting,         \* Approvals::waiting
  shown,           \* the prompts the surface has been sent
  nextId,          \* Approvals::next
  requested,       \* runtime requests so far
  \* observability
  assented,        \* calls whose own prompt a person said yes to
  consented,       \* domains a person was shown and said yes to
  judged           \* calls the guardian allowed

progress == <<turn, on, left, made>>
flags   == <<policy, cancelled, withdrawing>>
call    == <<attended, shape, sampled, turnOf>>
session == <<holder, sessionAllowed, persisted>>
bridge  == <<waiting, shown, nextId>>
answers == <<assented, consented, judged>>
vars    == <<attended, turn, on, left, made, policy, cancelled, withdrawing, shape, sampled, turnOf,
             stage, grants, rights, request, awaits, reply, holder, sessionAllowed, persisted,
             always, waiting, shown, nextId, requested, assented, consented, judged>>

Stages == {"new", "lock", "asked", "reviewing", "running", "background", "done",
           "failed", "refused"}

\* A runtime request: none, parked at the session lock, or holding it on a prompt.
NoRequest == [at |-> "none", domain |-> "declared"]
Request   == {NoRequest} \cup [at : {"lock", "asked"}, domain : Domains]

\* A prompt is about a call as declared, or about one domain its command asked for.
Prompt == [id : Nat \ {0}, call : Calls, about : Domains \cup {"declared"}]

TypeOK ==
  /\ attended \in BOOLEAN
  /\ turn \in 0..MaxTurns /\ on \in BOOLEAN /\ left \in Nat /\ made \in 0..MaxCalls
  /\ policy \in Policies
  /\ cancelled \in BOOLEAN /\ withdrawing \in BOOLEAN
  /\ shape \in [Calls -> Shapes] /\ sampled \in [Calls -> Policies]
  /\ turnOf \in [Calls -> 0..MaxTurns] /\ stage \in [Calls -> Stages]
  /\ grants \in [Calls -> SUBSET Domains] /\ rights \subseteq Calls
  /\ request \in [Calls -> Request] /\ awaits \in [Calls -> Nat]
  /\ reply \in [Calls -> {"none", "allow", "always", "deny"}]
  /\ holder \in [Turns -> Calls \cup {0}]
  /\ sessionAllowed \in [Turns -> SUBSET Domains] /\ persisted \subseteq Domains
  /\ always \subseteq Tools
  /\ waiting \subseteq Prompt /\ shown \subseteq Prompt
  /\ nextId \in Nat \ {0} /\ requested \in Nat
  /\ assented \subseteq Calls /\ consented \subseteq Domains /\ judged \subseteq Calls

\* The stages of a call the turn is waiting for.
Foreground == {"lock", "asked", "reviewing", "running"}

Busy == \E c \in Calls : stage[c] \in Foreground

\* Its body has been started.
Ran(c) == stage[c] \in {"running", "background", "done", "failed"}

-----------------------------------------------------------------------------
Init ==
  /\ attended \in Surfaces
  /\ turn = 0 /\ on = FALSE /\ left = 0 /\ made = 0
  /\ policy \in SwitchTo
  /\ cancelled = FALSE /\ withdrawing = FALSE
  /\ shape = [c \in Calls |-> CHOOSE s \in Shapes : TRUE]
  /\ sampled = [c \in Calls |-> "on-request"]
  /\ turnOf = [c \in Calls |-> 0]
  /\ stage = [c \in Calls |-> "new"]
  /\ grants = [c \in Calls |-> {}] /\ rights = {}
  /\ request = [c \in Calls |-> NoRequest]
  /\ awaits = [c \in Calls |-> 0]
  /\ reply = [c \in Calls |-> "none"]
  /\ holder = [t \in Turns |-> 0] /\ sessionAllowed = [t \in Turns |-> {}]
  /\ persisted = Stored
  /\ always = {}
  /\ waiting = {} /\ shown = {} /\ nextId = 1
  /\ requested = 0
  /\ assented = {} /\ consented = {} /\ judged = {}

-----------------------------------------------------------------------------
(* The turn *)

\* run_turn: the abort flag of the turn before is cleared, and the context is new.
StartTurn ==
  /\ ~on /\ turn < MaxTurns
  /\ turn' = turn + 1 /\ on' = TRUE /\ cancelled' = FALSE
  /\ UNCHANGED <<left, made, policy, withdrawing, call, stage, grants, rights, request,
                 awaits, reply, session, always, bridge, requested, answers>>

\* A reply with tool calls came in before any abort.
BeginBatch ==
  /\ on /\ left = 0 /\ ~Busy /\ ~cancelled
  /\ \E n \in 1..MaxBatch : made + n <= MaxCalls /\ left' = n
  /\ UNCHANGED <<turn, on, made, flags, call, stage, grants, rights, request, awaits,
                 reply, session, always, bridge, requested, answers>>

\* The batch is over, and so is the turn: aborted, or the model had no more to call.
EndTurn ==
  /\ on /\ left = 0 /\ ~Busy
  /\ on' = FALSE
  /\ UNCHANGED <<turn, left, made, flags, call, stage, grants, rights, request, awaits, reply,
                 session, always, bridge, requested, answers>>

-----------------------------------------------------------------------------
(* One call's dispatch *)

\* required_rule, then what the tool says of this call.
Requirement(s) == IF s.tool \in Ruled THEN "always" ELSE s.approval

\* session_allowed is taken, read and extended under a person's policy alone.
NeedsLock(s, pol) == Human(pol) /\ s.domains # {}

\* needs_network_review: what the session or the store already allows is not asked
\* about again, under the policies that read them.
NeedsNetworkReview(s, pol, t) ==
  s.domains # {} /\ ~(Human(pol) /\ s.domains \subseteq sessionAllowed[t] \cup persisted)

Required(s, pol, t) ==
  Raised(Requirement(s), NeedsNetworkReview(s, pol, t), s.rights)

Asks(s, pol, t) ==
  /\ ApprovalReason(pol, s.kind, Required(s, pol, t))
  /\ ~Standing(Required(s, pol, t), s.tool \in always)

Asked(s, pol, t) == Reviewer(pol, Required(s, pol, t), GuardianEnabled)

MoreCalls == left > 0

\* The call's turn to be dispatched: the policy is read now.
Take(c, s) ==
  /\ on /\ MoreCalls /\ ~Busy
  /\ c = made + 1
  /\ made' = c /\ left' = left - 1
  /\ shape' = [shape EXCEPT ![c] = s]
  /\ sampled' = [sampled EXCEPT ![c] = policy]
  /\ turnOf' = [turnOf EXCEPT ![c] = turn]
  /\ UNCHANGED attended

FreshId == nextId

\* Approvals::review up to its await: registered, then announced.
Open(c, about) ==
  LET p == [id |-> FreshId, call |-> c, about |-> about]
  IN /\ waiting' = {w \in waiting : w.id # p.id} \cup {p}
     /\ shown' = shown \cup {p}
     /\ nextId' = nextId + 1
     /\ awaits' = [awaits EXCEPT ![c] = p.id]

To(c, at) == stage' = [stage EXCEPT ![c] = at]

\* The lock is taken, where a dispatch takes it, until its review is over.
Acquire(c, s, pol, t) ==
  holder' = IF NeedsLock(s, pol) THEN [holder EXCEPT ![t] = c] ELSE holder

\* `session_allowed.extend(approved)` and the guard's drop, where it was taken.
Release(s, pol, t, approved) ==
  IF NeedsLock(s, pol)
  THEN /\ holder' = [holder EXCEPT ![t] = 0]
       /\ sessionAllowed' = [sessionAllowed EXCEPT ![t] = @ \cup approved]
  ELSE UNCHANGED <<holder, sessionAllowed>>

\* The domains a call starts with when nobody was asked.
Declared(s, pol, t) ==
  IF pol = "never" \/ ~NeedsNetworkReview(s, pol, t) THEN s.domains ELSE {}

\* From the session lock (or without it) to the reviewer or to the body.
Decide(c, s, pol, t) ==
  \/ /\ Asks(s, pol, t) /\ Asked(s, pol, t) = "person" /\ attended
     /\ To(c, "asked") /\ Open(c, "declared") /\ Acquire(c, s, pol, t)
     /\ UNCHANGED <<grants, rights, sessionAllowed>>
  \/ /\ Asks(s, pol, t) /\ Asked(s, pol, t) = "person" /\ ~attended
     /\ To(c, "refused")
     /\ UNCHANGED <<grants, rights, awaits, holder, sessionAllowed, bridge>>
  \/ /\ Asks(s, pol, t) /\ Asked(s, pol, t) = "guardian"
     /\ To(c, "reviewing") /\ Acquire(c, s, pol, t)
     /\ UNCHANGED <<grants, rights, awaits, sessionAllowed, bridge>>
  \/ /\ ~Asks(s, pol, t)
     /\ To(c, "running")
     /\ grants' = [grants EXCEPT ![c] = Declared(s, pol, t)]
     /\ rights' = IF pol = "never" /\ s.rights THEN rights \cup {c} ELSE rights
     /\ Release(s, pol, t, Declared(s, pol, t))
     /\ UNCHANGED <<awaits, bridge>>

\* An unknown tool, the reserved argument, or a guard: before anyone is asked.
RefuseUnasked(c) ==
  /\ \E s \in Shapes : Take(c, s) /\ s.refused
  /\ To(c, "refused")
  /\ UNCHANGED <<turn, on, flags, grants, rights, request, awaits, reply, session,
                 always, bridge, requested, answers>>

\* Declared domains under a person's policy: wait for the session lock first.
WaitForLock(c) ==
  /\ \E s \in Shapes : Take(c, s) /\ ~s.refused /\ NeedsLock(s, policy)
  /\ To(c, "lock")
  /\ UNCHANGED <<turn, on, flags, grants, rights, request, awaits, reply, session,
                 always, bridge, requested, answers>>

DecideAtOnce(c) ==
  /\ \E s \in Shapes : /\ Take(c, s) /\ ~s.refused /\ ~NeedsLock(s, policy)
                       /\ Decide(c, s, policy, turn)
  /\ UNCHANGED <<turn, on, flags, request, reply, persisted, always, requested,
                 answers>>

DecideLocked(c) ==
  /\ stage[c] = "lock" /\ holder[turnOf[c]] = 0
  /\ Decide(c, shape[c], sampled[c], turnOf[c])
  /\ UNCHANGED <<progress, flags, call, request, reply, persisted, always, requested,
                 answers>>

\* Everything the call declared, now that it was allowed.
GrantDeclared(c) ==
  /\ To(c, "running")
  /\ grants' = [grants EXCEPT ![c] = shape[c].domains]
  /\ rights' = IF shape[c].rights THEN rights \cup {c} ELSE rights
  /\ Release(shape[c], sampled[c], turnOf[c], shape[c].domains)

\* The person's answer came back: memory only for calls without one-off rights.
Allowed(c) ==
  /\ stage[c] = "asked" /\ reply[c] \in {"allow", "always"}
  /\ GrantDeclared(c)
  /\ always' = IF reply[c] = "always" /\ ~shape[c].rights
               THEN always \cup {shape[c].tool} ELSE always
  /\ reply' = [reply EXCEPT ![c] = "none"]
  /\ awaits' = [awaits EXCEPT ![c] = 0]
  /\ UNCHANGED <<progress, flags, call, request, persisted, bridge, requested, answers>>

Denied(c) ==
  /\ stage[c] = "asked" /\ reply[c] = "deny"
  /\ To(c, "refused")
  /\ Release(shape[c], sampled[c], turnOf[c], {})
  /\ reply' = [reply EXCEPT ![c] = "none"]
  /\ awaits' = [awaits EXCEPT ![c] = 0]
  /\ UNCHANGED <<progress, flags, call, grants, rights, request, persisted, always,
                 bridge, requested, answers>>

\* The guardian's verdict (a model's answer, or its failure, which denies).
GuardianAllows(c) ==
  /\ stage[c] = "reviewing"
  /\ GrantDeclared(c)
  /\ judged' = judged \cup {c}
  /\ UNCHANGED <<progress, flags, call, request, awaits, reply, persisted, always,
                 bridge, requested, assented, consented>>

GuardianDenies(c) ==
  /\ stage[c] = "reviewing"
  /\ To(c, "refused")
  /\ Release(shape[c], sampled[c], turnOf[c], {})
  /\ UNCHANGED <<progress, flags, call, grants, rights, request, awaits, reply,
                 persisted, always, bridge, requested, answers>>

\* The body returned, timed out or failed. A command put in the background keeps its
\* reviewer; one that failed has it closed.
BodyEnds(c) ==
  /\ stage[c] = "running"
  /\ \E at \in {"done", "failed"} \cup
               (IF shape[c].kind = "execute" THEN {"background"} ELSE {}) : To(c, at)
  /\ UNCHANGED <<progress, flags, call, grants, rights, request, awaits, reply,
                 session, always, bridge, requested, answers>>

-----------------------------------------------------------------------------
(* A running command asks for a domain: RuntimePermissionReviewer::permission *)

\* Whoever polls for cancellation stops the request: the abort flag, the reviewer
\* closed by a failure, or the command's end, which aborts the task.
Stopped(c) == cancelled \/ stage[c] \in {"failed", "done"}

SetRequest(c, at, d) == request' = [request EXCEPT ![c] = [at |-> at, domain |-> d]]

\* Mutant of Unneeded: what was allowed while the request waited is asked again.
NeverUnneeded(t, d) == FALSE

\* Allowed by now, in this turn or for good.
Unneeded(t, d) == d \in sessionAllowed[t] \cup persisted

\* The domain joins what the call's context allows.
Keep(c, d) == sessionAllowed' = [sessionAllowed EXCEPT ![turnOf[c]] = @ \cup {d}]

\* Mutant of NeverGrants: what `never` lets through is kept as a person's grant.
NeverGrantsAll(c, d) ==
  /\ grants' = [grants EXCEPT ![c] = @ \cup {d}]
  /\ Keep(c, d)

\* Under `never` a domain is allowed to this command alone.
NeverGrants(c, d) ==
  /\ grants' = [grants EXCEPT ![c] = @ \cup {d}]
  /\ UNCHANGED sessionAllowed

\* With the command's own lock held: not cancelled, not contained, not `auto`.
RequestDomain(c, d) ==
  /\ stage[c] \in {"running", "background"} /\ shape[c].kind = "execute"
  /\ request[c] = NoRequest /\ requested < MaxRequests
  /\ requested' = requested + 1
  /\ ~Stopped(c) /\ d \notin grants[c]
  /\ \/ sampled[c] = "never" /\ NeverGrants(c, d) /\ UNCHANGED request
     \/ Human(sampled[c]) /\ SetRequest(c, "lock", d) /\ UNCHANGED <<grants, sessionAllowed>>
  /\ UNCHANGED <<progress, flags, call, stage, rights, awaits, reply, holder,
                 persisted, always, bridge, answers>>

\* The session lock is held: everything is checked again before a prompt is raised.
RequestLocked(c) ==
  LET d == request[c].domain
      t == turnOf[c]
  IN /\ request[c].at = "lock" /\ holder[t] = 0
     /\ \/ /\ ~Stopped(c) /\ ~Unneeded(t, d) /\ attended
           /\ SetRequest(c, "asked", d) /\ Open(c, d)
           /\ holder' = [holder EXCEPT ![t] = c]
           /\ UNCHANGED sessionAllowed
        \/ /\ ~Stopped(c) /\ Unneeded(t, d)
           /\ Keep(c, d)
           /\ request' = [request EXCEPT ![c] = NoRequest]
           /\ UNCHANGED <<holder, awaits, bridge>>
        \/ /\ Stopped(c) \/ (~Unneeded(t, d) /\ ~attended)
           /\ request' = [request EXCEPT ![c] = NoRequest]
           /\ UNCHANGED <<holder, awaits, sessionAllowed, bridge>>
  /\ UNCHANGED <<progress, flags, call, stage, grants, rights, reply, persisted, always,
                 requested, answers>>

\* Mutant of StillWanted: the answer is applied without looking again.
AnyAnswer(c) == TRUE

\* The check between the answer and what it grants.
StillWanted(c) == ~cancelled /\ stage[c] # "failed"

EndRequest(c) ==
  /\ request' = [request EXCEPT ![c] = NoRequest]
  /\ awaits' = [awaits EXCEPT ![c] = 0]
  /\ reply' = [reply EXCEPT ![c] = "none"]
  /\ holder' = [holder EXCEPT ![turnOf[c]] = 0]

\* The person's answer to a domain prompt. The bridge stores an "always" itself, before
\* the reviewer looks at the flags again; a store that fails turns it into a denial.
RequestAnswered(c) ==
  LET d == request[c].domain
      stores == reply[c] = "always"
  IN /\ request[c].at = "asked" /\ reply[c] \in {"allow", "always"}
     /\ \/ /\ persisted' = IF stores THEN persisted \cup {d} ELSE persisted
           /\ IF StillWanted(c)
              THEN /\ Keep(c, d)
                   /\ grants' = [grants EXCEPT ![c] = @ \cup {d}]
              ELSE UNCHANGED <<sessionAllowed, grants>>
        \/ stores /\ UNCHANGED <<persisted, sessionAllowed, grants>>
     /\ EndRequest(c)
  /\ UNCHANGED <<progress, flags, call, stage, rights, always, bridge, requested,
                 answers>>

RequestDenied(c) ==
  /\ request[c].at = "asked" /\ reply[c] = "deny"
  /\ EndRequest(c)
  /\ UNCHANGED <<progress, flags, call, stage, grants, rights, sessionAllowed,
                 persisted, always, bridge, requested, answers>>

\* Mutant of HolderAfterDrop: the guard outlives the request.
GuardLeaks(c) == holder

\* A dropped future drops the session guard it had.
HolderAfterDrop(c) ==
  IF request[c].at = "asked" THEN [holder EXCEPT ![turnOf[c]] = 0] ELSE holder

\* The poll for cancellation wins: the request is dropped with whatever it held. Its
\* prompt stays in the bridge, answered to nobody.
DropRequest(c) ==
  /\ request[c] # NoRequest /\ Stopped(c)
  /\ request' = [request EXCEPT ![c] = NoRequest]
  /\ awaits' = [awaits EXCEPT ![c] = 0]
  /\ reply' = [reply EXCEPT ![c] = "none"]
  /\ holder' = HolderAfterDrop(c)
  /\ UNCHANGED <<progress, flags, call, stage, grants, rights, sessionAllowed,
                 persisted, always, bridge, requested, answers>>

\* A background command's child exits.
ChildExits(c) ==
  /\ stage[c] = "background"
  /\ To(c, "done")
  /\ UNCHANGED <<progress, flags, call, grants, rights, request, awaits, reply,
                 session, always, bridge, requested, answers>>

-----------------------------------------------------------------------------
(* The person *)

SetPolicy ==
  /\ policy' \in SwitchTo \ {policy}
  /\ UNCHANGED <<progress, cancelled, withdrawing, call, stage, grants, rights,
                 request, awaits, reply, session, always, bridge, requested, answers>>

\* What a yes to this prompt lets through.
About(p) == IF p.about = "declared" THEN shape[p.call].domains ELSE {p.about}

\* Approvals::answer: the slot is taken out, and its waiter, if any, gets the answer.
\* An answer to a prompt that is no longer filed does nothing.
Answer(p, a) ==
  /\ p \in shown
  /\ shown' = shown \ {p}
  /\ waiting' = {w \in waiting : w.id # p.id}
  /\ LET mine == {w \in waiting : w.id = p.id /\ awaits[w.call] = w.id}
     IN /\ reply' = [c \in Calls |-> IF \E w \in mine : w.call = c THEN a ELSE reply[c]]
        /\ IF mine # {} /\ a # "deny"
           THEN /\ assented' = IF p.about = "declared" THEN assented \cup {p.call}
                                                       ELSE assented
                /\ consented' = consented \cup About(p)
           ELSE UNCHANGED <<assented, consented>>
  /\ UNCHANGED <<progress, flags, call, stage, grants, rights, request, awaits,
                 session, always, nextId, requested, judged>>

\* LocalConversation::cancel: the flag first, then the prompts.
Cancel ==
  /\ ~withdrawing
  /\ cancelled' = TRUE /\ withdrawing' = TRUE
  /\ UNCHANGED <<progress, policy, call, stage, grants, rights, request, awaits, reply,
                 session, always, bridge, requested, answers>>

\* withdraw_all: everything outstanding is refused.
Withdraw ==
  /\ withdrawing
  /\ withdrawing' = FALSE
  /\ waiting' = {}
  /\ reply' = [c \in Calls |->
                 IF \E w \in waiting : w.call = c /\ awaits[c] = w.id THEN "deny"
                                                                      ELSE reply[c]]
  /\ UNCHANGED <<progress, policy, cancelled, call, stage, grants, rights, request,
                 awaits, session, always, shown, nextId, requested, answers>>

CallStep(c) ==
  \/ RefuseUnasked(c) \/ WaitForLock(c) \/ DecideAtOnce(c) \/ DecideLocked(c)
  \/ Allowed(c) \/ Denied(c) \/ GuardianAllows(c) \/ GuardianDenies(c)
  \/ BodyEnds(c)

RequestStep(c) ==
  \/ \E d \in Domains : RequestDomain(c, d)
  \/ RequestLocked(c) \/ RequestAnswered(c) \/ RequestDenied(c) \/ DropRequest(c)
  \/ ChildExits(c)

PersonStep ==
  \/ SetPolicy \/ Cancel \/ Withdraw
  \/ \E p \in shown, a \in {"allow", "always", "deny"} : Answer(p, a)

Next ==
  \/ StartTurn \/ BeginBatch \/ EndTurn
  \/ \E c \in Calls : CallStep(c) \/ RequestStep(c)
  \/ PersonStep

Spec == Init /\ [][Next]_vars

\* Tasks that can go on do, and the surface's cancel runs to its end; nothing is assumed
\* of the person, the model, the guardian or the tools.
FairSpec ==
  /\ Spec /\ WF_vars(Withdraw)
  /\ \A c \in Calls : /\ WF_vars(DecideLocked(c)) /\ WF_vars(Allowed(c) \/ Denied(c))
                      /\ WF_vars(DropRequest(c))

-----------------------------------------------------------------------------
(* Properties *)

\* A call matched by a rule, or made by a tool that exists to be decided, reaches its
\* body only after a person said yes to that very call: neither `never`, nor the
\* guardian, nor an "allow always" given earlier stands in (dispatch.rs:166, types.rs:91).
PersonDecides ==
  \A c \in Calls : Ran(c) /\ Requirement(shape[c]) = "always" => c \in assented

\* Ports, listeners, sockets and directories outside the workspace are granted to one
\* call by a person's yes to that call, by the guardian under `auto` alone, or by a
\* policy that skips review: never from memory (dispatch.rs:203, types.rs:88).
RightsAreReviewed ==
  \A c \in rights :
    c \in assented \/ (sampled[c] = "auto" /\ c \in judged) \/ sampled[c] = "never"

\* What later calls may reach without being asked is what a person was shown and
\* allowed, or what the store held already; what `never` or the guardian let through
\* stays with its command (dispatch.rs:434).
GrantsArePersonal ==
  /\ \A t \in Turns : sessionAllowed[t] \subseteq consented \cup Stored
  /\ persisted \subseteq consented \cup Stored

\* The commands of one turn: the lock serializes network review (dispatch.rs:36), so no
\* prompt is up for a domain already allowed, and no two are up for the same one.
NobodyAsksTwice ==
  \A c \in Calls : request[c].at = "asked" /\ reply[c] = "none" =>
    /\ request[c].domain \notin sessionAllowed[turnOf[c]]
    /\ \A k \in Calls : turnOf[k] = turnOf[c] =>
         /\ k # c => request[k].at # "asked"
         /\ stage[k] = "asked" /\ Human(sampled[k])
              => request[c].domain \notin shape[k].domains

\* An answer that finds its command failed, or its turn aborted, widens nothing that
\* outlives the request (dispatch.rs:353, and the check after the review).
LateAnswersGrantNothing ==
  [][\A c \in Calls :
       request[c].at = "asked" /\ request'[c] = NoRequest /\ (cancelled \/ stage[c] = "failed")
         => sessionAllowed' = sessionAllowed /\ grants'[c] = grants[c]]_vars

\* The prompt a cancel finds open is withdrawn, and a dispatch waiting behind a background
\* command's prompt gets the lock that command held (local.rs:120, dispatch.rs:509).
CancelUnparks ==
  \A c \in Calls :
    /\ stage[c] = "asked" /\ withdrawing ~> stage[c] # "asked"
    /\ stage[c] = "lock" /\ cancelled ~> stage[c] # "lock"
=============================================================================
