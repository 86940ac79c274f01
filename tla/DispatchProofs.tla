--------------------------- MODULE DispatchProofs ---------------------------
(***************************************************************************)
(* Theorems about Dispatch, for every value of its constants: the state is *)
(* typed, and what was granted or run was decided by who had to decide it. *)
(***************************************************************************)
EXTENDS Dispatch, TLAPS

-----------------------------------------------------------------------------
(* Who decides: lemmas about the operators of the policy *)

\* A call a person must decide is asked about, whatever the policy and the memory.
LEMMA AlwaysAsks ==
  ASSUME NEW s, NEW pol, NEW t, Requirement(s) = "always"
  PROVE  Asks(s, pol, t) /\ Asked(s, pol, t) = "person"
BY DEF Asks, Asked, Required, Raised, ApprovalReason, Standing, Reviewer

\* What the guardian is asked: never a call a person must decide; under a person's policy,
\* no call that declares one-off rights, or domains not allowed yet.
LEMMA GuardianAsked ==
  ASSUME NEW s, NEW pol, NEW t, Asked(s, pol, t) = "guardian"
  PROVE  /\ Requirement(s) # "always"
         /\ s.rights => pol = "auto"
         /\ Human(pol) => s.domains \subseteq sessionAllowed[t] \cup persisted
<1>1. Required(s, pol, t) # "always" /\ (pol # "auto" => Required(s, pol, t) # "review")
  BY DEF Asked, Reviewer
<1>2. Requirement(s) # "always"
  BY <1>1 DEF Required, Raised
<1>3. pol # "auto" => ~NeedsNetworkReview(s, pol, t) /\ ~s.rights
  BY <1>1, <1>2 DEF Required, Raised
<1>4. Human(pol) => s.domains \subseteq sessionAllowed[t] \cup persisted
  BY <1>3 DEF NeedsNetworkReview, Human
<1>5. QED
  BY <1>2, <1>3, <1>4

\* Domains a call starts with unasked, under a person's policy, are allowed already.
LEMMA DeclaredAllowed ==
  ASSUME NEW s, NEW pol, NEW t, Human(pol)
  PROVE  Declared(s, pol, t) \subseteq sessionAllowed[t] \cup persisted
BY DEF Declared, NeedsNetworkReview, Human

-----------------------------------------------------------------------------
(* The types *)

\* A dispatched call is one of the calls, of a shape the model may make.
LEMMA TakeType ==
  ASSUME TypeOK, DispatchAssumption, NEW c \in Calls, NEW s \in Shapes, Take(c, s)
  PROVE  /\ made' \in 0..MaxCalls /\ left' \in Nat
         /\ shape' \in [Calls -> Shapes] /\ sampled' \in [Calls -> Policies]
         /\ turnOf' \in [Calls -> 0..MaxTurns] /\ attended' \in BOOLEAN
<1>1. made' \in 0..MaxCalls
  BY DEF Take, Calls, TypeOK, DispatchAssumption
<1>2. left' \in Nat
  BY DEF Take, MoreCalls, TypeOK
<1>3. QED
  BY <1>1, <1>2 DEF Take, TypeOK

\* The shapes of the calls are shapes.
LEMMA ShapeType ==
  ASSUME DispatchAssumption, NEW s \in Shapes
  PROVE  /\ s.tool \in Tools /\ s.domains \subseteq Domains
         /\ s.rights \in BOOLEAN /\ s.refused \in BOOLEAN
BY DEF DispatchAssumption, Shape

\* Filing a prompt.
LEMMA OpenType ==
  ASSUME TypeOK, NEW c \in Calls, NEW about \in Domains \cup {"declared"}, Open(c, about)
  PROVE  /\ waiting' \subseteq Prompt /\ shown' \subseteq Prompt /\ nextId' \in Nat \ {0}
         /\ awaits' \in [Calls -> Nat]
<1>1. [id |-> nextId, call |-> c, about |-> about] \in Prompt
  BY DEF TypeOK, Prompt
<1>2. waiting' \subseteq Prompt /\ shown' \subseteq Prompt
  BY <1>1 DEF Open, FreshId, TypeOK
<1>3. nextId' \in Nat \ {0} /\ awaits' \in [Calls -> Nat]
  BY DEF Open, FreshId, TypeOK
<1>4. QED
  BY <1>2, <1>3

\* Dropping the lock with what was approved.
LEMMA ReleaseType ==
  ASSUME TypeOK, NEW s, NEW pol, NEW t, NEW ds \in SUBSET Domains, Release(s, pol, t, ds)
  PROVE  /\ holder' \in [Turns -> Calls \cup {0}]
         /\ sessionAllowed' \in [Turns -> SUBSET Domains]
BY DEF Release, TypeOK

\* Deciding a call.
LEMMA DecideType ==
  ASSUME TypeOK, DispatchAssumption, NEW c \in Calls, NEW s \in Shapes, NEW pol, NEW t,
         Decide(c, s, pol, t)
  PROVE  /\ stage' \in [Calls -> Stages] /\ grants' \in [Calls -> SUBSET Domains]
         /\ rights' \subseteq Calls /\ awaits' \in [Calls -> Nat]
         /\ holder' \in [Turns -> Calls \cup {0}]
         /\ sessionAllowed' \in [Turns -> SUBSET Domains]
         /\ waiting' \subseteq Prompt /\ shown' \subseteq Prompt /\ nextId' \in Nat \ {0}
<1>1. CASE /\ To(c, "asked") /\ Open(c, "declared") /\ Acquire(c, s, pol, t)
           /\ UNCHANGED <<grants, rights, sessionAllowed>>
  <2>1. stage' \in [Calls -> Stages] /\ holder' \in [Turns -> Calls \cup {0}]
    BY <1>1 DEF To, Acquire, Stages, TypeOK
  <2>2. QED
    BY <1>1, <2>1, OpenType DEF TypeOK
<1>2. CASE /\ To(c, "refused")
           /\ UNCHANGED <<grants, rights, awaits, holder, sessionAllowed, bridge>>
  BY <1>2 DEF To, Stages, TypeOK, bridge
<1>3. CASE /\ To(c, "reviewing") /\ Acquire(c, s, pol, t)
           /\ UNCHANGED <<grants, rights, awaits, sessionAllowed, bridge>>
  BY <1>3 DEF To, Acquire, Stages, TypeOK, bridge
<1>4. CASE /\ To(c, "running")
           /\ grants' = [grants EXCEPT ![c] = Declared(s, pol, t)]
           /\ rights' = IF pol = "never" /\ s.rights THEN rights \cup {c} ELSE rights
           /\ Release(s, pol, t, Declared(s, pol, t))
           /\ UNCHANGED <<awaits, bridge>>
  <2>1. Declared(s, pol, t) \in SUBSET Domains
    BY ShapeType DEF Declared
  <2>2. stage' \in [Calls -> Stages] /\ grants' \in [Calls -> SUBSET Domains]
    BY <1>4, <2>1 DEF To, Stages, TypeOK
  <2>3. QED
    BY <1>4, <2>1, <2>2, ReleaseType DEF TypeOK, bridge
<1>5. QED
  BY <1>1, <1>2, <1>3, <1>4 DEF Decide

LEMMA TypeInit == DispatchAssumption /\ Init => TypeOK
<1> SUFFICES ASSUME DispatchAssumption, Init
             PROVE  TypeOK
  OBVIOUS
<1>1. (CHOOSE s \in Shapes : TRUE) \in Shapes
  BY DEF DispatchAssumption
<1>2. shape \in [Calls -> Shapes]
  BY <1>1 DEF Init
<1>3. request \in [Calls -> Request]
  BY DEF Init, NoRequest, Request
<1>4. policy \in Policies /\ sampled \in [Calls -> Policies]
  BY DEF Init, DispatchAssumption, Policies
<1>5. turn \in 0..MaxTurns /\ made \in 0..MaxCalls /\ turnOf \in [Calls -> 0..MaxTurns]
  BY DEF Init, DispatchAssumption
<1>6. /\ attended \in BOOLEAN /\ persisted \subseteq Domains
      /\ on \in BOOLEAN /\ left \in Nat /\ cancelled \in BOOLEAN /\ withdrawing \in BOOLEAN
  BY DEF Init, DispatchAssumption
<1>7. stage \in [Calls -> Stages] /\ grants \in [Calls -> SUBSET Domains]
  BY DEF Init, Stages
<1>8. /\ rights \subseteq Calls /\ awaits \in [Calls -> Nat]
      /\ reply \in [Calls -> {"none", "allow", "always", "deny"}]
  BY DEF Init
<1>9. /\ holder \in [Turns -> Calls \cup {0}] /\ sessionAllowed \in [Turns -> SUBSET Domains]
  BY DEF Init
<1>10. /\ always \subseteq Tools /\ waiting \subseteq Prompt /\ shown \subseteq Prompt
       /\ nextId \in Nat \ {0} /\ requested \in Nat
       /\ assented \subseteq Calls /\ consented \subseteq Domains /\ judged \subseteq Calls
  BY DEF Init
<1>11. QED
  BY <1>2, <1>3, <1>4, <1>5, <1>6, <1>7, <1>8, <1>9, <1>10 DEF TypeOK

\* The turn and the person.
LEMMA TypeOutside ==
  ASSUME TypeOK, DispatchAssumption, StartTurn \/ BeginBatch \/ EndTurn \/ PersonStep
  PROVE  TypeOK'
<1> USE DEF progress, flags, call, session, bridge, answers
<1>1. CASE StartTurn
  <2>1. turn' \in 0..MaxTurns
    BY <1>1 DEF StartTurn, TypeOK, DispatchAssumption
  <2>2. QED
    BY <1>1, <2>1 DEF StartTurn, TypeOK
<1>2. CASE BeginBatch
  <2>1. left' \in Nat
    BY <1>2 DEF BeginBatch, DispatchAssumption
  <2>2. QED
    BY <1>2, <2>1 DEF BeginBatch, TypeOK
<1>3. CASE EndTurn
  BY <1>3 DEF EndTurn, TypeOK
<1>4. CASE SetPolicy
  BY <1>4 DEF SetPolicy, TypeOK, DispatchAssumption
<1>5. CASE Cancel
  BY <1>5 DEF Cancel, TypeOK
<1>6. CASE Withdraw
  <2>1. reply' \in [Calls -> {"none", "allow", "always", "deny"}]
    BY <1>6 DEF Withdraw, TypeOK
  <2>2. QED
    BY <1>6, <2>1 DEF Withdraw, TypeOK
<1>7. ASSUME NEW p \in shown, NEW a \in {"allow", "always", "deny"}, Answer(p, a)
      PROVE  TypeOK'
  <2>1. shown' \subseteq Prompt /\ waiting' \subseteq Prompt
    BY <1>7 DEF Answer, TypeOK
  <2>2. reply' \in [Calls -> {"none", "allow", "always", "deny"}]
    BY <1>7 DEF Answer, TypeOK
  <2>3. p.call \in Calls /\ p.about \in Domains \cup {"declared"}
    BY <1>7 DEF TypeOK, Prompt
  <2>4. About(p) \subseteq Domains
    <3>1. shape[p.call] \in Shapes
      BY <2>3 DEF TypeOK
    <3>2. QED
      BY <2>3, <3>1, ShapeType DEF About
  <2>5. assented' \subseteq Calls /\ consented' \subseteq Domains
    BY <1>7, <2>3, <2>4 DEF Answer, TypeOK
  <2>6. QED
    BY <1>7, <2>1, <2>2, <2>5 DEF Answer, TypeOK
<1>8. QED
  BY <1>1, <1>2, <1>3, <1>4, <1>5, <1>6, <1>7 DEF PersonStep

\* The steps of a call's dispatch.
LEMMA TypeCall ==
  ASSUME TypeOK, DispatchAssumption, NEW c \in Calls, CallStep(c)
  PROVE  TypeOK'
<1> USE DEF progress, flags, call, session, bridge, answers
<1> DEFINE at == shape[c]
<1>1. at \in Shapes /\ at.domains \subseteq Domains /\ at.tool \in Tools
  BY ShapeType DEF TypeOK
<1>2. CASE RefuseUnasked(c)
  <2>1. stage' \in [Calls -> Stages]
    BY <1>2 DEF RefuseUnasked, To, Stages, TypeOK
  <2>2. PICK s \in Shapes : Take(c, s)
    BY <1>2 DEF RefuseUnasked
  <2>3. QED
    BY <1>2, <2>1, <2>2, TakeType DEF RefuseUnasked, Take, TypeOK
<1>3. CASE WaitForLock(c)
  <2>1. stage' \in [Calls -> Stages]
    BY <1>3 DEF WaitForLock, To, Stages, TypeOK
  <2>2. PICK s \in Shapes : Take(c, s)
    BY <1>3 DEF WaitForLock
  <2>3. QED
    BY <1>3, <2>1, <2>2, TakeType DEF WaitForLock, Take, TypeOK
<1>4. CASE DecideAtOnce(c)
  <2>1. PICK s \in Shapes : Take(c, s) /\ Decide(c, s, policy, turn)
    BY <1>4 DEF DecideAtOnce
  <2>2. QED
    BY <1>4, <2>1, TakeType, DecideType DEF DecideAtOnce, TypeOK
<1>5. CASE DecideLocked(c)
  <2>1. Decide(c, at, sampled[c], turnOf[c])
    BY <1>5 DEF DecideLocked
  <2>2. QED
    BY <1>1, <1>5, <2>1, DecideType DEF DecideLocked, TypeOK
<1>6. GrantDeclared(c) => /\ stage' \in [Calls -> Stages] /\ grants' \in [Calls -> SUBSET Domains]
                          /\ rights' \subseteq Calls /\ holder' \in [Turns -> Calls \cup {0}]
                          /\ sessionAllowed' \in [Turns -> SUBSET Domains]
  BY <1>1, ReleaseType DEF GrantDeclared, To, Stages, TypeOK
<1>7. CASE Allowed(c)
  BY <1>1, <1>6, <1>7 DEF Allowed, TypeOK
<1>8. CASE Denied(c)
  <2>1. stage' \in [Calls -> Stages]
    BY <1>8 DEF Denied, To, Stages, TypeOK
  <2>2. holder' \in [Turns -> Calls \cup {0}] /\ sessionAllowed' \in [Turns -> SUBSET Domains]
    BY <1>8, ReleaseType DEF Denied
  <2>3. QED
    BY <1>8, <2>1, <2>2 DEF Denied, TypeOK
<1>9. CASE GuardianAllows(c)
  BY <1>6, <1>9 DEF GuardianAllows, TypeOK
<1>10. CASE GuardianDenies(c)
  <2>1. stage' \in [Calls -> Stages]
    BY <1>10 DEF GuardianDenies, To, Stages, TypeOK
  <2>2. holder' \in [Turns -> Calls \cup {0}] /\ sessionAllowed' \in [Turns -> SUBSET Domains]
    BY <1>10, ReleaseType DEF GuardianDenies
  <2>3. QED
    BY <1>10, <2>1, <2>2 DEF GuardianDenies, TypeOK
<1>11. CASE BodyEnds(c)
  <2>1. stage' \in [Calls -> Stages]
    BY <1>11 DEF BodyEnds, To, Stages, TypeOK
  <2>2. QED
    BY <1>11, <2>1 DEF BodyEnds, TypeOK
<1>12. QED
  BY <1>2, <1>3, <1>4, <1>5, <1>7, <1>8, <1>9, <1>10, <1>11 DEF CallStep

\* The steps of a command's own requests.
LEMMA TypeRequest ==
  ASSUME TypeOK, DispatchAssumption, NEW c \in Calls, RequestStep(c)
  PROVE  TypeOK'
<1> USE DEF progress, flags, call, session, bridge, answers
<1>1. /\ request[c].at \in {"lock", "asked"} => request[c].domain \in Domains
      /\ [request EXCEPT ![c] = NoRequest] \in [Calls -> Request]
  BY DEF TypeOK, Request, NoRequest
<1>2. \A to \in {"lock", "asked"}, d \in Domains :
        SetRequest(c, to, d) => request' \in [Calls -> Request]
  BY DEF SetRequest, TypeOK, Request
<1>3. ASSUME NEW d \in Domains, Keep(c, d)
      PROVE  sessionAllowed' \in [Turns -> SUBSET Domains]
  <2>1. \A t \in Turns : sessionAllowed[t] \cup {d} \in SUBSET Domains
    BY DEF TypeOK
  <2>2. QED
    BY <1>3, <2>1 DEF Keep, TypeOK
<1>4. ASSUME NEW d \in Domains, RequestDomain(c, d)
      PROVE  TypeOK'
  <2>1. request' \in [Calls -> Request]
    BY <1>2, <1>4 DEF RequestDomain, TypeOK
  <2>2. grants' \in [Calls -> SUBSET Domains] /\ sessionAllowed' = sessionAllowed
    BY <1>4 DEF RequestDomain, NeverGrants, TypeOK
  <2>3. QED
    BY <1>4, <2>1, <2>2 DEF RequestDomain, TypeOK
<1>5. CASE RequestLocked(c)
  <2> DEFINE d == request[c].domain
             t == turnOf[c]
  <2>1. CASE /\ SetRequest(c, "asked", d) /\ Open(c, d)
             /\ holder' = [holder EXCEPT ![t] = c]
             /\ UNCHANGED sessionAllowed
    <3>1. holder' \in [Turns -> Calls \cup {0}] /\ request' \in [Calls -> Request]
      BY <1>1, <1>2, <1>5, <2>1 DEF RequestLocked, TypeOK
    <3>2. QED
      BY <1>1, <1>5, <2>1, <3>1, OpenType DEF RequestLocked, TypeOK
  <2>2. CASE /\ Unneeded(t, d)
             /\ Keep(c, d)
             /\ request' = [request EXCEPT ![c] = NoRequest]
             /\ UNCHANGED <<holder, awaits, bridge>>
    <3>1. sessionAllowed' \in [Turns -> SUBSET Domains]
      BY ZenonT(60), <2>2 DEF Unneeded, Keep, TypeOK
    <3>2. QED
      BY <1>1, <1>5, <2>2, <3>1 DEF RequestLocked, TypeOK
  <2>3. CASE /\ request' = [request EXCEPT ![c] = NoRequest]
             /\ UNCHANGED <<holder, awaits, sessionAllowed, bridge>>
    BY <1>1, <1>5, <2>3 DEF RequestLocked, TypeOK
  <2>4. QED
    BY <1>5, <2>1, <2>2, <2>3 DEF RequestLocked
<1>6. EndRequest(c) => /\ request' \in [Calls -> Request] /\ awaits' \in [Calls -> Nat]
                       /\ reply' \in [Calls -> {"none", "allow", "always", "deny"}]
                       /\ holder' \in [Turns -> Calls \cup {0}]
  <2> SUFFICES ASSUME EndRequest(c)
               PROVE  /\ request' \in [Calls -> Request] /\ awaits' \in [Calls -> Nat]
                      /\ reply' \in [Calls -> {"none", "allow", "always", "deny"}]
                      /\ holder' \in [Turns -> Calls \cup {0}]
    OBVIOUS
  <2>1. request' \in [Calls -> Request]
    BY <1>1 DEF EndRequest
  <2>2. awaits' \in [Calls -> Nat]
    BY DEF EndRequest, TypeOK
  <2>3. reply' \in [Calls -> {"none", "allow", "always", "deny"}]
    BY DEF EndRequest, TypeOK
  <2>4. holder' \in [Turns -> Calls \cup {0}]
    BY DEF EndRequest, TypeOK
  <2>5. QED
    BY <2>1, <2>2, <2>3, <2>4
<1>7. CASE RequestAnswered(c)
  <2>1. request[c].domain \in Domains
    BY <1>1, <1>7 DEF RequestAnswered
  <2>2. persisted' \subseteq Domains
    BY <1>7, <2>1 DEF RequestAnswered, TypeOK
  <2>3. grants' \in [Calls -> SUBSET Domains] /\ sessionAllowed' \in [Turns -> SUBSET Domains]
    BY <1>3, <1>7, <2>1 DEF RequestAnswered, TypeOK
  <2>4. QED
    BY <1>6, <1>7, <2>2, <2>3 DEF RequestAnswered, TypeOK
<1>8. CASE RequestDenied(c)
  BY <1>6, <1>8 DEF RequestDenied, TypeOK
<1>9. CASE DropRequest(c)
  <2>1. holder' \in [Turns -> Calls \cup {0}]
    BY <1>9 DEF DropRequest, HolderAfterDrop, TypeOK
  <2>2. QED
    BY <1>1, <1>9, <2>1 DEF DropRequest, TypeOK
<1>10. CASE ChildExits(c)
  <2>1. stage' \in [Calls -> Stages]
    BY <1>10 DEF ChildExits, To, Stages, TypeOK
  <2>2. QED
    BY <1>10, <2>1 DEF ChildExits, TypeOK
<1>11. QED
  BY <1>4, <1>5, <1>7, <1>8, <1>9, <1>10 DEF RequestStep

\* Every reachable state is typed.
THEOREM TypeCorrect == DispatchAssumption => (Spec => []TypeOK)
<1> SUFFICES ASSUME DispatchAssumption
             PROVE  Spec => []TypeOK
  OBVIOUS
<1>1. Init => TypeOK
  BY TypeInit
<1>2. TypeOK /\ [Next]_vars => TypeOK'
  <2> SUFFICES ASSUME TypeOK, [Next]_vars
               PROVE  TypeOK'
    OBVIOUS
  <2>1. CASE UNCHANGED vars
    BY <2>1 DEF vars, TypeOK
  <2>2. CASE Next
    BY <2>2, TypeOutside, TypeCall, TypeRequest DEF Next
  <2>3. QED
    BY <2>1, <2>2
<1>3. QED
  BY <1>1, <1>2, PTL DEF Spec

-----------------------------------------------------------------------------
(* The inductive invariant *)

\* Calls are dispatched in order, and nothing is granted to one before that.
Fresh == \A c \in Calls : c > made => stage[c] = "new" /\ c \notin rights

\* A call parked on its own decision makes no runtime request, and a prompt or an answer
\* belongs to a call that is parked on one.
Quiet ==
  \A c \in Calls :
    /\ stage[c] \in {"new", "lock", "asked", "reviewing", "refused"} => request[c] = NoRequest
    /\ awaits[c] = 0 => reply[c] = "none"
    /\ awaits[c] # 0 => stage[c] = "asked" \/ request[c].at = "asked"

\* A prompt's id names it.
Ids ==
  /\ \A p \in shown \cup waiting : p.id < nextId
  /\ \A p, q \in shown \cup waiting : p.id = q.id => p = q

\* The prompt a call is parked on is about what the call is parked for.
Filed ==
  \A w \in waiting : awaits[w.call] = w.id =>
    IF w.about = "declared"
    THEN stage[w.call] = "asked"
    ELSE request[w.call].at = "asked" /\ request[w.call].domain = w.about

\* A yes that is still to be read was given by a person, to what the call is parked for.
Heard ==
  \A c \in Calls : reply[c] \in {"allow", "always"} =>
    /\ stage[c] = "asked" => c \in assented /\ shape[c].domains \subseteq consented
    /\ request[c].at = "asked" => request[c].domain \in consented

\* What the guardian is deciding is its to decide.
Reviewed ==
  \A c \in Calls : stage[c] = "reviewing" =>
    /\ Requirement(shape[c]) # "always"
    /\ shape[c].rights => sampled[c] = "auto"
    /\ Human(sampled[c]) /\ turnOf[c] \in Turns
         => shape[c].domains \subseteq sessionAllowed[turnOf[c]] \cup persisted

Prompts == Fresh /\ Quiet /\ Ids /\ Filed
Grants  == Heard /\ Reviewed /\ PersonDecides /\ RightsAreReviewed /\ GrantsArePersonal

IInv == TypeOK /\ Prompts /\ Grants

LEMMA IInit == DispatchAssumption /\ Init => IInv
<1> SUFFICES ASSUME DispatchAssumption, Init
             PROVE  IInv
  OBVIOUS
<1>1. TypeOK
  BY TypeInit
<1>2. Prompts
  BY DEF Init, Prompts, Fresh, Quiet, Ids, Filed
<1>3. Grants
  BY <1>1 DEF Init, Grants, Heard, Reviewed, PersonDecides, Ran, RightsAreReviewed,
              GrantsArePersonal
<1>4. QED
  BY <1>1, <1>2, <1>3 DEF IInv

\* A call that is not parked on a prompt has none, no answer and no request.
LEMMA Untouched ==
  ASSUME TypeOK, Prompts, NEW c \in Calls, stage[c] \in {"new", "lock", "reviewing"}
  PROVE  /\ awaits[c] = 0 /\ reply[c] = "none" /\ request[c] = NoRequest
         /\ \A w \in waiting : w.call = c => awaits[c] # w.id
<1>1. request[c] = NoRequest
  BY DEF Prompts, Quiet
<1>2. awaits[c] = 0 /\ reply[c] = "none"
  BY <1>1 DEF Prompts, Quiet, NoRequest, TypeOK
<1>3. \A w \in waiting : w.id # 0
  BY DEF TypeOK, Prompt
<1>4. QED
  BY <1>1, <1>2, <1>3

\* The call a reply holds next is new.
LEMMA TakenIsNew ==
  ASSUME TypeOK, Fresh, NEW c \in Calls, NEW s, Take(c, s)
  PROVE  stage[c] = "new" /\ c \notin rights
BY DEF Take, Fresh, TypeOK, Calls

LEMMA FreshStep ==
  ASSUME DispatchAssumption, TypeOK, Prompts, Next
  PROVE  Fresh'
<1> USE DEF progress, flags, call, session, bridge, answers, To, Fresh
<1>0. Fresh
  BY DEF Prompts
<1>1. CASE StartTurn \/ BeginBatch \/ EndTurn \/ PersonStep
  BY <1>0, <1>1 DEF StartTurn, BeginBatch, EndTurn, PersonStep, SetPolicy, Cancel, Withdraw, Answer
<1>2. ASSUME NEW c \in Calls, CallStep(c)
      PROVE  Fresh'
  <2>1. ASSUME NEW s \in Shapes, Take(c, s),
               \A k \in Calls : k # c => stage'[k] = stage[k],
               rights' \subseteq rights \cup {c}
        PROVE  Fresh'
    BY <1>0, <2>1 DEF Take, TypeOK, Calls
  <2>2. CASE RefuseUnasked(c) \/ WaitForLock(c)
    BY <2>1, <2>2 DEF RefuseUnasked, WaitForLock, TypeOK
  <2>3. ASSUME NEW s, NEW pol, NEW t, Decide(c, s, pol, t)
        PROVE  /\ \A k \in Calls : k # c => stage'[k] = stage[k]
               /\ rights' \subseteq rights \cup {c}
    BY <2>3 DEF Decide, TypeOK
  <2>4. CASE DecideAtOnce(c)
    BY <2>1, <2>3, <2>4 DEF DecideAtOnce
  <2>5. CASE DecideLocked(c)
    BY <1>0, <2>3, <2>5 DEF DecideLocked, TypeOK
  <2>6. CASE Allowed(c) \/ GuardianAllows(c)
    BY <1>0, <2>6 DEF Allowed, GuardianAllows, GrantDeclared, TypeOK
  <2>7. CASE Denied(c) \/ GuardianDenies(c) \/ BodyEnds(c)
    BY <1>0, <2>7 DEF Denied, GuardianDenies, BodyEnds, TypeOK
  <2>8. QED
    BY <1>2, <2>2, <2>4, <2>5, <2>6, <2>7 DEF CallStep
<1>3. ASSUME NEW c \in Calls, RequestStep(c)
      PROVE  Fresh'
  BY <1>0, <1>3 DEF RequestStep, RequestDomain, RequestLocked, RequestAnswered, RequestDenied,
                    DropRequest, ChildExits, TypeOK
<1>4. QED
  BY <1>1, <1>2, <1>3 DEF Next

\* A step of one call leaves what is known of the others alone.
LEMMA Others ==
  ASSUME TypeOK, NEW c \in Calls, NEW k \in Calls, k # c, CallStep(c) \/ RequestStep(c)
  PROVE  /\ stage'[k] = stage[k] /\ request'[k] = request[k]
         /\ awaits'[k] = awaits[k] /\ reply'[k] = reply[k]
         /\ shape'[k] = shape[k] /\ sampled'[k] = sampled[k] /\ turnOf'[k] = turnOf[k]
<1> USE DEF progress, flags, call, session, bridge, answers, To
<1>1. ASSUME NEW s, Take(c, s)
      PROVE  shape'[k] = shape[k] /\ sampled'[k] = sampled[k] /\ turnOf'[k] = turnOf[k]
  BY <1>1 DEF Take, TypeOK
<1>2. ASSUME NEW s, NEW pol, NEW t, Decide(c, s, pol, t)
      PROVE  stage'[k] = stage[k] /\ awaits'[k] = awaits[k]
  BY <1>2 DEF Decide, Open, TypeOK
<1>3. CASE CallStep(c)
  <2>1. CASE RefuseUnasked(c) \/ WaitForLock(c)
    BY <1>1, <2>1 DEF RefuseUnasked, WaitForLock, TypeOK
  <2>2. CASE DecideAtOnce(c)
    BY <1>1, <1>2, <2>2 DEF DecideAtOnce
  <2>3. CASE DecideLocked(c)
    BY <1>2, <2>3 DEF DecideLocked
  <2>4. CASE Allowed(c) \/ Denied(c) \/ GuardianAllows(c) \/ GuardianDenies(c) \/ BodyEnds(c)
    BY <2>4 DEF Allowed, Denied, GuardianAllows, GuardianDenies, GrantDeclared, BodyEnds, TypeOK
  <2>5. QED
    BY <1>3, <2>1, <2>2, <2>3, <2>4 DEF CallStep
<1>4. CASE RequestStep(c)
  BY <1>4 DEF RequestStep, RequestDomain, SetRequest, RequestLocked, Open, RequestAnswered,
              RequestDenied, EndRequest, DropRequest, ChildExits, TypeOK
<1>5. QED
  BY <1>3, <1>4

\* Where a decision can leave its call.
LEMMA DecideLeaves ==
  ASSUME TypeOK, NEW c \in Calls, NEW s, NEW pol, NEW t, Decide(c, s, pol, t)
  PROVE  \/ /\ stage'[c] = "asked" /\ Open(c, "declared") /\ awaits'[c] = nextId
            /\ UNCHANGED <<grants, rights, sessionAllowed>>
         \/ /\ stage'[c] = "refused"
            /\ UNCHANGED <<grants, rights, awaits, holder, sessionAllowed, bridge>>
         \/ /\ stage'[c] = "reviewing" /\ Asked(s, pol, t) = "guardian"
            /\ UNCHANGED <<grants, rights, awaits, sessionAllowed, bridge>>
         \/ /\ stage'[c] = "running" /\ ~Asks(s, pol, t)
            /\ rights' = (IF pol = "never" /\ s.rights THEN rights \cup {c} ELSE rights)
            /\ Release(s, pol, t, Declared(s, pol, t))
            /\ UNCHANGED <<awaits, bridge>>
BY DEF Decide, To, Open, FreshId, TypeOK

LEMMA QuietStep ==
  ASSUME DispatchAssumption, TypeOK, Prompts, Next
  PROVE  Quiet'
<1> USE DEF progress, flags, call, session, bridge, answers
<1> DEFINE Still(c) ==
      /\ stage[c] \in {"new", "lock", "asked", "reviewing", "refused"} => request[c] = NoRequest
      /\ awaits[c] = 0 => reply[c] = "none"
      /\ awaits[c] # 0 => stage[c] = "asked" \/ request[c].at = "asked"
<1>0. \A c \in Calls : Still(c)
  BY DEF Prompts, Quiet
<1>1. CASE StartTurn \/ BeginBatch \/ EndTurn \/ SetPolicy \/ Cancel
  BY <1>0, <1>1 DEF StartTurn, BeginBatch, EndTurn, SetPolicy, Cancel, Quiet
<1>2. CASE Withdraw
  <2>1. \A c \in Calls : awaits[c] = 0 => reply'[c] = "none"
    BY <1>0, <1>2 DEF Withdraw, TypeOK, Prompt
  <2>2. QED
    BY <1>0, <1>2, <2>1 DEF Withdraw, Quiet
<1>3. ASSUME NEW p \in shown, NEW a, Answer(p, a)
      PROVE  Quiet'
  <2>1. \A c \in Calls : awaits[c] = 0 => reply'[c] = "none"
    BY <1>0, <1>3 DEF Answer, TypeOK, Prompt
  <2>2. QED
    BY <1>0, <1>3, <2>1 DEF Answer, Quiet
<1>4. ASSUME NEW c \in Calls, Still(c)', CallStep(c) \/ RequestStep(c)
      PROVE  Quiet'
  BY <1>0, <1>4, Others DEF Quiet
<1>5. ASSUME NEW c \in Calls, CallStep(c)
      PROVE  Still(c)'
  <2>1. ASSUME NEW s, NEW pol, NEW t, stage[c] \in {"new", "lock"}, Decide(c, s, pol, t),
               reply' = reply, request' = request
        PROVE  Still(c)'
    <3>1. awaits[c] = 0 /\ reply[c] = "none" /\ request[c] = NoRequest
      BY <2>1, Untouched
    <3>2. QED
      BY <2>1, <3>1, DecideLeaves DEF NoRequest, TypeOK
  <2>2. CASE RefuseUnasked(c) \/ WaitForLock(c)
    <3>1. stage[c] = "new"
      BY <2>2, TakenIsNew DEF RefuseUnasked, WaitForLock, Prompts
    <3>2. QED
      BY <2>2, <3>1, Untouched DEF RefuseUnasked, WaitForLock, To, TypeOK
  <2>3. CASE DecideAtOnce(c)
    <3>1. stage[c] = "new"
      BY <2>3, TakenIsNew DEF DecideAtOnce, Prompts
    <3>2. QED
      BY <2>1, <2>3, <3>1 DEF DecideAtOnce
  <2>4. CASE DecideLocked(c)
    BY <2>1, <2>4 DEF DecideLocked
  <2>5. CASE Allowed(c) \/ Denied(c)
    BY <1>0, <2>5 DEF Allowed, Denied, GrantDeclared, To, NoRequest, TypeOK
  <2>6. CASE GuardianAllows(c) \/ GuardianDenies(c)
    BY <2>6, Untouched DEF GuardianAllows, GuardianDenies, GrantDeclared, To, TypeOK
  <2>7. CASE BodyEnds(c)
    BY <1>0, <2>7 DEF BodyEnds, To, TypeOK
  <2>8. QED
    BY <1>5, <2>2, <2>3, <2>4, <2>5, <2>6, <2>7 DEF CallStep
<1>6. ASSUME NEW c \in Calls, RequestStep(c)
      PROVE  Still(c)'
  <2>1. ASSUME NEW d \in Domains, RequestDomain(c, d)
        PROVE  Still(c)'
    BY <1>0, <2>1 DEF RequestDomain, SetRequest, NoRequest, TypeOK
  <2>2. CASE RequestLocked(c)
    BY <1>0, <2>2 DEF RequestLocked, SetRequest, Open, FreshId, NoRequest, TypeOK
  <2>3. CASE RequestAnswered(c) \/ RequestDenied(c)
    BY <1>0, <2>3 DEF RequestAnswered, RequestDenied, EndRequest, NoRequest, TypeOK
  <2>4. CASE DropRequest(c)
    BY <1>0, <2>4 DEF DropRequest, NoRequest, TypeOK
  <2>5. CASE ChildExits(c)
    BY <1>0, <2>5 DEF ChildExits, To, TypeOK
  <2>6. QED
    BY <1>6, <2>1, <2>2, <2>3, <2>4, <2>5 DEF RequestStep
<1>7. QED
  BY <1>1, <1>2, <1>3, <1>4, <1>5, <1>6 DEF Next, PersonStep

\* A call's step leaves the bridge alone, or files the prompt the call then waits for.
LEMMA BridgeStep ==
  ASSUME TypeOK, NEW c \in Calls, CallStep(c) \/ RequestStep(c)
  PROVE  \/ UNCHANGED bridge
         \/ /\ Open(c, "declared") /\ stage'[c] = "asked"
         \/ \E d \in Domains : /\ Open(c, d)
                               /\ request'[c].at = "asked" /\ request'[c].domain = d
<1> USE DEF progress, flags, call, session, bridge, answers
<1>1. CASE CallStep(c)
  <2>1. ASSUME NEW s, NEW pol, NEW t, Decide(c, s, pol, t)
        PROVE  UNCHANGED bridge \/ (Open(c, "declared") /\ stage'[c] = "asked")
    BY <2>1, DecideLeaves
  <2>2. QED
    BY <1>1, <2>1 DEF CallStep, RefuseUnasked, WaitForLock, DecideAtOnce, DecideLocked, Allowed,
                      Denied, GuardianAllows, GuardianDenies, BodyEnds
<1>2. CASE RequestStep(c)
  <2>1. CASE RequestLocked(c)
    <3>1. request[c].domain \in Domains
      BY <2>1 DEF RequestLocked, TypeOK, Request, NoRequest
    <3>2. QED
      BY <2>1, <3>1 DEF RequestLocked, SetRequest, TypeOK
  <2>2. QED
    BY <1>2, <2>1 DEF RequestStep, RequestDomain, RequestAnswered, RequestDenied, DropRequest,
                      ChildExits
<1>3. QED
  BY <1>1, <1>2

LEMMA IdsStep ==
  ASSUME DispatchAssumption, TypeOK, Prompts, Next
  PROVE  Ids'
<1> USE DEF progress, flags, call, session, bridge, answers, Ids
<1>0. Ids
  BY DEF Prompts
<1>1. CASE StartTurn \/ BeginBatch \/ EndTurn \/ PersonStep
  BY <1>0, <1>1 DEF StartTurn, BeginBatch, EndTurn, PersonStep, SetPolicy, Cancel, Withdraw, Answer
<1>2. ASSUME NEW c \in Calls, NEW about, Open(c, about)
      PROVE  Ids'
  <2>1. nextId \in Nat /\ nextId < nextId + 1
    BY DEF TypeOK
  <2>2. \A p \in shown \cup waiting : p.id \in Nat
    BY DEF TypeOK, Prompt
  <2>3. \A p \in shown' \cup waiting' :
          p \in shown \cup waiting \/ p = [id |-> nextId, call |-> c, about |-> about]
    BY <1>2 DEF Open, FreshId
  <2>4. nextId' = nextId + 1
    BY <1>2 DEF Open
  <2>5. \A p \in shown' \cup waiting' : p.id < nextId'
    BY <1>0, <2>1, <2>2, <2>3, <2>4
  <2>6. \A p, q \in shown' \cup waiting' : p.id = q.id => p = q
    BY <1>0, <2>1, <2>2, <2>3
  <2>7. QED
    BY <2>5, <2>6
<1>3. ASSUME NEW c \in Calls, CallStep(c) \/ RequestStep(c)
      PROVE  Ids'
  BY <1>0, <1>2, <1>3, BridgeStep
<1>4. QED
  BY <1>1, <1>3 DEF Next

LEMMA FiledStep ==
  ASSUME DispatchAssumption, TypeOK, Prompts, Next
  PROVE  Filed'
<1> USE DEF progress, flags, call, session, bridge, answers
<1> DEFINE Right(w) == IF w.about = "declared"
                       THEN stage[w.call] = "asked"
                       ELSE request[w.call].at = "asked" /\ request[w.call].domain = w.about
<1>0. \A w \in waiting : w.call \in Calls /\ w.id \in Nat \ {0}
  BY DEF TypeOK, Prompt
<1>1. CASE StartTurn \/ BeginBatch \/ EndTurn \/ PersonStep
  BY <1>1 DEF StartTurn, BeginBatch, EndTurn, PersonStep, SetPolicy, Cancel, Withdraw, Answer,
              Prompts, Filed
<1>2. ASSUME NEW c \in Calls, CallStep(c) \/ RequestStep(c)
      PROVE  Filed'
  <2>1. ASSUME NEW w \in waiting, w.call # c, w \in waiting', awaits'[w.call] = w.id
        PROVE  Right(w)'
    BY <1>0, <1>2, <2>1, Others DEF Prompts, Filed
  <2>2. ASSUME NEW about, Open(c, about), NEW w \in waiting', w.call = c, awaits'[c] = w.id
        PROVE  w = [id |-> nextId, call |-> c, about |-> about]
    BY <2>2 DEF Open, FreshId, TypeOK
  <2>3. CASE \E about \in Domains \cup {"declared"} : Open(c, about)
    <3>1. \A w \in waiting' : w \in waiting \/ w.call = c
      BY <2>3 DEF Open
    <3>2. \A w \in waiting' : w.call = c /\ awaits'[c] = w.id => Right(w)'
      <4>1. CASE Open(c, "declared") /\ stage'[c] = "asked"
        BY <2>2, <4>1
      <4>2. CASE \E d \in Domains : /\ Open(c, d)
                                    /\ request'[c].at = "asked" /\ request'[c].domain = d
        BY <2>2, <4>2 DEF DispatchAssumption
      <4>3. CASE UNCHANGED bridge
        <5>1. nextId' = nextId + 1 /\ nextId \in Nat
          BY <2>3 DEF Open, TypeOK
        <5>2. QED
          BY <4>3, <5>1
      <4>4. QED
        BY <1>2, <4>1, <4>2, <4>3, BridgeStep
    <3>3. QED
      BY <2>1, <3>1, <3>2 DEF Filed
  <2>4. ASSUME UNCHANGED bridge, NEW w \in waiting, w.call = c, awaits'[c] = w.id
        PROVE  Right(w)'
    <3>1. awaits[c] = w.id => Right(w)
      BY <2>4 DEF Prompts, Filed
    <3>2. CASE CallStep(c)
      <4>1. ASSUME NEW s, NEW pol, NEW t, Decide(c, s, pol, t), stage[c] \in {"new", "lock"}
            PROVE  FALSE
        BY <2>4, <4>1, DecideLeaves, Untouched DEF Open, TypeOK
      <4>2. CASE RefuseUnasked(c) \/ WaitForLock(c) \/ DecideAtOnce(c)
        <5>1. stage[c] = "new"
          BY <4>2, TakenIsNew DEF RefuseUnasked, WaitForLock, DecideAtOnce, Prompts
        <5>2. QED
          BY <2>4, <4>1, <4>2, <5>1, Untouched DEF RefuseUnasked, WaitForLock, DecideAtOnce
      <4>3. CASE DecideLocked(c)
        BY <4>1, <4>3 DEF DecideLocked
      <4>4. CASE Allowed(c) \/ Denied(c)
        BY <1>0, <2>4, <4>4 DEF Allowed, Denied, TypeOK
      <4>5. CASE GuardianAllows(c) \/ GuardianDenies(c)
        BY <2>4, <4>5, Untouched DEF GuardianAllows, GuardianDenies
      <4>6. CASE BodyEnds(c)
        BY <2>4, <3>1, <4>6 DEF BodyEnds, Prompts, Quiet
      <4>7. QED
        BY <3>2, <4>2, <4>3, <4>4, <4>5, <4>6 DEF CallStep
    <3>3. CASE RequestStep(c)
      <4>1. CASE RequestAnswered(c) \/ RequestDenied(c) \/ DropRequest(c)
        BY <1>0, <2>4, <4>1 DEF RequestAnswered, RequestDenied, EndRequest, DropRequest, TypeOK
      <4>2. CASE RequestLocked(c)
        <5>1. stage[c] # "asked" /\ awaits[c] = 0
          BY <4>2 DEF RequestLocked, Prompts, Quiet, NoRequest
        <5>2. QED
          BY <1>0, <2>4, <4>2, <5>1 DEF RequestLocked, Open, TypeOK
      <4>3. ASSUME NEW d \in Domains, RequestDomain(c, d)
            PROVE  Right(w)'
        <5>1. awaits[c] = 0
          BY <4>3 DEF RequestDomain, Prompts, Quiet, NoRequest
        <5>2. QED
          BY <1>0, <2>4, <4>3, <5>1 DEF RequestDomain
      <4>4. CASE ChildExits(c)
        BY <2>4, <3>1, <4>4 DEF ChildExits, Prompts, Quiet
      <4>5. QED
        BY <3>3, <4>1, <4>2, <4>3, <4>4 DEF RequestStep
    <3>4. QED
      BY <1>2, <3>2, <3>3
  <2>5. CASE UNCHANGED bridge
    BY <2>1, <2>4, <2>5 DEF Filed
  <2>6. QED
    BY <1>2, <2>3, <2>5, BridgeStep
<1>3. QED
  BY <1>1, <1>2 DEF Next

\* Nothing given is taken back: a deciding call reads grants that only grow.
LEMMA NothingTakenBack ==
  ASSUME TypeOK, Next
  PROVE  /\ assented \subseteq assented' /\ consented \subseteq consented'
         /\ judged \subseteq judged' /\ persisted \subseteq persisted'
         /\ \A t \in Turns : sessionAllowed[t] \subseteq sessionAllowed'[t]
<1> USE DEF progress, flags, call, session, bridge, answers
<1>1. CASE StartTurn \/ BeginBatch \/ EndTurn \/ PersonStep
  BY <1>1 DEF StartTurn, BeginBatch, EndTurn, PersonStep, SetPolicy, Cancel, Withdraw, Answer
<1>2. ASSUME NEW s, NEW pol, NEW u, NEW ds, Release(s, pol, u, ds)
      PROVE  \A t \in Turns : sessionAllowed[t] \subseteq sessionAllowed'[t]
  BY <1>2 DEF Release, TypeOK
<1>3. ASSUME NEW c \in Calls, CallStep(c)
      PROVE  /\ assented \subseteq assented' /\ consented \subseteq consented'
             /\ judged \subseteq judged' /\ persisted \subseteq persisted'
             /\ \A t \in Turns : sessionAllowed[t] \subseteq sessionAllowed'[t]
  <2>1. ASSUME NEW s, NEW pol, NEW u, Decide(c, s, pol, u)
        PROVE  \A t \in Turns : sessionAllowed[t] \subseteq sessionAllowed'[t]
    BY <1>2, <2>1, DecideLeaves
  <2>2. \A t \in Turns : sessionAllowed[t] \subseteq sessionAllowed'[t]
    BY <1>2, <1>3, <2>1 DEF CallStep, RefuseUnasked, WaitForLock, DecideAtOnce, DecideLocked,
         Allowed, Denied, GuardianAllows, GuardianDenies, GrantDeclared, BodyEnds
  <2>3. QED
    BY <1>3, <2>2 DEF CallStep, RefuseUnasked, WaitForLock, DecideAtOnce, DecideLocked,
         Allowed, Denied, GuardianAllows, GuardianDenies, BodyEnds
<1>4. ASSUME NEW c \in Calls, RequestStep(c)
      PROVE  /\ assented \subseteq assented' /\ consented \subseteq consented'
             /\ judged \subseteq judged' /\ persisted \subseteq persisted'
             /\ \A t \in Turns : sessionAllowed[t] \subseteq sessionAllowed'[t]
  BY <1>4 DEF RequestStep, RequestDomain, NeverGrants, RequestLocked, RequestAnswered, Keep,
              RequestDenied, DropRequest, ChildExits, TypeOK
<1>5. QED
  BY <1>1, <1>3, <1>4 DEF Next

\* A step of a call puts no yes in its hands: answers come from the person alone.
LEMMA NoAnswerMade ==
  ASSUME TypeOK, NEW c \in Calls, CallStep(c) \/ RequestStep(c)
  PROVE  reply'[c] \in {"none", reply[c]}
BY DEF progress, flags, call, session, bridge, answers, CallStep, RefuseUnasked, WaitForLock,
       DecideAtOnce, DecideLocked, Allowed, Denied, GuardianAllows, GuardianDenies, BodyEnds,
       RequestStep, RequestDomain, RequestLocked, RequestAnswered, RequestDenied, EndRequest,
       DropRequest, ChildExits, TypeOK

LEMMA HeardStep ==
  ASSUME DispatchAssumption, TypeOK, Prompts, Heard, Next
  PROVE  Heard'
<1> USE DEF progress, flags, call, session, bridge, answers
<1> DEFINE Yes(c) == reply[c] \in {"allow", "always"} =>
             /\ stage[c] = "asked" => c \in assented /\ shape[c].domains \subseteq consented
             /\ request[c].at = "asked" => request[c].domain \in consented
<1>0. \A c \in Calls : Yes(c)
  BY DEF Heard
<1>1. CASE StartTurn \/ BeginBatch \/ EndTurn \/ SetPolicy \/ Cancel
  BY <1>0, <1>1 DEF StartTurn, BeginBatch, EndTurn, SetPolicy, Cancel, Heard
<1>2. CASE Withdraw
  <2>1. \A c \in Calls : reply'[c] \in {"deny", reply[c]}
    BY <1>2 DEF Withdraw, TypeOK
  <2>2. QED
    BY <1>0, <1>2, <2>1 DEF Withdraw, Heard
<1>3. ASSUME NEW p \in shown, NEW a \in {"allow", "always", "deny"}, Answer(p, a)
      PROVE  Heard'
  <2> SUFFICES ASSUME NEW c \in Calls, reply'[c] \in {"allow", "always"}
               PROVE  /\ stage[c] = "asked" => c \in assented' /\ shape[c].domains \subseteq consented'
                      /\ request[c].at = "asked" => request[c].domain \in consented'
    BY <1>3 DEF Answer, Heard
  <2>1. assented \subseteq assented' /\ consented \subseteq consented'
    BY <1>3 DEF Answer
  <2>2. CASE \E w \in waiting : w.id = p.id /\ awaits[w.call] = w.id /\ w.call = c
    <3>1. PICK w \in waiting : w.id = p.id /\ awaits[w.call] = w.id /\ w.call = c
      BY <2>2
    <3>2. w = p
      BY <3>1 DEF Prompts, Ids
    <3>3. a # "deny"
      BY <1>3, <3>1 DEF Answer
    <3>4. /\ assented' = (IF p.about = "declared" THEN assented \cup {p.call} ELSE assented)
          /\ consented' = consented \cup About(p)
      BY <1>3, <3>1, <3>3 DEF Answer
    <3>5. CASE p.about = "declared"
      <4>1. stage[c] = "asked"
        BY <3>1, <3>2, <3>5 DEF Prompts, Filed
      <4>2. request[c].at # "asked"
        BY <4>1 DEF Prompts, Quiet, NoRequest
      <4>3. QED
        BY <3>1, <3>2, <3>4, <3>5, <4>2 DEF About
    <3>6. CASE p.about # "declared"
      <4>1. request[c].at = "asked" /\ request[c].domain = p.about
        BY <3>1, <3>2, <3>6 DEF Prompts, Filed
      <4>2. stage[c] # "asked"
        BY <4>1 DEF Prompts, Quiet, NoRequest
      <4>3. QED
        BY <3>4, <3>6, <4>1, <4>2 DEF About
    <3>7. QED
      BY <3>5, <3>6
  <2>3. CASE ~\E w \in waiting : w.id = p.id /\ awaits[w.call] = w.id /\ w.call = c
    <3>1. reply'[c] = reply[c]
      BY <1>3, <2>3 DEF Answer
    <3>2. QED
      BY <1>0, <2>1, <3>1
  <2>4. QED
    BY <2>2, <2>3
<1>4. ASSUME NEW c \in Calls, CallStep(c) \/ RequestStep(c)
      PROVE  Heard'
  <2>1. assented \subseteq assented' /\ consented \subseteq consented'
    BY <1>4, NothingTakenBack
  <2>2. ASSUME NEW k \in Calls, k # c
        PROVE  Yes(k)'
    BY <1>0, <1>4, <2>1, <2>2, Others
  <2>3. stage[c] \in {"new", "lock", "reviewing"} => reply'[c] = "none"
    BY <1>4, NoAnswerMade, Untouched
  <2>4. CASE CallStep(c)
    <3>1. CASE RefuseUnasked(c) \/ WaitForLock(c) \/ DecideAtOnce(c)
      <4>1. stage[c] = "new"
        BY <3>1, TakenIsNew DEF RefuseUnasked, WaitForLock, DecideAtOnce, Prompts
      <4>2. QED
        BY <2>2, <2>3, <4>1 DEF Heard
    <3>2. CASE DecideLocked(c) \/ GuardianAllows(c) \/ GuardianDenies(c)
      <4>1. stage[c] \in {"lock", "reviewing"}
        BY <3>2 DEF DecideLocked, GuardianAllows, GuardianDenies
      <4>2. QED
        BY <2>2, <2>3, <4>1 DEF Heard
    <3>3. CASE Allowed(c) \/ Denied(c)
      <4>1. reply'[c] = "none"
        BY <3>3 DEF Allowed, Denied, TypeOK
      <4>2. QED
        BY <2>2, <4>1 DEF Heard
    <3>4. CASE BodyEnds(c)
      <4>1. stage'[c] # "asked" /\ request' = request
        BY <3>4 DEF BodyEnds, To, TypeOK
      <4>2. Yes(c)'
        BY <1>0, <2>1, <3>4, <4>1 DEF BodyEnds
      <4>3. QED
        BY <2>2, <4>2 DEF Heard
    <3>5. QED
      BY <2>4, <3>1, <3>2, <3>3, <3>4 DEF CallStep
  <2>5. CASE RequestStep(c)
    <3>1. ASSUME NEW d \in Domains, RequestDomain(c, d)
          PROVE  Yes(c)'
      <4>1. stage'[c] # "asked" /\ request'[c].at # "asked"
        BY <3>1 DEF RequestDomain, SetRequest, NoRequest, TypeOK
      <4>2. QED
        BY <4>1
    <3>2. CASE RequestLocked(c)
      <4>1. reply[c] = "none"
        BY <3>2 DEF RequestLocked, Prompts, Quiet, NoRequest
      <4>2. QED
        BY <2>2, <3>2, <4>1 DEF RequestLocked, Heard
    <3>3. CASE RequestAnswered(c) \/ RequestDenied(c) \/ DropRequest(c)
      <4>1. reply'[c] = "none"
        BY <3>3 DEF RequestAnswered, RequestDenied, EndRequest, DropRequest, TypeOK
      <4>2. QED
        BY <2>2, <4>1 DEF Heard
    <3>4. CASE ChildExits(c)
      <4>1. stage'[c] # "asked" /\ request' = request
        BY <3>4 DEF ChildExits, To, TypeOK
      <4>2. Yes(c)'
        BY <1>0, <2>1, <3>4, <4>1 DEF ChildExits
      <4>3. QED
        BY <2>2, <4>2 DEF Heard
    <3>5. QED
      BY <2>2, <2>5, <3>1, <3>2, <3>3, <3>4 DEF RequestStep, Heard
  <2>6. QED
    BY <1>4, <2>4, <2>5
<1>5. QED
  BY <1>1, <1>2, <1>3, <1>4 DEF Next, PersonStep

\* A decision made as a call is taken up reads the shape and the policy filed for it.
LEMMA TakeFiles ==
  ASSUME TypeOK, NEW c \in Calls, NEW s, Take(c, s)
  PROVE  shape'[c] = s /\ sampled'[c] = policy /\ turnOf'[c] = turn
BY DEF Take, TypeOK

\* A call that a decision starts, or puts to the guardian, is one a decision may: what the
\* three properties need of it.
LEMMA DecidedRight ==
  ASSUME TypeOK, NEW c \in Calls, CallStep(c), stage'[c] \in {"reviewing", "running"},
         stage[c] \in {"new", "lock"}
  PROVE  /\ Requirement(shape'[c]) # "always"
         /\ stage'[c] = "reviewing" =>
              /\ shape'[c].rights => sampled'[c] = "auto"
              /\ Human(sampled'[c])
                   => shape'[c].domains \subseteq sessionAllowed[turnOf'[c]] \cup persisted
         /\ c \in rights' => c \in rights \/ sampled'[c] = "never"
         /\ \A t \in Turns : sessionAllowed'[t] \subseteq sessionAllowed[t] \cup persisted
<1> USE DEF progress, flags, call, session, bridge, answers
<1>1. ASSUME Decide(c, shape'[c], sampled'[c], turnOf'[c])
      PROVE  /\ Requirement(shape'[c]) # "always"
             /\ stage'[c] = "reviewing" =>
                  /\ shape'[c].rights => sampled'[c] = "auto"
                  /\ Human(sampled'[c])
                       => shape'[c].domains \subseteq sessionAllowed[turnOf'[c]] \cup persisted
             /\ c \in rights' => c \in rights \/ sampled'[c] = "never"
             /\ \A t \in Turns : sessionAllowed'[t] \subseteq sessionAllowed[t] \cup persisted
  <2> DEFINE s == shape'[c]
             pol == sampled'[c]
             t == turnOf'[c]
  <2>1. CASE stage'[c] = "reviewing" /\ Asked(s, pol, t) = "guardian"
    <3>1. /\ Requirement(s) # "always"
          /\ s.rights => pol = "auto"
          /\ Human(pol) => s.domains \subseteq sessionAllowed[t] \cup persisted
      BY <2>1, GuardianAsked
    <3>2. UNCHANGED <<rights, sessionAllowed>>
      BY <1>1, <2>1, DecideLeaves
    <3>3. QED
      BY <2>1, <3>1, <3>2
  <2>2. CASE stage'[c] = "running" /\ ~Asks(s, pol, t)
    <3>1. Requirement(s) # "always"
      BY <2>2, AlwaysAsks
    <3>2. /\ rights' = (IF pol = "never" /\ s.rights THEN rights \cup {c} ELSE rights)
          /\ Release(s, pol, t, Declared(s, pol, t))
      BY <1>1, <2>2, DecideLeaves
    <3>3. CASE Human(pol)
      <4>1. Declared(s, pol, t) \subseteq sessionAllowed[t] \cup persisted
        BY <3>3, DeclaredAllowed
      <4>2. \A u \in Turns : sessionAllowed'[u] \subseteq sessionAllowed[u] \cup persisted
        BY <3>2, <4>1 DEF Release, TypeOK
      <4>3. QED
        BY <2>2, <3>1, <3>2, <4>2
    <3>4. CASE ~Human(pol)
      <4>1. sessionAllowed' = sessionAllowed
        BY <3>2, <3>4 DEF Release, NeedsLock
      <4>2. QED
        BY <2>2, <3>1, <3>2, <4>1
    <3>5. QED
      BY <3>3, <3>4
  <2>3. QED
    BY <1>1, <2>1, <2>2, DecideLeaves
<1>2. CASE DecideAtOnce(c)
  <2>1. PICK s \in Shapes : Take(c, s) /\ Decide(c, s, policy, turn)
    BY <1>2 DEF DecideAtOnce
  <2>2. QED
    BY <1>1, <2>1, TakeFiles
<1>3. CASE DecideLocked(c)
  BY <1>1, <1>3 DEF DecideLocked
<1>4. QED
  BY <1>2, <1>3 DEF CallStep, RefuseUnasked, WaitForLock, Allowed, Denied, GuardianAllows,
     GuardianDenies, BodyEnds, To, TypeOK

LEMMA ReviewedStep ==
  ASSUME DispatchAssumption, TypeOK, Prompts, Reviewed, Next
  PROVE  Reviewed'
<1> USE DEF progress, flags, call, session, bridge, answers
<1> DEFINE Its(c) == stage[c] = "reviewing" =>
      /\ Requirement(shape[c]) # "always"
      /\ shape[c].rights => sampled[c] = "auto"
      /\ Human(sampled[c]) /\ turnOf[c] \in Turns
           => shape[c].domains \subseteq sessionAllowed[turnOf[c]] \cup persisted
<1>1. /\ \A c \in Calls : Its(c)
      /\ persisted \subseteq persisted'
      /\ \A t \in Turns : sessionAllowed[t] \subseteq sessionAllowed'[t]
  BY NothingTakenBack DEF Reviewed
<1>2. ASSUME NEW c \in Calls, shape'[c] = shape[c], sampled'[c] = sampled[c],
             turnOf'[c] = turnOf[c], stage'[c] \in {stage[c], "running", "refused"}
      PROVE  Its(c)'
  BY <1>1, <1>2 DEF Requirement
<1>3. CASE StartTurn \/ BeginBatch \/ EndTurn \/ PersonStep
  BY <1>1, <1>3 DEF StartTurn, BeginBatch, EndTurn, PersonStep, SetPolicy, Cancel, Withdraw,
     Answer, Reviewed, Requirement
<1>4. ASSUME NEW c \in Calls, CallStep(c) \/ RequestStep(c)
      PROVE  Reviewed'
  <2>1. ASSUME NEW k \in Calls, k # c
        PROVE  Its(k)'
    BY <1>2, <1>4, <2>1, Others
  <2>2. Its(c)'
    <3>1. CASE RequestStep(c) \/ RefuseUnasked(c) \/ WaitForLock(c) \/ BodyEnds(c)
      <4>1. stage'[c] = "reviewing" => stage[c] = "reviewing" /\ UNCHANGED call
        BY <3>1 DEF RequestStep, RequestDomain, RequestLocked, RequestAnswered, RequestDenied,
           DropRequest, ChildExits, RefuseUnasked, WaitForLock, BodyEnds, To, TypeOK
      <4>2. QED
        BY <1>1, <4>1 DEF Requirement
    <3>2. CASE DecideAtOnce(c) \/ DecideLocked(c)
      <4>1. stage[c] \in {"new", "lock"}
        BY <3>2, TakenIsNew DEF DecideAtOnce, DecideLocked, Prompts
      <4>2. CallStep(c)
        BY <3>2 DEF CallStep
      <4>3. CASE stage'[c] = "reviewing"
        BY <1>1, <4>1, <4>2, <4>3, DecidedRight DEF Requirement
      <4>4. QED
        BY <4>3
    <3>3. CASE Allowed(c) \/ Denied(c) \/ GuardianAllows(c) \/ GuardianDenies(c)
      <4>1. stage'[c] \in {"running", "refused"}
        BY <3>3 DEF Allowed, Denied, GuardianAllows, GuardianDenies, GrantDeclared, To, TypeOK
      <4>2. QED
        BY <4>1
    <3>4. QED
      BY <1>4, <3>1, <3>2, <3>3 DEF CallStep
  <2>3. QED
    BY <2>1, <2>2 DEF Reviewed
<1>5. QED
  BY <1>3, <1>4 DEF Next

\* Who had decided when a call was let through: what Allowed and GuardianAllows grant.
LEMMA GrantedRight ==
  ASSUME TypeOK, Heard, Reviewed, NEW c \in Calls, Allowed(c) \/ GuardianAllows(c)
  PROVE  /\ c \in assented \/ Requirement(shape[c]) # "always"
         /\ c \in assented \/ (c \in judged' /\ (shape[c].rights => sampled[c] = "auto"))
         /\ \A t \in Turns :
              sessionAllowed'[t] \subseteq sessionAllowed[t] \cup consented \cup persisted
<1>1. CASE Allowed(c)
  <2>1. c \in assented /\ shape[c].domains \subseteq consented
    BY <1>1 DEF Allowed, Heard
  <2>2. QED
    BY <1>1, <2>1 DEF Allowed, GrantDeclared, Release, TypeOK
<1>2. CASE GuardianAllows(c)
  <2>1. /\ Requirement(shape[c]) # "always"
        /\ shape[c].rights => sampled[c] = "auto"
        /\ Human(sampled[c]) /\ turnOf[c] \in Turns
             => shape[c].domains \subseteq sessionAllowed[turnOf[c]] \cup persisted
    BY <1>2 DEF GuardianAllows, Reviewed
  <2>2. c \in judged'
    BY <1>2 DEF GuardianAllows
  <2>3. Release(shape[c], sampled[c], turnOf[c], shape[c].domains)
    BY <1>2 DEF GuardianAllows, GrantDeclared
  <2>4. ASSUME NEW t \in Turns
        PROVE  sessionAllowed'[t] \subseteq sessionAllowed[t] \cup persisted
    BY <2>1, <2>3 DEF Release, NeedsLock, TypeOK
  <2>5. QED
    BY <2>1, <2>2, <2>4
<1>3. QED
  BY <1>1, <1>2

\* A body is started by a decision, by the person's yes, or by the guardian's.
LEMMA DecidesStep ==
  ASSUME DispatchAssumption, TypeOK, Prompts, Grants, Next
  PROVE  PersonDecides'
<1> USE DEF progress, flags, call, session, bridge, answers
<1> DEFINE Mine(c) == Ran(c) /\ Requirement(shape[c]) = "always" => c \in assented
<1>1. (\A c \in Calls : Mine(c)) /\ assented \subseteq assented'
  BY NothingTakenBack DEF Grants, PersonDecides
<1>2. CASE StartTurn \/ BeginBatch \/ EndTurn \/ PersonStep
  BY <1>1, <1>2 DEF StartTurn, BeginBatch, EndTurn, PersonStep, SetPolicy, Cancel, Withdraw,
     Answer, PersonDecides, Ran, Requirement
<1>3. ASSUME NEW c \in Calls, CallStep(c) \/ RequestStep(c)
      PROVE  PersonDecides'
  <2>1. ASSUME NEW k \in Calls, k # c
        PROVE  Mine(k)'
    BY <1>1, <1>3, <2>1, Others DEF Ran, Requirement
  <2>2. Mine(c)'
    <3>1. CASE RequestStep(c) \/ BodyEnds(c)
      <4>1. (Ran(c)' => Ran(c)) /\ UNCHANGED call
        BY <3>1 DEF RequestStep, RequestDomain, RequestLocked, RequestAnswered, RequestDenied,
           DropRequest, ChildExits, BodyEnds, Ran
      <4>2. QED
        BY <1>1, <4>1 DEF Requirement
    <3>2. CASE DecideAtOnce(c) \/ DecideLocked(c)
      <4>1. stage[c] \in {"new", "lock"} /\ CallStep(c)
        BY <3>2, TakenIsNew DEF DecideAtOnce, DecideLocked, Prompts, CallStep
      <4>2. stage'[c] = "running" => Requirement(shape'[c]) # "always"
        BY <4>1, DecidedRight
      <4>3. stage'[c] \in {"asked", "refused", "reviewing", "running"}
        BY <3>2, DecideLeaves DEF DecideAtOnce, DecideLocked
      <4>4. QED
        BY <4>2, <4>3 DEF Ran, Requirement
    <3>3. CASE Allowed(c) \/ GuardianAllows(c)
      <4>1. c \in assented \/ Requirement(shape[c]) # "always"
        BY <3>3, GrantedRight DEF Grants
      <4>2. UNCHANGED call
        BY <3>3 DEF Allowed, GuardianAllows
      <4>3. QED
        BY <1>1, <4>1, <4>2 DEF Requirement
    <3>4. CASE RefuseUnasked(c) \/ WaitForLock(c) \/ Denied(c) \/ GuardianDenies(c)
      <4>1. stage'[c] \in {"refused", "lock"}
        BY <3>4 DEF RefuseUnasked, WaitForLock, Denied, GuardianDenies, To, TypeOK
      <4>2. QED
        BY <4>1 DEF Ran
    <3>5. QED
      BY <1>3, <3>1, <3>2, <3>3, <3>4 DEF CallStep
  <2>3. QED
    BY <2>1, <2>2 DEF PersonDecides
<1>4. QED
  BY <1>2, <1>3 DEF Next

LEMMA RightsStep ==
  ASSUME DispatchAssumption, TypeOK, Prompts, Grants, Next
  PROVE  RightsAreReviewed'
<1> USE DEF progress, flags, call, session, bridge, answers
<1> DEFINE Mine(c) ==
      c \in rights => c \in assented \/ (sampled[c] = "auto" /\ c \in judged) \/ sampled[c] = "never"
<1>1. /\ \A c \in Calls : Mine(c)
      /\ assented \subseteq assented' /\ judged \subseteq judged'
  BY NothingTakenBack DEF Grants, RightsAreReviewed
<1>2. rights' \subseteq Calls => (RightsAreReviewed' <=> \A c \in Calls : Mine(c)')
  BY DEF RightsAreReviewed
<1>3. CASE StartTurn \/ BeginBatch \/ EndTurn \/ PersonStep
  BY <1>1, <1>3 DEF StartTurn, BeginBatch, EndTurn, PersonStep, SetPolicy, Cancel, Withdraw,
     Answer, RightsAreReviewed, TypeOK
<1>4. ASSUME NEW c \in Calls, CallStep(c) \/ RequestStep(c)
      PROVE  RightsAreReviewed'
  <2>1. rights' \subseteq rights \cup {c}
    <3>1. ASSUME NEW s, NEW pol, NEW t, Decide(c, s, pol, t)
          PROVE  rights' \subseteq rights \cup {c}
      BY <3>1, DecideLeaves
    <3>2. QED
      BY <1>4, <3>1 DEF CallStep, RefuseUnasked, WaitForLock, DecideAtOnce, DecideLocked,
         Allowed, Denied, GuardianAllows, GuardianDenies, GrantDeclared, BodyEnds, RequestStep,
         RequestDomain, RequestLocked, RequestAnswered, RequestDenied, DropRequest, ChildExits
  <2>2. ASSUME NEW k \in Calls, k # c
        PROVE  Mine(k)'
    BY <1>1, <1>4, <2>1, <2>2, Others
  <2>3. Mine(c)'
    <3>1. CASE RequestStep(c) \/ BodyEnds(c) \/ Denied(c) \/ GuardianDenies(c)
      <4>1. UNCHANGED rights /\ UNCHANGED call
        BY <3>1 DEF RequestStep, RequestDomain, RequestLocked, RequestAnswered, RequestDenied,
           DropRequest, ChildExits, BodyEnds, Denied, GuardianDenies
      <4>2. QED
        BY <1>1, <4>1
    <3>2. CASE RefuseUnasked(c) \/ WaitForLock(c)
      <4>1. c \notin rights /\ UNCHANGED rights
        BY <3>2, TakenIsNew DEF RefuseUnasked, WaitForLock, Prompts
      <4>2. QED
        BY <4>1
    <3>3. CASE DecideAtOnce(c) \/ DecideLocked(c)
      <4>1. stage[c] \in {"new", "lock"} /\ CallStep(c)
        BY <3>3, TakenIsNew DEF DecideAtOnce, DecideLocked, Prompts, CallStep
      <4>2. stage'[c] \in {"asked", "refused", "reviewing", "running"}
        BY <3>3, DecideLeaves DEF DecideAtOnce, DecideLocked
      <4>3. c \in rights' => c \in rights \/ sampled'[c] = "never"
        <5>1. CASE stage'[c] \in {"reviewing", "running"}
          BY <4>1, <5>1, DecidedRight
        <5>2. CASE stage'[c] \in {"asked", "refused"}
          BY <3>3, <5>2, DecideLeaves DEF DecideAtOnce, DecideLocked
        <5>3. QED
          BY <4>2, <5>1, <5>2
      <4>4. c \in rights => sampled'[c] = sampled[c]
        <5>1. CASE DecideAtOnce(c)
          BY <5>1, TakenIsNew DEF DecideAtOnce, Prompts
        <5>2. CASE DecideLocked(c)
          BY <5>2 DEF DecideLocked
        <5>3. QED
          BY <3>3, <5>1, <5>2
      <4>5. QED
        BY <1>1, <4>3, <4>4
    <3>4. CASE Allowed(c) \/ GuardianAllows(c)
      <4>1. c \in assented \/ (c \in judged' /\ (shape[c].rights => sampled[c] = "auto"))
        BY <3>4, GrantedRight DEF Grants
      <4>2. c \in rights' => c \in rights \/ shape[c].rights
        BY <3>4 DEF Allowed, GuardianAllows, GrantDeclared
      <4>3. UNCHANGED call
        BY <3>4 DEF Allowed, GuardianAllows
      <4>4. QED
        BY <1>1, <4>1, <4>2, <4>3
    <3>5. QED
      BY <1>4, <3>1, <3>2, <3>3, <3>4 DEF CallStep
  <2>4. QED
    BY <1>2, <2>1, <2>2, <2>3 DEF TypeOK
<1>5. QED
  BY <1>3, <1>4 DEF Next

\* What is allowed without asking grows by what a person was shown, or by what was
\* allowed without asking before.
LEMMA PersonalStep ==
  ASSUME DispatchAssumption, TypeOK, Prompts, Grants, Next
  PROVE  GrantsArePersonal'
<1> USE DEF progress, flags, call, session, bridge, answers
<1>1. /\ \A t \in Turns : sessionAllowed[t] \subseteq consented \cup Stored
      /\ persisted \subseteq consented \cup Stored
      /\ consented \subseteq consented'
  BY NothingTakenBack DEF Grants, GrantsArePersonal
<1>2. ASSUME \A t \in Turns :
               sessionAllowed'[t] \subseteq sessionAllowed[t] \cup consented \cup persisted,
             persisted' \subseteq persisted \cup consented
      PROVE  GrantsArePersonal'
  BY <1>1, <1>2 DEF GrantsArePersonal
<1>3. CASE StartTurn \/ BeginBatch \/ EndTurn \/ PersonStep
  BY <1>2, <1>3 DEF StartTurn, BeginBatch, EndTurn, PersonStep, SetPolicy, Cancel, Withdraw, Answer
<1>4. ASSUME NEW c \in Calls, CallStep(c)
      PROVE  GrantsArePersonal'
  <2>1. persisted' = persisted
    BY <1>4 DEF CallStep, RefuseUnasked, WaitForLock, DecideAtOnce, DecideLocked, Allowed,
       Denied, GuardianAllows, GuardianDenies, BodyEnds
  <2>2. CASE RefuseUnasked(c) \/ WaitForLock(c) \/ BodyEnds(c)
    BY <1>2, <2>2 DEF RefuseUnasked, WaitForLock, BodyEnds
  <2>3. CASE DecideAtOnce(c) \/ DecideLocked(c)
    <3>1. stage[c] \in {"new", "lock"}
      BY <2>3, TakenIsNew DEF DecideAtOnce, DecideLocked, Prompts
    <3>2. stage'[c] \in {"asked", "refused"} => sessionAllowed' = sessionAllowed
      BY <2>3, DecideLeaves DEF DecideAtOnce, DecideLocked
    <3>3. stage'[c] \in {"asked", "refused", "reviewing", "running"}
      BY <2>3, DecideLeaves DEF DecideAtOnce, DecideLocked
    <3>4. CASE stage'[c] \in {"reviewing", "running"}
      BY <1>2, <1>4, <2>1, <3>1, <3>4, DecidedRight
    <3>5. QED
      BY <1>2, <2>1, <3>2, <3>3, <3>4
  <2>4. CASE Allowed(c) \/ GuardianAllows(c)
    BY <1>2, <2>1, <2>4, GrantedRight DEF Grants
  <2>5. CASE Denied(c) \/ GuardianDenies(c)
    <3>1. Release(shape[c], sampled[c], turnOf[c], {})
      BY <2>5 DEF Denied, GuardianDenies
    <3>2. \A t \in Turns : sessionAllowed'[t] \subseteq sessionAllowed[t]
      BY <3>1 DEF Release, TypeOK
    <3>3. QED
      BY <1>2, <2>1, <3>2
  <2>6. QED
    BY <1>4, <2>2, <2>3, <2>4, <2>5 DEF CallStep
<1>5. ASSUME NEW c \in Calls, RequestStep(c)
      PROVE  GrantsArePersonal'
  <2>1. ASSUME NEW d, Keep(c, d), d \in consented \cup persisted \/
                 (d \in sessionAllowed[turnOf[c]] \cup persisted)
        PROVE  \A t \in Turns :
                 sessionAllowed'[t] \subseteq sessionAllowed[t] \cup consented \cup persisted
    BY <2>1 DEF Keep, TypeOK
  <2>2. CASE RequestLocked(c)
    <3>1. CASE sessionAllowed' = sessionAllowed
      BY <1>2, <2>2, <3>1 DEF RequestLocked
    <3>2. CASE Unneeded(turnOf[c], request[c].domain) /\ Keep(c, request[c].domain)
      BY <1>2, <2>1, <2>2, <3>2 DEF RequestLocked, Unneeded
    <3>3. QED
      BY <2>2, <3>1, <3>2 DEF RequestLocked
  <2>3. CASE RequestAnswered(c)
    <3>1. request[c].domain \in consented
      BY <2>3 DEF RequestAnswered, Grants, Heard
    <3>2. persisted' \subseteq persisted \cup consented
      BY <2>3, <3>1 DEF RequestAnswered
    <3>3. sessionAllowed' = sessionAllowed \/ Keep(c, request[c].domain)
      BY <2>3 DEF RequestAnswered
    <3>4. CASE Keep(c, request[c].domain)
      BY <1>2, <2>1, <3>1, <3>2, <3>4
    <3>5. QED
      BY <1>2, <3>2, <3>3, <3>4
  <2>4. CASE (\E d \in Domains : RequestDomain(c, d)) \/ RequestDenied(c) \/ DropRequest(c)
             \/ ChildExits(c)
    BY <1>2, <2>4 DEF RequestDomain, NeverGrants, RequestDenied, DropRequest, ChildExits
  <2>5. QED
    BY <1>5, <2>2, <2>3, <2>4 DEF RequestStep
<1>6. QED
  BY <1>3, <1>4, <1>5 DEF Next

-----------------------------------------------------------------------------
(* The theorems *)

LEMMA IStep == DispatchAssumption /\ IInv /\ [Next]_vars => IInv'
<1> SUFFICES ASSUME DispatchAssumption, IInv, [Next]_vars
             PROVE  IInv'
  OBVIOUS
<1>1. CASE UNCHANGED vars
  BY <1>1 DEF vars, IInv, TypeOK, Prompts, Fresh, Quiet, Ids, Filed, Grants, Heard, Reviewed,
     PersonDecides, Ran, Requirement, RightsAreReviewed, GrantsArePersonal
<1>2. CASE Next
  <2>1. TypeOK'
    BY <1>2, TypeOutside, TypeCall, TypeRequest DEF Next, IInv
  <2>2. Prompts'
    BY <1>2, FreshStep, QuietStep, IdsStep, FiledStep DEF IInv, Prompts
  <2>3. Heard' /\ Reviewed'
    BY <1>2, HeardStep, ReviewedStep DEF IInv, Grants
  <2>4. PersonDecides' /\ RightsAreReviewed' /\ GrantsArePersonal'
    BY <1>2, DecidesStep, RightsStep, PersonalStep DEF IInv
  <2>5. QED
    BY <2>1, <2>2, <2>3, <2>4 DEF IInv, Grants
<1>3. QED
  BY <1>1, <1>2

LEMMA Invariant == DispatchAssumption => (Spec => []IInv)
<1> SUFFICES ASSUME DispatchAssumption
             PROVE  Spec => []IInv
  OBVIOUS
<1>1. Init => IInv
  BY IInit
<1>2. IInv /\ [Next]_vars => IInv'
  BY IStep
<1>3. QED
  BY <1>1, <1>2, PTL DEF Spec

\* A call that a rule or its tool gives to a person runs only after a person said yes to
\* it, whatever the policies, the memory, the guardian and the number of calls.
THEOREM APersonDecides == DispatchAssumption => (Spec => []PersonDecides)
<1>1. IInv => PersonDecides
  BY DEF IInv, Grants
<1>2. QED
  BY <1>1, Invariant, PTL

\* One-off rights are reviewed every time: no memory grants them.
THEOREM OneOffRightsAreReviewed == DispatchAssumption => (Spec => []RightsAreReviewed)
<1>1. IInv => RightsAreReviewed
  BY DEF IInv, Grants
<1>2. QED
  BY <1>1, Invariant, PTL

\* What is allowed without asking traces back to what a person was shown, for any number
\* of turns, calls and prompts in flight.
THEOREM StandingGrantsArePersonal == DispatchAssumption => (Spec => []GrantsArePersonal)
<1>1. IInv => GrantsArePersonal
  BY DEF IInv, Grants
<1>2. QED
  BY <1>1, Invariant, PTL

-----------------------------------------------------------------------------
(* The session's lock *)

\* Who has a prompt up, or a review, for what a turn allows holds that turn's lock, and what
\* a prompt asks for has not been allowed meanwhile.
LockKept(c) ==
  /\ request[c].at = "asked" =>
       holder[turnOf[c]] = c /\ request[c].domain \notin sessionAllowed[turnOf[c]]
  /\ stage[c] \in {"asked", "reviewing"} /\ NeedsLock(shape[c], sampled[c]) =>
       holder[turnOf[c]] = c
  /\ stage[c] # "new" => turnOf[c] \in Turns

Locked == (on => turn \in Turns) /\ \A c \in Calls : LockKept(c)

\* A call is asked, or its command asks, but not both.
LEMMA OneWait ==
  ASSUME IInv, NEW c \in Calls
  PROVE  /\ stage[c] \in {"new", "lock", "asked", "reviewing", "refused"} => request[c] = NoRequest
         /\ request[c].at # "none" => stage[c] \in {"running", "background", "done", "failed"}
BY DEF IInv, Prompts, Quiet, TypeOK, Stages, NoRequest

\* Whoever holds the lock keeps it, and what it guards, over every step of another call.
LEMMA OthersKeepOff ==
  ASSUME DispatchAssumption, IInv, Locked, NEW c \in Calls, NEW k \in Calls, k # c,
         turnOf[c] \in Turns, holder[turnOf[c]] = c, CallStep(k) \/ RequestStep(k)
  PROVE  holder'[turnOf[c]] = c /\ sessionAllowed'[turnOf[c]] = sessionAllowed[turnOf[c]]
<1> DEFINE t == turnOf[c]
           u == turnOf[k]
<1> USE DEF progress, flags, call, session, bridge, answers
<1>1. c # 0 /\ holder \in [Turns -> Calls \cup {0}] /\ sessionAllowed \in [Turns -> SUBSET Domains]
  BY DEF IInv, TypeOK, Calls
<1>2. /\ request[k].at = "asked" => u # t
      /\ stage[k] \in {"asked", "reviewing"} /\ NeedsLock(shape[k], sampled[k]) => u # t
  BY DEF Locked, LockKept
<1>3. ASSUME NEW new, NEW allowed, u # t,
             holder' = [holder EXCEPT ![u] = new] \/ holder' = holder,
             sessionAllowed' = [sessionAllowed EXCEPT ![u] = allowed]
               \/ sessionAllowed' = sessionAllowed
      PROVE  holder'[t] = c /\ sessionAllowed'[t] = sessionAllowed[t]
  BY <1>1, <1>3
<1>4. ASSUME NEW s, NEW pol, NEW ds, Release(s, pol, u, ds), NeedsLock(s, pol) => u # t
      PROVE  holder'[t] = c /\ sessionAllowed'[t] = sessionAllowed[t]
  BY <1>3, <1>4 DEF Release
<1>5. ASSUME NEW s, NEW pol, NEW v, NeedsLock(s, pol) => v # t, Decide(k, s, pol, v)
      PROVE  holder'[t] = c /\ sessionAllowed'[t] = sessionAllowed[t]
  <2>1. ASSUME Acquire(k, s, pol, v), UNCHANGED sessionAllowed
        PROVE  holder'[t] = c /\ sessionAllowed'[t] = sessionAllowed[t]
    BY <1>1, <1>5, <2>1 DEF Acquire
  <2>2. ASSUME NEW ds, Release(s, pol, v, ds)
        PROVE  holder'[t] = c /\ sessionAllowed'[t] = sessionAllowed[t]
    BY <1>1, <1>5, <2>2 DEF Release
  <2>3. QED
    BY <1>5, <2>1, <2>2 DEF Decide
<1>6. CASE RefuseUnasked(k) \/ WaitForLock(k) \/ BodyEnds(k) \/ ChildExits(k)
  BY <1>6 DEF RefuseUnasked, WaitForLock, BodyEnds, ChildExits
<1>7. CASE DecideAtOnce(k)
  BY <1>5, <1>7 DEF DecideAtOnce
<1>8. CASE DecideLocked(k)
  <2>1. u # t
    BY <1>1, <1>8 DEF DecideLocked
  <2>2. QED
    BY <1>5, <1>8, <2>1 DEF DecideLocked
<1>9. CASE Allowed(k) \/ GuardianAllows(k)
  <2>1. stage[k] \in {"asked", "reviewing"}
    BY <1>9 DEF Allowed, GuardianAllows
  <2>2. Release(shape[k], sampled[k], u, shape[k].domains)
    BY <1>9 DEF Allowed, GuardianAllows, GrantDeclared
  <2>3. QED
    BY <1>2, <1>4, <2>1, <2>2
<1>10. CASE Denied(k) \/ GuardianDenies(k)
  <2>1. stage[k] \in {"asked", "reviewing"}
    BY <1>10 DEF Denied, GuardianDenies
  <2>2. Release(shape[k], sampled[k], u, {})
    BY <1>10 DEF Denied, GuardianDenies
  <2>3. QED
    BY <1>2, <1>4, <2>1, <2>2
<1>11. ASSUME NEW d \in Domains, RequestDomain(k, d)
       PROVE  holder'[t] = c /\ sessionAllowed'[t] = sessionAllowed[t]
  BY <1>11 DEF RequestDomain, NeverGrants
<1>12. CASE RequestLocked(k)
  <2>1. u # t
    BY <1>1, <1>12 DEF RequestLocked
  <2>2. /\ holder' = [holder EXCEPT ![u] = k] \/ holder' = holder
        /\ sessionAllowed' = [sessionAllowed EXCEPT ![u] = sessionAllowed[u] \cup {request[k].domain}]
             \/ sessionAllowed' = sessionAllowed
    BY <1>12 DEF RequestLocked, Keep
  <2>3. QED
    BY <1>3, <2>1, <2>2
<1>13. CASE RequestAnswered(k) \/ RequestDenied(k)
  <2>1. u # t
    BY <1>2, <1>13 DEF RequestAnswered, RequestDenied
  <2>2. /\ holder' = [holder EXCEPT ![u] = 0]
        /\ sessionAllowed' = [sessionAllowed EXCEPT ![u] = sessionAllowed[u] \cup {request[k].domain}]
             \/ sessionAllowed' = sessionAllowed
    BY <1>13 DEF RequestAnswered, RequestDenied, EndRequest, Keep
  <2>3. QED
    BY <1>3, <2>1, <2>2
<1>14. CASE DropRequest(k)
  <2>1. CASE request[k].at = "asked"
    BY <1>2, <1>3, <1>14, <2>1 DEF DropRequest, HolderAfterDrop
  <2>2. CASE request[k].at # "asked"
    BY <1>14, <2>2 DEF DropRequest, HolderAfterDrop
  <2>3. QED
    BY <2>1, <2>2
<1>15. QED
  BY <1>6, <1>7, <1>8, <1>9, <1>10, <1>11, <1>12, <1>13, <1>14 DEF CallStep, RequestStep

\* A call's own step takes the lock for what needs it, and looks before it asks.
LEMMA OwnStep ==
  ASSUME DispatchAssumption, IInv, Locked, NEW c \in Calls, CallStep(c) \/ RequestStep(c)
  PROVE  LockKept(c)'
<1> USE DEF progress, flags, call, session, bridge, answers
<1>1. LockKept(c)
  BY DEF Locked
<1>2. ASSUME NEW s \in Shapes, Take(c, s)
      PROVE  /\ stage[c] = "new" /\ request[c] = NoRequest
             /\ turnOf'[c] \in Turns /\ shape'[c] = s /\ sampled'[c] = policy
  <2>1. stage[c] = "new"
    BY <1>2, TakenIsNew DEF IInv, Prompts
  <2>2. request[c] = NoRequest
    BY <2>1, OneWait
  <2>3. QED
    BY <1>2, <2>1, <2>2 DEF Take, Locked, IInv, TypeOK
<1>3. CASE RefuseUnasked(c) \/ WaitForLock(c)
  <2>1. stage'[c] \in {"refused", "lock"} /\ request' = request
    BY <1>3 DEF RefuseUnasked, WaitForLock, To, IInv, TypeOK
  <2>2. request[c] = NoRequest /\ turnOf'[c] \in Turns
    BY <1>2, <1>3 DEF RefuseUnasked, WaitForLock
  <2>3. QED
    BY <2>1, <2>2 DEF LockKept, NoRequest
<1>4. CASE DecideAtOnce(c)
  <2>1. PICK s \in Shapes : Take(c, s) /\ ~NeedsLock(s, policy) /\ request' = request
    BY <1>4 DEF DecideAtOnce
  <2>2. /\ request'[c] = NoRequest /\ turnOf'[c] \in Turns
        /\ ~NeedsLock(shape'[c], sampled'[c])
    BY <1>2, <2>1
  <2>3. QED
    BY <2>2 DEF LockKept, NoRequest, NeedsLock
<1>5. CASE DecideLocked(c)
  <2>1. stage[c] = "lock" /\ request'[c] = NoRequest /\ UNCHANGED <<turnOf, shape, sampled>>
    BY <1>5, OneWait DEF DecideLocked
  <2>2. turnOf[c] \in Turns
    BY <1>1, <2>1 DEF LockKept
  <2>3. ASSUME stage'[c] \in {"asked", "reviewing"}, NeedsLock(shape[c], sampled[c])
        PROVE  holder'[turnOf[c]] = c
    <3>1. Acquire(c, shape[c], sampled[c], turnOf[c])
      BY <1>5, <2>3 DEF DecideLocked, Decide, To, IInv, TypeOK
    <3>2. QED
      BY <2>2, <2>3, <3>1 DEF Acquire, IInv, TypeOK
  <2>4. QED
    BY <2>1, <2>2, <2>3 DEF LockKept, NoRequest, NeedsLock
<1>6. CASE Allowed(c) \/ Denied(c) \/ GuardianAllows(c) \/ GuardianDenies(c)
  <2>1. /\ stage[c] \in {"asked", "reviewing"} /\ stage'[c] \in {"running", "refused"}
        /\ UNCHANGED <<request, turnOf>>
    BY <1>6 DEF Allowed, Denied, GuardianAllows, GuardianDenies, GrantDeclared, To, IInv, TypeOK
  <2>2. request[c] = NoRequest /\ turnOf[c] \in Turns
    BY <1>1, <2>1, OneWait DEF LockKept
  <2>3. QED
    BY <2>1, <2>2 DEF LockKept, NoRequest
<1>7. CASE BodyEnds(c) \/ ChildExits(c)
  <2>1. /\ stage[c] # "new" /\ stage'[c] \in {"done", "failed", "background"}
        /\ UNCHANGED <<request, turnOf, holder, sessionAllowed>>
    BY <1>7 DEF BodyEnds, ChildExits, To, IInv, TypeOK
  <2>2. QED
    BY <1>1, <2>1 DEF LockKept
<1>8. ASSUME NEW d \in Domains, RequestDomain(c, d)
      PROVE  LockKept(c)'
  <2>1. /\ stage'[c] = stage[c] /\ stage[c] \in {"running", "background"}
        /\ UNCHANGED turnOf
    BY <1>8 DEF RequestDomain
  <2>2. request'[c].at # "asked"
    BY <1>8 DEF RequestDomain, SetRequest, NoRequest, IInv, TypeOK
  <2>3. QED
    BY <1>1, <2>1, <2>2 DEF LockKept
<1>9. CASE RequestLocked(c)
  <2>1. /\ UNCHANGED <<stage, turnOf>> /\ request[c].at = "lock"
        /\ stage[c] \in {"running", "background", "done", "failed"} /\ turnOf[c] \in Turns
    BY <1>1, <1>9, OneWait DEF RequestLocked, LockKept
  <2>2. CASE SetRequest(c, "asked", request[c].domain)
    <3>1. request'[c] = [at |-> "asked", domain |-> request[c].domain]
      BY <2>2 DEF SetRequest, IInv, TypeOK
    <3>2. /\ holder' = [holder EXCEPT ![turnOf[c]] = c] /\ UNCHANGED sessionAllowed
          /\ ~Unneeded(turnOf[c], request[c].domain)
      <4>1. request'[c] # NoRequest
        BY <3>1 DEF NoRequest
      <4>2. QED
        BY <1>9, <4>1 DEF RequestLocked, IInv, TypeOK
    <3>3. holder'[turnOf[c]] = c
      BY <2>1, <3>2 DEF IInv, TypeOK
    <3>4. QED
      BY <2>1, <3>1, <3>2, <3>3 DEF LockKept, Unneeded
  <2>3. CASE request'[c] = NoRequest
    BY <2>1, <2>3 DEF LockKept, NoRequest
  <2>4. QED
    BY <1>9, <2>2, <2>3 DEF RequestLocked, IInv, TypeOK
<1>10. CASE RequestAnswered(c) \/ RequestDenied(c) \/ DropRequest(c)
  <2>1. request'[c] = NoRequest /\ UNCHANGED <<stage, turnOf>> /\ request[c] # NoRequest
    BY <1>10 DEF RequestAnswered, RequestDenied, DropRequest, EndRequest, NoRequest, IInv, TypeOK
  <2>2. stage[c] \notin {"asked", "reviewing"} /\ (stage[c] # "new" => turnOf[c] \in Turns)
    BY <1>1, <2>1, OneWait DEF LockKept
  <2>3. QED
    BY <2>1, <2>2 DEF LockKept, NoRequest
<1>11. QED
  BY <1>3, <1>4, <1>5, <1>6, <1>7, <1>8, <1>9, <1>10 DEF CallStep, RequestStep

LEMMA LockedStep ==
  ASSUME DispatchAssumption, IInv, Locked, [Next]_vars
  PROVE  Locked'
<1> USE DEF progress, flags, call, session, bridge, answers
<1>1. \A c \in Calls : LockKept(c)
  BY DEF Locked
<1>2. ASSUME UNCHANGED <<call, stage, request, session>>
      PROVE  \A c \in Calls : LockKept(c)'
  BY <1>1, <1>2 DEF LockKept, NeedsLock
<1>3. ASSUME NEW k \in Calls, CallStep(k) \/ RequestStep(k)
      PROVE  Locked'
  <2>1. UNCHANGED <<on, turn>>
    BY <1>3 DEF CallStep, RequestStep, RefuseUnasked, WaitForLock, DecideAtOnce, DecideLocked,
                Allowed, Denied, GuardianAllows, GuardianDenies, BodyEnds, RequestDomain,
                RequestLocked, RequestAnswered, RequestDenied, DropRequest, ChildExits
  <2>2. ASSUME NEW c \in Calls, c # k
        PROVE  LockKept(c)'
    <3>1. /\ stage'[c] = stage[c] /\ request'[c] = request[c]
          /\ shape'[c] = shape[c] /\ sampled'[c] = sampled[c] /\ turnOf'[c] = turnOf[c]
      BY <1>3, <2>2, Others DEF IInv
    <3>2. CASE holder[turnOf[c]] = c /\ turnOf[c] \in Turns
      <4>1. holder'[turnOf[c]] = c /\ sessionAllowed'[turnOf[c]] = sessionAllowed[turnOf[c]]
        BY <1>3, <2>2, <3>2, OthersKeepOff
      <4>2. QED
        BY <1>1, <3>1, <4>1 DEF LockKept, NeedsLock
    <3>3. CASE ~(holder[turnOf[c]] = c /\ turnOf[c] \in Turns)
      <4>1. request[c].at # "asked"
        BY <1>1, <3>3, OneWait DEF LockKept
      <4>2. ~(stage[c] \in {"asked", "reviewing"} /\ NeedsLock(shape[c], sampled[c]))
        BY <1>1, <3>3 DEF LockKept
      <4>3. QED
        BY <1>1, <3>1, <4>1, <4>2 DEF LockKept, NeedsLock
    <3>4. QED
      BY <3>2, <3>3
  <2>3. LockKept(k)'
    BY <1>3, OwnStep
  <2>4. QED
    BY <2>1, <2>2, <2>3 DEF Locked
<1>4. CASE StartTurn
  <2>1. turn' \in Turns
    BY <1>4 DEF StartTurn, Turns, IInv, TypeOK, DispatchAssumption
  <2>2. \A c \in Calls : LockKept(c)'
    BY <1>1, <1>4 DEF StartTurn, LockKept, NeedsLock
  <2>3. QED
    BY <2>1, <2>2 DEF Locked
<1>5. CASE BeginBatch \/ EndTurn \/ PersonStep
  <2>1. UNCHANGED <<call, stage, request, session>> /\ turn' = turn /\ (on' => on)
    BY <1>5 DEF BeginBatch, EndTurn, PersonStep, SetPolicy, Cancel, Withdraw, Answer
  <2>2. QED
    BY <1>2, <2>1 DEF Locked
<1>6. CASE UNCHANGED vars
  BY <1>2, <1>6 DEF vars, Locked
<1>7. QED
  BY <1>3, <1>4, <1>5, <1>6 DEF Next

\* Of the prompts about one turn's domains one at a time waits for a person, about what is not
\* allowed already: the lock is held over a prompt (dispatch.rs:36).
THEOREM OnePromptAtATime == DispatchAssumption => (Spec => []NobodyAsksTwice)
<1> SUFFICES ASSUME DispatchAssumption
             PROVE  Spec => []NobodyAsksTwice
  OBVIOUS
<1>1. Init => Locked
  BY DEF Init, Locked, LockKept, NoRequest
<1>2. IInv /\ Locked /\ [Next]_vars => Locked'
  BY LockedStep
<1>3. ASSUME IInv, Locked
      PROVE  NobodyAsksTwice
  <2>1. ASSUME NEW c \in Calls, request[c].at = "asked"
        PROVE  /\ request[c].domain \notin sessionAllowed[turnOf[c]]
               /\ holder[turnOf[c]] = c /\ stage[c] # "asked"
    BY <1>3, <2>1, OneWait DEF Locked, LockKept
  <2>2. ASSUME NEW k \in Calls, stage[k] = "asked", Human(sampled[k]), shape[k].domains # {}
        PROVE  holder[turnOf[k]] = k
    BY <1>3, <2>2 DEF Locked, LockKept, NeedsLock
  <2>3. QED
    BY <2>1, <2>2 DEF NobodyAsksTwice
<1>4. QED
  BY <1>1, <1>2, <1>3, Invariant, PTL DEF Spec

\* An answer that comes after the abort, or after its command failed, widens nothing but the
\* store, for any number of requests (dispatch.rs:353, :487).
THEOREM LateAnswersAreVoid == DispatchAssumption => (Spec => LateAnswersGrantNothing)
<1> SUFFICES ASSUME DispatchAssumption
             PROVE  Spec => LateAnswersGrantNothing
  OBVIOUS
<1> DEFINE Void(c) ==
      request[c].at = "asked" /\ request'[c] = NoRequest /\ (cancelled \/ stage[c] = "failed")
        => sessionAllowed' = sessionAllowed /\ grants'[c] = grants[c]
<1>1. ASSUME IInv, [Next]_vars, NEW c \in Calls
      PROVE  Void(c)
  <2> USE DEF progress, flags, call, session, bridge, answers
  <2>1. ASSUME request'[c] = request[c]
        PROVE  Void(c)
    BY <2>1 DEF NoRequest
  <2>2. CASE UNCHANGED vars \/ StartTurn \/ BeginBatch \/ EndTurn \/ PersonStep
    <3>1. UNCHANGED request
      BY <2>2 DEF vars, StartTurn, BeginBatch, EndTurn, PersonStep, SetPolicy, Cancel, Withdraw,
                  Answer
    <3>2. QED
      BY <2>1, <3>1
  <2>3. ASSUME NEW k \in Calls, CallStep(k) \/ RequestStep(k), k # c
        PROVE  Void(c)
    BY <1>1, <2>1, <2>3, Others DEF IInv
  <2>4. CASE CallStep(c)
    <3>1. UNCHANGED request
      BY <2>4 DEF CallStep, RefuseUnasked, WaitForLock, DecideAtOnce, DecideLocked, Allowed,
                  Denied, GuardianAllows, GuardianDenies, BodyEnds
    <3>2. QED
      BY <2>1, <3>1
  <2>5. ASSUME NEW d \in Domains, RequestDomain(c, d)
        PROVE  Void(c)
    BY <2>5 DEF RequestDomain, NoRequest
  <2>6. CASE RequestLocked(c)
    BY <2>6 DEF RequestLocked
  <2>7. CASE RequestAnswered(c)
    BY <2>7 DEF RequestAnswered, StillWanted
  <2>8. CASE RequestDenied(c) \/ DropRequest(c) \/ ChildExits(c)
    BY <2>8 DEF RequestDenied, DropRequest, ChildExits
  <2>9. QED
    BY <1>1, <2>2, <2>3, <2>4, <2>5, <2>6, <2>7, <2>8 DEF Next, RequestStep
<1>2. IInv /\ [Next]_vars =>
        [\A c \in Calls :
           request[c].at = "asked" /\ request'[c] = NoRequest
             /\ (cancelled \/ stage[c] = "failed")
             => sessionAllowed' = sessionAllowed /\ grants'[c] = grants[c]]_vars
  BY <1>1
<1>3. QED
  BY <1>2, Invariant, PTL DEF Spec, LateAnswersGrantNothing
=============================================================================
