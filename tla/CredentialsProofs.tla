-------------------------- MODULE CredentialsProofs --------------------------
(***************************************************************************)
(* The file of logins, for any number of tasks, processes and accounts:    *)
(* until a waiter breaks a lock it should not, one task at a time has the  *)
(* lock, what is stored and presented is what the issuer takes, and no     *)
(* write undoes another.                                                   *)
(***************************************************************************)
EXTENDS Credentials, FiniteSetTheorems, FunctionTheorems, TLAPS

Pcs == {"idle", "queue", "lock", "break", "load", "exchange", "put", "commit",
        "release", "finish"}

Ops == {"none", "refresh", "save", "saved", "saved not", "activate", "delete"}

TaskType == [pc : Pcs, op : Ops, mode : {"none", "stale", "force"}, stood : BOOLEAN,
             seen : Nat, token : Nat, spent : Nat, mine : BOOLEAN,
             name : Accounts \cup {InForce}, buf : Docs]

Typed ==
  /\ doc \in Docs
  /\ lockfile \in [by : Tasks \cup {NoTask}, old : BOOLEAN]
  /\ mutex \in [Procs -> Tasks \cup {NoTask}]
  /\ task \in [Tasks -> TaskType]
  /\ dead \subseteq Procs
  /\ live \subseteq 1..minted
  /\ minted \in FirstTokens..MaxTokens
  /\ crossed \in BOOLEAN

\* A file in which the account in force exists, and whose tokens were minted.
Sound(d) ==
  /\ d # NoDoc => d.active \in DOMAIN d.held
  /\ \A a \in DOMAIN d.held : d.held[a] <= minted

\* A task that holds a token nobody has stored yet.
Fresh(t) ==
  \/ task[t].pc \in {"put", "commit"}
  \/ task[t].pc \in {"lock", "break", "load"} /\ task[t].op = "save"

\* What a task is at says what it carries.
Coherent(t) ==
  /\ task[t].pc # "queue" => ~task[t].stood
  /\ task[t].pc \in {"queue", "exchange", "put"} => task[t].op = "refresh"
  /\ task[t].pc = "commit" => task[t].op \in {"refresh", "save"}
  /\ task[t].op = "save" => task[t].spent = NoToken
  /\ Fresh(t) => task[t].token \in 1..minted
  /\ task[t].pc = "exchange" => task[t].token \in 1..minted
  /\ Sound(task[t].buf)
  /\ ~Alive(t) => task[t].pc = "idle"

\* The lock file is the holder's; an old one is a dead process's.
Locked ==
  /\ lockfile.old => lockfile.by \in Tasks /\ ProcOf[lockfile.by] \in dead
  /\ ~crossed => \A t \in Tasks : task[t].pc \in Holding => lockfile.by = t

\* The token a refresh presents is the one the file keeps for its account, or the
\* other CLI's while the file keeps none.
Presents(t, token) ==
  /\ task[t].mine <=> OwnToken(Wants[t]) # NoToken
  /\ task[t].mine => token = OwnToken(Wants[t])
  /\ ~task[t].mine => token \in ForeignTokens

\* What a task holds is what the file and the issuer make of it.
Honest(t) ==
  /\ task[t].pc = "exchange" => /\ Presents(t, task[t].token)
                                /\ task[t].token \in live \cup lost \cup ForeignTokens
  /\ task[t].pc \in {"put", "commit"} /\ task[t].op = "refresh" => Presents(t, task[t].spent)
  /\ task[t].pc = "commit" => task[t].buf = Put(doc, Target(t), task[t].token)
  /\ Fresh(t) => task[t].token \in live \cup ForeignTokens
  /\ Fresh(t) /\ task[t].token \notin ForeignTokens
       => \A a \in DOMAIN doc.held : doc.held[a] # task[t].token

\* No two accounts keep one token, and no two tasks bring one, but that of the
\* other CLI.
Apart ==
  /\ \A a, b \in DOMAIN doc.held :
       doc.held[a] = doc.held[b] /\ a # b => doc.held[a] \in ForeignTokens
  /\ \A t, u \in Tasks :
       Fresh(t) /\ Fresh(u) /\ task[t].token = task[u].token /\ t # u
         => task[t].token \in ForeignTokens

\* What holds until a lock is broken that should not be.
Tidy == Apart /\ StoredIsLive /\ \A t \in Tasks : Honest(t)

IInv == /\ Typed /\ Sound(doc) /\ Locked
        /\ \A t \in Tasks : Coherent(t)
        /\ ~crossed => Tidy

-----------------------------------------------------------------------------
(* Documents and tokens.                                                   *)

LEMMA DocFields ==
  ASSUME NEW d \in Docs
  PROVE  /\ d = [active |-> d.active, held |-> d.held]
         /\ d.active \in Accounts \cup {InForce}
         /\ DOMAIN d.held \subseteq Accounts
         /\ d.held \in [DOMAIN d.held -> 1..MaxTokens]
BY DEF Docs

LEMMA DocBuilt ==
  ASSUME NEW a \in Accounts \cup {InForce}, NEW S \in SUBSET Accounts,
         NEW f \in [S -> 1..MaxTokens]
  PROVE  [active |-> a, held |-> f] \in Docs
BY DEF Docs

LEMMA NoDocFields ==
  /\ NoDoc \in Docs /\ NoDoc.active = InForce /\ DOMAIN NoDoc.held = {}
  /\ \A d \in Docs : d.active = InForce /\ DOMAIN d.held = {} => d = NoDoc
<1>1. NoDoc.held \in [{} -> 1..MaxTokens]
  BY DEF NoDoc
<1>2. NoDoc \in Docs
  BY <1>1, DocBuilt DEF NoDoc
<1>3. ASSUME NEW d \in Docs, d.active = InForce, DOMAIN d.held = {} PROVE d = NoDoc
  <2>1. d.held = [a \in {} |-> NoToken]
    BY <1>3, DocFields
  <2> QED BY <1>3, <2>1, DocFields DEF NoDoc
<1> QED BY <1>2, <1>3 DEF NoDoc

LEMMA SizesTyped ==
  /\ Cardinality(Accounts) \in Nat
  /\ FirstTokens \in Nat
  /\ ForeignTokens \subseteq 1..FirstTokens
<1>1. Cardinality(Accounts) \in Nat /\ Cardinality(DOMAIN Foreign) \in Nat
  BY CredentialsAssumption, FS_CardinalityType, FS_Subset
<1>2. FirstTokens \in Nat
  BY <1>1 DEF FirstTokens
<1> QED BY <1>1, <1>2, CredentialsAssumption DEF ForeignTokens

LEMMA IdleTyped == Idle \in TaskType /\ NoDoc \in Docs
BY NoDocFields DEF Idle, TaskType, Pcs, Ops, NoToken

\* The account a provider's own login is filed under.
AccountOf(w) == IF w # InForce THEN w ELSE doc.active

LEMMA OwnIs ==
  ASSUME doc \in Docs, Sound(doc), NEW w \in Accounts \cup {InForce}
  PROVE  /\ AccountOf(w) \in DOMAIN doc.held => OwnToken(w) = doc.held[AccountOf(w)]
         /\ AccountOf(w) \notin DOMAIN doc.held => OwnToken(w) = NoToken
         /\ OwnToken(w) # NoToken <=> AccountOf(w) \in DOMAIN doc.held
         /\ OwnToken(w) \in Nat
<1>1. /\ InForce \notin DOMAIN doc.held
      /\ doc.held \in [DOMAIN doc.held -> 1..MaxTokens]
      /\ MaxTokens \in Nat
  BY DocFields, CredentialsAssumption
<1>2. CASE AccountOf(w) \in DOMAIN doc.held
  <2>1. Resolve(doc, w) = AccountOf(w)
    BY <1>2 DEF Resolve, AccountOf
  <2>2. OwnToken(w) = doc.held[AccountOf(w)]
    BY <1>1, <1>2, <2>1 DEF OwnToken
  <2> QED BY <1>1, <1>2, <2>2 DEF NoToken
<1>3. CASE AccountOf(w) \notin DOMAIN doc.held
  <2>1. Resolve(doc, w) = InForce
    <3>1. CASE w # InForce
      BY <1>3, <3>1 DEF Resolve, AccountOf
    <3>2. CASE w = InForce
      <4>1. doc = NoDoc
        BY <1>3, <3>2 DEF Sound, AccountOf
      <4>2. Cardinality(DOMAIN doc.held) = 0 /\ doc.active \notin DOMAIN doc.held
        BY <4>1, NoDocFields, FS_EmptySet
      <4> QED BY <3>2, <4>2 DEF Resolve
    <3> QED BY <3>1, <3>2
  <2> QED BY <1>3, <2>1 DEF OwnToken, NoToken
<1> QED BY <1>2, <1>3

LEMMA ForeignIs ==
  ASSUME NEW w \in Accounts \cup {InForce}
  PROVE  ForeignToken(w) \in ForeignTokens \cup {NoToken}
<1> DEFINE d == [active |-> InForce, held |-> Foreign]
<1>1. DOMAIN Foreign \subseteq Accounts /\ InForce \notin Accounts
  BY CredentialsAssumption
<1>2. Resolve(d, w) \in DOMAIN Foreign \cup {InForce}
  <2>1. CASE w # InForce
    BY <2>1 DEF Resolve
  <2>2. CASE w = InForce /\ Cardinality(DOMAIN Foreign) = 1
    <3>1. DOMAIN Foreign # {}
      BY <2>2, FS_EmptySet
    <3>2. \E a \in Accounts : a \in DOMAIN Foreign
      BY <1>1, <3>1
    <3>3. (CHOOSE a \in Accounts : a \in DOMAIN Foreign) \in DOMAIN Foreign
      BY <3>2
    <3> QED BY <1>1, <2>2, <3>3 DEF Resolve
  <2>3. CASE w = InForce /\ Cardinality(DOMAIN Foreign) # 1
    BY <1>1, <2>3 DEF Resolve
  <2> QED BY <2>1, <2>2, <2>3
<1> QED BY <1>2 DEF ForeignToken, ForeignTokens

LEMMA FoundIs ==
  ASSUME doc \in Docs, Sound(doc), minted \in FirstTokens..MaxTokens,
         NEW w \in Accounts \cup {InForce}
  PROVE  /\ Found(w) \in 0..minted
         /\ OwnToken(w) # NoToken => Found(w) = OwnToken(w)
         /\ OwnToken(w) = NoToken /\ Found(w) # NoToken => Found(w) \in ForeignTokens
<1>1. OwnToken(w) \in 0..minted
  BY OwnIs, SizesTyped, DocFields DEF Sound, NoToken
<1>2. ForeignToken(w) \in 0..minted
  BY ForeignIs, SizesTyped, CredentialsAssumption DEF NoToken
<1> QED BY <1>1, <1>2, ForeignIs DEF Found

\* What a put leaves of the document.
LEMMA PutIs ==
  ASSUME NEW d \in Docs, Sound(d), minted \in FirstTokens..MaxTokens,
         NEW name \in Accounts, NEW token \in 1..minted
  PROVE  /\ Put(d, name, token) \in Docs
         /\ Sound(Put(d, name, token))
         /\ DOMAIN Put(d, name, token).held = DOMAIN d.held \cup {name}
         /\ Put(d, name, token).held[name] = token
         /\ \A a \in DOMAIN d.held \ {name} : Put(d, name, token).held[a] = d.held[a]
<1> DEFINE f == [a \in DOMAIN d.held \cup {name} |-> IF a = name THEN token ELSE d.held[a]]
<1>1. /\ d.active \in Accounts \cup {InForce} /\ DOMAIN d.held \subseteq Accounts
      /\ d.held \in [DOMAIN d.held -> 1..MaxTokens]
      /\ InForce \notin Accounts /\ token \in 1..MaxTokens
  BY DocFields, SizesTyped, CredentialsAssumption
<1>2. f \in [DOMAIN d.held \cup {name} -> 1..MaxTokens]
  BY <1>1
<1>3. Put(d, name, token) = [active |-> IF d.active = InForce THEN name ELSE d.active, held |-> f]
  BY DEF Put
<1>4. Put(d, name, token) \in Docs
  BY <1>1, <1>2, <1>3, DocBuilt
<1>5. (IF d.active = InForce THEN name ELSE d.active) \in DOMAIN f
  BY <1>1, NoDocFields DEF Sound
<1>6. \A a \in DOMAIN f : f[a] <= minted
  BY SizesTyped DEF Sound
<1>7. Sound(Put(d, name, token))
  BY <1>3, <1>5, <1>6 DEF Sound
<1> QED BY <1>3, <1>4, <1>7

-----------------------------------------------------------------------------
(* The initial states.                                                     *)

LEMMA Numbering ==
  ASSUME NEW S \in SUBSET Accounts
  PROVE  \E f \in [S -> 1..Cardinality(Accounts)] : \A a, b \in S : f[a] = f[b] => a = b
<1>1. ExistsBijection(1..Cardinality(Accounts), Accounts)
  BY CredentialsAssumption, FS_CardinalityType
<1>2. ExistsBijection(Accounts, 1..Cardinality(Accounts))
  BY <1>1, Fun_ExistsBijSymmetric
<1>3. PICK g \in Bijection(Accounts, 1..Cardinality(Accounts)) : TRUE
  BY <1>2 DEF ExistsBijection
<1>4. /\ g \in [Accounts -> 1..Cardinality(Accounts)]
      /\ \A a, b \in Accounts : g[a] = g[b] => a = b
  BY <1>3 DEF Bijection, Injection, IsInjective
<1> DEFINE f == [a \in S |-> g[a]]
<1>5. f \in [S -> 1..Cardinality(Accounts)] /\ \A a, b \in S : f[a] = f[b] => a = b
  BY <1>4
<1> QED BY <1>5

LEMMA InitHolds == Init => IInv
<1> SUFFICES ASSUME Init PROVE IInv
  OBVIOUS
<1>1. PICK S \in {{}, {DefaultAccount}, Accounts} :
        LET number == CHOOSE f \in [S -> 1..Cardinality(Accounts)] :
                        \A a, b \in S : f[a] = f[b] => a = b
        IN /\ doc = [active |-> IF S = {} THEN InForce ELSE DefaultAccount,
                     held |-> number]
           /\ live = {number[a] : a \in S} \cup {Foreign[a] : a \in DOMAIN Foreign}
  BY DEF Init
<1> DEFINE number == CHOOSE f \in [S -> 1..Cardinality(Accounts)] :
                        \A a, b \in S : f[a] = f[b] => a = b
<1>2. S \in SUBSET Accounts /\ (S # {} => DefaultAccount \in S)
  BY CredentialsAssumption
<1>3. /\ number \in [S -> 1..Cardinality(Accounts)]
      /\ \A a, b \in S : number[a] = number[b] => a = b
  BY <1>2, Numbering
<1>4. /\ doc = [active |-> IF S = {} THEN InForce ELSE DefaultAccount, held |-> number]
      /\ live = {number[a] : a \in S} \cup ForeignTokens
  BY <1>1 DEF ForeignTokens
<1> HIDE DEF number
<1>5. /\ minted = FirstTokens /\ minted \in FirstTokens..MaxTokens
      /\ Cardinality(Accounts) <= minted /\ Cardinality(Accounts) \in Nat
  <2>1. Cardinality(DOMAIN Foreign) \in Nat /\ Cardinality(Accounts) \in Nat
    BY CredentialsAssumption, FS_CardinalityType, FS_Subset
  <2> QED BY <2>1, CredentialsAssumption DEF Init, FirstTokens
<1>6. number \in [S -> 1..MaxTokens]
  BY <1>3, <1>5, CredentialsAssumption, SizesTyped
<1>7. doc \in Docs /\ DOMAIN doc.held = S /\ doc.held = number
  BY <1>2, <1>4, <1>6, DocBuilt, CredentialsAssumption
<1>8. Sound(doc)
  <2>1. doc # NoDoc => S # {}
    BY <1>4, <1>7, NoDocFields
  <2>2. \A a \in S : number[a] <= minted
    BY <1>3, <1>5
  <2> QED BY <1>2, <1>4, <1>7, <2>1, <2>2 DEF Sound
<1>9. \A t \in Tasks : task[t] = Idle
  BY DEF Init
<1>10. Typed
  <2>0. \A a \in S : number[a] \in 1..minted
    BY <1>3, <1>5
  <2>1. live \subseteq 1..minted
    BY <1>4, <1>5, <2>0, SizesTyped
  <2>2. task \in [Tasks -> TaskType]
    BY IdleTyped DEF Init
  <2> QED BY <1>5, <1>7, <2>1, <2>2 DEF Init, Typed, NoLock
<1>11. Locked
  BY <1>9 DEF Init, Locked, NoLock, Idle, Holding
<1>12. ASSUME NEW t \in Tasks PROVE Coherent(t) /\ Honest(t) /\ ~Fresh(t)
  <2>1. Sound(NoDoc)
    BY NoDocFields DEF Sound
  <2> QED BY <1>9, <2>1 DEF Coherent, Honest, Fresh, Idle
<1>13. Apart /\ StoredIsLive
  BY <1>3, <1>4, <1>7, <1>12 DEF Apart, StoredIsLive
<1> QED BY <1>8, <1>10, <1>11, <1>12, <1>13 DEF IInv, Tidy

-----------------------------------------------------------------------------
(* Steps that leave the file and the live tokens alone.                    *)

LEMMA Frame ==
  ASSUME IInv, UNCHANGED <<doc, live, minted>>,
         mutex' \in [Procs -> Tasks \cup {NoTask}],
         lockfile' \in [by : Tasks \cup {NoTask}, old : BOOLEAN],
         task' \in [Tasks -> TaskType],
         dead' \subseteq Procs,
         crossed' \in BOOLEAN, crossed => crossed',
         lost \subseteq lost',
         Locked',
         \A u \in Tasks : \/ task'[u] = task[u] /\ (Alive(u) => Alive(u)')
                          \/ Coherent(u)' /\ (~crossed' => Honest(u)'),
         \A u \in Tasks : Fresh(u)' => \/ Fresh(u) /\ task'[u].token = task[u].token
                                       \/ task'[u].token \in ForeignTokens,
         ~crossed' => \A u \in Tasks : Spent(u) \subseteq Spent(u)' \cup lost'
  PROVE  IInv'
<1>1. Typed' /\ Sound(doc)'
  BY DEF IInv, Typed, Sound
<1>2. ASSUME NEW u \in Tasks PROVE Coherent(u)'
  <2>1. CASE task'[u] = task[u] /\ (Alive(u) => Alive(u)')
    BY <2>1 DEF IInv, Coherent, Fresh, Sound
  <2> QED BY <2>1
<1>3. ASSUME ~crossed' PROVE Tidy'
  <2>0. Tidy
    BY <1>3 DEF IInv
  <2>1. Apart'
    BY <2>0 DEF Tidy, Apart
  <2>2. StoredIsLive'
    BY <1>3, <2>0 DEF Tidy, StoredIsLive, IInv, Typed
  <2>3. ASSUME NEW u \in Tasks PROVE Honest(u)'
    <3>1. CASE task'[u] = task[u]
      <4>1. /\ OwnToken(Wants[u])' = OwnToken(Wants[u])
            /\ Target(u)' = Target(u)
        BY <3>1 DEF OwnToken, Target
      <4> QED BY <2>0, <3>1, <4>1 DEF Tidy, Honest, Presents, Fresh
    <3> QED BY <1>3, <3>1
  <2> QED BY <2>1, <2>2, <2>3 DEF Tidy
<1> QED BY <1>1, <1>2, <1>3 DEF IInv

\* One task goes on, and brings no token but that of the other CLI.
LEMMA Moves ==
  ASSUME IInv, NEW t \in Tasks, NEW r \in TaskType, Set(t, r),
         UNCHANGED <<doc, live, minted, dead>>,
         mutex' \in [Procs -> Tasks \cup {NoTask}],
         lockfile' \in [by : Tasks \cup {NoTask}, old : BOOLEAN],
         crossed' \in BOOLEAN, crossed => crossed',
         lost \subseteq lost',
         Locked', Coherent(t)', ~crossed' => Honest(t)',
         Fresh(t)' => (Fresh(t) /\ r.token = task[t].token) \/ r.token \in ForeignTokens,
         ~crossed' => Spent(t) \subseteq Spent(t)' \cup lost'
  PROVE  IInv'
<1>1. /\ task' \in [Tasks -> TaskType]
      /\ task'[t] = r
      /\ \A u \in Tasks \ {t} : task'[u] = task[u]
  BY DEF Set, IInv, Typed
<1>2. \A u \in Tasks \ {t} : /\ Fresh(u)' <=> Fresh(u)
                             /\ Spent(u)' = Spent(u)
                             /\ Alive(u)' <=> Alive(u)
  BY <1>1 DEF Fresh, Spent, Alive
<1>3. \A u \in Tasks : \/ task'[u] = task[u] /\ (Alive(u) => Alive(u)')
                       \/ Coherent(u)' /\ (~crossed' => Honest(u)')
  BY <1>1, <1>2
<1>4. \A u \in Tasks : Fresh(u)' => \/ Fresh(u) /\ task'[u].token = task[u].token
                                    \/ task'[u].token \in ForeignTokens
  BY <1>1, <1>2
<1>5. ~crossed' => \A u \in Tasks : Spent(u) \subseteq Spent(u)' \cup lost'
  BY <1>2
<1>6. dead' \subseteq Procs
  BY DEF IInv, Typed
<1> QED BY <1>1, <1>3, <1>4, <1>5, <1>6, Frame

-----------------------------------------------------------------------------
(* What a task knows of the lock it has.                                   *)

\* Whoever works has the lock, and nobody else works.
LEMMA Alone ==
  ASSUME IInv, ~crossed, NEW t \in Tasks, task[t].pc \in Holding
  PROVE  /\ lockfile.by = t /\ lockfile # NoLock
         /\ \A u \in Tasks \ {t} : task[u].pc \notin Holding
BY CredentialsAssumption DEF IInv, Locked, NoLock

\* To go on under the lock, or away from it, keeps it.
LEMMA StaysLocked ==
  ASSUME IInv, NEW t \in Tasks, NEW r \in TaskType, Set(t, r),
         UNCHANGED <<lockfile, dead, crossed>>,
         r.pc \in Holding => task[t].pc \in Holding
  PROVE  Locked'
BY DEF IInv, Typed, Set, Locked

LEMMA Reads ==
  ASSUME IInv, NEW t \in Tasks
  PROVE  /\ task[t] \in TaskType /\ Coherent(t) /\ Wants[t] \in Accounts \cup {InForce}
         /\ minted \in Nat /\ Target(t) \in Accounts
         /\ FirstTokens \in Nat /\ FirstTokens <= minted
<1>1. task[t].name \in Accounts \cup {InForce}
  BY DEF IInv, Typed, TaskType
<1>2. Target(t) \in Accounts
  BY <1>1, DocFields, CredentialsAssumption DEF Target, IInv, Typed
<1> QED BY <1>2, SizesTyped, CredentialsAssumption DEF IInv, Typed

\* What is over under the lock carries nothing on.
LEMMA LeavesRecord ==
  ASSUME IInv, NEW t \in Tasks, NEW op \in Ops, Alive(t), Leaves(t, op),
         UNCHANGED <<minted, dead>>, ~task[t].stood
  PROVE  \E r \in TaskType :
           /\ Set(t, r) /\ r.pc = "release" /\ task'[t] = r
           /\ Coherent(t)' /\ Honest(t)' /\ ~Fresh(t)' /\ Spent(t)' = {}
<1> DEFINE r == [Idle EXCEPT !.pc = "release", !.op = op, !.name = task[t].name,
                             !.stood = task[t].stood]
<1>1. task[t] \in TaskType
  BY Reads
<1>2. r \in TaskType
  BY <1>1, IdleTyped DEF TaskType, Pcs
<1>3. Set(t, r) /\ task'[t] = r
  BY DEF Leaves, Set, IInv, Typed
<1>4. Sound(NoDoc)'
  BY NoDocFields DEF Sound
<1>5. r.pc = "release" /\ r.buf = NoDoc /\ ~r.stood /\ r.spent = NoToken
  BY DEF Idle
<1>6. Coherent(t)' /\ Honest(t)' /\ ~Fresh(t)' /\ Spent(t)' = {}
  BY <1>3, <1>4, <1>5 DEF Coherent, Honest, Fresh, Spent, Alive
<1> QED BY <1>2, <1>3, <1>5, <1>6

-----------------------------------------------------------------------------
(* The steps that leave the file and the live tokens alone.                *)

LEMMA AskKeeps ==
  ASSUME IInv, NEW t \in Tasks, NEW mode \in {"stale", "force"}, Ask(t, mode)
  PROVE  IInv'
<1> USE DEF Ask, fate, issuer
<1> DEFINE r == [Idle EXCEPT !.pc = "queue", !.op = "refresh", !.mode = mode,
                             !.seen = Found(Wants[t])]
<1>1. Found(Wants[t]) \in Nat
  BY Reads, FoundIs DEF IInv, Typed
<1>2. r \in TaskType
  BY <1>1, IdleTyped DEF TaskType, Pcs, Ops
<1>3. Set(t, r) /\ task'[t] = r
  BY DEF Set, IInv, Typed
<1>4. r.pc = "queue" /\ r.op = "refresh" /\ r.buf = NoDoc
  BY DEF Idle
<1>5. Sound(NoDoc)'
  BY NoDocFields DEF Sound
<1>6. Coherent(t)' /\ Honest(t)' /\ ~Fresh(t)' /\ Spent(t) = {}
  BY <1>3, <1>4, <1>5 DEF Coherent, Honest, Fresh, At, Alive, Spent
<1>7. Locked'
  BY <1>2, <1>3, <1>4, StaysLocked DEF Holding
<1> HIDE DEF r
<1> QED BY <1>2, <1>3, <1>6, <1>7, Moves DEF IInv, Typed

\* A task that goes from one place to another and carries the same along.
LEMMA GoesRecord ==
  ASSUME IInv, NEW t \in Tasks, NEW pc \in Pcs, Goes(t, pc), Alive(t),
         UNCHANGED <<doc, minted, dead, live, lost>>,
         pc \in {"lock", "break", "load"}, ~task[t].stood,
         task[t].pc \in {"lock", "break"} \/ task[t].op # "save"
  PROVE  \E r \in TaskType :
           /\ Set(t, r) /\ r.pc = pc /\ r.token = task[t].token
           /\ Coherent(t)' /\ (~crossed => Honest(t)')
           /\ (Fresh(t)' => Fresh(t))
<1> DEFINE r == [task[t] EXCEPT !.pc = pc]
<1>1. task[t] \in TaskType /\ Coherent(t)
  BY Reads
<1>2. r \in TaskType /\ r.pc = pc /\ r.token = task[t].token /\ r.op = task[t].op
  BY <1>1 DEF TaskType
<1>3. Set(t, r) /\ task'[t] = r
  BY DEF Goes, Set, IInv, Typed
<1>4. Fresh(t)' => Fresh(t)
  BY <1>2, <1>3 DEF Fresh
<1>5. r.buf = task[t].buf /\ r.stood = task[t].stood /\ r.spent = task[t].spent
  BY <1>1 DEF TaskType
<1>6. Sound(task[t].buf)' 
  BY <1>1, <1>3, <1>5 DEF Coherent, Sound
<1>7. Coherent(t)'
  BY <1>1, <1>2, <1>3, <1>4, <1>5, <1>6 DEF Coherent, Alive
<1>8. ~crossed => Honest(t)'
  <2> SUFFICES ASSUME ~crossed PROVE Honest(t)'
    OBVIOUS
  <2>1. Honest(t)
    BY DEF IInv, Tidy
  <2> QED BY <1>2, <1>3, <1>4, <2>1 DEF Honest
<1> QED BY <1>2, <1>3, <1>4, <1>7, <1>8

LEMMA EnterKeeps == ASSUME IInv, NEW t \in Tasks, Enter(t) PROVE IInv'
<1> USE DEF Enter, fate, issuer
<1>0. task[t] \in TaskType /\ Coherent(t) /\ Alive(t) /\ task[t].pc = "queue"
  BY Reads DEF At
<1>1. mutex' \in [Procs -> Tasks \cup {NoTask}]
  BY DEF IInv, Typed
<1>2. CASE task[t].stood
  <2>1. Set(t, Idle) /\ task'[t] = Idle
    BY <1>2 DEF Set, IInv, Typed
  <2>2. Sound(NoDoc)'
    BY NoDocFields DEF Sound
  <2>3. Coherent(t)' /\ Honest(t)' /\ ~Fresh(t)' /\ Spent(t) = {}
    BY <1>0, <2>1, <2>2 DEF Coherent, Honest, Fresh, Spent, Idle
  <2>4. Locked'
    BY <2>1, IdleTyped, StaysLocked DEF Holding, Idle
  <2> QED BY <1>1, <2>1, <2>3, <2>4, IdleTyped, Moves DEF IInv, Typed
<1>3. CASE ~task[t].stood
  <2>1. PICK r \in TaskType :
          /\ Set(t, r) /\ r.pc = "lock" /\ r.token = task[t].token
          /\ Coherent(t)' /\ (~crossed => Honest(t)')
          /\ (Fresh(t)' => Fresh(t))
    BY <1>0, <1>3, GoesRecord DEF Pcs, Coherent
  <2>2. Locked'
    BY <2>1, StaysLocked DEF Holding
  <2>3. Spent(t) = {}
    BY <1>0 DEF Spent
  <2> QED BY <1>1, <2>1, <2>2, <2>3, Moves DEF IInv, Typed
<1> QED BY <1>2, <1>3

LEMMA ClaimKeeps == ASSUME IInv, NEW t \in Tasks, Claim(t) PROVE IInv'
<1> USE DEF Claim, fate, issuer
<1>0. task[t] \in TaskType /\ Coherent(t) /\ Alive(t) /\ task[t].pc = "lock"
  BY Reads DEF At
<1>1. PICK r \in TaskType :
        /\ Set(t, r) /\ r.pc = "load" /\ r.token = task[t].token
        /\ Coherent(t)' /\ (~crossed => Honest(t)')
        /\ (Fresh(t)' => Fresh(t))
  BY <1>0, GoesRecord DEF Pcs, Coherent
<1>2. lockfile' \in [by : Tasks \cup {NoTask}, old : BOOLEAN]
  OBVIOUS
<1>3. Locked'
  <2>1. ~crossed => \A u \in Tasks : task[u].pc \notin Holding
    BY CredentialsAssumption DEF IInv, Locked, NoLock
  <2> QED BY <1>1, <2>1 DEF Locked, Set, IInv, Typed
<1>4. Spent(t) = {}
  BY <1>0 DEF Spent
<1> QED BY <1>1, <1>2, <1>3, <1>4, Moves DEF IInv, Typed

LEMMA FindOldKeeps == ASSUME IInv, NEW t \in Tasks, FindOld(t) PROVE IInv'
<1> USE DEF FindOld, fate, issuer
<1>0. task[t] \in TaskType /\ Coherent(t) /\ Alive(t) /\ task[t].pc = "lock"
  BY Reads DEF At
<1>1. PICK r \in TaskType :
        /\ Set(t, r) /\ r.pc = "break" /\ r.token = task[t].token
        /\ Coherent(t)' /\ (~crossed => Honest(t)')
        /\ (Fresh(t)' => Fresh(t))
  BY <1>0, GoesRecord DEF Pcs, Coherent
<1>2. Locked'
  BY <1>1, StaysLocked DEF Holding
<1>3. Spent(t) = {}
  BY <1>0 DEF Spent
<1> QED BY <1>1, <1>2, <1>3, Moves DEF IInv, Typed

\* What is removed by its name was the old lock, or none, or they are crossed.
LEMMA BreakKeeps == ASSUME IInv, NEW t \in Tasks, Break(t) PROVE IInv'
<1> USE DEF Break, issuer
<1>0. task[t] \in TaskType /\ Coherent(t) /\ Alive(t) /\ task[t].pc = "break"
  BY Reads DEF At
<1>1. PICK r \in TaskType :
        /\ Set(t, r) /\ r.pc = "lock" /\ r.token = task[t].token
        /\ Coherent(t)' /\ (~crossed => Honest(t)')
        /\ (Fresh(t)' => Fresh(t))
  BY <1>0, GoesRecord DEF Pcs, Coherent
<1>2. /\ lockfile' \in [by : Tasks \cup {NoTask}, old : BOOLEAN]
      /\ crossed' \in BOOLEAN /\ (crossed => crossed')
  BY DEF NoLock, IInv, Typed
<1>3. Locked'
  <2>1. ASSUME ~crossed' PROVE \A u \in Tasks : task[u].pc \notin Holding
    <3>1. ~crossed /\ (lockfile = NoLock \/ lockfile.old)
      BY <2>1
    <3>2. \A u \in Tasks : task[u].pc \in Holding => lockfile.by = u
      BY <3>1 DEF IInv, Locked
    <3>3. CASE lockfile = NoLock
      BY <3>2, <3>3, CredentialsAssumption DEF NoLock
    <3>4. CASE lockfile.old
      <4>1. lockfile.by \in Tasks /\ task[lockfile.by].pc = "idle"
        BY <3>4 DEF IInv, Locked, Coherent, Alive
      <4> QED BY <3>2, <4>1 DEF Holding
    <3> QED BY <3>1, <3>3, <3>4
  <2> QED BY <1>1, <2>1 DEF Locked, Set, IInv, Typed, NoLock, Holding
<1>4. Spent(t) = {}
  BY <1>0 DEF Spent
<1> QED BY <1>1, <1>2, <1>3, <1>4, Moves DEF IInv, Typed

LEMMA TimeOutKeeps == ASSUME IInv, NEW t \in Tasks, TimeOut(t) PROVE IInv'
<1> USE DEF TimeOut, fate, issuer
<1>0. task[t] \in TaskType /\ Alive(t) /\ task[t].pc = "lock"
  BY Reads DEF At
<1> DEFINE r == IF task[t].op = "refresh"
                THEN [Idle EXCEPT !.pc = "finish", !.op = "refresh"] ELSE Idle
<1>1. r \in TaskType /\ r.pc \in {"finish", "idle"} /\ r.op # "save" /\ ~r.stood /\ r.buf = NoDoc
      /\ r.spent = NoToken
  BY IdleTyped DEF TaskType, Pcs, Ops, Idle
<1>2. Set(t, r) /\ task'[t] = r
  BY DEF Set, IInv, Typed
<1> HIDE DEF r
<1>3. Sound(NoDoc)'
  BY NoDocFields DEF Sound
<1>4. Coherent(t)' /\ Honest(t)' /\ ~Fresh(t)' /\ Spent(t) = {}
  BY <1>0, <1>1, <1>2, <1>3 DEF Coherent, Honest, Fresh, Spent, Alive
<1>5. Locked'
  BY <1>1, <1>2, StaysLocked DEF Holding
<1> QED BY <1>1, <1>2, <1>4, <1>5, Moves DEF IInv, Typed

LEMMA AgeKeeps == ASSUME IInv, Age PROVE IInv'
<1> USE DEF Age, fate, issuer
<1>1. lockfile' \in [by : Tasks \cup {NoTask}, old : BOOLEAN] /\ lockfile'.by = lockfile.by
  BY DEF IInv, Typed
<1>2. lockfile.by \in Tasks
  <2>1. lockfile.by # NoTask \/ lockfile.old
    BY DEF IInv, Typed, NoLock
  <2> QED BY <2>1 DEF IInv, Typed
<1>3. Locked'
  BY <1>1, <1>2 DEF IInv, Locked
<1>4. \A u \in Tasks : task'[u] = task[u] /\ (Alive(u) => Alive(u)') /\ (Fresh(u)' <=> Fresh(u))
                       /\ Spent(u)' = Spent(u)
  BY DEF Alive, Fresh, Spent
<1>5. /\ Typed /\ task' \in [Tasks -> TaskType] /\ mutex' \in [Procs -> Tasks \cup {NoTask}]
      /\ dead' \subseteq Procs /\ crossed' \in BOOLEAN
  BY DEF IInv, Typed
<1> QED BY <1>1, <1>3, <1>4, <1>5, Frame

LEMMA ReleaseKeeps == ASSUME IInv, NEW t \in Tasks, Release(t) PROVE IInv'
<1> USE DEF Release, fate, issuer
<1>0. task[t] \in TaskType /\ Coherent(t) /\ Alive(t) /\ task[t].pc = "release"
  BY Reads DEF At
<1>1. PICK r \in TaskType :
        /\ Set(t, r) /\ r.pc \in {"lock", "finish", "idle"} /\ ~r.stood /\ r.op # "save"
        /\ r.buf \in {NoDoc, task[t].buf}
  <2>1. CASE task[t].op = "saved"
    <3> DEFINE r == [task[t] EXCEPT !.pc = "lock", !.op = "activate"]
    <3>1. Set(t, r)
      BY <2>1
    <3>2. /\ r \in TaskType /\ r.pc = "lock" /\ ~r.stood /\ r.op = "activate"
          /\ r.buf = task[t].buf
      BY <1>0 DEF TaskType, Pcs, Ops, Coherent
    <3> HIDE DEF r
    <3> QED BY <3>1, <3>2
  <2>2. CASE task[t].op = "refresh"
    <3> DEFINE r == [task[t] EXCEPT !.pc = "finish"]
    <3>1. Set(t, r)
      BY <2>2
    <3>2. /\ r \in TaskType /\ r.pc = "finish" /\ ~r.stood /\ r.op = "refresh"
          /\ r.buf = task[t].buf
      BY <1>0, <2>2 DEF TaskType, Pcs, Ops, Coherent
    <3> HIDE DEF r
    <3> QED BY <3>1, <3>2
  <2>3. CASE task[t].op \notin {"saved", "refresh"}
    <3>1. Set(t, Idle)
      BY <2>3
    <3> QED BY <3>1, IdleTyped DEF Idle
  <2> QED BY <2>1, <2>2, <2>3
<1>2. task'[t] = r
  BY <1>1 DEF Set, IInv, Typed
<1>3. Coherent(t)' /\ Honest(t)' /\ ~Fresh(t)' /\ Spent(t) = {}
  <2>1. Sound(task[t].buf)'
    BY <1>0, <1>1, <1>2, NoDocFields DEF Sound, Coherent
  <2>2. r.spent = NoToken \/ r.op # "save"
    BY <1>1
  <2> QED BY <1>0, <1>1, <1>2, <2>1 DEF Coherent, Honest, Fresh, Spent, Alive
<1>4. lockfile' \in [by : Tasks \cup {NoTask}, old : BOOLEAN]
  BY DEF NoLock
<1>5. Locked'
  <2>1. ASSUME ~crossed, NEW u \in Tasks PROVE task'[u].pc \notin Holding
    <3>1. u = t => task'[u].pc \notin Holding
      BY <1>1, <1>2 DEF Holding
    <3>2. u # t => task'[u] = task[u] /\ task[u].pc \notin Holding
      BY <1>0, <1>1, <2>1, Alone DEF Set, IInv, Typed, Holding
    <3> QED BY <3>1, <3>2
  <2> QED BY <2>1 DEF Locked, NoLock
<1> QED BY <1>1, <1>2, <1>3, <1>4, <1>5, Moves DEF IInv, Typed

LEMMA LoadKeeps == ASSUME IInv, NEW t \in Tasks, Load(t) PROVE IInv'
<1> USE DEF Load, fate, issuer
<1> DEFINE found == Found(Wants[t])
<1>0. /\ task[t] \in TaskType /\ Coherent(t) /\ Alive(t) /\ task[t].pc = "load"
      /\ task[t].op = "refresh" /\ ~task[t].stood
  BY Reads DEF Loading, At, Coherent
<1>1. ASSUME NEW r \in TaskType, Set(t, r), r.pc \in Holding,
             Coherent(t)', ~crossed => Honest(t)', ~Fresh(t)'
      PROVE  IInv'
  <2>1. Locked'
    BY <1>0, <1>1, StaysLocked DEF Holding
  <2>2. Spent(t) = {}
    BY <1>0 DEF Spent
  <2> QED BY <1>1, <2>1, <2>2, Moves DEF IInv, Typed
<1>2. ASSUME NEW op \in Ops, Leaves(t, op) PROVE IInv'
  <2>1. PICK r \in TaskType :
          /\ Set(t, r) /\ r.pc = "release" /\ task'[t] = r
          /\ Coherent(t)' /\ Honest(t)' /\ ~Fresh(t)' /\ Spent(t)' = {}
    BY <1>0, <1>2, LeavesRecord
  <2> QED BY <1>1, <2>1 DEF Holding
<1>3. CASE Fails(t) \/ Leaves(t, "refresh")
  BY <1>0, <1>2, <1>3 DEF Fails, Ops
<1>4. CASE /\ found # NoToken
           /\ Set(t, [task[t] EXCEPT !.pc = "exchange", !.token = found,
                         !.seen = NoToken, !.mine = OwnToken(Wants[t]) # NoToken])
  <2>1. PICK r \in TaskType :
          /\ r = [task[t] EXCEPT !.pc = "exchange", !.token = found,
                         !.seen = NoToken, !.mine = OwnToken(Wants[t]) # NoToken]
          /\ Set(t, r)
    <3>1. found \in Nat
      BY Reads, FoundIs DEF IInv, Typed
    <3> QED BY <1>0, <1>4, <3>1 DEF TaskType, Pcs, NoToken
  <2>2. /\ task'[t] = r /\ r.pc = "exchange" /\ r.op = "refresh" /\ r.token = found /\ ~r.stood
        /\ r.mine <=> OwnToken(Wants[t]) # NoToken
        /\ r.buf = task[t].buf
    BY <1>0, <2>1 DEF Set, IInv, Typed, TaskType
  <2>3. found \in 1..minted
    BY <1>4, Reads, FoundIs DEF IInv, Typed, NoToken
  <2>4. Coherent(t)' /\ ~Fresh(t)'
    <3>1. Sound(task[t].buf)'
      BY <1>0, <2>2 DEF Coherent, Sound
    <3> QED BY <1>0, <2>2, <2>3, <3>1 DEF Coherent, Fresh, Alive
  <2>5. ASSUME ~crossed PROVE Honest(t)'
    <3>0. doc \in Docs /\ Sound(doc) /\ Wants[t] \in Accounts \cup {InForce}
      BY Reads DEF IInv, Typed
    <3>1. OwnToken(Wants[t])' = OwnToken(Wants[t])
      BY DEF OwnToken
    <3>2. Presents(t, found)'
      <4>1. r.mine => found = OwnToken(Wants[t])
        BY <2>2, <3>0, FoundIs, Reads DEF IInv, Typed
      <4>2. ~r.mine => found \in ForeignTokens
        BY <1>4, <2>2, <3>0, FoundIs, Reads DEF IInv, Typed
      <4> QED BY <2>2, <3>1, <4>1, <4>2 DEF Presents, Found, OwnToken, ForeignToken
    <3>3. found \in live \cup lost \cup ForeignTokens
      <4>1. CASE OwnToken(Wants[t]) # NoToken
        <5>1. PICK a \in DOMAIN doc.held : found = doc.held[a]
          BY <3>0, <4>1, OwnIs, FoundIs, Reads DEF IInv, Typed
        <5>2. \A u \in Tasks : Spent(u) = {}
          BY <1>0, <2>5, Alone DEF Spent, Holding
        <5> QED BY <2>5, <5>1, <5>2 DEF IInv, Tidy, StoredIsLive
      <4>2. CASE OwnToken(Wants[t]) = NoToken
        BY <1>4, <3>0, <4>2, FoundIs, Reads DEF IInv, Typed
      <4> QED BY <4>1, <4>2
    <3>4. task'[t].token = found
      BY <2>2
    <3> QED BY <2>2, <2>4, <3>2, <3>3, <3>4 DEF Honest, Found, OwnToken, ForeignToken
  <2> QED BY <1>1, <2>1, <2>2, <2>4, <2>5 DEF Holding
<1> QED BY <1>3, <1>4

\* To leave what was done under the lock, with nothing but a spent token lost.
LEMMA LeavesKeeps ==
  ASSUME IInv, NEW t \in Tasks, NEW op \in Ops, Alive(t), Leaves(t, op),
         task[t].pc \in Holding,
         UNCHANGED <<doc, lockfile, mutex, dead, crossed, live, minted>>,
         lost \cup Spent(t) \subseteq lost'
  PROVE  IInv'
<1>0. ~task[t].stood
  BY Reads DEF Coherent, Holding
<1>1. PICK r \in TaskType :
        /\ Set(t, r) /\ r.pc = "release" /\ task'[t] = r
        /\ Coherent(t)' /\ Honest(t)' /\ ~Fresh(t)' /\ Spent(t)' = {}
  BY <1>0, LeavesRecord
<1>2. Locked'
  BY <1>1, StaysLocked DEF Holding
<1> QED BY <1>1, <1>2, Moves DEF IInv, Typed

LEMMA RefusedKeeps == ASSUME IInv, NEW t \in Tasks, Refused(t) PROVE IInv'
<1> USE DEF Refused, fate, issuer
<1>1. /\ Alive(t) /\ task[t].pc = "exchange" /\ task[t].op = "refresh"
      /\ Leaves(t, "refresh") /\ Spent(t) = {}
  BY Reads DEF At, Fails, Coherent, Spent
<1> QED BY <1>1, LeavesKeeps DEF Holding, Ops

\* Those who wait for a refresh that ends carry nothing yet.
LEMMA FinishKeeps == ASSUME IInv, NEW t \in Tasks, Finish(t) PROVE IInv'
<1> USE DEF Finish, fate, issuer
<1>0. task[t].pc = "finish"
  BY DEF At
<1>1. ASSUME NEW u \in Tasks
      PROVE  \/ task'[u] = task[u]
             \/ task'[u] = Idle /\ u = t
             \/ task'[u] = [task[u] EXCEPT !.stood = TRUE] /\ task[u].pc = "queue"
  OBVIOUS
<1>2. ASSUME NEW u \in Tasks
      PROVE  /\ task'[u] \in TaskType
             /\ \/ task'[u] = task[u]
                \/ Coherent(u)' /\ Honest(u)'
             /\ Fresh(u)' => Fresh(u) /\ task'[u] = task[u]
             /\ Spent(u) = Spent(u)'
             /\ task'[u].pc \in Holding => task[u].pc \in Holding
  <2>0. task[u] \in TaskType /\ Coherent(u)
    BY Reads
  <2>1. CASE task'[u] = task[u]
    BY <2>0, <2>1 DEF Fresh, Spent
  <2>2. CASE task'[u] = Idle /\ u = t
    <3>1. Sound(NoDoc)'
      BY NoDocFields DEF Sound
    <3> QED BY <1>0, <2>2, <3>1, IdleTyped DEF Coherent, Honest, Fresh, Spent, Holding, Idle
  <2>3. CASE task'[u] = [task[u] EXCEPT !.stood = TRUE] /\ task[u].pc = "queue"
    <3>1. /\ task'[u] \in TaskType /\ task'[u].pc = "queue" /\ task'[u].op = "refresh"
          /\ task'[u].buf = task[u].buf
      BY <2>0, <2>3 DEF TaskType, Coherent
    <3>2. Sound(task[u].buf)'
      BY <2>0, <3>1 DEF Sound, Coherent
    <3>3. Alive(u) /\ Alive(u)'
      BY <2>0, <2>3 DEF Coherent, Alive
    <3> QED BY <2>3, <3>1, <3>2, <3>3 DEF Coherent, Honest, Fresh, Spent, Holding
  <2> QED BY <1>1, <2>1, <2>2, <2>3
<1>3. Locked'
  BY <1>2 DEF IInv, Locked
<1>4. /\ mutex' \in [Procs -> Tasks \cup {NoTask}] /\ task' \in [Tasks -> TaskType]
      /\ lockfile' \in [by : Tasks \cup {NoTask}, old : BOOLEAN]
      /\ dead' \subseteq Procs /\ crossed' \in BOOLEAN
      /\ \A u \in Tasks : Alive(u)' <=> Alive(u)
  BY <1>2 DEF IInv, Typed, Alive
<1> QED BY <1>2, <1>3, <1>4, Frame

\* A process that dies loses what its tasks had spent and not stored.
LEMMA DieKeeps == ASSUME IInv, NEW p \in Procs, Die(p) PROVE IInv'
<1> USE DEF Die
<1>1. ASSUME NEW u \in Tasks
      PROVE  /\ task'[u] \in TaskType
             /\ \/ task'[u] = task[u] /\ (Alive(u) => Alive(u)')
                \/ Coherent(u)' /\ Honest(u)'
             /\ Fresh(u)' => Fresh(u) /\ task'[u] = task[u]
             /\ Spent(u) \subseteq Spent(u)' \cup lost'
             /\ task'[u].pc \in Holding => task[u].pc \in Holding
  <2>0. task[u] \in TaskType
    BY Reads
  <2>1. CASE ProcOf[u] = p
    <3>1. Sound(NoDoc)'
      BY NoDocFields DEF Sound
    <3>2. task'[u] = Idle
      BY <2>1
    <3>3. Spent(u) \subseteq lost'
      BY <2>1
    <3>4. Coherent(u)' /\ Honest(u)' /\ ~Fresh(u)' /\ task'[u].pc \notin Holding
      BY <3>1, <3>2 DEF Coherent, Honest, Fresh, Holding, Idle
    <3> QED BY <3>2, <3>3, <3>4, IdleTyped
  <2>2. CASE ProcOf[u] # p
    BY <2>0, <2>2 DEF Fresh, Spent, Alive
  <2> QED BY <2>1, <2>2
<1>2. Locked'
  BY <1>1 DEF IInv, Locked
<1>3. /\ mutex' \in [Procs -> Tasks \cup {NoTask}] /\ task' \in [Tasks -> TaskType]
      /\ lockfile' \in [by : Tasks \cup {NoTask}, old : BOOLEAN]
      /\ dead' \subseteq Procs /\ crossed' \in BOOLEAN
  BY <1>1 DEF IInv, Typed
<1> QED BY <1>1, <1>2, <1>3, Frame

LEMMA MergeKeeps == ASSUME IInv, NEW t \in Tasks, Merge(t) PROVE IInv'
<1> USE DEF Merge, fate, issuer
<1> DEFINE buf == Put(doc, Target(t), task[t].token)
<1>0. /\ task[t] \in TaskType /\ Coherent(t) /\ Alive(t) /\ Fresh(t) /\ ~task[t].stood
      /\ \/ task[t].pc = "put" /\ task[t].op = "refresh"
         \/ task[t].pc = "load" /\ task[t].op = "save"
      /\ task[t].token \in 1..minted
  BY Reads DEF Loading, At, Coherent, Fresh
<1>1. buf \in Docs /\ Sound(buf)
  BY <1>0, Reads, PutIs DEF IInv, Typed
<1>2. PICK r \in TaskType : r = [task[t] EXCEPT !.pc = "commit", !.buf = buf] /\ Set(t, r)
  BY <1>0, <1>1 DEF TaskType, Pcs
<1>3. /\ task'[t] = r /\ r.pc = "commit" /\ r.op = task[t].op /\ r.token = task[t].token
      /\ ~r.stood /\ r.spent = task[t].spent /\ r.mine = task[t].mine /\ r.buf = buf
      /\ r.name = task[t].name
  BY <1>0, <1>2 DEF Set, IInv, Typed, TaskType
<1>4. Sound(buf)' /\ Target(t)' = Target(t) /\ task'[t].buf = Put(doc, Target(t), task[t].token)
  BY <1>1, <1>3 DEF Sound, Put, Target
<1>5. Coherent(t)' /\ Fresh(t)'
  <2>1. Fresh(t)'
    BY <1>3 DEF Fresh
  <2>2. Sound(task[t].buf)'
    BY <1>1, <1>3 DEF Sound
  <2> QED BY <1>0, <1>3, <2>1, <2>2 DEF Coherent, Alive
<1>6. ASSUME ~crossed PROVE Honest(t)'
  <2>1. Honest(t)
    BY <1>6 DEF IInv, Tidy
  <2>2. OwnToken(Wants[t])' = OwnToken(Wants[t])
    BY DEF OwnToken
  <2>3. r.op = "refresh" => Presents(t, r.spent)'
    BY <1>0, <1>3, <2>1, <2>2 DEF Honest, Presents
  <2>4. task'[t].buf = Put(doc, Target(t), task[t].token)'
    BY <1>3, <1>4 DEF Put
  <2> QED BY <1>0, <1>3, <1>5, <2>1, <2>3, <2>4 DEF Honest
<1>7. Spent(t) \subseteq Spent(t)'
  BY <1>3 DEF Spent
<1>8. Locked'
  BY <1>0, <1>2, <1>3, StaysLocked DEF Holding
<1> QED BY <1>0, <1>2, <1>3, <1>5, <1>6, <1>7, <1>8, Moves DEF IInv, Typed

-----------------------------------------------------------------------------
(* The steps that mint a token or write the file.                          *)

\* A token is minted, and what it replaces is spent by a task that has the lock.
LEMMA Mints ==
  ASSUME IInv, NEW t \in Tasks, NEW r \in TaskType, Set(t, r), NEW gone \in SUBSET live,
         UNCHANGED <<doc, lockfile, mutex, dead, crossed>>,
         minted < MaxTokens, minted' = minted + 1, live' = (live \ gone) \cup {minted + 1},
         lost \subseteq lost', Spent(t) = {},
         ~crossed => /\ gone \subseteq Spent(t)' \cup lost'
                     /\ \A g \in gone : \/ g \in ForeignTokens
                                        \/ \E a \in DOMAIN doc.held : doc.held[a] = g,
         gone = {} \/ task[t].pc \in Holding,
         r.pc \in Holding => task[t].pc \in Holding,
         Coherent(t)', ~crossed => Honest(t)',
         Fresh(t)' => r.token = minted + 1
  PROVE  IInv'
<1>1. /\ task' \in [Tasks -> TaskType]
      /\ task'[t] = r
      /\ \A u \in Tasks \ {t} : task'[u] = task[u]
  BY DEF Set, IInv, Typed
<1>2. \A u \in Tasks \ {t} : /\ Fresh(u)' <=> Fresh(u)
                             /\ Spent(u)' = Spent(u)
                             /\ Alive(u)' <=> Alive(u)
  BY <1>1 DEF Fresh, Spent, Alive
<1>3. minted \in Nat /\ FirstTokens \in Nat /\ MaxTokens \in Nat
  BY Reads, CredentialsAssumption
<1>4. Typed'
  <2>1. live' \subseteq 1..minted'
    BY <1>3 DEF IInv, Typed
  <2>2. minted' \in FirstTokens..MaxTokens
    BY <1>3 DEF IInv, Typed
  <2> QED BY <1>1, <2>1, <2>2 DEF IInv, Typed
<1>5. ASSUME NEW d \in Docs, Sound(d) PROVE Sound(d)'
  BY <1>3, <1>5, DocFields, CredentialsAssumption DEF Sound
<1>6. Locked'
  BY <1>1, StaysLocked
<1>7. ASSUME NEW u \in Tasks PROVE Coherent(u)'
  <2>1. CASE u # t
    <3>1. Coherent(u) /\ task[u] \in TaskType /\ task'[u] = task[u]
      BY <1>1, <2>1, Reads
    <3>2. Sound(task[u].buf)'
      BY <1>5, <3>1 DEF Coherent, TaskType
    <3> QED BY <1>2, <1>3, <2>1, <3>1, <3>2 DEF Coherent
  <2> QED BY <2>1
<1>8. ASSUME ~crossed PROVE Tidy'
  <2>0. Tidy
    BY <1>8 DEF IInv
  <2>1. Apart'
    <3>1. ASSUME NEW u \in Tasks \ {t}, Fresh(u) PROVE task[u].token # minted + 1
      BY <1>3, <3>1, Reads DEF Coherent
    <3> QED BY <1>1, <1>2, <2>0, <3>1 DEF Tidy, Apart
  <2>2. StoredIsLive'
    <3> SUFFICES ASSUME NEW a \in DOMAIN doc.held
        PROVE doc.held[a] \in live' \cup lost' \cup ForeignTokens \cup UNION {Spent(u)' : u \in Tasks}
      BY DEF StoredIsLive
    <3>1. doc.held[a] \in live \cup lost \cup ForeignTokens \cup UNION {Spent(u) : u \in Tasks}
      BY <1>8, <2>0 DEF Tidy, StoredIsLive
    <3>2. \A u \in Tasks : Spent(u) \subseteq Spent(u)'
      BY <1>2
    <3> QED BY <1>8, <3>1, <3>2
  <2>3. ASSUME NEW u \in Tasks \ {t} PROVE Honest(u)'
    <3>0. Honest(u) /\ task'[u] = task[u]
      BY <1>1, <2>0 DEF Tidy
    <3>1. /\ OwnToken(Wants[u])' = OwnToken(Wants[u])
          /\ Target(u)' = Target(u)
      BY <3>0 DEF OwnToken, Target
    <3>2. task[u].pc = "exchange" => gone = {}
      BY <1>8, Alone DEF Holding
    <3>3. Fresh(u) => task[u].token \in live' \cup ForeignTokens
      BY <1>8, <3>0 DEF Honest
    <3> QED BY <1>2, <3>0, <3>1, <3>2, <3>3 DEF Honest, Presents
  <2> QED BY <1>8, <2>1, <2>2, <2>3 DEF Tidy
<1> QED BY <1>4, <1>5, <1>6, <1>7, <1>8 DEF IInv, Typed

LEMMA LogoutKeeps == ASSUME IInv, NEW t \in Tasks, Logout(t) PROVE IInv'
<1> USE DEF Logout, fate, issuer
<1> DEFINE r == [Idle EXCEPT !.pc = "lock", !.op = "delete"]
<1>1. r \in TaskType /\ r.pc = "lock" /\ r.op = "delete" /\ r.buf = NoDoc /\ ~r.stood
  BY IdleTyped DEF TaskType, Pcs, Ops, Idle
<1>2. Set(t, r) /\ task'[t] = r
  BY DEF Set, IInv, Typed
<1> HIDE DEF r
<1>3. Sound(NoDoc)'
  BY NoDocFields DEF Sound
<1>4. Coherent(t)' /\ Honest(t)' /\ ~Fresh(t)' /\ Spent(t) = {}
  BY <1>1, <1>2, <1>3 DEF Coherent, Honest, Fresh, Spent, Alive, At
<1>5. Locked'
  BY <1>1, <1>2, StaysLocked DEF Holding
<1> QED BY <1>1, <1>2, <1>4, <1>5, Moves DEF IInv, Typed

\* A task that comes with the token of a login.
Brings(a, token) ==
  [Idle EXCEPT !.pc = "lock", !.op = "save", !.name = a, !.token = token]

LEMMA BringsRecord ==
  ASSUME IInv, NEW t \in Tasks, NEW a \in Accounts, NEW token \in Nat,
         token \in 1..minted', UNCHANGED dead, Alive(t), Set(t, Brings(a, token))
  PROVE  \E r \in TaskType :
           /\ Set(t, r) /\ r.pc = "lock" /\ r.token = token /\ task'[t] = r
           /\ Coherent(t)' /\ Fresh(t)'
<1> DEFINE r == Brings(a, token)
<1>0. Idle \in TaskType
  BY IdleTyped
<1>1. /\ r \in TaskType /\ r.pc = "lock" /\ r.op = "save" /\ r.buf = NoDoc /\ ~r.stood
      /\ r.token = token /\ r.spent = NoToken
  BY <1>0 DEF Brings, TaskType, Pcs, Ops, Idle
<1>2. Set(t, r) /\ task'[t] = r
  BY DEF Set, IInv, Typed
<1> HIDE DEF r
<1>3. Sound(NoDoc)'
  BY NoDocFields DEF Sound
<1>4. Coherent(t)' /\ Fresh(t)'
  BY <1>1, <1>2, <1>3 DEF Coherent, Fresh, Alive
<1> QED BY <1>1, <1>2, <1>4

LEMMA LoginKeeps == ASSUME IInv, NEW t \in Tasks, Login(t) PROVE IInv'
<1>0. task[t].pc = "idle" /\ Alive(t) /\ Spent(t) = {}
  BY DEF Login, At, Spent
<1>2. UNCHANGED <<doc, lockfile, mutex, dead, crossed>>
  BY DEF Login, fate
<1>1. minted \in Nat /\ FirstTokens \in Nat /\ FirstTokens <= minted
  BY Reads
<1>3. CASE /\ \E a \in DOMAIN Foreign :
                Set(t, [Idle EXCEPT !.pc = "lock", !.op = "save", !.name = a,
                                    !.token = Foreign[a]])
           /\ UNCHANGED issuer
  <2>1. PICK a \in DOMAIN Foreign : Set(t, Brings(a, Foreign[a]))
    BY <1>3 DEF Brings
  <2>2. a \in Accounts /\ Foreign[a] \in Nat /\ Foreign[a] \in 1..minted' /\ Foreign[a] \in ForeignTokens
    <3>1. Foreign[a] \in ForeignTokens /\ minted' = minted
      BY <1>3 DEF ForeignTokens, issuer
    <3> QED BY <1>1, <3>1, SizesTyped, CredentialsAssumption
  <2>3. PICK r \in TaskType :
          /\ Set(t, r) /\ r.pc = "lock" /\ r.token = Foreign[a] /\ task'[t] = r
          /\ Coherent(t)' /\ Fresh(t)'
    BY <1>0, <1>2, <2>1, <2>2, BringsRecord
  <2>4. Honest(t)'
    BY <2>2, <2>3 DEF Honest
  <2>5. Locked'
    BY <1>2, <2>3, StaysLocked DEF Holding
  <2> QED BY <1>0, <1>2, <1>3, <2>2, <2>3, <2>4, <2>5, Moves DEF IInv, Typed, issuer
<1>4. CASE /\ minted < MaxTokens
           /\ minted' = minted + 1
           /\ live' = live \cup {minted + 1}
           /\ \E a \in Accounts :
                Set(t, [Idle EXCEPT !.pc = "lock", !.op = "save", !.name = a,
                                    !.token = minted + 1])
           /\ UNCHANGED lost
  <2>1. PICK a \in Accounts : Set(t, Brings(a, minted + 1))
    BY <1>4 DEF Brings
  <2>2. minted + 1 \in 1..minted' /\ minted' \in Nat /\ minted <= minted'
    BY <1>1, <1>4
  <2>3. PICK r \in TaskType :
          /\ Set(t, r) /\ r.pc = "lock" /\ r.token = minted + 1 /\ task'[t] = r
          /\ Coherent(t)' /\ Fresh(t)'
    BY <1>0, <1>2, <1>1, <2>1, <2>2, BringsRecord
  <2>4. \A b \in DOMAIN doc.held : doc.held[b] # minted + 1
    BY <1>1, DocFields, CredentialsAssumption DEF IInv, Typed, Sound
  <2>5. Honest(t)'
    BY <1>2, <1>4, <2>3, <2>4 DEF Honest
  <2>6. live' = (live \ {}) \cup {minted + 1}
    BY <1>4
  <2> QED BY <1>0, <1>2, <1>4, <2>3, <2>5, <2>6, Mints DEF Holding
<1> QED BY <1>3, <1>4 DEF Login

LEMMA ExchangeKeeps == ASSUME IInv, NEW t \in Tasks, Exchange(t) PROVE IInv'
<1> USE DEF fate
<1> DEFINE token == task[t].token
<1>0. /\ task[t] \in TaskType /\ Coherent(t) /\ Alive(t)
      /\ task[t].pc = "exchange" /\ task[t].op = "refresh" /\ ~task[t].stood
      /\ Spent(t) = {} /\ task[t].pc \in Holding
  BY Reads DEF Exchange, At, Coherent, Spent, Holding
<1>1. minted \in Nat /\ FirstTokens \in Nat /\ FirstTokens <= minted /\ token \in 1..minted
  BY <1>0, Reads DEF Coherent
<1>2. /\ UNCHANGED <<doc, lockfile, mutex, dead, crossed>>
      /\ token \in live /\ minted < MaxTokens /\ minted' = minted + 1
      /\ live' = (live \ {token}) \cup {minted + 1}
      /\ {token} \in SUBSET live
  BY DEF Exchange
<1>3. ASSUME ~crossed
      PROVE  /\ Presents(t, token)
             /\ token \in ForeignTokens \/ \E a \in DOMAIN doc.held : doc.held[a] = token
  <2>1. Presents(t, token)
    BY <1>0, <1>3 DEF IInv, Tidy, Honest
  <2>2. task[t].mine => \E a \in DOMAIN doc.held : doc.held[a] = token
    BY <2>1, Reads, OwnIs DEF IInv, Typed, Presents
  <2> QED BY <2>1, <2>2 DEF Presents
<1>4. CASE /\ Set(t, [task[t] EXCEPT !.pc = "put", !.token = minted + 1, !.spent = task[t].token])
           /\ UNCHANGED lost
  <2>1. PICK r \in TaskType :
          /\ r = [task[t] EXCEPT !.pc = "put", !.token = minted + 1, !.spent = task[t].token]
          /\ Set(t, r)
    <3>1. minted + 1 \in Nat /\ task[t].token \in Nat
      BY <1>1
    <3>2. [task[t] EXCEPT !.pc = "put", !.token = minted + 1, !.spent = task[t].token]
            \in TaskType
      BY <1>0, <3>1 DEF TaskType, Pcs
    <3> QED BY <1>4, <3>2
  <2>2. /\ task'[t] = r /\ r.pc = "put" /\ r.op = "refresh" /\ r.token = minted + 1
        /\ ~r.stood /\ r.spent = token /\ r.mine = task[t].mine /\ r.buf = task[t].buf
    BY <1>0, <2>1 DEF Set, IInv, Typed, TaskType
  <2>3. Sound(task[t].buf)'
    <3>1. task[t].buf \in Docs
      BY <1>0 DEF TaskType
    <3> QED BY <1>0, <1>1, <1>2, <2>2, <3>1, DocFields, CredentialsAssumption
            DEF Sound, Coherent
  <2>4. Coherent(t)' /\ Fresh(t)'
    BY <1>0, <1>1, <1>2, <2>2, <2>3 DEF Coherent, Fresh, Alive
  <2>5. ASSUME ~crossed PROVE Honest(t)'
    <3>1. OwnToken(Wants[t])' = OwnToken(Wants[t])
      BY <1>2 DEF OwnToken
    <3>2. Presents(t, token)
      BY <1>3, <2>5
    <3>3. Presents(t, task[t].spent)'
      BY <2>2, <3>1, <3>2 DEF Presents
    <3>4. \A a \in DOMAIN doc.held : doc.held[a] # minted + 1
      BY <1>1, DocFields, CredentialsAssumption DEF IInv, Typed, Sound
    <3> QED BY <1>2, <2>2, <3>3, <3>4 DEF Honest
  <2>6. Spent(t)' = {token}
    BY <1>1, <2>2 DEF Spent, NoToken
  <2>7. lost \subseteq lost' /\ (~crossed => {token} \subseteq Spent(t)' \cup lost')
    BY <1>4, <2>6
  <2>8. ~crossed => \A g \in {token} : \/ g \in ForeignTokens
                                       \/ \E a \in DOMAIN doc.held : doc.held[a] = g
    BY <1>3
  <2>9. r.pc \in Holding => task[t].pc \in Holding
    BY <1>0
  <2> HIDE DEF token
  <2> QED BY <1>0, <1>2, <2>1, <2>2, <2>4, <2>5, <2>7, <2>8, <2>9, Mints
<1>5. CASE Fails(t) /\ lost' = lost \cup {token}
  <2>0. Leaves(t, "refresh")
    BY <1>0, <1>5 DEF Fails
  <2> DEFINE r == [Idle EXCEPT !.pc = "release", !.op = "refresh", !.name = task[t].name,
                               !.stood = task[t].stood]
  <2>1. r \in TaskType /\ Set(t, r)
    BY <1>0, <2>0, IdleTyped DEF TaskType, Pcs, Ops, Leaves
  <2>2. task'[t] = r /\ r.pc = "release" /\ r.op = "refresh" /\ ~r.stood /\ r.buf = NoDoc
        /\ r.spent = NoToken
    BY <1>0, <2>1 DEF Set, IInv, Typed, Idle
  <2> HIDE DEF r
  <2>3. Sound(NoDoc)'
    BY NoDocFields DEF Sound
  <2>4. Coherent(t)' /\ Honest(t)' /\ ~Fresh(t)'
    BY <1>0, <1>2, <2>2, <2>3 DEF Coherent, Honest, Fresh, Alive
  <2>7. lost \subseteq lost' /\ (~crossed => {token} \subseteq Spent(t)' \cup lost')
    BY <1>5
  <2>8. ~crossed => \A g \in {token} : \/ g \in ForeignTokens
                                       \/ \E a \in DOMAIN doc.held : doc.held[a] = g
    BY <1>3
  <2>9. r.pc \in Holding => task[t].pc \in Holding
    BY <1>0
  <2> HIDE DEF token
  <2> QED BY <1>0, <1>2, <2>1, <2>2, <2>4, <2>7, <2>8, <2>9, Mints
<1> QED BY <1>4, <1>5 DEF Exchange

\* The file is written by a task that has the lock, and leaves it then.
LEMMA Writes ==
  ASSUME IInv, NEW t \in Tasks, NEW op \in Ops, Alive(t), Leaves(t, op),
         task[t].pc \in Holding,
         UNCHANGED <<lockfile, mutex, dead, crossed, live, minted, lost>>,
         doc' \in Docs, Sound(doc)',
         ~crossed =>
           /\ \A a, b \in DOMAIN doc'.held :
                doc'.held[a] = doc'.held[b] /\ a # b => doc'.held[a] \in ForeignTokens
           /\ \A a \in DOMAIN doc'.held : doc'.held[a] \in live \cup lost \cup ForeignTokens
           /\ \A u \in Tasks \ {t} : Fresh(u) /\ task[u].token \notin ForeignTokens
                => \A a \in DOMAIN doc'.held : doc'.held[a] # task[u].token
  PROVE  IInv'
<1>0. ~task[t].stood
  BY Reads DEF Coherent, Holding
<1>1. PICK r \in TaskType :
        /\ Set(t, r) /\ r.pc = "release" /\ task'[t] = r
        /\ Coherent(t)' /\ Honest(t)' /\ ~Fresh(t)' /\ Spent(t)' = {}
  BY <1>0, LeavesRecord
<1>2. Locked'
  BY <1>1, StaysLocked DEF Holding
<1>3. /\ task' \in [Tasks -> TaskType]
      /\ \A u \in Tasks \ {t} : task'[u] = task[u] /\ (Fresh(u)' <=> Fresh(u))
  BY <1>1 DEF Set, IInv, Typed, Fresh
<1>4. Typed'
  BY <1>3 DEF IInv, Typed
<1>5. ASSUME NEW u \in Tasks \ {t} PROVE Coherent(u)'
  BY <1>3 DEF IInv, Coherent, Sound, Alive
<1>6. ASSUME ~crossed PROVE Tidy'
  <2>1. Apart'
    BY <1>1, <1>3, <1>6 DEF IInv, Tidy, Apart
  <2>2. StoredIsLive'
    BY <1>6 DEF StoredIsLive
  <2>3. ASSUME NEW u \in Tasks \ {t} PROVE Honest(u)'
    <3>1. task[u].pc \notin {"exchange", "put", "commit"} /\ Honest(u)
      BY <1>6, Alone DEF Holding, IInv, Tidy
    <3> QED BY <1>3, <1>6, <3>1 DEF Honest
  <2> QED BY <1>1, <2>1, <2>2, <2>3 DEF Tidy
<1> QED BY <1>1, <1>2, <1>4, <1>5, <1>6 DEF IInv

\* What a commit leaves of the tokens: the account's own has taken the place of
\* the spent one, and no other is touched.
LEMMA Committed ==
  ASSUME IInv, ~crossed, NEW t \in Tasks, task[t].pc = "commit"
  PROVE  LET d == task[t].buf IN
         /\ d = Put(doc, Target(t), task[t].token)
         /\ DOMAIN d.held = DOMAIN doc.held \cup {Target(t)}
         /\ \A a, b \in DOMAIN d.held :
              d.held[a] = d.held[b] /\ a # b => d.held[a] \in ForeignTokens
         /\ \A a \in DOMAIN d.held : d.held[a] \in live \cup lost \cup ForeignTokens
         /\ \A u \in Tasks \ {t} : Fresh(u) /\ task[u].token \notin ForeignTokens
              => \A a \in DOMAIN d.held : d.held[a] # task[u].token
<1> DEFINE d == task[t].buf
           tgt == Target(t)
           token == task[t].token
<1>1. /\ Honest(t) /\ Coherent(t) /\ Apart /\ StoredIsLive /\ Fresh(t)
      /\ doc \in Docs /\ Sound(doc) /\ tgt \in Accounts /\ token \in 1..minted
      /\ Wants[t] \in Accounts \cup {InForce}
  BY Reads DEF IInv, Tidy, Typed, Fresh, Coherent
<1>2. d = Put(doc, tgt, token)
  BY <1>1 DEF Honest
<1>3. /\ DOMAIN d.held = DOMAIN doc.held \cup {tgt} /\ d.held[tgt] = token
      /\ \A a \in DOMAIN doc.held \ {tgt} : d.held[a] = doc.held[a]
  BY <1>1, <1>2, PutIs DEF IInv, Typed
<1>4. /\ token \in live \cup ForeignTokens
      /\ token \notin ForeignTokens => \A a \in DOMAIN doc.held : doc.held[a] # token
  BY <1>1 DEF Honest
<1>5. \A u \in Tasks \ {t} : Spent(u) = {}
  BY Alone DEF Spent, Holding
<1>6. ASSUME NEW a \in DOMAIN doc.held, a # tgt
      PROVE  doc.held[a] \in live \cup lost \cup ForeignTokens
  <2>1. doc.held[a] \in live \cup lost \cup ForeignTokens \cup Spent(t)
    BY <1>1, <1>5 DEF StoredIsLive
  <2>2. CASE doc.held[a] \in Spent(t)
    <3>1. doc.held[a] = task[t].spent /\ task[t].spent # NoToken
      BY <2>2 DEF Spent
    <3>2. Presents(t, task[t].spent)
      BY <1>1, <3>1 DEF Honest, Coherent
    <3>3. CASE task[t].mine
      <4>1. /\ AccountOf(Wants[t]) \in DOMAIN doc.held
            /\ doc.held[AccountOf(Wants[t])] = task[t].spent
        BY <1>1, <3>2, <3>3, OwnIs DEF Presents
      <4>2. task[t].op = "refresh"
        BY <1>1, <3>1 DEF Coherent
      <4>3. AccountOf(Wants[t]) # InForce
        BY <1>1, <4>1, DocFields, CredentialsAssumption
      <4>4. tgt = AccountOf(Wants[t])
        BY <4>2, <4>3 DEF Target, AccountOf
      <4> QED BY <1>1, <1>6, <3>1, <4>1, <4>4 DEF Apart
    <3>4. CASE ~task[t].mine
      BY <3>1, <3>2, <3>4 DEF Presents
    <3> QED BY <3>3, <3>4
  <2> QED BY <2>1, <2>2
<1>7. ASSUME NEW u \in Tasks \ {t}, Fresh(u), task[u].token \notin ForeignTokens,
             NEW a \in DOMAIN d.held
      PROVE  d.held[a] # task[u].token
  <2>1. a = tgt => d.held[a] # task[u].token
    BY <1>1, <1>3, <1>7 DEF Apart
  <2>2. Honest(u)
    BY DEF IInv, Tidy
  <2>3. a # tgt => d.held[a] # task[u].token
    BY <1>3, <1>7, <2>2 DEF Honest
  <2> QED BY <2>1, <2>3
<1>8. ASSUME NEW a \in DOMAIN d.held, NEW b \in DOMAIN d.held, d.held[a] = d.held[b], a # b
      PROVE  d.held[a] \in ForeignTokens
  BY <1>1, <1>3, <1>4, <1>8 DEF Apart
<1>9. \A a \in DOMAIN d.held : d.held[a] \in live \cup lost \cup ForeignTokens
  BY <1>3, <1>4, <1>6
<1> QED BY <1>2, <1>3, <1>7, <1>8, <1>9

LEMMA CommitKeeps == ASSUME IInv, NEW t \in Tasks, Commit(t) PROVE IInv'
<1> USE DEF fate
<1>0. /\ task[t] \in TaskType /\ Coherent(t) /\ Alive(t) /\ task[t].pc = "commit"
      /\ task[t].pc \in Holding
  BY Reads DEF Commit, At, Holding
<1>1. UNCHANGED <<lockfile, mutex, dead, crossed, live, minted>>
  BY DEF Commit
<1>2. CASE /\ doc' = task[t].buf
           /\ Leaves(t, IF task[t].op = "save" THEN "saved" ELSE task[t].op)
           /\ UNCHANGED lost
  <2>1. (IF task[t].op = "save" THEN "saved" ELSE task[t].op) \in Ops
    BY <1>0 DEF TaskType, Ops
  <2>2. doc' \in Docs /\ Sound(doc)'
    BY <1>0, <1>1, <1>2 DEF TaskType, Coherent, Sound
  <2>3. ~crossed =>
          /\ \A a, b \in DOMAIN doc'.held :
               doc'.held[a] = doc'.held[b] /\ a # b => doc'.held[a] \in ForeignTokens
          /\ \A a \in DOMAIN doc'.held : doc'.held[a] \in live \cup lost \cup ForeignTokens
          /\ \A u \in Tasks \ {t} : Fresh(u) /\ task[u].token \notin ForeignTokens
               => \A a \in DOMAIN doc'.held : doc'.held[a] # task[u].token
    BY <1>0, <1>2, Committed
  <2> QED BY <1>0, <1>1, <1>2, <2>1, <2>2, <2>3, Writes
<1>3. CASE /\ Fails(t)
           /\ lost' = lost \cup Spent(t)
           /\ UNCHANGED doc
  <2>1. (IF task[t].op = "save" THEN "saved not" ELSE task[t].op) \in Ops
    BY <1>0 DEF TaskType, Ops
  <2> QED BY <1>0, <1>1, <1>3, <2>1, LeavesKeeps DEF Fails
<1> QED BY <1>2, <1>3 DEF Commit

LEMMA ActivateKeeps == ASSUME IInv, NEW t \in Tasks, Activate(t) PROVE IInv'
<1> USE DEF fate, issuer
<1>0. /\ task[t] \in TaskType /\ Alive(t) /\ task[t].pc = "load" /\ task[t].op = "activate"
      /\ task[t].pc \in Holding /\ Spent(t) = {}
      /\ UNCHANGED <<lockfile, mutex, dead, crossed, live, minted, lost>>
  BY Reads DEF Activate, Loading, At, Holding, Spent
<1>1. CASE /\ task[t].name \in DOMAIN doc.held
           /\ doc' = [doc EXCEPT !.active = task[t].name]
           /\ Leaves(t, "activate")
  <2>1. doc' = [active |-> task[t].name, held |-> doc.held] /\ task[t].name \in Accounts
    BY <1>1, DocFields DEF IInv, Typed
  <2>2. doc' \in Docs
    BY <2>1, DocFields, DocBuilt DEF IInv, Typed
  <2>3. Sound(doc)'
    BY <1>0, <1>1, <2>1 DEF IInv, Sound
  <2>4. ASSUME ~crossed
        PROVE  \A a \in DOMAIN doc.held : doc.held[a] \in live \cup lost \cup ForeignTokens
    <3>1. \A u \in Tasks : Spent(u) = {}
      BY <1>0, <2>4, Alone DEF Spent, Holding
    <3> QED BY <2>4, <3>1 DEF IInv, Tidy, StoredIsLive
  <2>5. ASSUME ~crossed
        PROVE  /\ \A a, b \in DOMAIN doc.held :
                    doc.held[a] = doc.held[b] /\ a # b => doc.held[a] \in ForeignTokens
               /\ \A u \in Tasks \ {t} : Fresh(u) /\ task[u].token \notin ForeignTokens
                    => \A a \in DOMAIN doc.held : doc.held[a] # task[u].token
    BY <2>5 DEF IInv, Tidy, Apart, Honest
  <2>6. doc'.held = doc.held
    BY <2>1
  <2> QED BY ZenonT(60), <1>0, <1>1, <2>2, <2>3, <2>4, <2>5, <2>6, Writes DEF Ops
<1>2. CASE Fails(t) /\ UNCHANGED doc
  BY <1>0, <1>2, LeavesKeeps DEF Fails, Ops
<1> QED BY <1>1, <1>2 DEF Activate

LEMMA DeleteKeeps == ASSUME IInv, NEW t \in Tasks, Delete(t) PROVE IInv'
<1> USE DEF fate, issuer
<1>0. /\ Alive(t) /\ task[t].pc \in Holding /\ doc' = NoDoc /\ Leaves(t, "delete")
      /\ UNCHANGED <<lockfile, mutex, dead, crossed, live, minted, lost>>
  BY DEF Delete, Loading, At, Holding
<1>1. doc' \in Docs /\ Sound(doc)' /\ DOMAIN doc'.held = {}
  BY <1>0, NoDocFields DEF Sound
<1> QED BY <1>0, <1>1, Writes DEF Ops

LEMMA NextKeeps == IInv /\ [Next]_vars => IInv'
<1> SUFFICES ASSUME IInv, [Next]_vars PROVE IInv'
  OBVIOUS
<1>1. ASSUME NEW t \in Tasks, Step(t) PROVE IInv'
  BY <1>1, AskKeeps, EnterKeeps, ClaimKeeps, FindOldKeeps, BreakKeeps, TimeOutKeeps,
     ReleaseKeeps, LoadKeeps, ExchangeKeeps, RefusedKeeps, FinishKeeps, MergeKeeps,
     CommitKeeps, LoginKeeps, ActivateKeeps, LogoutKeeps, DeleteKeeps DEF Step
<1>2. CASE UNCHANGED vars
  <2>1. \A u \in Tasks : task'[u] = task[u] /\ (Alive(u) => Alive(u)') /\ (Fresh(u)' <=> Fresh(u))
                         /\ Spent(u)' = Spent(u)
    BY <1>2 DEF vars, Alive, Fresh, Spent
  <2>2. Locked'
    BY <1>2 DEF vars, IInv, Locked
  <2> QED BY <1>2, <2>1, <2>2, Frame DEF vars, IInv, Typed
<1> QED BY <1>1, <1>2, AgeKeeps, DieKeeps DEF Next

LEMMA SpecInv == Spec => []IInv
BY InitHolds, NextKeeps, PTL DEF Spec

-----------------------------------------------------------------------------
(* What follows of it.                                                     *)

\* The file as it lies there: one task changes it at a time, the account in
\* force exists, and no caller that waited while a refresh ran runs another.
THEOREM FileIsSound == Spec => []FileInv
<1>1. IInv => FileInv
  <2> SUFFICES ASSUME IInv PROVE FileInv
    OBVIOUS
  <2>1. TypeOK
    <3>1. live \subseteq 1..MaxTokens /\ minted \in 0..MaxTokens
      BY Reads, SizesTyped, CredentialsAssumption DEF IInv, Typed
    <3>2. ASSUME NEW t \in Tasks
          PROVE  task[t].pc \in Pcs /\ task[t].op \in Ops /\ task[t].buf \in Docs
      BY Reads DEF TaskType
    <3> QED BY <3>1, <3>2 DEF TypeOK, IInv, Typed, Pcs, Ops
  <2>2. OneHolder
    <3> SUFFICES ASSUME ~crossed PROVE Cardinality(Holders) <= 1
      BY DEF OneHolder
    <3>1. \A t \in Holders : t = lockfile.by
      BY DEF Holders, IInv, Locked
    <3>2. CASE Holders = {}
      BY <3>2, FS_EmptySet
    <3>3. CASE Holders # {}
      <4>1. Holders = {lockfile.by}
        BY <3>1, <3>3
      <4>2. Cardinality({lockfile.by}) = 1
        BY FS_Singleton
      <4> QED BY <4>1, <4>2
    <3> QED BY <3>2, <3>3
  <2>3. ActiveExists
    BY DEF ActiveExists, IInv, Sound
  <2>4. SingleFlight
    BY Reads DEF SingleFlight, Coherent
  <2> QED BY <2>1, <2>2, <2>3, <2>4 DEF FileInv
<1> QED BY <1>1, SpecInv, PTL

\* What is presented to the issuer and what is stored is what it takes, however
\* refreshes, logins, logouts and deaths interleave.
THEOREM TokensAreLive == Spec => []TokensInv
<1>1. IInv => TokensInv
  BY DEF IInv, Tidy, Honest, TokensInv, StoredIsLive, NoTokenSpentTwice
<1> QED BY <1>1, SpecInv, PTL

\* No write undoes another: an account leaves the file only with the whole of
\* it, and what a logout removed is brought back by a login only.
THEOREM NoWriteIsUndone == Spec => WritesMerge
<1> DEFINE A == ~crossed => /\ doc' # NoDoc => DOMAIN doc.held \subseteq DOMAIN doc'.held
                            /\ doc = NoDoc /\ doc' # NoDoc => \E t \in Tasks : LogsIn(t)
<1>1. IInv /\ [Next]_vars => A
  <2> SUFFICES ASSUME IInv, [Next]_vars, ~crossed, doc' # doc, doc' # NoDoc
      PROVE  /\ DOMAIN doc.held \subseteq DOMAIN doc'.held
             /\ doc = NoDoc => \E t \in Tasks : LogsIn(t)
    OBVIOUS
  <2>1. PICK t \in Tasks : Commit(t) \/ Activate(t)
    BY DEF Next, Step, vars, Age, Die, Ask, Enter, Claim, FindOld, Break, TimeOut, Release,
       Load, Exchange, Refused, Finish, Merge, Login, Logout, Delete
  <2>2. CASE Commit(t)
    <3>1. /\ task[t].pc = "commit" /\ doc' = task[t].buf
          /\ Leaves(t, IF task[t].op = "save" THEN "saved" ELSE task[t].op)
      BY <2>2 DEF Commit, At
    <3>2. DOMAIN doc'.held = DOMAIN doc.held \cup {Target(t)}
      BY <3>1, Committed
    <3>3. ASSUME doc = NoDoc PROVE LogsIn(t)
      <4>1. task'[t].pc # "commit"
        BY <3>1 DEF Leaves, Set, IInv, Typed, Idle
      <4>2. Honest(t) /\ Coherent(t) /\ doc \in Docs /\ Sound(doc)
            /\ Wants[t] \in Accounts \cup {InForce}
        BY Reads DEF IInv, Tidy, Typed
      <4>3. task[t].op = "save" \/ ~task[t].mine
        <5>1. OwnToken(Wants[t]) = NoToken
          BY <3>3, <4>2, OwnIs, NoDocFields
        <5> QED BY <3>1, <4>2, <5>1 DEF Honest, Coherent, Presents
      <4> QED BY <3>1, <4>1, <4>3 DEF LogsIn
    <3> QED BY <3>2, <3>3
  <2>3. CASE Activate(t)
    <3>1. task[t].name \in DOMAIN doc.held /\ doc' = [doc EXCEPT !.active = task[t].name]
      BY <2>3 DEF Activate
    <3>2. DOMAIN doc'.held = DOMAIN doc.held
      BY <3>1, DocFields DEF IInv, Typed
    <3>3. doc # NoDoc
      BY <3>1, NoDocFields
    <3> QED BY <3>2, <3>3
  <2> QED BY <2>1, <2>2, <2>3
<1> QED BY <1>1, SpecInv, PTL DEF Spec, WritesMerge

====================
