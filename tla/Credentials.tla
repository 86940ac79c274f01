----------------------------- MODULE Credentials -----------------------------
(***************************************************************************)
(* The logins of one vendor: the file that keeps them and its lock         *)
(* (crates/credentials/src/vendor.rs, lock.rs, atomic.rs) and what the     *)
(* providers of several processes do to it: they refresh tokens, log in    *)
(* and log out (crates/auth-grok/src/lib.rs; auth-codex has the same       *)
(* steps).                                                                 *)
(*                                                                         *)
(* A token stands for a refresh token and the access token that came with  *)
(* it.  The issuer keeps the refresh tokens that are live; an exchange     *)
(* spends one and mints another, and the spent one is refused from then    *)
(* on.  A task is one thing a process is doing at a time; the tasks of a   *)
(* process share its provider, with the mutex that lets one refresh run.   *)
(***************************************************************************)
EXTENDS Naturals, FiniteSets

CONSTANTS Tasks, Procs,
          ProcOf,        \* the process of a task
          Wants,         \* the account a task's provider speaks for, or InForce
          Persons,       \* the tasks of a process where a person logs in and out
          Accounts, InForce, DefaultAccount,
          Foreign,       \* account -> token: the login of another vendor's CLI
          MaxTokens,     \* bound: how many tokens the issuer mints
          MaxDeaths      \* bound: how many processes die

NoTask == "none"

\* How many tokens there are when it begins: one for each account, and those of
\* the other CLI, which follow them.
FirstTokens == Cardinality(Accounts) + Cardinality(DOMAIN Foreign)

\* Assumed of the constants: every task is of one process and speaks for an
\* account or for the one in force; at most one login of another CLI is there,
\* whose token is none of keke's own; the bound leaves room for the first ones.
ASSUME CredentialsAssumption ==
  /\ NoTask \notin Tasks
  /\ ProcOf \in [Tasks -> Procs]
  /\ Wants \in [Tasks -> Accounts \cup {InForce}]
  /\ Persons \subseteq Tasks
  /\ IsFiniteSet(Accounts)
  /\ InForce \notin Accounts
  /\ DefaultAccount \in Accounts
  /\ DOMAIN Foreign \subseteq Accounts
  /\ Cardinality(DOMAIN Foreign) <= 1
  /\ Foreign \in [DOMAIN Foreign -> (Cardinality(Accounts) + 1)..FirstTokens]
  /\ MaxTokens \in Nat
  /\ FirstTokens <= MaxTokens

NoToken == 0
NoDoc == [active |-> InForce, held |-> [a \in {} |-> NoToken]]

VARIABLES
  doc,       \* the file: the account in force and the token of each account
  lockfile,  \* the lock file: who made it, and whether it is a minute old
  mutex,     \* a process's provider: who runs its refresh
  task,      \* what each task is doing
  dead,      \* the processes that died
  live,      \* the issuer: the refresh tokens it would take
  minted,    \* the issuer: how many tokens it has minted
  lost,      \* the spent tokens whose successor nobody kept
  crossed    \* whether a waiter broke a lock that was not the old one it found

vars == <<doc, lockfile, mutex, task, dead, live, minted, lost, crossed>>

issuer == <<live, minted, lost>>

fate == <<dead, crossed>>

Idle == [pc |-> "idle", op |-> "none", mode |-> "none", stood |-> FALSE,
         seen |-> NoToken, token |-> NoToken, spent |-> NoToken, mine |-> FALSE,
         name |-> InForce, buf |-> NoDoc]

NoLock == [by |-> NoTask, old |-> FALSE]

Init ==
  /\ \E holders \in {{}, {DefaultAccount}, Accounts} :
       LET number == CHOOSE f \in [holders -> 1..Cardinality(Accounts)] :
                       \A a, b \in holders : f[a] = f[b] => a = b
       IN /\ doc = [active |-> IF holders = {} THEN InForce ELSE DefaultAccount,
                    held |-> number]
          /\ live = {number[a] : a \in holders} \cup
                    {Foreign[a] : a \in DOMAIN Foreign}
  /\ lockfile = NoLock
  /\ mutex = [p \in Procs |-> NoTask]
  /\ task = [t \in Tasks |-> Idle]
  /\ dead = {}
  /\ minted = FirstTokens
  /\ lost = {}
  /\ crossed = FALSE

-----------------------------------------------------------------------------
(* The document (`AuthDocument`).                                          *)

\* `resolve`: an account that is named is that one or none; otherwise the one
\* in force, or the only one there is.
Resolve(d, wanted) ==
  IF wanted # InForce
  THEN IF wanted \in DOMAIN d.held THEN wanted ELSE InForce
  ELSE IF d.active \in DOMAIN d.held THEN d.active
  ELSE IF Cardinality(DOMAIN d.held) = 1
       THEN CHOOSE a \in Accounts : a \in DOMAIN d.held
       ELSE InForce

\* `put`: one account is replaced and the others stay as they are.
Put(d, name, token) ==
  [active |-> IF d.active = InForce THEN name ELSE d.active,
   held |-> [a \in DOMAIN d.held \cup {name} |->
               IF a = name THEN token ELSE d.held[a]]]

\* The token a provider finds for itself: keke's own login, or that of the
\* other CLI when there is none.
OwnToken(wanted) ==
  LET a == Resolve(doc, wanted) IN IF a = InForce THEN NoToken ELSE doc.held[a]

ForeignToken(wanted) ==
  LET a == Resolve([active |-> InForce, held |-> Foreign], wanted)
  IN IF a = InForce THEN NoToken ELSE Foreign[a]

Found(wanted) ==
  IF OwnToken(wanted) # NoToken THEN OwnToken(wanted) ELSE ForeignToken(wanted)

-----------------------------------------------------------------------------
(* What the steps of a task have in common.                                *)

Alive(t) == ProcOf[t] \notin dead

At(t, pc) == Alive(t) /\ task[t].pc = pc

Set(t, r) == task' = [task EXCEPT ![t] = r]

Goes(t, pc) == Set(t, [task[t] EXCEPT !.pc = pc])

\* What a task had spent when its successor is not kept.
Spent(t) ==
  IF task[t].pc \in {"put", "commit"} THEN {task[t].spent} \ {NoToken} ELSE {}

\* What is done under the lock is over, as whatever `op` says it was.
Leaves(t, op) ==
  Set(t, [Idle EXCEPT !.pc = "release", !.op = op, !.name = task[t].name,
                      !.stood = task[t].stood])

Fails(t) == Leaves(t, IF task[t].op = "save" THEN "saved not" ELSE task[t].op)

-----------------------------------------------------------------------------
(* A refresh is asked for (`headers`, `refresh_after_unauthorized`).       *)

\* A request finds its access token expired, which may be at any time, or the
\* vendor answered 401 to one that is not.  `stood` stands for the generation
\* it observes: whether a refresh of this provider has ended since.
Ask(t, mode) ==
  /\ At(t, "idle")
  /\ Found(Wants[t]) # NoToken
  /\ Set(t, [Idle EXCEPT !.pc = "queue", !.op = "refresh", !.mode = mode,
                         !.seen = Found(Wants[t])])
  /\ UNCHANGED <<doc, lockfile, mutex, fate, issuer>>

\* MUTANT of Enter: everyone who waited refreshes again.
EnterAnyway(t) ==
  LET p == ProcOf[t]
  IN /\ At(t, "queue")
     /\ mutex[p] = NoTask
     /\ mutex' = [mutex EXCEPT ![p] = t]
     /\ Goes(t, "lock")
     /\ UNCHANGED <<doc, lockfile, fate, issuer>>

\* The mutex is had; if a refresh ended since this one was asked for, its
\* outcome is this one's too.
Enter(t) ==
  LET p == ProcOf[t]
  IN /\ At(t, "queue")
     /\ mutex[p] = NoTask
     /\ IF task[t].stood
        THEN Set(t, Idle) /\ UNCHANGED mutex
        ELSE /\ Goes(t, "lock")
             /\ mutex' = [mutex EXCEPT ![p] = t]
     /\ UNCHANGED <<doc, lockfile, fate, issuer>>

-----------------------------------------------------------------------------
(* The lock (`MutationLock`).                                              *)

\* MUTANT of Claim: the file is created whether or not it is there.
ClaimAnyway(t) ==
  /\ At(t, "lock")
  /\ lockfile' = [by |-> t, old |-> FALSE]
  /\ Goes(t, "load")
  /\ UNCHANGED <<doc, mutex, fate, issuer>>

\* The lock file is created, and only if there is none.
Claim(t) ==
  /\ At(t, "lock")
  /\ lockfile = NoLock
  /\ lockfile' = [by |-> t, old |-> FALSE]
  /\ Goes(t, "load")
  /\ UNCHANGED <<doc, mutex, fate, issuer>>

\* A lock file a minute old is taken for one a dead process left.
FindOld(t) ==
  /\ At(t, "lock")
  /\ lockfile.old
  /\ Goes(t, "break")
  /\ UNCHANGED <<doc, lockfile, mutex, fate, issuer>>

\* It is removed by its name: whatever lock file is there by now.
Break(t) ==
  /\ At(t, "break")
  /\ lockfile' = NoLock
  /\ Goes(t, "lock")
  /\ crossed' = (crossed \/ (lockfile # NoLock /\ ~lockfile.old))
  /\ UNCHANGED <<doc, mutex, dead, issuer>>

\* Two seconds are over and somebody else still has it.
TimeOut(t) ==
  /\ At(t, "lock")
  /\ lockfile # NoLock /\ ~lockfile.old
  /\ Set(t, IF task[t].op = "refresh"
            THEN [Idle EXCEPT !.pc = "finish", !.op = "refresh"] ELSE Idle)
  /\ UNCHANGED <<doc, lockfile, mutex, fate, issuer>>

\* Only the lock of a dead process grows a minute old: a live one holds it
\* for a token request of at most TOKEN_TIMEOUT, and a rename.
Age ==
  /\ lockfile # NoLock
  /\ ~lockfile.old
  /\ ProcOf[lockfile.by] \in dead
  /\ lockfile' = [lockfile EXCEPT !.old = TRUE]
  /\ UNCHANGED <<doc, mutex, task, fate, issuer>>

\* The lock is let go by removing the file of that name.
Release(t) ==
  /\ At(t, "release")
  /\ lockfile' = NoLock
  /\ Set(t, CASE task[t].op = "saved" ->
                   [task[t] EXCEPT !.pc = "lock", !.op = "activate"]
              [] task[t].op = "refresh" -> [task[t] EXCEPT !.pc = "finish"]
              [] OTHER -> Idle)
  /\ UNCHANGED <<doc, mutex, fate, issuer>>

-----------------------------------------------------------------------------
(* `perform_refresh`, under the lock.                                      *)

Loading(t, op) == At(t, "load") /\ task[t].op = op

\* MUTANT of Load: the token that was read before the lock was taken is used.
LoadEarly(t) ==
  /\ Loading(t, "refresh")
  /\ Set(t, [task[t] EXCEPT !.pc = "exchange", !.token = task[t].seen,
               !.seen = NoToken,
               !.mine = task[t].seen \notin {Foreign[a] : a \in DOMAIN Foreign}])
  /\ UNCHANGED <<doc, lockfile, mutex, fate, issuer>>

\* The credential is read again now that the lock is held: there may be none
\* left, or another that is not expired.  A 401 is not answered by that.
Load(t) ==
  LET found == Found(Wants[t])
  IN /\ Loading(t, "refresh")
     /\ \/ found = NoToken /\ Fails(t)
        \/ /\ found \notin {NoToken, task[t].seen}
           /\ task[t].mode = "stale"
           /\ Leaves(t, "refresh")
        \/ /\ found # NoToken
           /\ Set(t, [task[t] EXCEPT !.pc = "exchange", !.token = found,
                         !.seen = NoToken, !.mine = OwnToken(Wants[t]) # NoToken])
     /\ UNCHANGED <<doc, lockfile, mutex, fate, issuer>>

\* The issuer spends the token and mints another, and the answer arrives or
\* does not.
Exchange(t) ==
  /\ At(t, "exchange")
  /\ task[t].token \in live
  /\ minted < MaxTokens
  /\ minted' = minted + 1
  /\ live' = (live \ {task[t].token}) \cup {minted + 1}
  /\ \/ /\ Set(t, [task[t] EXCEPT !.pc = "put", !.token = minted + 1,
                                   !.spent = task[t].token])
        /\ UNCHANGED lost
     \/ /\ Fails(t)
        /\ lost' = lost \cup {task[t].token}
  /\ UNCHANGED <<doc, lockfile, mutex, fate>>

\* A token that was spent before is refused; or the issuer is not reached.
Refused(t) ==
  /\ At(t, "exchange")
  /\ Fails(t)
  /\ UNCHANGED <<doc, lockfile, mutex, fate, issuer>>

\* Whoever waited for this refresh is told how it went.
Finish(t) ==
  LET p == ProcOf[t]
  IN /\ At(t, "finish")
     /\ mutex' = [mutex EXCEPT ![p] = NoTask]
     /\ task' = [u \in Tasks |->
                   IF u = t THEN Idle
                   ELSE IF ProcOf[u] = p /\ task[u].pc = "queue"
                   THEN [task[u] EXCEPT !.stood = TRUE] ELSE task[u]]
     /\ UNCHANGED <<doc, lockfile, fate, issuer>>

-----------------------------------------------------------------------------
(* The file (`put_account`, `write_document`), under the lock.             *)

\* The account a write is for: the one named, else the one in force, else
\* the default.
Target(t) ==
  LET named == IF task[t].op = "refresh" THEN Wants[t] ELSE task[t].name
  IN IF named # InForce THEN named
     ELSE IF doc.active # InForce THEN doc.active ELSE DefaultAccount

\* MUTANT of Merge: the whole document is written as one login.
MergeAlone(t) ==
  /\ At(t, "put") \/ Loading(t, "save")
  /\ Set(t, [task[t] EXCEPT !.pc = "commit",
               !.buf = Put(NoDoc, Target(t), task[t].token)])
  /\ UNCHANGED <<doc, lockfile, mutex, fate, issuer>>

\* The document is read once more and the one account put into it.
Merge(t) ==
  /\ At(t, "put") \/ Loading(t, "save")
  /\ Set(t, [task[t] EXCEPT !.pc = "commit",
               !.buf = Put(doc, Target(t), task[t].token)])
  /\ UNCHANGED <<doc, lockfile, mutex, fate, issuer>>

\* It is staged beside the file and renamed onto it, whole or not at all; a
\* write that fails, or the read before it, leaves the file as it was.
Commit(t) ==
  /\ At(t, "commit")
  /\ \/ /\ doc' = task[t].buf
        /\ Leaves(t, IF task[t].op = "save" THEN "saved" ELSE task[t].op)
        /\ UNCHANGED lost
     \/ /\ Fails(t)
        /\ lost' = lost \cup Spent(t)
        /\ UNCHANGED doc
  /\ UNCHANGED <<lockfile, mutex, fate, live, minted>>

-----------------------------------------------------------------------------
(* A person logs in and out (`login`, `save`, `logout`).                   *)

\* A browser flow mints a token for an account; an existing login of the
\* other CLI is adopted instead while keke holds none.
Login(t) ==
  /\ t \in Persons
  /\ At(t, "idle")
  /\ IF OwnToken(InForce) = NoToken /\ Foreign # NoDoc.held
     THEN /\ \E a \in DOMAIN Foreign :
               Set(t, [Idle EXCEPT !.pc = "lock", !.op = "save", !.name = a,
                                   !.token = Foreign[a]])
          /\ UNCHANGED issuer
     ELSE /\ minted < MaxTokens
          /\ minted' = minted + 1
          /\ live' = live \cup {minted + 1}
          /\ \E a \in Accounts :
               Set(t, [Idle EXCEPT !.pc = "lock", !.op = "save", !.name = a,
                                   !.token = minted + 1])
          /\ UNCHANGED lost
  /\ UNCHANGED <<doc, lockfile, mutex, fate>>

\* MUTANT of Activate: the account is put in force without a look.
ActivateUnseen(t) ==
  /\ Loading(t, "activate")
  /\ doc' = [doc EXCEPT !.active = task[t].name]
  /\ Leaves(t, task[t].op)
  /\ UNCHANGED <<lockfile, mutex, fate, issuer>>

\* `set_active` takes the lock a second time, and the account it was saved
\* under may be gone.
Activate(t) ==
  /\ Loading(t, "activate")
  /\ IF task[t].name \in DOMAIN doc.held
     THEN /\ doc' = [doc EXCEPT !.active = task[t].name]
          /\ Leaves(t, "activate")
     ELSE Fails(t) /\ UNCHANGED doc
  /\ UNCHANGED <<lockfile, mutex, fate, issuer>>

Logout(t) ==
  /\ t \in Persons
  /\ At(t, "idle")
  /\ Set(t, [Idle EXCEPT !.pc = "lock", !.op = "delete"])
  /\ UNCHANGED <<doc, lockfile, mutex, fate, issuer>>

Delete(t) ==
  /\ Loading(t, "delete")
  /\ doc' = NoDoc
  /\ Leaves(t, task[t].op)
  /\ UNCHANGED <<lockfile, mutex, fate, issuer>>

-----------------------------------------------------------------------------
(* The clock and the system.                                               *)

\* A process dies wherever its tasks are; the lock file stays behind, and a
\* token minted for a write that was not made is gone.
Die(p) ==
  /\ Cardinality(dead) < MaxDeaths
  /\ p \notin dead
  /\ dead' = dead \cup {p}
  /\ lost' = lost \cup UNION {Spent(t) : t \in {u \in Tasks : ProcOf[u] = p}}
  /\ task' = [t \in Tasks |-> IF ProcOf[t] = p THEN Idle ELSE task[t]]
  /\ UNCHANGED <<doc, lockfile, mutex, live, minted, crossed>>

Step(t) ==
  \/ \E mode \in {"stale", "force"} : Ask(t, mode)
  \/ Enter(t) \/ Claim(t) \/ FindOld(t) \/ Break(t) \/ TimeOut(t) \/ Release(t)
  \/ Load(t) \/ Exchange(t) \/ Refused(t) \/ Finish(t)
  \/ Merge(t) \/ Commit(t)
  \/ Login(t) \/ Activate(t) \/ Logout(t) \/ Delete(t)

Next ==
  \/ \E t \in Tasks : Step(t)
  \/ Age
  \/ \E p \in Procs : Die(p)

Spec == Init /\ [][Next]_vars

-----------------------------------------------------------------------------
(* Properties.                                                             *)

Docs == [active : Accounts \cup {InForce},
         held : UNION {[S -> 1..MaxTokens] : S \in SUBSET Accounts}]

\* Every variable keeps to the values its field in the code can hold.
TypeOK ==
  /\ doc \in Docs
  /\ lockfile \in [by : Tasks \cup {NoTask}, old : BOOLEAN]
  /\ mutex \in [Procs -> Tasks \cup {NoTask}]
  /\ \A t \in Tasks :
       /\ task[t].pc \in {"idle", "queue", "lock", "break", "load", "exchange",
                          "put", "commit", "release", "finish"}
       /\ task[t].op \in {"none", "refresh", "save", "saved", "saved not",
                          "activate", "delete"}
       /\ task[t].buf \in Docs
  /\ dead \subseteq Procs
  /\ live \subseteq 1..MaxTokens
  /\ minted \in 0..MaxTokens
  /\ crossed \in BOOLEAN

Holding == {"load", "exchange", "put", "commit", "release"}

Holders == {t \in Tasks : Alive(t) /\ task[t].pc \in Holding}

\* The mutation lock is one task's at a time, until a waiter removes by its
\* name a lock file other than the old one it looked at (`crossed`): two may hold
\* it then, and nothing is claimed of what follows.
OneHolder == ~crossed => Cardinality(Holders) <= 1

ForeignTokens == {Foreign[a] : a \in DOMAIN Foreign}

\* What the file keeps of an account is what its issuer will take next, while
\* nobody is in the middle of spending it and unless its successor was lost:
\* no write reverts the rotation of another session.
StoredIsLive ==
  ~crossed => \A a \in DOMAIN doc.held :
                doc.held[a] \in live \cup lost \cup ForeignTokens
                                \cup UNION {Spent(t) : t \in Tasks}

\* No token of keke's is spent twice, which the issuer would take for a revoked
\* login, unless the answer to the first time was lost.
NoTokenSpentTwice ==
  ~crossed => \A t \in Tasks : task[t].pc = "exchange" =>
                task[t].token \in live \cup lost \cup ForeignTokens

\* The logins themselves: what is presented and what is stored is what the issuer takes,
\* however two refreshes, a login and a logout interleave.
TokensInv == StoredIsLive /\ NoTokenSpentTwice

\* The account in force exists, whoever logs in or out meanwhile: nobody is told
\* they are not logged in who is.
ActiveExists == doc # NoDoc => doc.active \in DOMAIN doc.held

\* A caller that waited while a refresh ran does not run another.
SingleFlight ==
  \A t \in Tasks : task[t].pc = "exchange" => ~task[t].stood

\* The file as it lies there: one task changes it at a time, one refresh of a
\* process goes out for all that wait for it, and the account in force exists.
FileInv == TypeOK /\ OneHolder /\ ActiveExists /\ SingleFlight

LogsIn(t) ==
  /\ task[t].pc = "commit" /\ task'[t].pc # "commit"
  /\ task[t].op = "save" \/ ~task[t].mine

\* No write undoes another.  An account leaves the file only with the whole of
\* it, when somebody logs out: saving one login never drops another.  And what a
\* logout removed stays removed until somebody logs in, here or in the other
\* CLI: a refresh that was under way does not bring it back.
WritesMerge ==
  [][~crossed => /\ doc' # NoDoc => DOMAIN doc.held \subseteq DOMAIN doc'.held
                 /\ doc = NoDoc /\ doc' # NoDoc => \E t \in Tasks : LogsIn(t)]_vars
=============================================================================
