---------------------------- MODULE MCCredentials ----------------------------
EXTENDS Credentials, TLC

CONSTANTS t1, t2, t3, p1, p2, kekeAcc, otherAcc

\* One keke with two tasks that follow the account in force, and another that
\* was started for otherAcc.
TwoKekes == t1 :> p1 @@ t2 :> p1 @@ t3 :> p2

MixedWants == t1 :> InForce @@ t2 :> InForce @@ t3 :> otherAcc

\* The login of the other CLI is the third token the issuer minted.
OtherCli == kekeAcc :> 3

\* Two tasks of one process are alike.
Alike == Permutations({t1, t2})

\* Nothing is claimed of what follows a crossed break, so it is not followed.
NotCrossed == ~crossed
=============================================================================
