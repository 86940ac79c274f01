--------------------------- MODULE ApprovalPolicy ---------------------------
(***************************************************************************)
(* Who is asked about a tool call, and when nobody is: the pure decisions  *)
(* of crates/core/src/approval.rs and of `dispatch` and `review` in        *)
(* crates/core/src/dispatch.rs.                                            *)
(***************************************************************************)

Policies == {"on-request", "accept-edits", "on-failure", "auto", "never"}

\* ToolKind; "read" stands for Read, Search and Meta, which no policy tells apart.
Kinds == {"read", "edit", "execute", "network"}

\* ApprovalRequirement, what a tool says of one call.
Requirements == {"by-policy", "auto-approved", "confined", "review", "always"}

\* The policies under which a person's grants are read and extended.
Human(pol) == pol \notin {"auto", "never"}

\* approval_reason: a reason to ask, TRUE, or none.
ApprovalReason(pol, kind, req) ==
  \/ req = "always"
  \/ /\ pol # "never"
     /\ \/ req = "review"
        \/ /\ req \in {"by-policy", "confined"}
           /\ ~(pol = "auto" /\ req = "confined")
           /\ pol # "on-failure"
           /\ ~(pol = "accept-edits" /\ kind = "edit")
           /\ kind # "read"

\* Mutant of Raised: only network rights raise the requirement.
RaisedForNetwork(req, network, rights) ==
  IF network /\ req # "always" THEN "review" ELSE req

\* Declared rights raise a call's requirement: they are reviewed every time.
Raised(req, network, rights) ==
  IF (network \/ rights) /\ req # "always" THEN "review" ELSE req

\* Mutant of Standing: an "allow always" answers for every requirement.
StandingForAll(req, remembered) == remembered

\* A standing "allow always" answers only where the policy could have.
Standing(req, remembered) == req \in {"by-policy", "confined"} /\ remembered

\* review: the first eligible reviewer. The guardian is installed first and answers
\* whatever it is asked; the person's bridge comes last.
Reviewer(pol, req, guardianEnabled) ==
  IF req = "always" THEN "person"
  ELSE IF pol = "auto" THEN "guardian"
  ELSE IF req = "review" THEN "person"
  ELSE IF guardianEnabled THEN "guardian" ELSE "person"
=============================================================================
