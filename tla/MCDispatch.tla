----------------------------- MODULE MCDispatch -----------------------------
(* Instances of Dispatch for TLC. *)
EXTENDS Dispatch

Call(tool, kind, approval, domains, granted) ==
  [tool |-> tool, kind |-> kind, approval |-> approval, domains |-> domains,
   rights |-> granted, refused |-> FALSE]

\* Calls that differ in who decides: a command, an edit, an escape, a tool that exists to
\* be decided, a tool under a rule, and a call a guard denies.
Decisions ==
  { Call("bash", "execute", "by-policy", {}, FALSE),
    Call("bash", "execute", "by-policy", {}, TRUE),
    Call("bash", "execute", "auto-approved", {"d1"}, FALSE),
    Call("patch", "edit", "confined", {}, FALSE),
    Call("bash", "execute", "review", {}, FALSE),
    Call("plan", "read", "always", {}, FALSE),
    Call("ruled", "network", "by-policy", {"d1"}, FALSE),
    [Call("bash", "read", "by-policy", {}, FALSE) EXCEPT !.refused = TRUE] }

\* Commands that reach the network: one declares a domain, one asks as it runs.
Networks ==
  { Call("bash", "execute", "by-policy", {"d1"}, FALSE),
    Call("bash", "execute", "auto-approved", {}, FALSE) }
=============================================================================
