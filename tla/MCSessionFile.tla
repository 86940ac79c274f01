---------------------------- MODULE MCSessionFile ----------------------------
(* SessionFile on small instances. *)
EXTENDS SessionFile, TLC

Alike == Permutations(Procs)
=============================================================================
