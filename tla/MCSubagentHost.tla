--------------------------- MODULE MCSubagentHost ---------------------------
(* Instances of SubagentHost for TLC: its constants are numbers. *)
EXTENDS SubagentHost
=============================================================================
