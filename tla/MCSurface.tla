------------------------------ MODULE MCSurface ------------------------------
(* Surface on small instances. *)
EXTENDS Surface
=============================================================================
