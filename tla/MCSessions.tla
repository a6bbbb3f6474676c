----------------------------- MODULE MCSessions -----------------------------
(* Two callers, two sign-ins. *)
EXTENDS Sessions
=============================================================================
