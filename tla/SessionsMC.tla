---------------------------- MODULE SessionsMC ----------------------------
(* One slot for TLC; any number of connections, one after another. *)
EXTENDS SessionsProps
=============================================================================
