---------------------------- MODULE MCLoginSession ----------------------------
(* Two accounts, so that a session can be taken for the other's. *)
EXTENDS LoginSession
=============================================================================
