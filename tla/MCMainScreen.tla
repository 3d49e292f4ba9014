----------------------------- MODULE MCMainScreen -----------------------------
(* Two clients, so that the answer to one save meets the tap, the alert or *)
(* the timer of the other.                                                 *)
EXTENDS MainScreen
=============================================================================
