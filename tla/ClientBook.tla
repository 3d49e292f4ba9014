------------------------------ MODULE ClientBook ------------------------------
(***************************************************************************)
(* What the app may rely on when it hands a client over with saveClient,   *)
(* whatever the network, the credentials and the process do.               *)
(*                                                                         *)
(* A client is handed over once and is answered at most once.  "saved" is  *)
(* said of nothing that the server does not hold.  A client that the       *)
(* server holds stays there, and it may get there without any answer, or   *)
(* after a refusal: the answer to a write and the write are apart.  The    *)
(* end of the process takes with it the clients that wait, and only those. *)
(***************************************************************************)
CONSTANT Clients

VARIABLES
  fate,   \* what the app knows of each client
  stored  \* the clients the server holds

vars == <<fate, stored>>

Fates == {"new", "waiting", "saved", "refused", "gone"}

TypeOK == fate \in [Clients -> Fates] /\ stored \subseteq Clients

Init ==
  /\ fate = [client \in Clients |-> "new"]
  /\ stored = {}

HandOver(client) ==
  /\ fate[client] = "new"
  /\ fate' = [fate EXCEPT ![client] = "waiting"]
  /\ UNCHANGED stored

Store(client) ==
  /\ fate[client] # "new"
  /\ stored' = stored \cup {client}
  /\ UNCHANGED fate

Saved(client) ==
  /\ fate[client] = "waiting"
  /\ client \in stored
  /\ fate' = [fate EXCEPT ![client] = "saved"]
  /\ UNCHANGED stored

Refused(client) ==
  /\ fate[client] = "waiting"
  /\ fate' = [fate EXCEPT ![client] = "refused"]
  /\ UNCHANGED stored

(* The process ends: what waits is never answered. *)
End ==
  /\ fate' = [client \in Clients |->
                IF fate[client] = "waiting" THEN "gone" ELSE fate[client]]
  /\ UNCHANGED stored

Next ==
  \/ End
  \/ \E client \in Clients :
       HandOver(client) \/ Store(client) \/ Saved(client) \/ Refused(client)

Spec == Init /\ [][Next]_vars
=============================================================================
