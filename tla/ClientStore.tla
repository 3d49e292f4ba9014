----------------------------- MODULE ClientStore -----------------------------
(***************************************************************************)
(* The way of a client from saveClient to the server: the outstanding puts *)
(* of FPersistentConnection, its connection and its credentials, Auth that *)
(* tells it of them, and the server.                                       *)
(*                                                                         *)
(* Three queues order what happens in the process.  saveClient, on the     *)
(* main thread, dispatches the put to the database's shared queue.  What   *)
(* Auth has to say goes to the main queue first and from there to the      *)
(* shared queue.  All of FPersistentConnection runs on the shared queue,   *)
(* so a block is a step.  A connection is a pair of streams; a connection  *)
(* that the process has given up may still deliver requests to the server, *)
(* whose answers nobody hears.                                             *)
(***************************************************************************)
EXTENDS Naturals, Sequences

CONSTANTS
  Users,      \* accounts
  NoUser,     \* nobody, and no token
  Clients,    \* the clients that are entered, each of them once
  NoClient,   \* the client of a request that carries none
  Permitted,  \* the pairs <<token's user, owner of the path>> the rules let write
  MaxLosses,  \* bound: connections lost, tokens refused, ends of the process
  MaxNews     \* bound: changes of the token

ASSUME UserAssumption == NoUser \notin Users
ASSUME ClientAssumption == NoClient \notin Clients
ASSUME BoundAssumption == MaxLosses \in Nat /\ MaxNews \in Nat

(* The rules of the database are not in the repository.  An owner writes   *)
(* under its own path; what others may do is left to the constant.         *)
ASSUME RulesAssumption ==
  /\ Permitted \subseteq (Users \cup {NoUser}) \X Users
  /\ \A u \in Users : <<u, u>> \in Permitted

VARIABLES
  user,         \* Auth's current user
  screen,       \* the user of the main screen
  posted,       \* Auth's blocks on the main queue
  sharedQueue,  \* blocks on the database's queue
  conn,         \* connectionState
  authToken,    \* authToken, by the user it is of
  retry,        \* a retry is scheduled
  fetch,        \* the user whose token is fetched from the network
  killed,       \* interruptReasons holds server_kill
  outstanding,  \* outstandingPuts, in the order of their index
  links,        \* the connections opened: requests under way, credentials
  replies,      \* from the server, on the last connection
  stored,       \* the clients the server holds
  owner,        \* history: the user each client was saved under
  fate,         \* history: what the app was told of each client
  excused,      \* history: clients that others' credentials may have met
  overtaken,    \* history: the token fetched last was out of date when it came
  losses, news  \* bounds

session == <<user, screen>>
client  == <<conn, authToken, retry, fetch, killed, outstanding>>
network == <<links, replies>>
history == <<owner, fate, excused, overtaken>>
bounds  == <<losses, news>>
vars == <<session, posted, sharedQueue, client, network, stored, history, bounds>>

AnyUser == Users \cup {NoUser}
States == {"Disconnected", "GettingToken", "Connecting", "Authenticating", "Connected"}
NoFetch == NoUser

(* Blocks, requests and replies *)
Token(who)        == [op |-> "token", who |-> who, client |-> NoClient]
Context(who)      == [op |-> "context", who |-> who, client |-> NoClient]
FetchError        == [op |-> "error", who |-> NoUser, client |-> NoClient]
Put(c)            == [op |-> "put", who |-> NoUser, client |-> c]
Auth(who, then)   == [op |-> "auth", who |-> who, client |-> NoClient, restore |-> then]
Unauth            == [op |-> "unauth", who |-> NoUser, client |-> NoClient, restore |-> FALSE]
PutRequest(c)     == [op |-> "put", who |-> NoUser, client |-> c, restore |-> FALSE]
Reply(request, ok) == [request |-> request, ok |-> ok]
Revoked           == Reply(Unauth, FALSE)

NewLink == [requests |-> <<>>, cred |-> NoUser]
Current == Len(links)

(* A retry is allowed; the connection can be written to; puts may be sent. *)
shouldReconnect == ~killed
connected == conn \in {"Authenticating", "Connected"}
canSendWrites == conn = "Connected"

Waiting == {c \in Clients : fate[c] = "waiting"}

-----------------------------------------------------------------------------
(* The repository is opened: deferredInit, resumeForReason.  Init has no   *)
(* connection yet and the first attempt scheduled.                         *)
Init ==
  /\ user \in AnyUser
  /\ screen = NoUser
  /\ posted = <<>>
  /\ sharedQueue = <<>>
  /\ conn = "Disconnected"
  /\ authToken = NoUser
  /\ retry = TRUE
  /\ fetch = NoFetch
  /\ killed = FALSE
  /\ outstanding = <<>>
  /\ links = <<>>
  /\ replies = <<>>
  /\ stored = {}
  /\ owner = [c \in Clients |-> NoUser]
  /\ fate = [c \in Clients |-> "new"]
  /\ excused = {}
  /\ overtaken = FALSE
  /\ losses = 0
  /\ news = 0

-----------------------------------------------------------------------------
(* Auth and the person *)

(* possiblyPostAuthStateChangeNotification *)
PostToken(who) ==
  /\ news < MaxNews
  /\ news' = news + 1
  /\ posted' = Append(posted, Token(who))

(* A change of the token that the connection has still to hear of.  The    *)
(* waiting clients that are sent before it hears of one: those on the      *)
(* connection, and those with no such change ahead of them in the queue.   *)
TokenQueued == \E i \in 1..Len(sharedQueue) : sharedQueue[i].op = "token"
Exposed ==
  {c \in Waiting :
     \A i \in 1..Len(sharedQueue) :
       sharedQueue[i].client = c => \A j \in 1..i : sharedQueue[j].op # "token"}

(* The session of these clients' owner has ended, or is not there, or the  *)
(* connection has the token of another user.                               *)
Excuse(clients) == excused' = excused \cup clients

SignIn(who) ==
  /\ user = NoUser /\ screen = NoUser
  /\ user' = who
  /\ PostToken(who)
  /\ UNCHANGED <<screen, sharedQueue, client, network, stored, history, losses>>

(* The main screen comes up: Auth calls back on the main queue, behind the *)
(* notification of the token.                                              *)
ShowMainScreen ==
  /\ user # NoUser /\ screen = NoUser
  /\ \A i \in 1..Len(posted) : posted[i].op # "token"
  /\ screen' = user
  /\ UNCHANGED <<user, posted, sharedQueue, client, network, stored, history, bounds>>

SignOut ==
  /\ screen # NoUser
  /\ user' = NoUser
  /\ screen' = NoUser
  /\ IF user = NoUser THEN UNCHANGED <<posted, news>> ELSE PostToken(NoUser)
  /\ Excuse(Waiting)
  /\ UNCHANGED <<sharedQueue, client, network, stored, owner, fate, overtaken, losses>>

(* signOutIfTokenIsInvalidWithError: Auth signs out and the screen stays. *)
ForcedSignOut ==
  /\ user # NoUser
  /\ user' = NoUser
  /\ PostToken(NoUser)
  /\ Excuse(Waiting)
  /\ UNCHANGED <<screen, sharedQueue, client, network, stored, owner, fate, overtaken, losses>>

(* Auth renews the token of the user by itself. *)
RenewToken ==
  /\ user # NoUser
  /\ PostToken(user)
  /\ UNCHANGED <<session, sharedQueue, client, network, stored, history, losses>>

(* Fault: the client is filed under Auth's user, who may have gone. *)
SaveUnderAuthUser(c) ==
  /\ screen # NoUser
  /\ fate[c] = "new"
  /\ fate' = [fate EXCEPT ![c] = "waiting"]
  /\ owner' = [owner EXCEPT ![c] = user]
  /\ sharedQueue' = Append(sharedQueue, Put(c))
  /\ Excuse(IF user # screen \/ (overtaken /\ ~TokenQueued) THEN {c} ELSE {})
  /\ UNCHANGED <<session, posted, client, network, stored, overtaken, bounds>>

(* saveClient: childByAutoId makes a new key under the path of the main    *)
(* screen's user, setValue dispatches FRepo's set.                         *)
saveClient(c) ==
  /\ screen # NoUser
  /\ fate[c] = "new"
  /\ fate' = [fate EXCEPT ![c] = "waiting"]
  /\ owner' = [owner EXCEPT ![c] = screen]
  /\ sharedQueue' = Append(sharedQueue, Put(c))
  /\ Excuse(IF user # screen \/ (overtaken /\ ~TokenQueued) THEN {c} ELSE {})
  /\ UNCHANGED <<session, posted, client, network, stored, overtaken, bounds>>

(* authStateDidChangeNotification and dispatch_group_notify hand Auth's    *)
(* block on to the shared queue.                                           *)
HandOn ==
  /\ posted # <<>>
  /\ posted' = Tail(posted)
  /\ sharedQueue' = Append(sharedQueue, Head(posted))
  /\ UNCHANGED <<session, client, network, stored, history, bounds>>

-----------------------------------------------------------------------------
(* Sending *)

Send(requests) == links' = [links EXCEPT ![Current].requests = @ \o requests]

(* Fault: the newest put is sent again first. *)
RestoreNewestFirst ==
  Send([i \in 1..Len(outstanding) |-> PutRequest(outstanding[Len(outstanding) + 1 - i])])

(* restoreState: every outstanding put, sent before or not. *)
restoreState ==
  Send([i \in 1..Len(outstanding) |-> PutRequest(outstanding[i])])

(* The head of the shared queue is a block of this kind, and runs. *)
Runs(op) ==
  /\ sharedQueue # <<>>
  /\ Head(sharedQueue).op = op
  /\ sharedQueue' = Tail(sharedQueue)

(* putInternal *)
putInternal ==
  /\ Runs("put")
  /\ LET c == Head(sharedQueue).client IN
     /\ outstanding' = Append(outstanding, c)
     /\ IF canSendWrites THEN Send(<<PutRequest(c)>>) ELSE UNCHANGED links
  /\ UNCHANGED <<session, posted, conn, authToken, retry, fetch, killed,
                 replies, stored, history, bounds>>

(* Fault: the server is not told that the user has left. *)
RefreshWithoutUnauth ==
  /\ Runs("token")
  /\ LET who == Head(sharedQueue).who IN
     /\ authToken' = who
     /\ IF connected /\ who # NoUser
        THEN Send(<<Auth(who, FALSE)>>)
        ELSE UNCHANGED links
  /\ overtaken' = FALSE
  /\ UNCHANGED <<session, posted, conn, retry, fetch, killed, outstanding,
                 replies, stored, owner, fate, excused, bounds>>

(* refreshAuthToken *)
refreshAuthToken ==
  /\ Runs("token")
  /\ LET who == Head(sharedQueue).who IN
     /\ authToken' = who
     /\ IF connected
        THEN Send(<<IF who # NoUser THEN Auth(who, FALSE) ELSE Unauth>>)
        ELSE UNCHANGED links
  /\ overtaken' = FALSE
  /\ UNCHANGED <<session, posted, conn, retry, fetch, killed, outstanding,
                 replies, stored, owner, fate, excused, bounds>>

-----------------------------------------------------------------------------
(* Connecting *)

(* tryScheduleReconnect *)
tryScheduleReconnect == retry' = shouldReconnect

(* The retry runs: a token that is still valid, or nobody's, is answered   *)
(* at once; any other is fetched from the network.  Auth reads its user a  *)
(* little later than the retry runs, which nothing can tell.               *)
RunRetry ==
  /\ retry
  /\ retry' = FALSE
  /\ conn' = "GettingToken"
  /\ \/ posted' = Append(posted, Context(user)) /\ UNCHANGED fetch
     \/ user # NoUser /\ fetch' = user /\ UNCHANGED posted
  /\ UNCHANGED <<session, sharedQueue, authToken, killed, outstanding, network,
                 stored, history, bounds>>

(* The network answers with a token of the user it was asked for, or fails. *)
TokenFetched ==
  /\ fetch # NoFetch
  /\ fetch' = NoFetch
  /\ \/ posted' = Append(posted, Context(fetch)) /\ UNCHANGED losses
     \/ /\ losses < MaxLosses
        /\ losses' = losses + 1
        /\ posted' = Append(posted, FetchError)
  /\ UNCHANGED <<session, sharedQueue, conn, authToken, retry, killed, outstanding,
                 network, stored, history, news>>

(* openNetworkConnectionWithContext: the token of the context is taken,    *)
(* whatever refreshAuthToken has been told meanwhile.                      *)
openNetworkConnection ==
  /\ Runs("context")
  /\ LET who == Head(sharedQueue).who IN
     /\ authToken' = who
     /\ overtaken' = (who # user)
     /\ Excuse(IF who # user THEN Exposed ELSE {})
  /\ conn' = "Connecting"
  /\ links' = Append(links, NewLink)
  /\ replies' = <<>>
  /\ UNCHANGED <<session, posted, retry, fetch, killed, outstanding, stored,
                 owner, fate, bounds>>

FetchFailed ==
  /\ Runs("error")
  /\ conn' = "Disconnected"
  /\ tryScheduleReconnect
  /\ UNCHANGED <<session, posted, authToken, fetch, killed, outstanding, network,
                 stored, history, bounds>>

(* onReady, restoreAuth *)
onReady ==
  /\ conn = "Connecting"
  /\ IF authToken = NoUser
     THEN conn' = "Connected" /\ restoreState
     ELSE conn' = "Authenticating" /\ Send(<<Auth(authToken, TRUE)>>)
  /\ UNCHANGED <<session, posted, sharedQueue, authToken, retry, fetch, killed,
                 outstanding, replies, stored, history, bounds>>

(* Fault: the puts go with the callbacks of their requests. *)
ForgetOnDisconnect ==
  /\ conn' = "Disconnected"
  /\ replies' = <<>>
  /\ tryScheduleReconnect
  /\ outstanding' = <<>>

(* Fault: a retry is scheduled with the state left as it is. *)
RetryWhileConnected ==
  /\ replies' = <<>>
  /\ tryScheduleReconnect
  /\ UNCHANGED <<conn, outstanding>>

(* onDisconnect: the callbacks of the requests are forgotten, the puts are *)
(* kept.  A put without a hash is not a transaction, so none is cancelled. *)
onDisconnect ==
  /\ conn' = "Disconnected"
  /\ replies' = <<>>
  /\ tryScheduleReconnect
  /\ UNCHANGED outstanding

Losing == losses < MaxLosses /\ losses' = losses + 1

(* The connection is lost, times out or is reset. *)
Lose ==
  /\ conn \in {"Connecting", "Authenticating", "Connected"}
  /\ Losing
  /\ onDisconnect
  /\ UNCHANGED <<session, posted, sharedQueue, authToken, fetch, killed, links,
                 stored, history, news>>

(* onKill: no reconnection any more. *)
onKill ==
  /\ conn \in {"Connecting", "Authenticating", "Connected"}
  /\ Losing
  /\ killed' = TRUE
  /\ conn' = "Disconnected"
  /\ replies' = <<>>
  /\ UNCHANGED <<session, posted, sharedQueue, authToken, retry, fetch, outstanding,
                 links, stored, history, news>>

-----------------------------------------------------------------------------
(* The server *)

(* The next request of connection n.  Only the last connection is answered. *)
Serve(n) ==
  /\ links[n].requests # <<>>
  /\ LET request == Head(links[n].requests)
         Answer(cred, ok, is) ==
           /\ links' = [links EXCEPT ![n] = [requests |-> Tail(@.requests), cred |-> cred]]
           /\ replies' = IF is /\ n = Current /\ connected
                         THEN Append(replies, Reply(request, ok)) ELSE replies
         cred == links[n].cred IN
     \/ /\ request.op = "auth"
        /\ \/ Answer(request.who, TRUE, TRUE) /\ UNCHANGED losses
           \/ Answer(NoUser, FALSE, TRUE) /\ Losing
        /\ UNCHANGED stored
     \/ /\ request.op = "unauth"
        /\ Answer(NoUser, TRUE, FALSE)
        /\ UNCHANGED <<stored, losses>>
     \/ /\ request.op = "put"
        /\ <<cred, owner[request.client]>> \in Permitted
        /\ Answer(cred, TRUE, TRUE)
        /\ stored' = stored \cup {request.client}
        /\ UNCHANGED losses
     \/ /\ request.op = "put"
        /\ <<cred, owner[request.client]>> \notin Permitted
        /\ Answer(cred, FALSE, TRUE)
        /\ UNCHANGED <<stored, losses>>
  /\ UNCHANGED <<session, posted, sharedQueue, client, history, news>>

(* The token of the connection expires at the server, which says so. *)
Revoke ==
  /\ conn = "Connected"
  /\ links[Current].cred # NoUser
  /\ Losing
  /\ links' = [links EXCEPT ![Current].cred = NoUser]
  /\ replies' = Append(replies, Revoked)
  /\ UNCHANGED <<session, posted, sharedQueue, client, stored, history, news>>

-----------------------------------------------------------------------------
(* onDataMessage *)

Hears(op) == replies # <<>> /\ Head(replies).request.op = op

(* Fault: nothing is restored after the token is accepted. *)
AcceptWithoutRestore ==
  /\ Hears("auth") /\ Head(replies).ok
  /\ conn' = "Connected"
  /\ replies' = Tail(replies)
  /\ UNCHANGED <<session, posted, sharedQueue, authToken, retry, fetch, killed,
                 links, outstanding, stored, history, bounds>>

(* The callback of sendAuthAndRestoreStateAfterComplete *)
AuthAccepted ==
  /\ Hears("auth") /\ Head(replies).ok
  /\ conn' = "Connected"
  /\ replies' = Tail(replies)
  /\ IF Head(replies).request.restore THEN restoreState ELSE UNCHANGED links
  /\ UNCHANGED <<session, posted, sharedQueue, authToken, retry, fetch, killed,
                 outstanding, stored, history, bounds>>

(* Fault: the token goes and the connection stays. *)
AuthLostKeepsConnection ==
  /\ Hears("auth") \/ Hears("unauth")
  /\ ~Head(replies).ok
  /\ authToken' = NoUser
  /\ replies' = Tail(replies)
  /\ UNCHANGED <<session, posted, sharedQueue, conn, retry, fetch, killed, links,
                 outstanding, stored, history, bounds>>

(* The token is refused, or onAuthRevokedWithStatus: the token goes, and   *)
(* the connection with it.                                                 *)
AuthLost ==
  /\ Hears("auth") \/ Hears("unauth")
  /\ ~Head(replies).ok
  /\ authToken' = NoUser
  /\ onDisconnect
  /\ UNCHANGED <<session, posted, sharedQueue, fetch, killed, links, stored,
                 history, bounds>>

Without(puts, c) ==
  LET k == CHOOSE i \in 1..Len(puts) : puts[i] = c
  IN  [i \in 1..(Len(puts) - 1) |-> IF i < k THEN puts[i] ELSE puts[i + 1]]

(* Fault: any answer is taken for success. *)
AnyAnswerIsSuccess ==
  /\ Hears("put")
  /\ replies' = Tail(replies)
  /\ LET c == Head(replies).request.client IN
     /\ outstanding' = Without(outstanding, c)
     /\ fate' = [fate EXCEPT ![c] = "saved"]
  /\ UNCHANGED <<session, posted, sharedQueue, conn, authToken, retry, fetch, killed,
                 links, stored, owner, excused, overtaken, bounds>>

(* The callback of sendPut, ackWrite, callOnComplete *)
PutAnswered ==
  /\ Hears("put")
  /\ replies' = Tail(replies)
  /\ LET c == Head(replies).request.client IN
     IF \E i \in 1..Len(outstanding) : outstanding[i] = c
     THEN /\ outstanding' = Without(outstanding, c)
          /\ fate' = [fate EXCEPT ![c] = IF Head(replies).ok THEN "saved" ELSE "refused"]
     ELSE UNCHANGED <<outstanding, fate>>
  /\ UNCHANGED <<session, posted, sharedQueue, conn, authToken, retry, fetch, killed,
                 links, stored, owner, excused, overtaken, bounds>>

-----------------------------------------------------------------------------
(* The process ends and is started again: puts are kept in memory only.    *)
(* Auth has its user from the keychain.                                    *)
EndProcess ==
  /\ Losing
  /\ screen' = NoUser
  /\ posted' = <<>>
  /\ sharedQueue' = <<>>
  /\ conn' = "Disconnected"
  /\ authToken' = NoUser
  /\ retry' = TRUE
  /\ fetch' = NoFetch
  /\ killed' = FALSE
  /\ outstanding' = <<>>
  /\ replies' = <<>>
  /\ fate' = [c \in Clients |-> IF fate[c] = "waiting" THEN "gone" ELSE fate[c]]
  /\ overtaken' = FALSE
  /\ UNCHANGED <<user, links, stored, owner, excused, news>>

SharedQueue == putInternal \/ refreshAuthToken \/ openNetworkConnection \/ FetchFailed

Listen == AuthAccepted \/ AuthLost \/ PutAnswered

Next ==
  \/ \E who \in Users : SignIn(who)
  \/ ShowMainScreen \/ SignOut \/ ForcedSignOut \/ RenewToken
  \/ \E c \in Clients : saveClient(c)
  \/ HandOn \/ SharedQueue
  \/ RunRetry \/ TokenFetched \/ onReady \/ Lose \/ onKill
  \/ \E n \in 1..Len(links) : Serve(n)
  \/ Revoke
  \/ Listen
  \/ EndProcess

(* Fairness: blocks run, timers fire, fetches return, the server answers.  *)
(* MaxLosses bounds how often the network fails, so that from some point   *)
(* on a connection holds; nothing is assumed of the person or of Auth.     *)
Fairness ==
  /\ WF_vars(HandOn)
  /\ WF_vars(SharedQueue)
  /\ WF_vars(RunRetry)
  /\ WF_vars(TokenFetched)
  /\ WF_vars(onReady)
  /\ WF_vars(Listen)
  /\ WF_vars(links # <<>> /\ Serve(Current))

Spec == Init /\ [][Next]_vars /\ Fairness

-----------------------------------------------------------------------------
(* Properties *)

Blocks == [op : {"token", "context", "error", "put"}, who : AnyUser,
           client : Clients \cup {NoClient}]
Requests == [op : {"auth", "unauth", "put"}, who : AnyUser,
             client : Clients \cup {NoClient}, restore : BOOLEAN]

TypeOK ==
  /\ user \in AnyUser /\ screen \in AnyUser
  /\ posted \in Seq(Blocks) /\ sharedQueue \in Seq(Blocks)
  /\ conn \in States
  /\ authToken \in AnyUser
  /\ retry \in BOOLEAN /\ killed \in BOOLEAN /\ overtaken \in BOOLEAN
  /\ fetch \in AnyUser
  /\ outstanding \in Seq(Clients)
  /\ links \in Seq([requests : Seq(Requests), cred : AnyUser])
  /\ replies \in Seq([request : Requests, ok : BOOLEAN])
  /\ stored \subseteq Clients /\ excused \subseteq Clients
  /\ owner \in [Clients -> AnyUser]
  /\ \A c \in Clients : owner[c] = NoUser <=> fate[c] = "new"
  /\ fate \in [Clients -> {"new", "waiting", "saved", "refused", "gone"}]
  /\ losses \in 0..MaxLosses /\ news \in 0..MaxNews

(* The positions of the puts in the shared queue *)
QueuedPuts == {i \in 1..Len(sharedQueue) : sharedQueue[i].op = "put"}

(* Whatever is lost, revoked or sent again, a client that waits for its    *)
(* answer is held exactly once in the process, by the connection or by the *)
(* queue, and nothing else is.                                             *)
NothingForgotten ==
  /\ \A i, j \in 1..Len(outstanding) : outstanding[i] = outstanding[j] => i = j
  /\ \A i, j \in QueuedPuts : sharedQueue[i].client = sharedQueue[j].client => i = j
  /\ \A i \in 1..Len(outstanding), j \in QueuedPuts : outstanding[i] # sharedQueue[j].client
  /\ Waiting = {outstanding[i] : i \in 1..Len(outstanding)}
                 \cup {sharedQueue[j].client : j \in QueuedPuts}

(* The requests of the last connection that have no heard answer, those    *)
(* answered first, and the positions of the puts among them                *)
UnderWay == [i \in 1..Len(replies) |-> replies[i].request] \o links[Current].requests
PutsUnderWay == {k \in 1..Len(UnderWay) : UnderWay[k].op = "put"}

(* Puts are answered in the order of their index: on one connection the    *)
(* puts under way are the outstanding ones, each once and in order.        *)
AnswersInOrder ==
  canSendWrites =>
    /\ \A i \in 1..Len(outstanding) :
         \E k \in PutsUnderWay : UnderWay[k].client = outstanding[i]
    /\ \A k \in PutsUnderWay :
         \E i \in 1..Len(outstanding) : UnderWay[k].client = outstanding[i]
    /\ \A k, l \in PutsUnderWay, i, j \in 1..Len(outstanding) :
         /\ k < l
         /\ UnderWay[k].client = outstanding[i] /\ UnderWay[l].client = outstanding[j]
         => i < j

(* The connection works with the credentials the process believes it has,  *)
(* once nothing about them is under way.                                   *)
CredentialsAgree ==
  canSendWrites /\ (\A i \in 1..Len(UnderWay) : UnderWay[i].op = "put") =>
    links[Current].cred = authToken

(* A client is refused only when its owner was not signed in all the time  *)
(* from the save to the answer, or when a token that was fetched for a     *)
(* user who has left replaced the token of the one who came.               *)
RefusalsExplained == \A c \in Clients : fate[c] = "refused" => c \in excused

(* The NSAsserts of tryScheduleReconnect and openNetworkConnection. *)
AssertionsHold ==
  /\ retry => conn = "Disconnected"
  /\ \A i \in 1..Len(sharedQueue) :
       sharedQueue[i].op \in {"context", "error"} => conn = "GettingToken"

(* Every client that is handed over is answered, unless the process ends   *)
(* or the server has killed the connection.                                *)
EveryPutAnswered ==
  \A c \in Clients : fate[c] = "waiting" ~> fate[c] # "waiting" \/ killed

(* The clients of the app live as ClientBook says, with the same fates and *)
(* the same server: whatever happens to connections, credentials and       *)
(* blocks in between.                                                      *)
Book == INSTANCE ClientBook
KeepsTheBook == Book!Spec
=============================================================================
