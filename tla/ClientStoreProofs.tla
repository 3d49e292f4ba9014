-------------------------- MODULE ClientStoreProofs --------------------------
(***************************************************************************)
(* Proofs about ClientStore, for any accounts, clients and rules and any   *)
(* number of lost connections and changes of the token.                    *)
(***************************************************************************)
EXTENDS ClientStore, SequenceTheorems, TLAPS

-----------------------------------------------------------------------------
(* What is in the queues and on the connections: a put has a client and    *)
(* nothing else has, Auth posts no puts, and only the first Auth of a      *)
(* connection has the state restored.                                      *)

GoodBlocks == {b \in Blocks : b.op = "put" <=> b.client # NoClient}
AuthBlocks == {b \in GoodBlocks : b.op # "put"}
GoodRequests ==
  {r \in Requests : /\ r.op = "put" <=> r.client # NoClient
                    /\ r.op = "unauth" => r.who = NoUser
                    /\ r.restore => r.op = "auth"}
GoodReplies == [request : GoodRequests, ok : BOOLEAN]
GoodLinks == [requests : Seq(GoodRequests), cred : AnyUser]

Live == {"Connecting", "Authenticating", "Connected"}

(* The types of the variables *)
Typed ==
  /\ user \in AnyUser /\ screen \in AnyUser
  /\ posted \in Seq(AuthBlocks) /\ sharedQueue \in Seq(GoodBlocks)
  /\ conn \in States
  /\ authToken \in AnyUser
  /\ retry \in BOOLEAN /\ killed \in BOOLEAN /\ overtaken \in BOOLEAN
  /\ fetch \in AnyUser
  /\ outstanding \in Seq(Clients)
  /\ links \in Seq(GoodLinks)
  /\ replies \in Seq(GoodReplies)
  /\ stored \subseteq Clients /\ excused \subseteq Clients
  /\ owner \in [Clients -> AnyUser]
  /\ fate \in [Clients -> {"new", "waiting", "saved", "refused", "gone"}]
  /\ losses \in 0..MaxLosses /\ news \in 0..MaxNews
  /\ conn \in Live \/ replies # <<>> => links # <<>>

-----------------------------------------------------------------------------
(* The inductive invariants *)

(* One attempt to connect is under way at a time: a retry, a fetch, or its *)
(* answer on one of the queues.  Replies are heard on a connection only.   *)
Answers(b) == b.op \in {"context", "error"}
OneAttempt ==
  /\ replies # <<>> => connected
  /\ retry => conn = "Disconnected"
  /\ fetch # NoFetch => conn = "GettingToken"
  /\ \A i \in 1..Len(posted) : Answers(posted[i]) =>
       /\ conn = "GettingToken" /\ fetch = NoFetch
       /\ \A j \in 1..Len(posted) : Answers(posted[j]) => i = j
       /\ \A j \in 1..Len(sharedQueue) : ~Answers(sharedQueue[j])
  /\ \A i \in 1..Len(sharedQueue) : Answers(sharedQueue[i]) =>
       /\ conn = "GettingToken" /\ fetch = NoFetch
       /\ \A j \in 1..Len(sharedQueue) : Answers(sharedQueue[j]) => i = j

(* A client that waits is held once, and has an owner from the moment it   *)
(* is handed over.                                                         *)
OnConnection(c) == \E i \in 1..Len(outstanding) : outstanding[i] = c
OnQueue(c) == \E j \in QueuedPuts : sharedQueue[j].client = c
HeldOnce ==
  /\ \A i, j \in 1..Len(outstanding) : outstanding[i] = outstanding[j] => i = j
  /\ \A i, j \in QueuedPuts : sharedQueue[i].client = sharedQueue[j].client => i = j
  /\ \A c \in Clients : ~(OnConnection(c) /\ OnQueue(c))
  /\ \A c \in Clients : fate[c] = "waiting" <=> OnConnection(c) \/ OnQueue(c)
  /\ \A c \in Clients : owner[c] = NoUser <=> fate[c] = "new"

(* What is under way on the last connection: nothing before it is ready,   *)
(* the Auth that restores the state first and no put before its answer,    *)
(* and no such Auth once the puts are sent.                                *)
Handshake ==
  /\ conn = "Connecting" =>
       links[Current].requests = <<>> /\ links[Current].cred = NoUser
  /\ conn = "Authenticating" =>
       /\ Len(UnderWay) > 0 /\ UnderWay[1].restore
       /\ \A k \in 1..Len(UnderWay) :
            UnderWay[k].op # "put" /\ (k > 1 => ~UnderWay[k].restore)
  /\ conn = "Connected" => \A k \in 1..Len(UnderWay) : ~UnderWay[k].restore

(* The puts of a sequence of requests are these, each once and in order. *)
PutsIn(requests) == {k \in 1..Len(requests) : requests[k].op = "put"}
InOrder(requests, puts) ==
  /\ \A i \in 1..Len(puts) : \E k \in PutsIn(requests) : requests[k].client = puts[i]
  /\ \A k \in PutsIn(requests) : \E i \in 1..Len(puts) : requests[k].client = puts[i]
  /\ \A k, l \in PutsIn(requests), i, j \in 1..Len(puts) :
       k < l /\ requests[k].client = puts[i] /\ requests[l].client = puts[j] => i < j

Ordered ==
  /\ Handshake
  /\ canSendWrites => InOrder(UnderWay, outstanding)

(* Every request is for a client that was handed over, and "ok" is said of *)
(* what the server holds.                                                  *)
PutsOfThese(requests, clients) ==
  \A k \in 1..Len(requests) : requests[k].op = "put" => requests[k].client \in clients
HandedOver == {c \in Clients : fate[c] # "new"}
Truthful ==
  /\ \A n \in 1..Len(links) : PutsOfThese(links[n].requests, HandedOver)
  /\ \A k \in 1..Len(replies) :
       replies[k].request.op = "put" /\ replies[k].ok => replies[k].request.client \in stored

(* The token was refused or revoked, and the answer is not heard yet. *)
Refusal(k) == replies[k].request.op # "put" /\ ~replies[k].ok
RefusalUnderWay == \E k \in 1..Len(replies) : Refusal(k)

(* The last of the elements of these kinds before position p, if there is  *)
(* one, is of this user; or there is none.                                 *)
Word(queue, ops, p, who) ==
  \A i \in 1..(p - 1) :
    queue[i].op \in ops /\ (\A j \in (i + 1)..(p - 1) : queue[j].op \notin ops)
      => queue[i].who = who
Silent(queue, ops, p) == \A i \in 1..(p - 1) : queue[i].op \notin ops

(* What changes the credentials of a connection; what changes the token *)
Speaks == {"auth", "unauth"}
Tells  == {"token"}

(* The last word of the process about its token is on the way to the       *)
(* server, or the server works with it, or has told that it does not.      *)
LastWord ==
  connected =>
    LET requests == links[Current].requests IN
    /\ Word(requests, Speaks, Len(requests) + 1, authToken)
    /\ Silent(requests, Speaks, Len(requests) + 1) =>
         links[Current].cred = authToken \/ RefusalUnderWay

(* Every change of the token from this position on is of this user. *)
AllOf(queue, from, who) ==
  \A i \in from..Len(queue) : queue[i].op \in Tells => queue[i].who = who

(* The news of Auth's user reach the connection in order. *)
AtHome == screen = user /\ user # NoUser
Arrived ==
  /\ Word(sharedQueue, Tells, Len(sharedQueue) + 1, user)
  /\ Silent(sharedQueue, Tells, Len(sharedQueue) + 1) /\ conn \in Live =>
       authToken = user \/ overtaken
NewsInOrder ==
  /\ Word(posted, Tells, Len(posted) + 1, user)
  /\ AtHome => AllOf(posted, 1, user)
  /\ AtHome \/ Silent(posted, Tells, Len(posted) + 1) => Arrived

(* A client that waits and has no excuse is that of the user; no other     *)
(* token reaches the connection before its put.                            *)
Covered(c) ==
  /\ owner[c] = user
  /\ AllOf(posted, 1, user)
  /\ \A p \in QueuedPuts : sharedQueue[p].client = c =>
       /\ AllOf(sharedQueue, p + 1, user)
       /\ Word(sharedQueue, Tells, p, user)
       /\ Silent(sharedQueue, Tells, p) /\ conn \in Live => authToken = user
  /\ OnConnection(c) =>
       /\ AllOf(sharedQueue, 1, user)
       /\ conn \in Live => authToken = user

(* Its put meets the credentials of the user, or the connection goes       *)
(* before its answer is heard.                                             *)
Met(c) ==
  OnConnection(c) =>
    /\ conn = "Connected" =>
         LET requests == links[Current].requests IN
         \A k \in 1..Len(requests) : requests[k].op = "put" /\ requests[k].client = c =>
           /\ Word(requests, Speaks, k, user)
           /\ Silent(requests, Speaks, k) => links[Current].cred = user \/ RefusalUnderWay
    /\ \A k \in 1..Len(replies) :
         /\ replies[k].request.op = "put" /\ replies[k].request.client = c
         /\ ~replies[k].ok
         => \E l \in 1..(k - 1) : Refusal(l)
NotRefused ==
  /\ \A c \in Clients : fate[c] = "waiting" /\ c \notin excused => Covered(c) /\ Met(c)
  /\ RefusalsExplained

-----------------------------------------------------------------------------
(* Lemmas about blocks, requests and sequences *)

(* The blocks that Auth posts *)
LEMMA AuthBlockTypes ==
  /\ \A who \in AnyUser : Token(who) \in AuthBlocks /\ Context(who) \in AuthBlocks
  /\ FetchError \in AuthBlocks
BY ClientAssumption DEF Token, Context, FetchError, AuthBlocks, GoodBlocks, Blocks, AnyUser

(* saveClient's block, and what is sent *)
LEMMA RequestTypes ==
  /\ \A c \in Clients : Put(c) \in GoodBlocks /\ PutRequest(c) \in GoodRequests
  /\ \A who \in AnyUser, then \in BOOLEAN : Auth(who, then) \in GoodRequests
  /\ Unauth \in GoodRequests
BY ClientAssumption DEF Put, PutRequest, Auth, Unauth, GoodBlocks, Blocks, GoodRequests,
   Requests, AnyUser

(* Appending to a queue *)
LEMMA Appended ==
  ASSUME NEW S, NEW s \in Seq(S), NEW e \in S
  PROVE  /\ Append(s, e) \in Seq(S)
         /\ Len(Append(s, e)) = Len(s) + 1
         /\ Len(s) \in Nat
         /\ \A i \in 1..Len(s) : Append(s, e)[i] = s[i]
         /\ Append(s, e)[Len(s) + 1] = e
BY AppendProperties, LenProperties

(* The elements of a queue after an append, by position *)
LEMMA AppendedAt ==
  ASSUME NEW S, NEW s \in Seq(S), NEW e \in S, NEW i \in 1..Len(Append(s, e))
  PROVE  Append(s, e)[i] = IF i = Len(s) + 1 THEN e ELSE s[i]
BY Appended

(* Running the head of a queue *)
LEMMA Dropped ==
  ASSUME NEW S, NEW s \in Seq(S), s # <<>>
  PROVE  /\ Head(s) \in S
         /\ Head(s) = s[1]
         /\ Tail(s) \in Seq(S)
         /\ Len(Tail(s)) = Len(s) - 1
         /\ Len(s) \in Nat \ {0}
         /\ \A i \in 1..Len(Tail(s)) : Tail(s)[i] = s[i + 1]
BY HeadTailProperties, LenProperties, EmptySeq

(* Sending on the last connection *)
LEMMA Sent ==
  ASSUME links \in Seq(GoodLinks), links # <<>>,
         NEW requests \in Seq(GoodRequests), Send(requests)
  PROVE  /\ links' \in Seq(GoodLinks)
         /\ links' # <<>>
         /\ Len(links') = Len(links)
         /\ Len(links) \in Nat \ {0}
         /\ \A n \in 1..Len(links) : n # Len(links) => links'[n] = links[n]
         /\ links'[Len(links)].cred = links[Len(links)].cred
         /\ links'[Len(links)].requests = links[Len(links)].requests \o requests
<1> DEFINE n == Len(links)
           new == [links[n] EXCEPT !.requests = @ \o requests]
<1>1. n \in Nat \ {0} /\ n \in 1..Len(links) /\ links[n] \in GoodLinks
  BY EmptySeq, ElementOfSeq, LenProperties
<1>2. new \in GoodLinks
  BY <1>1, ConcatProperties DEF GoodLinks
<1>3. links' = [links EXCEPT ![n] = new]
  BY DEF Send, Current
<1>4. /\ links' \in Seq(GoodLinks)
      /\ Len(links') = Len(links)
      /\ \A j \in 1..Len(links) : links'[j] = IF j = n THEN new ELSE links[j]
  BY <1>1, <1>2, <1>3, ExceptSeq
<1>5. links'[n] = new /\ new.cred = links[n].cred
      /\ new.requests = links[n].requests \o requests
  BY <1>1, <1>4 DEF GoodLinks
<1> QED
  BY <1>1, <1>4, <1>5, EmptySeq

(* restoreState sends well-formed puts *)
LEMMA Restored ==
  ASSUME outstanding \in Seq(Clients)
  PROVE  /\ [i \in 1..Len(outstanding) |-> PutRequest(outstanding[i])] \in Seq(GoodRequests)
         /\ Len([i \in 1..Len(outstanding) |-> PutRequest(outstanding[i])]) = Len(outstanding)
BY LenProperties, ElementOfSeq, RequestTypes

-----------------------------------------------------------------------------
(* The types *)

(* Removing an answered put leaves a sequence of clients. *)
LEMMA WithoutType ==
  ASSUME NEW puts \in Seq(Clients), NEW c, \E i \in 1..Len(puts) : puts[i] = c
  PROVE  Without(puts, c) \in Seq(Clients) /\ Len(Without(puts, c)) = Len(puts) - 1
<1> DEFINE k == CHOOSE i \in 1..Len(puts) : puts[i] = c
           kept(i) == IF i < k THEN puts[i] ELSE puts[i + 1]
<1>1. Len(puts) \in Nat /\ k \in 1..Len(puts)
  BY LenProperties
<1>2. \A i \in 1..(Len(puts) - 1) : kept(i) \in Clients
  BY <1>1, ElementOfSeq
<1>3. Len(puts) - 1 \in Nat
  BY <1>1
<1> HIDE DEF k, kept
<1>4. [i \in 1..(Len(puts) - 1) |-> kept(i)] \in Seq(Clients)
  BY <1>2, <1>3, IsASeq
<1>5. Len([i \in 1..(Len(puts) - 1) |-> kept(i)]) = Len(puts) - 1
  BY <1>3
<1> QED
  BY <1>4, <1>5 DEF kept, k, Without

(* What Serve does to the connections and the replies, when the credentials *)
(* of the connection become cred and the answer, if there is one, is ok     *)
Serving(n, cred, ok) ==
  LET request == Head(links[n].requests) IN
  /\ links' = [links EXCEPT ![n] = [requests |-> Tail(links[n].requests), cred |-> cred]]
  /\ [requests |-> Tail(links[n].requests), cred |-> cred] \in GoodLinks
  /\ replies' = IF request.op # "unauth" /\ n = Current /\ connected
                THEN Append(replies, Reply(request, ok)) ELSE replies
  /\ \/ /\ request.op = "auth" /\ stored' = stored
        /\ \/ ok /\ cred = request.who /\ losses' = losses
           \/ ~ok /\ cred = NoUser /\ Losing
     \/ /\ request.op = "unauth" /\ stored' = stored /\ cred = NoUser
        /\ losses' = losses
     \/ /\ request.op = "put" /\ cred = links[n].cred /\ losses' = losses
        /\ \/ /\ ok /\ stored' = stored \cup {request.client}
              /\ <<cred, owner[request.client]>> \in Permitted
           \/ /\ ~ok /\ stored' = stored
              /\ <<cred, owner[request.client]>> \notin Permitted

(* What Serve does is one of these. *)
LEMMA Served ==
  ASSUME Typed, NEW n \in 1..Len(links), Serve(n)
  PROVE  /\ links[n] \in GoodLinks /\ links[n].requests # <<>>
         /\ Head(links[n].requests) \in GoodRequests
         /\ \E cred \in AnyUser, ok \in BOOLEAN : Serving(n, cred, ok)
<1> DEFINE request == Head(links[n].requests)
           Answer(cred, ok, is) ==
             /\ links' = [links EXCEPT ![n] = [requests |-> Tail(@.requests), cred |-> cred]]
             /\ replies' = IF is /\ n = Current /\ connected
                           THEN Append(replies, Reply(request, ok)) ELSE replies
           next(cred) == [requests |-> Tail(links[n].requests), cred |-> cred]
<1>1. links[n] \in GoodLinks /\ links[n].requests # <<>>
  BY ElementOfSeq DEF Typed, Serve
<1>2. links[n].requests \in Seq(GoodRequests) /\ links[n].cred \in AnyUser
  BY <1>1 DEF GoodLinks
<1>3. request \in GoodRequests /\ Tail(links[n].requests) \in Seq(GoodRequests)
  BY <1>1, <1>2, Dropped
<1>4. request.who \in AnyUser /\ request.op \in {"auth", "unauth", "put"}
  BY <1>3 DEF GoodRequests, Requests
<1>5. \A cred \in AnyUser : next(cred) \in GoodLinks
  BY <1>3 DEF GoodLinks
<1>6. \A cred, ok, is : Answer(cred, ok, is) => links' = [links EXCEPT ![n] = next(cred)]
  BY DEF Typed
<1>7. NoUser \in AnyUser
  BY DEF AnyUser
<1>8. \/ /\ request.op = "auth"
         /\ \/ Answer(request.who, TRUE, TRUE) /\ UNCHANGED losses
            \/ Answer(NoUser, FALSE, TRUE) /\ Losing
         /\ UNCHANGED stored
      \/ /\ request.op = "unauth"
         /\ Answer(NoUser, TRUE, FALSE)
         /\ UNCHANGED <<stored, losses>>
      \/ /\ request.op = "put"
         /\ <<links[n].cred, owner[request.client]>> \in Permitted
         /\ Answer(links[n].cred, TRUE, TRUE)
         /\ stored' = stored \cup {request.client}
         /\ UNCHANGED losses
      \/ /\ request.op = "put"
         /\ <<links[n].cred, owner[request.client]>> \notin Permitted
         /\ Answer(links[n].cred, FALSE, TRUE)
         /\ UNCHANGED <<stored, losses>>
  BY DEF Serve
<1>a. CASE request.op = "auth" /\ Answer(request.who, TRUE, TRUE) /\ UNCHANGED <<stored, losses>>
  <2>1. /\ links' = [links EXCEPT ![n] = next(request.who)]
        /\ replies' = IF n = Current /\ connected
                      THEN Append(replies, Reply(request, TRUE)) ELSE replies
    BY <1>a, <1>6
  <2>2. Serving(n, request.who, TRUE)
  BY <1>a, <1>1, <1>3, <1>4, <1>5, <2>1 DEF Serving
  <2> QED BY <1>1, <1>2, <1>3, <1>4, <1>7, <2>2
<1>b. CASE request.op = "auth" /\ Answer(NoUser, FALSE, TRUE) /\ UNCHANGED stored /\ Losing
  <2>1. /\ links' = [links EXCEPT ![n] = next(NoUser)]
        /\ replies' = IF n = Current /\ connected
                      THEN Append(replies, Reply(request, FALSE)) ELSE replies
    BY <1>b, <1>6
  <2>2. Serving(n, NoUser, FALSE)
  BY <1>b, <1>1, <1>3, <1>5, <1>7, <2>1 DEF Serving
  <2> QED BY <1>1, <1>2, <1>3, <1>4, <1>7, <2>2
<1>c. CASE request.op = "unauth" /\ Answer(NoUser, TRUE, FALSE) /\ UNCHANGED <<stored, losses>>
  <2>1. links' = [links EXCEPT ![n] = next(NoUser)] /\ replies' = replies
    BY <1>c, <1>6
  <2>2. Serving(n, NoUser, TRUE)
  BY <1>c, <1>1, <1>3, <1>5, <1>7, <2>1 DEF Serving
  <2> QED BY <1>1, <1>2, <1>3, <1>4, <1>7, <2>2
<1>d. CASE /\ request.op = "put"
           /\ <<links[n].cred, owner[request.client]>> \in Permitted
           /\ Answer(links[n].cred, TRUE, TRUE)
           /\ stored' = stored \cup {request.client}
           /\ UNCHANGED losses
  <2>1. /\ links' = [links EXCEPT ![n] = next(links[n].cred)]
        /\ replies' = IF n = Current /\ connected
                      THEN Append(replies, Reply(request, TRUE)) ELSE replies
    BY <1>d, <1>6
  <2>2. Serving(n, links[n].cred, TRUE)
  BY <1>d, <1>1, <1>2, <1>3, <1>5, <2>1 DEF Serving
  <2> QED BY <1>1, <1>2, <1>3, <1>4, <1>7, <2>2
<1>e. CASE /\ request.op = "put"
           /\ <<links[n].cred, owner[request.client]>> \notin Permitted
           /\ Answer(links[n].cred, FALSE, TRUE)
           /\ UNCHANGED <<stored, losses>>
  <2>1. /\ links' = [links EXCEPT ![n] = next(links[n].cred)]
        /\ replies' = IF n = Current /\ connected
                      THEN Append(replies, Reply(request, FALSE)) ELSE replies
    BY <1>e, <1>6
  <2>2. Serving(n, links[n].cred, FALSE)
  BY <1>e, <1>1, <1>2, <1>3, <1>5, <2>1 DEF Serving
  <2> QED BY <1>1, <1>2, <1>3, <1>4, <1>7, <2>2
<1> QED
  BY <1>8, <1>a, <1>b, <1>c, <1>d, <1>e

(* The types hold at first. *)
LEMMA TypedInit == Init => Typed
<1> SUFFICES ASSUME Init PROVE Typed
  OBVIOUS
<1>1. /\ posted \in Seq(AuthBlocks) /\ sharedQueue \in Seq(GoodBlocks)
      /\ outstanding \in Seq(Clients) /\ links \in Seq(GoodLinks)
      /\ replies \in Seq(GoodReplies)
  BY EmptySeq DEF Init
<1>2. /\ owner \in [Clients -> AnyUser]
      /\ fate \in [Clients -> {"new", "waiting", "saved", "refused", "gone"}]
      /\ stored \subseteq Clients /\ excused \subseteq Clients
      /\ losses \in 0..MaxLosses /\ news \in 0..MaxNews
  BY BoundAssumption DEF Init, AnyUser
<1>3. /\ user \in AnyUser /\ screen \in AnyUser /\ authToken \in AnyUser
      /\ fetch \in AnyUser /\ conn \in States
      /\ retry \in BOOLEAN /\ killed \in BOOLEAN /\ overtaken \in BOOLEAN
      /\ ~(conn \in Live \/ replies # <<>>)
  BY DEF Init, AnyUser, States, NoFetch, Live
<1> QED
  BY <1>1, <1>2, <1>3 DEF Typed

(* Every step preserves the types. *)
LEMMA TypedStep == Typed /\ [Next]_vars => Typed'
<1> SUFFICES ASSUME Typed, [Next]_vars PROVE Typed'
  OBVIOUS
<1> USE DEF Typed, session, client, network, history, bounds
<1>0. NoUser \in AnyUser /\ NoUser \notin Users /\ \A u \in Users : u \in AnyUser
  BY UserAssumption DEF AnyUser
<1>1. ASSUME NEW who, PostToken(who), who \in AnyUser
      PROVE  posted' \in Seq(AuthBlocks) /\ news' \in 0..MaxNews
  <2>1. posted' = Append(posted, Token(who)) /\ news < MaxNews /\ news' = news + 1
    BY <1>1 DEF PostToken
  <2> QED BY <1>1, <2>1, AuthBlockTypes, Appended, BoundAssumption
<1>2. ASSUME NEW who \in Users, SignIn(who) PROVE Typed'
  BY <1>2, <1>0, <1>1 DEF SignIn
<1>3. CASE ShowMainScreen
  BY <1>3 DEF ShowMainScreen
<1>4. CASE SignOut
  <2>1. posted' \in Seq(AuthBlocks) /\ news' \in 0..MaxNews
    BY <1>4, <1>0, <1>1 DEF SignOut
  <2> QED BY <1>4, <1>0, <2>1 DEF SignOut, Excuse, Waiting
<1>5. CASE ForcedSignOut
  BY <1>5, <1>0, <1>1 DEF ForcedSignOut, Excuse, Waiting
<1>6. CASE RenewToken
  BY <1>6, <1>0, <1>1 DEF RenewToken
<1>7. ASSUME NEW c \in Clients, saveClient(c) PROVE Typed'
  <2>1. sharedQueue' \in Seq(GoodBlocks)
    BY <1>7, RequestTypes, Appended DEF saveClient
  <2>2. excused' \subseteq Clients
    BY <1>7 DEF saveClient, Excuse
  <2>3. /\ fate' = [fate EXCEPT ![c] = "waiting"]
        /\ owner' = [owner EXCEPT ![c] = screen] /\ screen # NoUser
    BY <1>7 DEF saveClient
  <2> QED BY <1>7, <2>1, <2>2, <2>3 DEF saveClient
<1>8. CASE HandOn
  <2>1. Head(posted) \in AuthBlocks /\ posted' \in Seq(AuthBlocks)
    BY <1>8, Dropped DEF HandOn
  <2>2. sharedQueue' \in Seq(GoodBlocks)
    BY <1>8, <2>1, Appended DEF HandOn, AuthBlocks
  <2> QED BY <1>8, <2>1, <2>2 DEF HandOn
<1>9. ASSUME NEW op, Runs(op)
      PROVE  /\ Head(sharedQueue) \in GoodBlocks /\ Head(sharedQueue).op = op
             /\ sharedQueue' \in Seq(GoodBlocks)
             /\ Head(sharedQueue).who \in AnyUser
             /\ op = "put" => Head(sharedQueue).client \in Clients
  BY <1>9, Dropped, ClientAssumption DEF Runs, GoodBlocks, Blocks
<1>10. CASE putInternal
  <2> DEFINE c == Head(sharedQueue).client
  <2>1. c \in Clients /\ sharedQueue' \in Seq(GoodBlocks)
    BY <1>10, <1>9 DEF putInternal
  <2>2. outstanding' \in Seq(Clients)
    BY <1>10, <2>1, Appended DEF putInternal
  <2>3. <<PutRequest(c)>> \in Seq(GoodRequests)
    BY <2>1, RequestTypes
  <2>4. links' \in Seq(GoodLinks) /\ (links # <<>> => links' # <<>>)
    <3>1. CASE canSendWrites
      <4>1. Send(<<PutRequest(c)>>) /\ links # <<>>
        BY <1>10, <3>1 DEF putInternal, canSendWrites, Live
      <4> QED BY <4>1, <2>3, Sent
    <3>2. CASE ~canSendWrites
      BY <1>10, <3>2 DEF putInternal
    <3> QED BY <3>1, <3>2
  <2> QED BY <1>10, <2>1, <2>2, <2>4 DEF putInternal
<1>11. CASE refreshAuthToken
  <2> DEFINE who == Head(sharedQueue).who
             msg == IF who # NoUser THEN Auth(who, FALSE) ELSE Unauth
  <2>1. who \in AnyUser /\ sharedQueue' \in Seq(GoodBlocks)
    BY <1>11, <1>9 DEF refreshAuthToken
  <2>2. msg \in GoodRequests
    BY <2>1, RequestTypes
  <2>3. links' \in Seq(GoodLinks) /\ (links # <<>> => links' # <<>>)
    <3>1. CASE connected
      <4>1. Send(<<msg>>) /\ links # <<>>
        BY <1>11, <3>1 DEF refreshAuthToken, connected, Live
      <4> HIDE DEF msg
      <4>2. <<msg>> \in Seq(GoodRequests)
        BY <2>2
      <4> QED BY <4>1, <4>2, Sent
    <3>2. CASE ~connected
      BY <1>11, <3>2 DEF refreshAuthToken
    <3> QED BY <3>1, <3>2
  <2> QED BY <1>11, <2>1, <2>3 DEF refreshAuthToken
<1>12. CASE openNetworkConnection
  <2>1. sharedQueue' \in Seq(GoodBlocks) /\ Head(sharedQueue).who \in AnyUser
    BY <1>12, <1>9 DEF openNetworkConnection
  <2>2. NewLink \in GoodLinks
    BY <1>0, EmptySeq DEF NewLink, GoodLinks
  <2>3. links' \in Seq(GoodLinks) /\ links' # <<>>
    <3>1. links' = Append(links, NewLink)
      BY <1>12 DEF openNetworkConnection
    <3> QED BY <2>2, <3>1, AppendProperties
  <2>4. replies' \in Seq(GoodReplies)
    BY <1>12, EmptySeq DEF openNetworkConnection
  <2>5. excused' \subseteq Clients
    BY <1>12 DEF openNetworkConnection, Excuse, Exposed, Waiting
  <2> QED BY <1>12, <2>1, <2>3, <2>4, <2>5 DEF openNetworkConnection, States
<1>13. CASE FetchFailed
  BY <1>13, <1>9 DEF FetchFailed, tryScheduleReconnect, shouldReconnect, States, Live
<1>14. CASE RunRetry
  <2>1. posted' \in Seq(AuthBlocks) /\ fetch' \in AnyUser
    <3>1. CASE posted' = Append(posted, Context(user)) /\ UNCHANGED fetch
      <4>1. Context(user) \in AuthBlocks
        BY AuthBlockTypes
      <4> QED BY <3>1, <4>1, Appended
    <3>2. CASE fetch' = user /\ UNCHANGED posted
      BY <3>2
    <3> QED BY <1>14, <3>1, <3>2 DEF RunRetry
  <2> QED BY <1>14, <2>1 DEF RunRetry, States, Live
<1>15. CASE TokenFetched
  <2>1. posted' \in Seq(AuthBlocks) /\ fetch' \in AnyUser
    <3>1. Context(fetch) \in AuthBlocks /\ FetchError \in AuthBlocks
      BY AuthBlockTypes
    <3>2. \E b \in AuthBlocks : posted' = Append(posted, b)
      BY <1>15, <3>1 DEF TokenFetched
    <3> QED BY <1>15, <1>0, <3>2, Appended DEF TokenFetched, NoFetch
  <2>2. losses' \in 0..MaxLosses
    BY <1>15, BoundAssumption DEF TokenFetched
  <2> QED BY <1>15, <2>1, <2>2 DEF TokenFetched
<1>16. CASE onReady
  <2>1. links # <<>>
    BY <1>16 DEF onReady, Live
  <2>2. links' \in Seq(GoodLinks) /\ links' # <<>>
    <3>1. CASE authToken = NoUser
      BY <1>16, <2>1, <3>1, Restored, Sent DEF onReady, restoreState
    <3>2. CASE authToken # NoUser
      <4> DEFINE msg == Auth(authToken, TRUE)
      <4>1. msg \in GoodRequests /\ Send(<<msg>>)
        BY <1>16, <3>2, RequestTypes DEF onReady
      <4> HIDE DEF msg
      <4>2. <<msg>> \in Seq(GoodRequests)
        BY <4>1
      <4> QED BY <2>1, <4>1, <4>2, Sent
    <3> QED BY <3>1, <3>2
  <2> QED BY <1>16, <2>2 DEF onReady, States
<1>17. CASE Lose
  <2>1. losses' \in 0..MaxLosses /\ replies' \in Seq(GoodReplies)
    BY <1>17, BoundAssumption, EmptySeq DEF Lose, Losing, onDisconnect
  <2> QED BY <1>17, <2>1 DEF Lose, onDisconnect, tryScheduleReconnect,
             shouldReconnect, States, Live
<1>18. CASE onKill
  <2>1. losses' \in 0..MaxLosses /\ replies' \in Seq(GoodReplies)
    BY <1>18, BoundAssumption, EmptySeq DEF onKill, Losing
  <2> QED BY <1>18, <2>1 DEF onKill, States, Live
<1>19. ASSUME NEW n \in 1..Len(links), Serve(n) PROVE Typed'
  <2> DEFINE request == Head(links[n].requests)
  <2>1. PICK cred \in AnyUser, ok \in BOOLEAN : Serving(n, cred, ok)
    <3> HIDE DEF Typed
    <3> QED BY <1>19, Served
  <2>2. request \in GoodRequests
    <3> HIDE DEF Typed
    <3> QED BY <1>19, Served
  <2>3. links' \in Seq(GoodLinks) /\ Len(links') = Len(links)
    BY <2>1, ExceptSeq DEF Serving
  <2>4. links' # <<>>
    BY <2>3, LenProperties, EmptySeq
  <2>5. Reply(request, ok) \in GoodReplies
    BY <2>2 DEF Reply, GoodReplies
  <2>6. replies' \in Seq(GoodReplies)
    BY <2>1, <2>5, Appended DEF Serving
  <2>7. stored' \subseteq Clients
    BY <2>1, <2>2, ClientAssumption DEF Serving, GoodRequests, Requests
  <2>8. losses' \in 0..MaxLosses
    BY <2>1, BoundAssumption DEF Serving, Losing
  <2> QED BY <1>19, <2>3, <2>4, <2>6, <2>7, <2>8 DEF Serve
<1>20. CASE Revoke
  <2>1. links # <<>> /\ Len(links) \in 1..Len(links)
    BY <1>20, EmptySeq DEF Revoke, Live
  <2>2. links[Len(links)] \in GoodLinks
    BY <2>1, ElementOfSeq
  <2>3. [links[Len(links)] EXCEPT !.cred = NoUser] \in GoodLinks
    BY <2>2, <1>0 DEF GoodLinks
  <2>4. links' = [links EXCEPT ![Len(links)] = [links[Len(links)] EXCEPT !.cred = NoUser]]
    BY <1>20 DEF Revoke, Current
  <2>5. links' \in Seq(GoodLinks) /\ links' # <<>>
    BY <2>1, <2>3, <2>4, ExceptSeq, EmptySeq
  <2>6. Revoked \in GoodReplies
    BY RequestTypes DEF Revoked, Reply, GoodReplies
  <2>7. replies' \in Seq(GoodReplies) /\ losses' \in 0..MaxLosses
    BY <1>20, <2>6, Appended, BoundAssumption DEF Revoke, Losing
  <2> QED BY <1>20, <2>5, <2>7 DEF Revoke
<1>21. CASE AuthAccepted
  <2>1. replies' \in Seq(GoodReplies) /\ replies # <<>>
    BY <1>21, Dropped DEF AuthAccepted, Hears
  <2>2. ASSUME links # <<>> PROVE links' \in Seq(GoodLinks) /\ links' # <<>>
    BY <1>21, <2>2, Restored, Sent DEF AuthAccepted, restoreState
  <2>3. links # <<>>
    BY <2>1
  <2> QED BY <1>21, <2>1, <2>2, <2>3 DEF AuthAccepted, States
<1>22. CASE AuthLost
  <2>1. replies' \in Seq(GoodReplies)
    BY <1>22, EmptySeq DEF AuthLost, onDisconnect
  <2> QED BY <1>22, <1>0, <2>1 DEF AuthLost, onDisconnect, tryScheduleReconnect,
             shouldReconnect, States, Live
<1>23. CASE PutAnswered
  <2>0. links # <<>>
    BY <1>23 DEF PutAnswered, Hears
  <2>1. replies' \in Seq(GoodReplies) /\ Head(replies) \in GoodReplies
    BY <1>23, Dropped DEF PutAnswered, Hears
  <2> DEFINE c == Head(replies).request.client
  <2>2. c \in Clients
    BY <1>23, <2>1, ClientAssumption DEF PutAnswered, Hears, GoodReplies, GoodRequests, Requests
  <2>3. CASE \E i \in 1..Len(outstanding) : outstanding[i] = c
    <3>1. outstanding' \in Seq(Clients)
      BY <1>23, <2>3, WithoutType DEF PutAnswered
    <3>2. \E f \in {"saved", "refused"} : fate' = [fate EXCEPT ![c] = f]
      BY <1>23, <2>3 DEF PutAnswered
    <3> QED BY <1>23, <2>1, <2>2, <3>1, <3>2, <2>0 DEF PutAnswered
  <2>4. CASE ~ \E i \in 1..Len(outstanding) : outstanding[i] = c
    BY <1>23, <2>0, <2>1, <2>4 DEF PutAnswered
  <2> QED BY <2>3, <2>4
<1>24. CASE EndProcess
  <2>1. /\ posted' \in Seq(AuthBlocks) /\ sharedQueue' \in Seq(GoodBlocks)
        /\ outstanding' \in Seq(Clients) /\ replies' \in Seq(GoodReplies)
    BY <1>24, EmptySeq DEF EndProcess
  <2>2. losses' \in 0..MaxLosses
    BY <1>24, BoundAssumption DEF EndProcess, Losing
  <2>3. fate' \in [Clients -> {"new", "waiting", "saved", "refused", "gone"}]
    BY <1>24 DEF EndProcess
  <2> QED BY <1>24, <1>0, <2>1, <2>2, <2>3 DEF EndProcess, NoFetch, States, Live
<1>25. CASE UNCHANGED vars
  BY <1>25 DEF vars
<1> QED
  BY <1>2, <1>3, <1>4, <1>5, <1>6, <1>7, <1>8, <1>10, <1>11, <1>12, <1>13, <1>14, <1>15,
     <1>16, <1>17, <1>18, <1>19, <1>20, <1>21, <1>22, <1>23, <1>24, <1>25
     DEF Next, SharedQueue, Listen

(* The types are an invariant. *)
LEMMA TypedAlways == Spec => []Typed
BY TypedInit, TypedStep, PTL DEF Spec

-----------------------------------------------------------------------------
(* One attempt to connect at a time *)

(* Nothing but the first attempt is under way at the start. *)
LEMMA OneAttemptInit == Init => OneAttempt
BY DEF Init, OneAttempt, NoFetch

(* A queue that loses its head or gets a block that answers nothing holds  *)
(* the answers it held.                                                    *)
LEMMA OneAttemptStep == Typed /\ OneAttempt /\ [Next]_vars => OneAttempt'
<1> SUFFICES ASSUME Typed, OneAttempt, [Next]_vars PROVE OneAttempt'
  OBVIOUS
<1> USE DEF session, client, network, history, bounds
<1>0. /\ posted \in Seq(AuthBlocks) /\ sharedQueue \in Seq(GoodBlocks)
      /\ Len(posted) \in Nat /\ Len(sharedQueue) \in Nat
      /\ \A b \in AuthBlocks : b \in GoodBlocks
  BY LenProperties DEF Typed, AuthBlocks
<1>1. ASSUME NEW who \in AnyUser, posted' = Append(posted, Token(who)),
             UNCHANGED <<retry, conn, replies, fetch, sharedQueue>>
      PROVE  OneAttempt'
  <2>1. Token(who) \in AuthBlocks /\ ~Answers(Token(who))
    BY AuthBlockTypes DEF Token, Answers
  <2>2. /\ Len(posted') = Len(posted) + 1
        /\ \A i \in 1..Len(posted') :
             posted'[i] = IF i = Len(posted) + 1 THEN Token(who) ELSE posted[i]
    BY <1>0, <1>1, <2>1, Appended
  <2>3. \A i \in 1..Len(posted') : Answers(posted'[i]) => i \in 1..Len(posted) /\ posted'[i] = posted[i]
    BY <1>0, <2>1, <2>2
  <2> HIDE DEF Answers
  <2> QED BY <1>0, <1>1, <2>2, <2>3 DEF OneAttempt, connected
<1>2. ASSUME NEW who \in Users, SignIn(who) PROVE OneAttempt'
  BY <1>1, <1>2 DEF SignIn, PostToken, AnyUser
<1>3. CASE ShowMainScreen
  BY <1>3 DEF ShowMainScreen, OneAttempt, connected
<1>4. CASE SignOut
  <2>1. CASE user = NoUser
    BY <1>4, <2>1 DEF SignOut, OneAttempt, connected
  <2>2. CASE user # NoUser
    BY <1>1, <1>4, <2>2 DEF SignOut, PostToken, AnyUser
  <2> QED BY <2>1, <2>2
<1>5. CASE ForcedSignOut
  BY <1>1, <1>5 DEF ForcedSignOut, PostToken, AnyUser
<1>6. CASE RenewToken
  BY <1>1, <1>6 DEF RenewToken, PostToken, Typed
<1>7. ASSUME NEW c \in Clients, saveClient(c) PROVE OneAttempt'
  <2>1. Put(c) \in GoodBlocks /\ ~Answers(Put(c))
    BY RequestTypes DEF Put, Answers
  <2>2. /\ Len(sharedQueue') = Len(sharedQueue) + 1
        /\ \A i \in 1..Len(sharedQueue') :
             sharedQueue'[i] = IF i = Len(sharedQueue) + 1 THEN Put(c) ELSE sharedQueue[i]
    BY <1>0, <1>7, <2>1, Appended DEF saveClient
  <2>3. \A i \in 1..Len(sharedQueue') : Answers(sharedQueue'[i]) =>
          i \in 1..Len(sharedQueue) /\ sharedQueue'[i] = sharedQueue[i]
    BY <1>0, <2>1, <2>2
  <2> QED BY <1>0, <1>7, <2>2, <2>3 DEF OneAttempt, connected, saveClient
<1>8. CASE HandOn
  <2>1. /\ posted # <<>> /\ posted' = Tail(posted)
        /\ sharedQueue' = Append(sharedQueue, Head(posted))
        /\ UNCHANGED <<retry, conn, replies, fetch>>
    BY <1>8 DEF HandOn
  <2>2. /\ Head(posted) = posted[1] /\ Head(posted) \in GoodBlocks
        /\ Len(posted') = Len(posted) - 1 /\ Len(posted) \in Nat \ {0}
        /\ \A i \in 1..Len(posted') : posted'[i] = posted[i + 1]
    BY <1>0, <2>1, Dropped
  <2>3. /\ Len(sharedQueue') = Len(sharedQueue) + 1
        /\ \A i \in 1..Len(sharedQueue') :
             sharedQueue'[i] = IF i = Len(sharedQueue) + 1 THEN posted[1] ELSE sharedQueue[i]
    BY <1>0, <2>1, <2>2, Appended
  <2> HIDE DEF Answers
  <2> QED BY <1>0, <2>1, <2>2, <2>3 DEF OneAttempt, connected
<1>9. ASSUME NEW op, Runs(op)
      PROVE  /\ sharedQueue[1].op = op /\ Len(sharedQueue') = Len(sharedQueue) - 1
             /\ Len(sharedQueue) \in Nat \ {0}
             /\ \A i \in 1..Len(sharedQueue') : sharedQueue'[i] = sharedQueue[i + 1]
  BY <1>0, <1>9, Dropped DEF Runs
<1>10. CASE putInternal
  <2> HIDE DEF Answers
  <2> QED BY <1>0, <1>9, <1>10 DEF putInternal, OneAttempt, connected
<1>11. CASE refreshAuthToken
  <2> HIDE DEF Answers
  <2> QED BY <1>0, <1>9, <1>11 DEF refreshAuthToken, OneAttempt, connected
<1>12. ASSUME Answers(sharedQueue[1]), Len(sharedQueue) \in Nat \ {0}
       PROVE  /\ conn = "GettingToken" /\ fetch = NoFetch /\ ~retry
              /\ \A i \in 1..Len(posted) : ~Answers(posted[i])
              /\ \A i \in 1..Len(sharedQueue) : Answers(sharedQueue[i]) => i = 1
  <2> HIDE DEF Answers
  <2> QED BY <1>0, <1>12 DEF OneAttempt
<1>13. CASE openNetworkConnection
  <2>1. Answers(sharedQueue[1]) /\ Len(sharedQueue) \in Nat \ {0}
    BY <1>9, <1>13 DEF openNetworkConnection, Answers
  <2>2. \A i \in 1..Len(sharedQueue') : ~Answers(sharedQueue'[i])
    BY <1>0, <1>9, <1>12, <1>13, <2>1 DEF openNetworkConnection
  <2> QED BY <1>0, <1>12, <1>13, <2>1, <2>2 DEF openNetworkConnection, OneAttempt, connected
<1>14. CASE FetchFailed
  <2>1. Answers(sharedQueue[1]) /\ Len(sharedQueue) \in Nat \ {0}
    BY <1>9, <1>14 DEF FetchFailed, Answers
  <2>2. \A i \in 1..Len(sharedQueue') : ~Answers(sharedQueue'[i])
    BY <1>0, <1>9, <1>12, <1>14, <2>1 DEF FetchFailed
  <2>3. replies = <<>>
    BY <1>12, <2>1 DEF OneAttempt, connected
  <2> QED BY <1>0, <1>12, <1>14, <2>1, <2>2, <2>3 DEF FetchFailed, OneAttempt, connected
<1>15. ASSUME conn # "GettingToken"
       PROVE  /\ fetch = NoFetch
              /\ \A i \in 1..Len(posted) : ~Answers(posted[i])
              /\ \A i \in 1..Len(sharedQueue) : ~Answers(sharedQueue[i])
  BY <1>15 DEF OneAttempt
<1>16. ASSUME NEW b \in AuthBlocks, posted' = Append(posted, b), fetch' = NoFetch,
              conn' = "GettingToken", replies' = <<>>, retry' = FALSE,
              UNCHANGED sharedQueue,
              \A i \in 1..Len(posted) : ~Answers(posted[i]),
              \A i \in 1..Len(sharedQueue) : ~Answers(sharedQueue[i])
       PROVE  OneAttempt'
  <2>1. /\ Len(posted') = Len(posted) + 1
        /\ \A i \in 1..Len(posted') :
             posted'[i] = IF i = Len(posted) + 1 THEN b ELSE posted[i]
    BY <1>0, <1>16, Appended
  <2>2. \A i \in 1..Len(posted') : Answers(posted'[i]) => i = Len(posted) + 1
    BY <1>0, <1>16, <2>1
  <2> HIDE DEF Answers
  <2> QED BY <1>0, <1>16, <2>2 DEF OneAttempt
<1>17. CASE RunRetry
  <2>1. conn = "Disconnected" /\ replies = <<>>
    BY <1>17 DEF RunRetry, OneAttempt, connected
  <2>2. CASE posted' = Append(posted, Context(user)) /\ UNCHANGED fetch
    <3>1. Context(user) \in AuthBlocks
      BY AuthBlockTypes DEF Typed
    <3> QED BY <1>15, <1>16, <1>17, <2>1, <2>2, <3>1 DEF RunRetry
  <2>3. CASE fetch' = user /\ UNCHANGED posted
    BY <1>15, <1>17, <2>1, <2>3 DEF RunRetry, OneAttempt
  <2> QED BY <1>17, <2>2, <2>3 DEF RunRetry
<1>18. CASE TokenFetched
  <2>1. Context(fetch) \in AuthBlocks /\ FetchError \in AuthBlocks
    BY AuthBlockTypes DEF Typed
  <2>2. /\ conn = "GettingToken" /\ replies = <<>> /\ ~retry /\ retry \in BOOLEAN
        /\ \A i \in 1..Len(posted) : ~Answers(posted[i])
        /\ \A i \in 1..Len(sharedQueue) : ~Answers(sharedQueue[i])
    BY <1>18 DEF TokenFetched, OneAttempt, connected, Typed
  <2>3. \E b \in AuthBlocks : posted' = Append(posted, b)
    BY <1>18, <2>1 DEF TokenFetched
  <2>4. /\ fetch' = NoFetch /\ conn' = "GettingToken" /\ replies' = <<>> /\ retry' = FALSE
        /\ UNCHANGED sharedQueue
    BY <1>18, <2>2 DEF TokenFetched
  <2> QED BY <1>16, <2>2, <2>3, <2>4
<1>19. ASSUME conn # "GettingToken", UNCHANGED <<posted, sharedQueue, fetch>>,
              replies' # <<>> => connected', retry' => conn' = "Disconnected"
       PROVE  OneAttempt'
  BY <1>15, <1>19 DEF OneAttempt
<1>20. CASE onReady
  BY <1>19, <1>20 DEF onReady, OneAttempt, connected
<1>21. CASE Lose
  BY <1>19, <1>21 DEF Lose, onDisconnect, connected
<1>22. CASE onKill
  BY <1>19, <1>22 DEF onKill, connected
<1>23. ASSUME NEW n \in 1..Len(links), Serve(n) PROVE OneAttempt'
  <2>1. PICK cred \in AnyUser, ok \in BOOLEAN : Serving(n, cred, ok)
    BY <1>23, Served
  <2>2. replies' # <<>> => connected
    BY <2>1 DEF Serving, OneAttempt
  <2> QED BY <1>23, <2>2 DEF Serve, OneAttempt, connected
<1>24. CASE Revoke
  BY <1>24 DEF Revoke, OneAttempt, connected
<1>25. CASE Listen
  <2>1. replies # <<>>
    BY <1>25 DEF Listen, AuthAccepted, AuthLost, PutAnswered, Hears
  <2>2. connected /\ conn # "GettingToken" /\ ~retry
    BY <2>1 DEF OneAttempt, connected
  <2>3. CASE AuthAccepted
    BY <1>19, <2>2, <2>3 DEF AuthAccepted, connected
  <2>4. CASE AuthLost
    BY <1>19, <2>2, <2>4 DEF AuthLost, onDisconnect, connected
  <2>5. CASE PutAnswered
    BY <1>19, <2>2, <2>5 DEF PutAnswered, connected
  <2> QED BY <1>25, <2>3, <2>4, <2>5 DEF Listen
<1>26. CASE EndProcess
  BY <1>26 DEF EndProcess, OneAttempt, NoFetch
<1>27. CASE UNCHANGED vars
  BY <1>27 DEF vars, OneAttempt, connected
<1> QED
  BY <1>2, <1>3, <1>4, <1>5, <1>6, <1>7, <1>8, <1>10, <1>11, <1>13, <1>14, <1>17, <1>18,
     <1>20, <1>21, <1>22, <1>23, <1>24, <1>25, <1>26, <1>27 DEF Next, SharedQueue

(* The NSAsserts of tryScheduleReconnect and openNetworkConnection never   *)
(* fire: a retry is scheduled only while disconnected, and a token or its  *)
(* failure is heard only while it is waited for.                           *)
THEOREM AssertionsNeverFire == Spec => []AssertionsHold
<1>1. OneAttempt => AssertionsHold
  BY DEF OneAttempt, AssertionsHold, Answers
<1> QED
  BY <1>1, OneAttemptInit, OneAttemptStep, TypedAlways, PTL DEF Spec

-----------------------------------------------------------------------------
(* A client that waits is held once *)

(* Which put is removed, when each is there once *)
LEMMA WithoutAt ==
  ASSUME NEW puts \in Seq(Clients), NEW k \in 1..Len(puts),
         \A i, j \in 1..Len(puts) : puts[i] = puts[j] => i = j
  PROVE  /\ Without(puts, puts[k]) \in Seq(Clients)
         /\ Len(Without(puts, puts[k])) = Len(puts) - 1
         /\ \A i \in 1..(Len(puts) - 1) :
              Without(puts, puts[k])[i] = IF i < k THEN puts[i] ELSE puts[i + 1]
<1> DEFINE chosen == CHOOSE i \in 1..Len(puts) : puts[i] = puts[k]
<1>1. chosen = k
  <2>1. chosen \in 1..Len(puts) /\ puts[chosen] = puts[k]
    OBVIOUS
  <2> HIDE DEF chosen
  <2> QED BY <2>1
<1>2. Without(puts, puts[k])
        = [i \in 1..(Len(puts) - 1) |-> IF i < chosen THEN puts[i] ELSE puts[i + 1]]
  BY DEF Without
<1> HIDE DEF chosen
<1> QED
  BY <1>1, <1>2, WithoutType

(* Nobody is held before the first save. *)
LEMMA HeldOnceInit == Init => HeldOnce
BY DEF Init, HeldOnce, OnConnection, OnQueue, QueuedPuts

(* Steps that leave the puts, the fates and the owners alone *)
LEMMA HeldOnceFrame ==
  HeldOnce /\ UNCHANGED <<outstanding, sharedQueue, fate, owner>> => HeldOnce'
BY DEF HeldOnce, OnConnection, OnQueue, QueuedPuts

(* Every step preserves it. *)
LEMMA HeldOnceStep == Typed /\ HeldOnce /\ [Next]_vars => HeldOnce'
<1> SUFFICES ASSUME Typed, HeldOnce, [Next]_vars PROVE HeldOnce'
  OBVIOUS
<1> USE DEF session, client, network, history, bounds
<1>0. /\ posted \in Seq(AuthBlocks) /\ sharedQueue \in Seq(GoodBlocks)
      /\ outstanding \in Seq(Clients)
      /\ Len(posted) \in Nat /\ Len(sharedQueue) \in Nat /\ Len(outstanding) \in Nat
      /\ \A i \in 1..Len(outstanding) : outstanding[i] \in Clients
      /\ \A i \in 1..Len(sharedQueue) : sharedQueue[i] \in GoodBlocks
  BY LenProperties, ElementOfSeq DEF Typed
<1>1. CASE UNCHANGED <<outstanding, sharedQueue, fate, owner>>
  BY <1>1, HeldOnceFrame
<1>2. ASSUME NEW c \in Clients, saveClient(c) PROVE HeldOnce'
  <2>1. Put(c) \in GoodBlocks /\ Put(c).op = "put" /\ Put(c).client = c
    BY RequestTypes DEF Put
  <2>2. /\ Len(sharedQueue') = Len(sharedQueue) + 1
        /\ \A i \in 1..Len(sharedQueue') :
             sharedQueue'[i] = IF i = Len(sharedQueue) + 1 THEN Put(c) ELSE sharedQueue[i]
    BY <1>0, <1>2, <2>1, Appended DEF saveClient
  <2>3. /\ fate[c] = "new" /\ fate' = [fate EXCEPT ![c] = "waiting"]
        /\ owner' = [owner EXCEPT ![c] = screen] /\ screen # NoUser
        /\ UNCHANGED outstanding
        /\ fate \in [Clients -> {"new", "waiting", "saved", "refused", "gone"}]
        /\ owner \in [Clients -> AnyUser]
    BY <1>2 DEF saveClient, Typed
  <2>4. ~OnConnection(c) /\ ~OnQueue(c)
    BY <2>3 DEF HeldOnce
  <2>5. \A d \in Clients : OnQueue(d)' <=> OnQueue(d) \/ d = c
    <3>1. Len(sharedQueue) + 1 \in QueuedPuts' /\ sharedQueue'[Len(sharedQueue) + 1].client = c
      BY <1>0, <2>1, <2>2 DEF QueuedPuts
    <3>2. \A i \in QueuedPuts : i \in QueuedPuts' /\ sharedQueue'[i] = sharedQueue[i]
      BY <1>0, <2>2 DEF QueuedPuts
    <3>3. \A i \in QueuedPuts' : i # Len(sharedQueue) + 1 =>
            i \in QueuedPuts /\ sharedQueue'[i] = sharedQueue[i]
      BY <1>0, <2>2 DEF QueuedPuts
    <3> QED BY <3>1, <3>2, <3>3 DEF OnQueue
  <2>6. \A d \in Clients : OnConnection(d)' <=> OnConnection(d)
    BY <2>3 DEF OnConnection
  <2>7. \A i, j \in QueuedPuts' : sharedQueue'[i].client = sharedQueue'[j].client => i = j
    BY <1>0, <2>1, <2>2, <2>4 DEF HeldOnce, OnQueue, QueuedPuts
  <2> QED BY <2>3, <2>4, <2>5, <2>6, <2>7 DEF HeldOnce
<1>3. CASE HandOn
  <2>1. /\ posted # <<>> /\ sharedQueue' = Append(sharedQueue, Head(posted))
        /\ UNCHANGED <<outstanding, fate, owner>>
    BY <1>3 DEF HandOn
  <2>2. Head(posted) \in GoodBlocks /\ Head(posted).op # "put"
    BY <1>0, <2>1, Dropped DEF AuthBlocks
  <2>3. /\ Len(sharedQueue') = Len(sharedQueue) + 1
        /\ \A i \in 1..Len(sharedQueue') :
             sharedQueue'[i] = IF i = Len(sharedQueue) + 1 THEN Head(posted) ELSE sharedQueue[i]
    BY <1>0, <2>1, <2>2, Appended
  <2>4. QueuedPuts' = QueuedPuts /\ \A i \in QueuedPuts : sharedQueue'[i] = sharedQueue[i]
    BY <1>0, <2>2, <2>3 DEF QueuedPuts
  <2>5. \A d \in Clients : (OnQueue(d)' <=> OnQueue(d)) /\ (OnConnection(d)' <=> OnConnection(d))
    BY <2>1, <2>4 DEF OnQueue, OnConnection
  <2>6. \A i, j \in QueuedPuts' : sharedQueue'[i].client = sharedQueue'[j].client => i = j
    BY <2>4 DEF HeldOnce
  <2> QED BY <2>1, <2>5, <2>6 DEF HeldOnce
<1>4. ASSUME NEW op, Runs(op)
      PROVE  /\ sharedQueue[1].op = op /\ Head(sharedQueue) = sharedQueue[1]
             /\ Len(sharedQueue') = Len(sharedQueue) - 1
             /\ Len(sharedQueue) \in Nat \ {0}
             /\ \A i \in 1..Len(sharedQueue') : sharedQueue'[i] = sharedQueue[i + 1]
  BY <1>0, <1>4, Dropped DEF Runs
<1>5. ASSUME NEW op, Runs(op), op # "put", UNCHANGED <<outstanding, fate, owner>>
      PROVE  HeldOnce'
  <2>1. \A i : i \in QueuedPuts' <=> i \in Int /\ i + 1 \in QueuedPuts
    BY <1>0, <1>4, <1>5 DEF QueuedPuts
  <2>2. \A i \in QueuedPuts' : sharedQueue'[i] = sharedQueue[i + 1]
    BY <1>4, <1>5 DEF QueuedPuts
  <2>3. \A j \in QueuedPuts : j - 1 \in QueuedPuts' /\ sharedQueue'[j - 1] = sharedQueue[j]
    BY <1>0, <1>4, <1>5 DEF QueuedPuts
  <2>4. \A d \in Clients : (OnQueue(d)' <=> OnQueue(d)) /\ (OnConnection(d)' <=> OnConnection(d))
    BY <1>5, <2>1, <2>2, <2>3 DEF OnQueue, OnConnection
  <2>5. \A i, j \in QueuedPuts' : sharedQueue'[i].client = sharedQueue'[j].client => i = j
    BY <2>1, <2>2 DEF HeldOnce
  <2> QED BY <1>5, <2>4, <2>5 DEF HeldOnce
<1>6. CASE putInternal
  <2> DEFINE c == sharedQueue[1].client
  <2>1. /\ Runs("put") /\ UNCHANGED <<fate, owner>>
        /\ outstanding' = Append(outstanding, Head(sharedQueue).client)
    BY <1>6 DEF putInternal
  <2>2. 1 \in QueuedPuts /\ c \in Clients /\ outstanding' = Append(outstanding, c)
    BY <1>0, <1>4, <2>1, ClientAssumption DEF QueuedPuts, GoodBlocks, Blocks
  <2>3. /\ Len(outstanding') = Len(outstanding) + 1
        /\ \A i \in 1..Len(outstanding') :
             outstanding'[i] = IF i = Len(outstanding) + 1 THEN c ELSE outstanding[i]
    BY <1>0, <2>2, Appended
  <2>4. OnQueue(c) /\ ~OnConnection(c)
    BY <2>2 DEF HeldOnce, OnQueue
  <2>5. \A d \in Clients : OnConnection(d)' <=> OnConnection(d) \/ d = c
    <3>1. Len(outstanding) + 1 \in 1..Len(outstanding') /\ outstanding'[Len(outstanding) + 1] = c
      BY <1>0, <2>3
    <3>2. \A i \in 1..Len(outstanding) : i \in 1..Len(outstanding') /\ outstanding'[i] = outstanding[i]
      BY <1>0, <2>3
    <3>3. \A i \in 1..Len(outstanding') : i # Len(outstanding) + 1 =>
            i \in 1..Len(outstanding) /\ outstanding'[i] = outstanding[i]
      BY <1>0, <2>3
    <3> QED BY <3>1, <3>2, <3>3 DEF OnConnection
  <2>6. \A i \in QueuedPuts' : i + 1 \in QueuedPuts /\ sharedQueue'[i] = sharedQueue[i + 1] /\ i \in Nat \ {0}
    BY <1>0, <1>4, <2>1 DEF QueuedPuts
  <2>7. \A j \in QueuedPuts : j # 1 => j - 1 \in QueuedPuts' /\ sharedQueue'[j - 1] = sharedQueue[j]
    BY <1>0, <1>4, <2>1 DEF QueuedPuts
  <2>8. \A d \in Clients : OnQueue(d)' <=> OnQueue(d) /\ d # c
    <3>1. ASSUME NEW d \in Clients, OnQueue(d)' PROVE OnQueue(d) /\ d # c
      <4>1. PICK i \in QueuedPuts' : sharedQueue'[i].client = d
        BY <3>1 DEF OnQueue
      <4>2. sharedQueue[i + 1].client = d /\ i + 1 \in QueuedPuts /\ i + 1 # 1
        BY <2>6, <4>1
      <4> QED BY <2>2, <4>2 DEF OnQueue, HeldOnce
    <3>2. ASSUME NEW d \in Clients, OnQueue(d), d # c PROVE OnQueue(d)'
      BY <2>7, <3>2 DEF OnQueue
    <3> QED BY <3>1, <3>2
  <2>9. \A i, j \in QueuedPuts' : sharedQueue'[i].client = sharedQueue'[j].client => i = j
    BY <2>6 DEF HeldOnce
  <2>10. \A i, j \in 1..Len(outstanding') : outstanding'[i] = outstanding'[j] => i = j
    BY <1>0, <2>3, <2>4 DEF HeldOnce, OnConnection
  <2> QED BY <2>1, <2>4, <2>5, <2>8, <2>9, <2>10 DEF HeldOnce
<1>7. CASE refreshAuthToken
  BY <1>5, <1>7 DEF refreshAuthToken
<1>8. CASE openNetworkConnection
  BY <1>5, <1>8 DEF openNetworkConnection
<1>9. CASE FetchFailed
  BY <1>5, <1>9 DEF FetchFailed
<1>10. CASE PutAnswered
  <2> DEFINE c == Head(replies).request.client
  <2>1. CASE OnConnection(c)
    <3>1. PICK k \in 1..Len(outstanding) : outstanding[k] = c
      BY <2>1 DEF OnConnection
    <3>2. c \in Clients /\ fate[c] = "waiting" /\ ~OnQueue(c)
      BY <1>0, <2>1, <3>1 DEF HeldOnce
    <3>3. /\ outstanding' = Without(outstanding, outstanding[k])
          /\ \E f \in {"saved", "refused"} : fate' = [fate EXCEPT ![c] = f]
          /\ UNCHANGED <<sharedQueue, owner>>
      BY <1>10, <3>1 DEF PutAnswered
    <3>4. \A i, j \in 1..Len(outstanding) : outstanding[i] = outstanding[j] => i = j
      BY DEF HeldOnce
    <3>5. /\ Len(outstanding') = Len(outstanding) - 1
          /\ \A i \in 1..(Len(outstanding) - 1) :
               outstanding'[i] = IF i < k THEN outstanding[i] ELSE outstanding[i + 1]
      BY <1>0, <3>3, <3>4, WithoutAt
    <3> HIDE DEF c
    <3>6. \A d \in Clients : OnConnection(d)' <=> OnConnection(d) /\ d # c
      <4>1. ASSUME NEW d \in Clients, OnConnection(d)' PROVE OnConnection(d) /\ d # c
        BY <1>0, <3>1, <3>4, <3>5, <4>1 DEF OnConnection
      <4>2. ASSUME NEW d \in Clients, OnConnection(d), d # c PROVE OnConnection(d)'
        <5>1. PICK i \in 1..Len(outstanding) : outstanding[i] = d /\ i # k
          BY <3>1, <4>2 DEF OnConnection
        <5>2. CASE i < k
          <6>1. i \in 1..(Len(outstanding) - 1)
            BY <1>0, <5>1, <5>2
          <6>2. outstanding'[i] = d
            BY <3>5, <5>1, <5>2, <6>1
          <6> QED BY <3>5, <6>1, <6>2 DEF OnConnection
        <5>3. CASE i > k
          <6>1. i - 1 \in 1..(Len(outstanding) - 1) /\ ~(i - 1 < k) /\ (i - 1) + 1 = i
            BY <1>0, <5>1, <5>3
          <6>2. outstanding'[i - 1] = d
            BY <3>5, <5>1, <6>1
          <6> QED BY <3>5, <6>1, <6>2 DEF OnConnection
        <5> QED BY <5>1, <5>2, <5>3
      <4> QED BY <4>1, <4>2
    <3>7. \A d \in Clients : OnQueue(d)' <=> OnQueue(d)
      BY <3>3 DEF OnQueue, QueuedPuts
    <3>8. \A i, j \in 1..Len(outstanding') : outstanding'[i] = outstanding'[j] => i = j
      <4> DEFINE from(i) == IF i < k THEN i ELSE i + 1
      <4>1. \A i \in 1..Len(outstanding') :
              from(i) \in 1..Len(outstanding) /\ outstanding'[i] = outstanding[from(i)]
        BY <1>0, <3>5
      <4>2. \A i, j \in 1..Len(outstanding') : from(i) = from(j) => i = j
        BY <1>0, <3>5
      <4> HIDE DEF from
      <4> QED BY <3>4, <4>1, <4>2
    <3>9. \A i, j \in QueuedPuts' : sharedQueue'[i].client = sharedQueue'[j].client => i = j
      BY <3>3 DEF HeldOnce, QueuedPuts
    <3>10. fate \in [Clients -> {"new", "waiting", "saved", "refused", "gone"}]
      BY DEF Typed
    <3>11. \A d \in Clients : (fate'[d] = "waiting" <=> fate[d] = "waiting" /\ d # c)
                              /\ (fate'[d] = "new" <=> fate[d] = "new")
      BY <3>2, <3>3, <3>10
    <3> QED BY <3>2, <3>3, <3>6, <3>7, <3>8, <3>9, <3>11 DEF HeldOnce
  <2>2. CASE ~OnConnection(c)
    BY <1>10, <2>2, HeldOnceFrame DEF PutAnswered, OnConnection
  <2> QED BY <2>1, <2>2
<1>11. CASE EndProcess
  <2>1. /\ sharedQueue' = <<>> /\ outstanding' = <<>> /\ UNCHANGED owner
        /\ fate' = [c \in Clients |-> IF fate[c] = "waiting" THEN "gone" ELSE fate[c]]
    BY <1>11 DEF EndProcess
  <2>2. \A c \in Clients : ~OnConnection(c)' /\ ~OnQueue(c)' /\ QueuedPuts' = {}
    BY <2>1 DEF OnConnection, OnQueue, QueuedPuts
  <2>3. \A c \in Clients : fate'[c] # "waiting" /\ (fate'[c] = "new" <=> fate[c] = "new")
    BY <2>1
  <2>4. \A i, j \in QueuedPuts' : sharedQueue'[i].client = sharedQueue'[j].client => i = j
    BY <2>1 DEF QueuedPuts
  <2> QED BY <2>1, <2>2, <2>3, <2>4 DEF HeldOnce
<1>12. CASE \/ \E who \in Users : SignIn(who)
            \/ ShowMainScreen \/ SignOut \/ ForcedSignOut \/ RenewToken
            \/ RunRetry \/ TokenFetched \/ onReady \/ Lose \/ onKill
            \/ (\E n \in 1..Len(links) : Serve(n)) \/ Revoke \/ AuthAccepted \/ AuthLost
  BY <1>1, <1>12 DEF SignIn, ShowMainScreen, SignOut, ForcedSignOut, RenewToken, RunRetry,
     TokenFetched, onReady, Lose, onDisconnect, onKill, Serve, Revoke, AuthAccepted, AuthLost
<1>13. CASE UNCHANGED vars
  BY <1>1, <1>13 DEF vars
<1> QED
  BY <1>2, <1>3, <1>6, <1>7, <1>8, <1>9, <1>10, <1>11, <1>12, <1>13 DEF Next, SharedQueue, Listen

(* What is held once is always held once. *)
LEMMA HeldOnceAlways == Spec => []HeldOnce
BY HeldOnceInit, HeldOnceStep, TypedAlways, PTL DEF Spec

(* No loss of the connection, refused token, kill or end of the process    *)
(* makes a client that waits be forgotten, or be held twice.               *)
THEOREM NeverForgotten == Spec => []NothingForgotten
<1>1. Typed /\ HeldOnce => NothingForgotten
  <2> SUFFICES ASSUME Typed, HeldOnce PROVE NothingForgotten
    OBVIOUS
  <2>1. /\ \A i \in 1..Len(outstanding) : outstanding[i] \in Clients
        /\ \A j \in QueuedPuts : sharedQueue[j].client \in Clients
    BY ElementOfSeq, ClientAssumption DEF Typed, QueuedPuts, GoodBlocks, Blocks
  <2>2. \A i \in 1..Len(outstanding), j \in QueuedPuts : outstanding[i] # sharedQueue[j].client
    BY <2>1 DEF HeldOnce, OnConnection, OnQueue
  <2>3. Waiting = {outstanding[i] : i \in 1..Len(outstanding)}
                    \cup {sharedQueue[j].client : j \in QueuedPuts}
    BY <2>1 DEF HeldOnce, OnConnection, OnQueue, Waiting
  <2> QED BY <2>2, <2>3 DEF HeldOnce, NothingForgotten
<1> QED
  BY <1>1, TypedAlways, HeldOnceAlways, PTL

(* The variables keep their types, and a client has an owner exactly from  *)
(* the moment it is handed over.                                           *)
THEOREM TypeCorrect == Spec => []TypeOK
<1>1. Typed /\ HeldOnce => TypeOK
  <2> SUFFICES ASSUME Typed, HeldOnce PROVE TypeOK
    OBVIOUS
  <2>1. posted \in Seq(Blocks) /\ sharedQueue \in Seq(Blocks)
    BY SeqMonotonic DEF Typed, AuthBlocks, GoodBlocks
  <2>2. Seq(GoodRequests) \subseteq Seq(Requests)
    BY SeqMonotonic DEF GoodRequests
  <2>3. GoodLinks \subseteq [requests : Seq(Requests), cred : AnyUser]
    BY <2>2 DEF GoodLinks
  <2>4. links \in Seq([requests : Seq(Requests), cred : AnyUser])
    BY <2>3, SeqMonotonic DEF Typed
  <2>5. GoodReplies \subseteq [request : Requests, ok : BOOLEAN]
    BY DEF GoodReplies, GoodRequests
  <2>6. replies \in Seq([request : Requests, ok : BOOLEAN])
    BY <2>5, SeqMonotonic DEF Typed
  <2> QED BY <2>1, <2>4, <2>6 DEF Typed, HeldOnce, TypeOK
<1> QED
  BY <1>1, TypedAlways, HeldOnceAlways, PTL

-----------------------------------------------------------------------------
(* What the app is told is true *)

(* Nothing is under way and nothing answered at the start. *)
LEMMA TruthfulInit == Init => Truthful
BY DEF Init, Truthful

(* A client that was handed over stays so, and what is stored stays. *)
LEMMA FatesMove ==
  ASSUME Typed, [Next]_vars
  PROVE  HandedOver \subseteq HandedOver' /\ stored \subseteq stored'
<1> USE DEF session, client, network, history, bounds
<1>0. fate \in [Clients -> {"new", "waiting", "saved", "refused", "gone"}]
  BY DEF Typed
<1>1. ASSUME NEW c \in Clients, saveClient(c)
      PROVE  HandedOver \subseteq HandedOver' /\ stored' = stored
  BY <1>0, <1>1 DEF saveClient, HandedOver
<1>2. CASE PutAnswered
  <2>1. fate' = fate \/ \E c, f : fate' = [fate EXCEPT ![c] = f] /\ f \in {"saved", "refused"}
    BY <1>2 DEF PutAnswered
  <2> QED BY <1>0, <1>2, <2>1 DEF PutAnswered, HandedOver
<1>3. CASE EndProcess
  BY <1>0, <1>3 DEF EndProcess, HandedOver
<1>4. ASSUME NEW n \in 1..Len(links), Serve(n) PROVE fate' = fate /\ stored \subseteq stored'
  <2>1. PICK cred \in AnyUser, ok \in BOOLEAN : Serving(n, cred, ok)
    BY <1>4, Served
  <2> QED BY <1>4, <2>1 DEF Serve, Serving
<1>5. CASE \/ \E who \in Users : SignIn(who)
           \/ ShowMainScreen \/ SignOut \/ ForcedSignOut \/ RenewToken
           \/ HandOn \/ SharedQueue \/ RunRetry \/ TokenFetched \/ onReady \/ Lose \/ onKill
           \/ Revoke \/ AuthAccepted \/ AuthLost
  <2>1. UNCHANGED <<fate, stored>>
    BY <1>5 DEF SignIn, ShowMainScreen, SignOut, ForcedSignOut, RenewToken, HandOn,
       SharedQueue, putInternal, refreshAuthToken, openNetworkConnection, FetchFailed,
       RunRetry, TokenFetched, onReady, Lose, onKill, Revoke, AuthAccepted, AuthLost
  <2> QED BY <2>1 DEF HandedOver
<1>6. CASE UNCHANGED vars
  BY <1>6 DEF vars, HandedOver
<1> QED
  BY <1>1, <1>2, <1>3, <1>4, <1>5, <1>6 DEF Next, Listen, HandedOver

(* Sending puts of clients that were handed over, or no puts *)
LEMMA SentHandedOver ==
  ASSUME Typed, Truthful, links # <<>>, NEW requests \in Seq(GoodRequests), Send(requests),
         PutsOfThese(requests, HandedOver), HandedOver \subseteq HandedOver'
  PROVE  \A n \in 1..Len(links') : PutsOfThese(links'[n].requests, HandedOver')
<1> DEFINE m == Len(links)
<1>1. /\ m \in Nat \ {0} /\ Len(links') = m
      /\ \A n \in 1..m : n # m => links'[n] = links[n]
      /\ links'[m].requests = links[m].requests \o requests
  BY Sent DEF Typed
<1>2. \A n \in 1..m : PutsOfThese(links[n].requests, HandedOver')
  BY DEF Truthful, PutsOfThese
<1>3. links[m].requests \in Seq(GoodRequests)
  <2>1. links[m] \in GoodLinks
    BY <1>1, ElementOfSeq DEF Typed
  <2> QED BY <2>1 DEF GoodLinks
<1>4. PutsOfThese(links[m].requests \o requests, HandedOver')
  <2>1. PutsOfThese(requests, HandedOver') /\ PutsOfThese(links[m].requests, HandedOver')
    BY <1>1, <1>2 DEF PutsOfThese
  <2>2. /\ Len(links[m].requests \o requests) = Len(links[m].requests) + Len(requests)
        /\ Len(links[m].requests) \in Nat /\ Len(requests) \in Nat
        /\ \A k \in 1..(Len(links[m].requests) + Len(requests)) :
             (links[m].requests \o requests)[k] =
               IF k <= Len(links[m].requests) THEN links[m].requests[k]
               ELSE requests[k - Len(links[m].requests)]
    BY <1>3, ConcatProperties, LenProperties
  <2> QED BY <2>1, <2>2 DEF PutsOfThese
<1> QED
  BY <1>1, <1>2, <1>4

(* Every step preserves the truth of requests and replies. *)
LEMMA TruthfulStep == Typed /\ HeldOnce /\ Truthful /\ [Next]_vars => Truthful'
<1> SUFFICES ASSUME Typed, HeldOnce, Truthful, [Next]_vars PROVE Truthful'
  OBVIOUS
<1> USE DEF session, client, network, history, bounds
<1> DEFINE LinksTrue == \A n \in 1..Len(links') : PutsOfThese(links'[n].requests, HandedOver')
           RepliesTrue == \A k \in 1..Len(replies') :
             replies'[k].request.op = "put" /\ replies'[k].ok
             => replies'[k].request.client \in stored'
<1>0. HandedOver \subseteq HandedOver' /\ stored \subseteq stored'
  BY FatesMove
<1>1. links' = links => LinksTrue
  BY <1>0 DEF Truthful, PutsOfThese
<1>2. replies' = replies => RepliesTrue
  BY <1>0 DEF Truthful
<1>3. replies' = <<>> => RepliesTrue
  OBVIOUS
<1>4. ASSUME replies # <<>>, replies' = Tail(replies) PROVE RepliesTrue
  <2>1. /\ Len(replies') = Len(replies) - 1 /\ Len(replies) \in Nat \ {0}
        /\ \A k \in 1..Len(replies') : replies'[k] = replies[k + 1]
    BY <1>4, Dropped DEF Typed
  <2> QED BY <1>0, <2>1 DEF Truthful
<1>5. \A c \in Clients : OnConnection(c) \/ OnQueue(c) => c \in HandedOver
  BY DEF HeldOnce, HandedOver
<1>6. LET sent == [i \in 1..Len(outstanding) |-> PutRequest(outstanding[i])]
      IN  sent \in Seq(GoodRequests) /\ PutsOfThese(sent, HandedOver)
  BY <1>5, Restored, ElementOfSeq DEF PutsOfThese, PutRequest, OnConnection, Typed
<1>7. ASSUME links # <<>>, restoreState PROVE LinksTrue
  BY <1>0, <1>6, <1>7, SentHandedOver DEF restoreState
<1>8. ASSUME NEW who \in AnyUser, NEW then \in BOOLEAN, links # <<>>, Send(<<Auth(who, then)>>)
      PROVE  LinksTrue
  <2> DEFINE msg == Auth(who, then)
  <2>1. msg \in GoodRequests /\ msg.op = "auth"
    BY RequestTypes DEF Auth
  <2>2. Send(<<msg>>)
    BY <1>8
  <2> HIDE DEF msg
  <2>3. <<msg>> \in Seq(GoodRequests) /\ PutsOfThese(<<msg>>, HandedOver)
    BY <2>1 DEF PutsOfThese
  <2> QED BY <1>0, <1>8, <2>2, <2>3, SentHandedOver
<1>9. CASE putInternal
  <2> DEFINE c == Head(sharedQueue).client
  <2>1. /\ sharedQueue # <<>> /\ Head(sharedQueue).op = "put" /\ UNCHANGED <<replies, stored>>
        /\ IF canSendWrites THEN Send(<<PutRequest(c)>>) ELSE UNCHANGED links
    BY <1>9 DEF putInternal, Runs
  <2>2. c \in Clients /\ OnQueue(c)
    <3>1. Head(sharedQueue) = sharedQueue[1] /\ Len(sharedQueue) \in Nat \ {0}
          /\ Head(sharedQueue) \in GoodBlocks
      BY <2>1, Dropped DEF Typed
    <3> QED BY <2>1, <3>1, ClientAssumption DEF OnQueue, QueuedPuts, GoodBlocks, Blocks
  <2>3. CASE canSendWrites
    <3>1. links # <<>>
      BY <2>3 DEF canSendWrites, Typed, Live
    <3>2. <<PutRequest(c)>> \in Seq(GoodRequests)
      BY <2>2, RequestTypes
    <3>3. PutsOfThese(<<PutRequest(c)>>, HandedOver)
      BY <1>5, <2>2 DEF PutsOfThese, PutRequest
    <3>4. LinksTrue
      BY <1>0, <2>1, <2>3, <3>1, <3>2, <3>3, SentHandedOver
    <3> QED BY <1>2, <2>1, <3>4 DEF Truthful
  <2> QED BY <1>1, <1>2, <2>1, <2>3 DEF Truthful
<1>10. CASE refreshAuthToken
  <2>1. UNCHANGED <<replies, stored>>
    BY <1>10 DEF refreshAuthToken
  <2>2. Head(sharedQueue).who \in AnyUser
    BY <1>10, Dropped DEF refreshAuthToken, Runs, Typed, GoodBlocks, Blocks
  <2>3. CASE connected
    <3>1. links # <<>>
      BY <2>3 DEF connected, Typed, Live
    <3>2. CASE Head(sharedQueue).who # NoUser
      BY <1>2, <1>8, <1>10, <2>1, <2>2, <2>3, <3>1, <3>2 DEF refreshAuthToken, Truthful
    <3>3. CASE Head(sharedQueue).who = NoUser
      <4>1. Send(<<Unauth>>)
        BY <1>10, <2>3, <3>3 DEF refreshAuthToken
      <4>2. <<Unauth>> \in Seq(GoodRequests)
        BY RequestTypes
      <4>3. PutsOfThese(<<Unauth>>, HandedOver)
        BY DEF PutsOfThese, Unauth
      <4>4. LinksTrue
        BY <1>0, <3>1, <4>1, <4>2, <4>3, SentHandedOver
      <4> QED BY <1>2, <2>1, <4>4 DEF Truthful
    <3> QED BY <3>2, <3>3
  <2>4. CASE ~connected
    BY <1>1, <1>2, <1>10, <2>1, <2>4 DEF refreshAuthToken, Truthful
  <2> QED BY <2>3, <2>4
<1>11. CASE openNetworkConnection
  <2>1. links' = Append(links, NewLink) /\ replies' = <<>>
    BY <1>11 DEF openNetworkConnection
  <2>2. NewLink \in GoodLinks /\ NewLink.requests = <<>>
    BY EmptySeq DEF NewLink, GoodLinks, AnyUser
  <2>3. /\ Len(links') = Len(links) + 1 /\ Len(links) \in Nat
        /\ \A n \in 1..Len(links') : links'[n] = IF n = Len(links) + 1 THEN NewLink ELSE links[n]
    BY <2>1, <2>2, Appended DEF Typed
  <2>4. LinksTrue
    BY <1>0, <2>2, <2>3 DEF Truthful, PutsOfThese
  <2> QED BY <1>3, <2>1, <2>4 DEF Truthful
<1>12. CASE onReady
  <2>1. links # <<>> /\ UNCHANGED <<replies, stored>> /\ authToken \in AnyUser
    BY <1>12 DEF onReady, Typed, Live
  <2>2. LinksTrue
    BY <1>7, <1>8, <1>12, <2>1 DEF onReady
  <2> QED BY <1>2, <2>1, <2>2 DEF Truthful
<1>13. CASE AuthAccepted
  <2>1. replies # <<>> /\ links # <<>> /\ replies' = Tail(replies) /\ UNCHANGED stored
    BY <1>13 DEF AuthAccepted, Hears, Typed
  <2>2. LinksTrue
    BY <1>1, <1>7, <1>13, <2>1 DEF AuthAccepted
  <2> QED BY <1>4, <2>1, <2>2 DEF Truthful
<1>14. CASE PutAnswered
  <2>1. replies # <<>> /\ replies' = Tail(replies) /\ UNCHANGED links
    BY <1>14 DEF PutAnswered, Hears
  <2> QED BY <1>1, <1>4, <2>1 DEF Truthful
<1>15. CASE AuthLost \/ Lose \/ onKill \/ EndProcess
  <2>1. replies' = <<>> /\ UNCHANGED links
    BY <1>15 DEF AuthLost, Lose, onKill, EndProcess, onDisconnect
  <2> QED BY <1>1, <1>3, <2>1 DEF Truthful
<1>16. ASSUME NEW n \in 1..Len(links), Serve(n) PROVE Truthful'
  <2> DEFINE request == Head(links[n].requests)
  <2>1. PICK cred \in AnyUser, ok \in BOOLEAN : Serving(n, cred, ok)
    BY <1>16, Served
  <2>2. /\ links[n] \in GoodLinks /\ links[n].requests # <<>> /\ request \in GoodRequests
    BY <1>16, Served
  <2>3. /\ Len(Tail(links[n].requests)) = Len(links[n].requests) - 1
        /\ Len(links[n].requests) \in Nat \ {0}
        /\ \A k \in 1..Len(Tail(links[n].requests)) :
             Tail(links[n].requests)[k] = links[n].requests[k + 1]
    BY <2>2, Dropped DEF GoodLinks
  <2>4. PutsOfThese(Tail(links[n].requests), HandedOver')
    BY <1>0, <2>3 DEF Truthful, PutsOfThese
  <2> DEFINE new == [requests |-> Tail(links[n].requests), cred |-> cred]
  <2>5. /\ Len(links') = Len(links)
        /\ \A j \in 1..Len(links) : links'[j] = IF j = n THEN new ELSE links[j]
    <3>1. links' = [links EXCEPT ![n] = new] /\ new \in GoodLinks /\ links \in Seq(GoodLinks)
      BY <2>1 DEF Serving, Typed
    <3> HIDE DEF new
    <3> QED BY <3>1, ExceptSeq
  <2>6. LinksTrue
    <3>1. \A j \in 1..Len(links) : PutsOfThese(links[j].requests, HandedOver')
      BY <1>0 DEF Truthful, PutsOfThese
    <3>2. new.requests = Tail(links[n].requests)
      OBVIOUS
    <3> QED BY <2>4, <2>5, <3>1, <3>2
  <2>7. CASE replies' = replies
    BY <1>2, <2>6, <2>7 DEF Truthful
  <2>8. CASE replies' = Append(replies, Reply(request, ok))
    <3>1. Reply(request, ok) \in GoodReplies
      BY <2>2 DEF Reply, GoodReplies
    <3>2. /\ Len(replies') = Len(replies) + 1 /\ Len(replies) \in Nat
          /\ \A k \in 1..Len(replies') :
               replies'[k] = IF k = Len(replies) + 1 THEN Reply(request, ok) ELSE replies[k]
      BY <2>8, <3>1, Appended DEF Typed
    <3>3. request.op = "put" /\ ok => request.client \in stored'
      BY <2>1 DEF Serving
    <3>4. RepliesTrue
      BY <1>0, <3>2, <3>3 DEF Truthful, Reply
    <3> QED BY <2>6, <3>4 DEF Truthful
  <2> QED BY <2>1, <2>7, <2>8 DEF Serving
<1>17. CASE Revoke
  <2>1. /\ links' = [links EXCEPT ![Current].cred = NoUser]
        /\ replies' = Append(replies, Revoked) /\ conn = "Connected"
    BY <1>17 DEF Revoke
  <2>2. Revoked \in GoodReplies /\ Revoked.request.op = "unauth"
    BY RequestTypes DEF Revoked, Reply, GoodReplies, Unauth
  <2>3. /\ Len(replies') = Len(replies) + 1 /\ Len(replies) \in Nat
        /\ \A k \in 1..Len(replies') :
             replies'[k] = IF k = Len(replies) + 1 THEN Revoked ELSE replies[k]
    BY <2>1, <2>2, Appended DEF Typed
  <2>4. RepliesTrue
    BY <1>0, <2>2, <2>3 DEF Truthful
  <2>5. Len(links') = Len(links) /\ \A n \in 1..Len(links) : links'[n].requests = links[n].requests
    <3>1. links \in Seq(GoodLinks) /\ \A n \in 1..Len(links) : links[n] \in GoodLinks
      BY ElementOfSeq DEF Typed
    <3>2. DOMAIN links = 1..Len(links) /\ DOMAIN links' = 1..Len(links) /\ Len(links) \in Nat
      BY <2>1, <3>1, LenProperties
    <3>3. Len(links') = Len(links)
      BY <2>1, <3>1, <3>2
    <3> QED BY <2>1, <3>1, <3>2, <3>3 DEF GoodLinks
  <2>6. LinksTrue
    <3>1. \A n \in 1..Len(links) : PutsOfThese(links[n].requests, HandedOver')
      BY <1>0 DEF Truthful, PutsOfThese
    <3> QED BY <2>5, <3>1
  <2> QED BY <2>4, <2>6 DEF Truthful
<1>18. CASE \/ \E who \in Users : SignIn(who)
            \/ ShowMainScreen \/ SignOut \/ ForcedSignOut \/ RenewToken
            \/ (\E c \in Clients : saveClient(c)) \/ HandOn \/ FetchFailed
            \/ RunRetry \/ TokenFetched
  <2>1. UNCHANGED <<links, replies>>
    BY <1>18 DEF SignIn, ShowMainScreen, SignOut, ForcedSignOut, RenewToken, saveClient,
       HandOn, FetchFailed, RunRetry, TokenFetched
  <2> QED BY <1>1, <1>2, <2>1 DEF Truthful
<1>19. CASE UNCHANGED vars
  BY <1>1, <1>2, <1>19 DEF vars, Truthful
<1> QED
  BY <1>9, <1>10, <1>11, <1>12, <1>13, <1>14, <1>15, <1>16, <1>17, <1>18, <1>19
     DEF Next, SharedQueue, Listen

(* Every put is of a client that was handed over; "ok" is true. *)
LEMMA TruthfulAlways == Spec => []Truthful
BY TruthfulInit, TruthfulStep, TypedAlways, HeldOnceAlways, PTL DEF Spec

-----------------------------------------------------------------------------
(* The refinement of ClientBook *)

(* A step of the store is a step of the book, or leaves the book alone. *)
LEMMA BookStep ==
  Typed /\ HeldOnce /\ Truthful /\ [Next]_vars => [Book!Next]_(Book!vars)
<1> SUFFICES ASSUME Typed, HeldOnce, Truthful, [Next]_vars
             PROVE  Book!Next \/ UNCHANGED <<fate, stored>>
  BY DEF Book!vars
<1> USE DEF session, client, network, history, bounds
<1>1. ASSUME NEW c \in Clients, saveClient(c) PROVE Book!Next
  BY <1>1 DEF saveClient, Book!Next, Book!HandOver
<1>2. ASSUME NEW n \in 1..Len(links), Serve(n) PROVE Book!Next \/ UNCHANGED <<fate, stored>>
  <2> DEFINE request == Head(links[n].requests)
  <2>1. PICK cred \in AnyUser, ok \in BOOLEAN : Serving(n, cred, ok)
    BY <1>2, Served
  <2>2. UNCHANGED fate
    BY <1>2 DEF Serve
  <2>3. CASE stored' = stored
    BY <2>2, <2>3
  <2>4. CASE request.op = "put" /\ stored' = stored \cup {request.client}
    <3>1. /\ links[n] \in GoodLinks /\ links[n].requests # <<>> /\ request \in GoodRequests
      BY <1>2, Served
    <3>2. request = links[n].requests[1] /\ Len(links[n].requests) \in Nat \ {0}
      BY <3>1, Dropped DEF GoodLinks
    <3>3. request.client \in HandedOver
      BY <2>4, <3>2 DEF Truthful, PutsOfThese
    <3> QED BY <2>2, <2>4, <3>3 DEF HandedOver, Book!Next, Book!Store
  <2> QED BY <2>1, <2>3, <2>4 DEF Serving
<1>3. CASE PutAnswered
  <2> DEFINE c == Head(replies).request.client
  <2>1. CASE OnConnection(c)
    <3>1. c \in Clients /\ fate[c] = "waiting"
      BY <2>1, ElementOfSeq DEF HeldOnce, OnConnection, Typed
    <3>2. /\ fate' = [fate EXCEPT ![c] = IF Head(replies).ok THEN "saved" ELSE "refused"]
          /\ replies # <<>> /\ Head(replies).request.op = "put" /\ UNCHANGED stored
      BY <1>3, <2>1 DEF PutAnswered, Hears, OnConnection
    <3>3. Head(replies) = replies[1] /\ Len(replies) \in Nat \ {0}
      BY <3>2, Dropped DEF Typed
    <3>4. CASE Head(replies).ok
      <4>1. c \in stored
        BY <3>2, <3>3, <3>4 DEF Truthful
      <4> QED BY <3>1, <3>2, <3>4, <4>1 DEF Book!Next, Book!Saved
    <3>5. CASE ~Head(replies).ok
      BY <3>1, <3>2, <3>5 DEF Book!Next, Book!Refused
    <3> QED BY <3>4, <3>5
  <2>2. CASE ~OnConnection(c)
    BY <1>3, <2>2 DEF PutAnswered, OnConnection
  <2> QED BY <2>1, <2>2
<1>4. CASE EndProcess
  BY <1>4 DEF EndProcess, Book!Next, Book!End
<1>5. CASE \/ \E who \in Users : SignIn(who)
           \/ ShowMainScreen \/ SignOut \/ ForcedSignOut \/ RenewToken
           \/ HandOn \/ SharedQueue \/ RunRetry \/ TokenFetched \/ onReady \/ Lose \/ onKill
           \/ Revoke \/ AuthAccepted \/ AuthLost
  BY <1>5 DEF SignIn, ShowMainScreen, SignOut, ForcedSignOut, RenewToken, HandOn,
     SharedQueue, putInternal, refreshAuthToken, openNetworkConnection, FetchFailed,
     RunRetry, TokenFetched, onReady, Lose, onKill, Revoke, AuthAccepted, AuthLost
<1>6. CASE UNCHANGED vars
  BY <1>6 DEF vars
<1> QED
  BY <1>1, <1>2, <1>3, <1>4, <1>5, <1>6 DEF Next, Listen

(* The store implements the book: a client is handed over once, answered   *)
(* at most once, and "saved" is said only of what the server holds.        *)
THEOREM StoreKeepsTheBook == Spec => KeepsTheBook
<1>1. Init => Book!Init
  BY DEF Init, Book!Init
<1> QED
  BY <1>1, BookStep, TypedAlways, HeldOnceAlways, TruthfulAlways, PTL
     DEF Spec, KeepsTheBook, Book!Spec

-----------------------------------------------------------------------------
(* The order of the puts on a connection *)

(* Requests with the same puts in the same order *)
LEMMA SamePuts ==
  ASSUME NEW u, NEW v, NEW puts, InOrder(u, puts),
         NEW f \in [PutsIn(v) -> PutsIn(u)],
         \A k \in PutsIn(v) : v[k].client = u[f[k]].client,
         \A k, l \in PutsIn(v) : k < l => f[k] < f[l],
         \A k \in PutsIn(u) : \E l \in PutsIn(v) : f[l] = k
  PROVE  InOrder(v, puts)
<1>1. \A i \in 1..Len(puts) : \E k \in PutsIn(v) : v[k].client = puts[i]
  <2> SUFFICES ASSUME NEW i \in 1..Len(puts) PROVE \E k \in PutsIn(v) : v[k].client = puts[i]
    OBVIOUS
  <2>1. PICK k \in PutsIn(u) : u[k].client = puts[i]
    BY DEF InOrder
  <2>2. PICK l \in PutsIn(v) : f[l] = k
    OBVIOUS
  <2> QED BY <2>1, <2>2
<1>2. \A k \in PutsIn(v) : \E i \in 1..Len(puts) : v[k].client = puts[i]
  BY DEF InOrder
<1>3. \A k, l \in PutsIn(v), i, j \in 1..Len(puts) :
        k < l /\ v[k].client = puts[i] /\ v[l].client = puts[j] => i < j
  BY DEF InOrder
<1> QED
  BY <1>1, <1>2, <1>3 DEF InOrder

(* A request that is no put is sent. *)
LEMMA SendNoPut ==
  ASSUME NEW u, NEW v, NEW puts, InOrder(u, puts), Len(u) \in Nat, Len(v) = Len(u) + 1,
         \A k \in 1..Len(u) : v[k] = u[k], v[Len(u) + 1].op # "put"
  PROVE  InOrder(v, puts)
<1> DEFINE f == [k \in PutsIn(v) |-> k]
<1>1. PutsIn(v) = PutsIn(u) /\ \A k \in PutsIn(u) : v[k] = u[k]
  BY DEF PutsIn
<1>2. /\ f \in [PutsIn(v) -> PutsIn(u)]
      /\ \A k \in PutsIn(v) : v[k].client = u[f[k]].client
      /\ \A k, l \in PutsIn(v) : k < l => f[k] < f[l]
      /\ \A k \in PutsIn(u) : \E l \in PutsIn(v) : f[l] = k
  BY <1>1
<1> HIDE DEF f
<1> QED BY <1>2, SamePuts

(* A request that is no put goes. *)
LEMMA DropNoPut ==
  ASSUME NEW u, NEW v, NEW puts, InOrder(u, puts), Len(u) \in Nat, NEW r \in 1..Len(u),
         Len(v) = Len(u) - 1, u[r].op # "put",
         \A k \in 1..Len(v) : v[k] = IF k < r THEN u[k] ELSE u[k + 1]
  PROVE  InOrder(v, puts)
<1> DEFINE f == [k \in PutsIn(v) |-> IF k < r THEN k ELSE k + 1]
<1>1. \A k \in PutsIn(v) : f[k] \in PutsIn(u) /\ v[k] = u[f[k]] /\ k \in Int
                           /\ f[k] = IF k < r THEN k ELSE k + 1
  BY DEF PutsIn
<1>2. \A k \in PutsIn(u) : \E l \in PutsIn(v) : f[l] = k
  <2> SUFFICES ASSUME NEW k \in PutsIn(u) PROVE \E l \in PutsIn(v) : f[l] = k
    OBVIOUS
  <2>1. CASE k < r
    <3>1. k \in PutsIn(v)
      BY <2>1 DEF PutsIn
    <3> QED BY <2>1, <3>1
  <2>2. CASE k > r
    <3>1. k - 1 \in PutsIn(v) /\ ~(k - 1 < r) /\ (k - 1) + 1 = k
      BY <2>2 DEF PutsIn
    <3>2. f[k - 1] = k
      BY <3>1
    <3> HIDE DEF f
    <3> QED BY <3>1, <3>2
  <2>3. k # r /\ k \in Int
    BY DEF PutsIn
  <2> QED BY <2>1, <2>2, <2>3
<1>3. \A k, l \in PutsIn(v) : k < l => f[k] < f[l]
  <2> HIDE DEF f
  <2> QED BY <1>1
<1>4. f \in [PutsIn(v) -> PutsIn(u)]
  BY <1>1
<1> HIDE DEF f
<1> QED BY <1>1, <1>2, <1>3, <1>4, SamePuts

(* A request that is no put is put in, by the server's word that it has    *)
(* revoked the token.                                                      *)
LEMMA InsertNoPut ==
  ASSUME NEW u, NEW v, NEW puts, InOrder(u, puts), Len(u) \in Nat, NEW r \in 1..(Len(u) + 1),
         Len(v) = Len(u) + 1, v[r].op # "put",
         \A k \in 1..Len(u) : v[IF k < r THEN k ELSE k + 1] = u[k]
  PROVE  InOrder(v, puts)
<1> DEFINE f == [k \in PutsIn(v) |-> IF k < r THEN k ELSE k - 1]
<1>0. \A k \in PutsIn(v) : k \in 1..(Len(u) + 1) /\ k # r
  BY DEF PutsIn
<1>1. \A k \in PutsIn(v) : f[k] \in PutsIn(u) /\ v[k] = u[f[k]]
                           /\ f[k] = IF k < r THEN k ELSE k - 1
  <2> SUFFICES ASSUME NEW k \in PutsIn(v)
               PROVE  f[k] \in PutsIn(u) /\ v[k] = u[f[k]]
    OBVIOUS
  <2>1. CASE k < r
    <3>1. k \in 1..Len(u) /\ f[k] = k
      BY <1>0, <2>1
    <3> QED BY <2>1, <3>1 DEF PutsIn
  <2>2. CASE ~(k < r)
    <3>1. k - 1 \in 1..Len(u) /\ ~(k - 1 < r) /\ (k - 1) + 1 = k /\ f[k] = k - 1
      BY <1>0, <2>2
    <3>2. v[k] = u[k - 1]
      BY <3>1
    <3> QED BY <3>1, <3>2 DEF PutsIn
  <2> QED BY <2>1, <2>2
<1>2. \A k \in PutsIn(u) : \E l \in PutsIn(v) : f[l] = k
  <2> SUFFICES ASSUME NEW k \in PutsIn(u) PROVE \E l \in PutsIn(v) : f[l] = k
    OBVIOUS
  <2> DEFINE l == IF k < r THEN k ELSE k + 1
  <2>1. k \in 1..Len(u) /\ v[l] = u[k] /\ l \in 1..Len(v)
    BY DEF PutsIn
  <2>2. l \in PutsIn(v)
    BY <2>1 DEF PutsIn
  <2>3. f[l] = k
    BY <2>1, <2>2
  <2> HIDE DEF l, f
  <2> QED BY <2>2, <2>3
<1>3. \A k, l \in PutsIn(v) : k < l => f[k] < f[l]
  <2> HIDE DEF f
  <2> QED BY <1>0, <1>1
<1>4. f \in [PutsIn(v) -> PutsIn(u)]
  BY <1>1
<1> HIDE DEF f
<1>5. \A k \in PutsIn(v) : v[k].client = u[f[k]].client
  BY <1>1
<1> QED BY <1>2, <1>3, <1>4, <1>5, SamePuts

(* A put is sent that was not there. *)
LEMMA SendPut ==
  ASSUME NEW u, NEW v, NEW puts, NEW more, InOrder(u, puts),
         Len(u) \in Nat, Len(v) = Len(u) + 1, \A k \in 1..Len(u) : v[k] = u[k],
         Len(puts) \in Nat, Len(more) = Len(puts) + 1, \A i \in 1..Len(puts) : more[i] = puts[i],
         v[Len(u) + 1].op = "put", v[Len(u) + 1].client = more[Len(puts) + 1],
         \A i \in 1..Len(puts) : puts[i] # more[Len(puts) + 1]
  PROVE  InOrder(v, more)
<1> DEFINE n == Len(puts) + 1
           m == Len(u) + 1
<1>1. \A k \in PutsIn(v) : k \in 1..m /\ (k # m => k \in PutsIn(u) /\ v[k] = u[k])
  BY DEF PutsIn
<1>2. \A k \in PutsIn(u) : k \in PutsIn(v) /\ v[k] = u[k]
  BY DEF PutsIn
<1>3. m \in PutsIn(v) /\ v[m].client = more[n]
  BY DEF PutsIn
<1>4. \A i \in 1..Len(more) : i # n => i \in 1..Len(puts) /\ more[i] = puts[i]
  OBVIOUS
<1>5. \A k \in PutsIn(u) : v[k].client # more[n]
  BY <1>2 DEF InOrder
<1>6. \A i \in 1..Len(more) : \E k \in PutsIn(v) : v[k].client = more[i]
  BY <1>2, <1>3, <1>4 DEF InOrder
<1>7. \A k \in PutsIn(v) : \E i \in 1..Len(more) : v[k].client = more[i]
  <2> SUFFICES ASSUME NEW k \in PutsIn(v) PROVE \E i \in 1..Len(more) : v[k].client = more[i]
    OBVIOUS
  <2>1. CASE k = m
    BY <1>3, <2>1
  <2>2. CASE k # m
    <3>1. PICK i \in 1..Len(puts) : u[k].client = puts[i]
      BY <1>1, <2>2 DEF InOrder
    <3>2. i \in 1..Len(more) /\ more[i] = puts[i]
      OBVIOUS
    <3> QED BY <1>1, <2>2, <3>1, <3>2
  <2> QED BY <2>1, <2>2
<1>8. ASSUME NEW k \in PutsIn(v), NEW l \in PutsIn(v), NEW i \in 1..Len(more),
             NEW j \in 1..Len(more), k < l, v[k].client = more[i], v[l].client = more[j]
      PROVE  i < j
  <2>1. k # m /\ k \in PutsIn(u) /\ v[k] = u[k]
    BY <1>1, <1>8
  <2>2. i # n /\ i \in 1..Len(puts) /\ more[i] = puts[i]
    BY <1>4, <1>5, <1>8, <2>1
  <2>3. CASE l = m
    <3>1. more[j] = more[n]
      BY <1>3, <1>8, <2>3
    <3>2. j = n
      BY <1>4, <3>1
    <3> QED BY <2>2, <3>2
  <2>4. CASE l # m
    <3>1. l \in PutsIn(u) /\ v[l] = u[l]
      BY <1>1, <2>4
    <3>2. j # n
      BY <1>5, <1>8, <3>1
    <3> QED BY <1>4, <1>8, <2>1, <2>2, <3>1, <3>2 DEF InOrder
  <2> QED BY <2>3, <2>4
<1> QED
  BY <1>6, <1>7, <1>8 DEF InOrder

(* The first request is a put: it is the first of the puts. *)
LEMMA FirstPut ==
  ASSUME NEW u, NEW puts, InOrder(u, puts), Len(u) \in Nat \ {0}, u[1].op = "put",
         Len(puts) \in Nat
  PROVE  Len(puts) > 0 /\ u[1].client = puts[1]
<1>1. 1 \in PutsIn(u) /\ \A k \in PutsIn(u) : k \in 1..Len(u)
  BY DEF PutsIn
<1>2. PICK i \in 1..Len(puts) : u[1].client = puts[i]
  BY <1>1 DEF InOrder
<1>3. ASSUME u[1].client # puts[1] PROVE FALSE
  <2>1. PICK k \in PutsIn(u) : u[k].client = puts[1]
    BY <1>2 DEF InOrder
  <2>2. 1 < k
    BY <1>1, <1>3, <2>1
  <2>3. i < 1
    BY <1>1, <1>2, <2>1, <2>2 DEF InOrder
  <2> QED BY <2>3
<1> QED BY <1>2, <1>3

(* The first put is answered. *)
LEMMA DropPut ==
  ASSUME NEW u, NEW v, NEW puts, NEW less, InOrder(u, puts),
         Len(u) \in Nat \ {0}, u[1].op = "put",
         Len(v) = Len(u) - 1, \A k \in 1..Len(v) : v[k] = u[k + 1],
         Len(puts) \in Nat, Len(less) = Len(puts) - 1,
         \A i \in 1..Len(less) : less[i] = puts[i + 1],
         \A i, j \in 1..Len(puts) : puts[i] = puts[j] => i = j
  PROVE  InOrder(v, less)
<1>0. Len(puts) > 0 /\ u[1].client = puts[1] /\ 1 \in PutsIn(u)
  BY FirstPut DEF PutsIn
<1>1. \A k \in PutsIn(v) : k \in Nat \ {0} /\ k + 1 \in PutsIn(u) /\ v[k] = u[k + 1]
  BY DEF PutsIn
<1>2. \A k \in PutsIn(u) : k # 1 => k - 1 \in PutsIn(v) /\ v[k - 1] = u[k]
  BY DEF PutsIn
<1>3. \A k \in PutsIn(u), i \in 1..Len(puts) : k # 1 /\ u[k].client = puts[i] => i # 1
  <2> SUFFICES ASSUME NEW k \in PutsIn(u), NEW i \in 1..Len(puts), k # 1,
                      u[k].client = puts[i]
               PROVE  i # 1
    OBVIOUS
  <2>1. 1 < k /\ 1 \in 1..Len(puts)
    BY <1>0 DEF PutsIn
  <2>2. 1 < i
    BY <1>0, <2>1 DEF InOrder
  <2> QED BY <2>2
<1>4. \A i \in 1..Len(less) : \E k \in PutsIn(v) : v[k].client = less[i]
  <2> SUFFICES ASSUME NEW i \in 1..Len(less) PROVE \E k \in PutsIn(v) : v[k].client = less[i]
    OBVIOUS
  <2>1. i + 1 \in 1..Len(puts) /\ less[i] = puts[i + 1] /\ 1 \in 1..Len(puts)
    BY <1>0
  <2>2. PICK k \in PutsIn(u) : u[k].client = puts[i + 1]
    BY <2>1 DEF InOrder
  <2>3. k # 1
    BY <1>0, <2>1, <2>2
  <2> QED BY <1>2, <2>1, <2>2, <2>3
<1>5. \A k \in PutsIn(v) : \E i \in 1..Len(less) : v[k].client = less[i]
  <2> SUFFICES ASSUME NEW k \in PutsIn(v) PROVE \E i \in 1..Len(less) : v[k].client = less[i]
    OBVIOUS
  <2>1. PICK i \in 1..Len(puts) : u[k + 1].client = puts[i]
    BY <1>1 DEF InOrder
  <2>2. i # 1
    BY <1>1, <1>3, <2>1
  <2>3. i - 1 \in 1..Len(less) /\ less[i - 1] = puts[i]
    BY <2>2
  <2> QED BY <1>1, <2>1, <2>3
<1>6. \A k, l \in PutsIn(v), i, j \in 1..Len(less) :
        k < l /\ v[k].client = less[i] /\ v[l].client = less[j] => i < j
  <2> SUFFICES ASSUME NEW k \in PutsIn(v), NEW l \in PutsIn(v), NEW i \in 1..Len(less),
                      NEW j \in 1..Len(less), k < l, v[k].client = less[i], v[l].client = less[j]
               PROVE  i < j
    OBVIOUS
  <2>1. k + 1 \in PutsIn(u) /\ l + 1 \in PutsIn(u) /\ k + 1 < l + 1
    BY <1>1
  <2>2. i + 1 \in 1..Len(puts) /\ j + 1 \in 1..Len(puts)
        /\ less[i] = puts[i + 1] /\ less[j] = puts[j + 1]
    OBVIOUS
  <2>4. u[k + 1].client = puts[i + 1] /\ u[l + 1].client = puts[j + 1]
    BY <1>1, <2>2
  <2>3. i + 1 < j + 1
    <3> DEFINE k1 == k + 1
               l1 == l + 1
               i1 == i + 1
               j1 == j + 1
    <3>1. /\ k1 \in PutsIn(u) /\ l1 \in PutsIn(u) /\ k1 < l1
          /\ i1 \in 1..Len(puts) /\ j1 \in 1..Len(puts)
          /\ u[k1].client = puts[i1] /\ u[l1].client = puts[j1]
      BY <2>1, <2>2, <2>4
    <3> HIDE DEF k1, l1, i1, j1
    <3>2. i1 < j1
      BY <3>1 DEF InOrder
    <3> QED BY <3>2 DEF i1, j1
  <2> QED BY <2>3
<1> QED
  BY <1>4, <1>5, <1>6 DEF InOrder

(* All the puts are sent again on a connection that has none. *)
LEMMA RestoreInOrder ==
  ASSUME NEW n \in Nat, NEW v, NEW puts, Len(puts) \in Nat,
         \A k \in 1..n : v[k].op # "put",
         Len(v) = n + Len(puts),
         \A i \in 1..Len(puts) : v[n + i].op = "put" /\ v[n + i].client = puts[i],
         \A i, j \in 1..Len(puts) : puts[i] = puts[j] => i = j
  PROVE  InOrder(v, puts)
<1>1. \A i \in 1..Len(puts) : n + i \in PutsIn(v)
  BY DEF PutsIn
<1>2. \A k \in PutsIn(v) : k - n \in 1..Len(puts) /\ v[k].client = puts[k - n] /\ k \in Int
  <2> SUFFICES ASSUME NEW k \in PutsIn(v)
               PROVE  k - n \in 1..Len(puts) /\ v[k].client = puts[k - n] /\ k \in Int
    OBVIOUS
  <2>1. k \in 1..(n + Len(puts)) /\ v[k].op = "put"
    BY DEF PutsIn
  <2>2. k \notin 1..n
    BY <2>1
  <2>3. k - n \in 1..Len(puts) /\ n + (k - n) = k
    BY <2>1, <2>2
  <2> QED BY <2>1, <2>3
<1>3. \A i \in 1..Len(puts) : \E k \in PutsIn(v) : v[k].client = puts[i]
  BY <1>1
<1>4. \A k \in PutsIn(v) : \E i \in 1..Len(puts) : v[k].client = puts[i]
  BY <1>2
<1>5. \A k, l \in PutsIn(v), i, j \in 1..Len(puts) :
        k < l /\ v[k].client = puts[i] /\ v[l].client = puts[j] => i < j
  <2> SUFFICES ASSUME NEW k \in PutsIn(v), NEW l \in PutsIn(v), NEW i \in 1..Len(puts),
                      NEW j \in 1..Len(puts), k < l, v[k].client = puts[i], v[l].client = puts[j]
               PROVE  i < j
    OBVIOUS
  <2>1. i = k - n /\ j = l - n
    BY <1>2
  <2> QED BY <1>2, <2>1
<1> QED
  BY <1>3, <1>4, <1>5 DEF InOrder

(* The requests under way, by position *)
Joined(heard, requests) == [i \in 1..Len(heard) |-> heard[i].request] \o requests

(* The elements of what is under way: first the answered, then the sent *)
LEMMA JoinedAt ==
  ASSUME NEW heard \in Seq(GoodReplies), NEW requests \in Seq(GoodRequests)
  PROVE  /\ Len(heard) \in Nat /\ Len(requests) \in Nat
         /\ Joined(heard, requests) \in Seq(GoodRequests)
         /\ Len(Joined(heard, requests)) = Len(heard) + Len(requests)
         /\ \A k \in 1..Len(heard) : Joined(heard, requests)[k] = heard[k].request
         /\ \A k \in 1..Len(requests) : Joined(heard, requests)[Len(heard) + k] = requests[k]
         /\ \A k \in (Len(heard) + 1)..(Len(heard) + Len(requests)) :
              Joined(heard, requests)[k] = requests[k - Len(heard)]
<1> DEFINE first == [i \in 1..Len(heard) |-> heard[i].request]
<1>1. Len(heard) \in Nat /\ Len(requests) \in Nat
  BY LenProperties
<1>2. \A i \in 1..Len(heard) : heard[i].request \in GoodRequests
  <2>1. \A i \in 1..Len(heard) : heard[i] \in GoodReplies
    BY ElementOfSeq
  <2> QED BY <2>1 DEF GoodReplies
<1>3. first \in Seq(GoodRequests) /\ Len(first) = Len(heard)
  BY <1>1, <1>2
<1>4. \A k \in 1..Len(heard) : first[k] = heard[k].request
  OBVIOUS
<1> HIDE DEF first
<1>5. /\ first \o requests \in Seq(GoodRequests)
      /\ Len(first \o requests) = Len(heard) + Len(requests)
      /\ \A k \in 1..(Len(heard) + Len(requests)) :
           (first \o requests)[k] = IF k <= Len(heard) THEN first[k] ELSE requests[k - Len(heard)]
  <2>1. /\ first \o requests \in Seq(GoodRequests)
        /\ Len(first \o requests) = Len(first) + Len(requests)
        /\ \A k \in 1..(Len(first) + Len(requests)) :
             (first \o requests)[k] = IF k <= Len(first) THEN first[k] ELSE requests[k - Len(first)]
    BY <1>3, ConcatProperties
  <2> QED BY <1>3, <2>1
<1>6. Joined(heard, requests) = first \o requests
  BY DEF Joined, first
<1>7. \A k \in 1..Len(heard) : (first \o requests)[k] = heard[k].request
  BY <1>1, <1>4, <1>5
<1>8. \A k \in (Len(heard) + 1)..(Len(heard) + Len(requests)) :
        (first \o requests)[k] = requests[k - Len(heard)]
  BY <1>1, <1>5
<1>9. \A k \in 1..Len(requests) : (first \o requests)[Len(heard) + k] = requests[k]
  <2> SUFFICES ASSUME NEW k \in 1..Len(requests)
               PROVE  (first \o requests)[Len(heard) + k] = requests[k]
    OBVIOUS
  <2>1. Len(heard) + k \in (Len(heard) + 1)..(Len(heard) + Len(requests))
        /\ (Len(heard) + k) - Len(heard) = k
    BY <1>1
  <2> QED BY <1>8, <2>1
<1> QED
  BY <1>1, <1>5, <1>6, <1>7, <1>8, <1>9

(* More is sent. *)
LEMMA JoinedMore ==
  ASSUME NEW heard \in Seq(GoodReplies), NEW q \in Seq(GoodRequests),
         NEW requests \in Seq(GoodRequests)
  PROVE  LET old == Joined(heard, q)
             new == Joined(heard, q \o requests)
         IN  /\ Len(old) \in Nat /\ Len(requests) \in Nat
             /\ Len(new) = Len(old) + Len(requests)
             /\ \A k \in 1..Len(old) : new[k] = old[k]
             /\ \A k \in 1..Len(requests) : new[Len(old) + k] = requests[k]
<1> DEFINE more == q \o requests
           old == Joined(heard, q)
           new == Joined(heard, more)
<1>4. /\ q \o requests \in Seq(GoodRequests) /\ Len(q \o requests) = Len(q) + Len(requests)
      /\ Len(q) \in Nat /\ Len(requests) \in Nat /\ Len(heard) \in Nat
      /\ \A k \in 1..(Len(q) + Len(requests)) :
           (q \o requests)[k] = IF k <= Len(q) THEN q[k] ELSE requests[k - Len(q)]
  BY ConcatProperties, LenProperties
<1>5. /\ Len(old) = Len(heard) + Len(q)
      /\ \A k \in 1..Len(heard) : old[k] = heard[k].request
      /\ \A k \in (Len(heard) + 1)..(Len(heard) + Len(q)) : old[k] = q[k - Len(heard)]
  BY JoinedAt
<1>6. /\ Len(new) = Len(heard) + Len(q) + Len(requests)
      /\ \A k \in 1..Len(heard) : new[k] = heard[k].request
      /\ \A k \in (Len(heard) + 1)..(Len(heard) + Len(q) + Len(requests)) :
           new[k] = (q \o requests)[k - Len(heard)]
  <2> HIDE DEF more
  <2>1. more \in Seq(GoodRequests) /\ Len(more) = Len(q) + Len(requests)
    BY <1>4 DEF more
  <2>2. /\ Len(new) = Len(heard) + Len(more)
        /\ \A k \in 1..Len(heard) : new[k] = heard[k].request
        /\ \A k \in (Len(heard) + 1)..(Len(heard) + Len(more)) : new[k] = more[k - Len(heard)]
    BY <2>1, JoinedAt
  <2> HIDE DEF new
  <2>3. Len(heard) + Len(more) = Len(heard) + Len(q) + Len(requests)
    BY <1>4, <2>1
  <2> QED BY <2>2, <2>3 DEF more
<1> HIDE DEF old, new
<1>7. \A k \in 1..Len(old) : new[k] = old[k]
  <2> SUFFICES ASSUME NEW k \in 1..Len(old) PROVE new[k] = old[k]
    OBVIOUS
  <2>1. CASE k <= Len(heard)
    BY <1>4, <1>5, <1>6, <2>1
  <2>2. CASE k > Len(heard)
    <3>1. /\ k - Len(heard) \in 1..Len(q)
          /\ k \in (Len(heard) + 1)..(Len(heard) + Len(q))
          /\ k \in (Len(heard) + 1)..(Len(heard) + Len(q) + Len(requests))
      BY <1>4, <1>5, <2>2
    <3>2. (q \o requests)[k - Len(heard)] = q[k - Len(heard)]
      BY <1>4, <3>1
    <3> QED BY <1>5, <1>6, <3>1, <3>2
  <2> QED BY <1>4, <1>5, <2>1, <2>2
<1>8. \A k \in 1..Len(requests) : new[Len(old) + k] = requests[k]
  <2> SUFFICES ASSUME NEW k \in 1..Len(requests) PROVE new[Len(old) + k] = requests[k]
    OBVIOUS
  <2>1. /\ Len(old) + k \in (Len(heard) + 1)..(Len(heard) + Len(q) + Len(requests))
        /\ (Len(old) + k) - Len(heard) = Len(q) + k
        /\ Len(q) + k \in 1..(Len(q) + Len(requests)) /\ ~(Len(q) + k <= Len(q))
        /\ (Len(q) + k) - Len(q) = k
    BY <1>4, <1>5
  <2> QED BY <1>4, <1>6, <2>1
<1>9. /\ Len(old) \in Nat /\ Len(requests) \in Nat
      /\ Len(new) = Len(old) + Len(requests)
  BY <1>4, <1>5, <1>6
<1> QED
  BY <1>7, <1>8, <1>9 DEF old, new

(* The first of them is heard. *)
LEMMA JoinedTail ==
  ASSUME NEW heard \in Seq(GoodReplies), heard # <<>>, NEW q \in Seq(GoodRequests)
  PROVE  LET old == Joined(heard, q)
             new == Joined(Tail(heard), q)
         IN  /\ Len(old) \in Nat \ {0} /\ Len(new) = Len(old) - 1
             /\ old[1] = Head(heard).request /\ Head(heard) \in GoodReplies
             /\ Tail(heard) \in Seq(GoodReplies)
             /\ \A k \in 1..Len(new) : new[k] = old[k + 1]
<1> DEFINE rest == Tail(heard)
           old == Joined(heard, q)
           new == Joined(rest, q)
<1>3. /\ Tail(heard) \in Seq(GoodReplies) /\ Len(Tail(heard)) = Len(heard) - 1
      /\ Head(heard) = heard[1] /\ Head(heard) \in GoodReplies
      /\ Len(heard) \in Nat \ {0}
      /\ \A k \in 1..Len(Tail(heard)) : Tail(heard)[k] = heard[k + 1]
  BY Dropped
<1>4. /\ Len(old) = Len(heard) + Len(q) /\ Len(q) \in Nat
      /\ \A k \in 1..Len(heard) : old[k] = heard[k].request
      /\ \A k \in (Len(heard) + 1)..(Len(heard) + Len(q)) : old[k] = q[k - Len(heard)]
  BY JoinedAt
<1>5. /\ Len(new) = (Len(heard) - 1) + Len(q)
      /\ \A k \in 1..(Len(heard) - 1) : new[k] = Tail(heard)[k].request
      /\ \A k \in ((Len(heard) - 1) + 1)..((Len(heard) - 1) + Len(q)) :
           new[k] = q[k - (Len(heard) - 1)]
  <2> HIDE DEF rest
  <2>1. rest \in Seq(GoodReplies) /\ Len(rest) = Len(heard) - 1
    BY <1>3 DEF rest
  <2>2. /\ Len(new) = Len(rest) + Len(q)
        /\ \A k \in 1..Len(rest) : new[k] = rest[k].request
        /\ \A k \in (Len(rest) + 1)..(Len(rest) + Len(q)) : new[k] = q[k - Len(rest)]
    BY <2>1, JoinedAt
  <2> HIDE DEF new
  <2> QED BY <2>1, <2>2 DEF rest
<1> HIDE DEF old, new
<1>6. \A k \in 1..Len(new) : new[k] = old[k + 1]
  <2> SUFFICES ASSUME NEW k \in 1..Len(new) PROVE new[k] = old[k + 1]
    OBVIOUS
  <2>1. CASE k <= Len(heard) - 1
    <3>1. k \in 1..(Len(heard) - 1) /\ k + 1 \in 1..Len(heard)
      BY <1>3, <2>1, <1>5, <1>4
    <3> QED BY <1>3, <1>4, <1>5, <3>1
  <2>2. CASE k > Len(heard) - 1
    <3>1. /\ k \in ((Len(heard) - 1) + 1)..((Len(heard) - 1) + Len(q))
          /\ k + 1 \in (Len(heard) + 1)..(Len(heard) + Len(q))
          /\ (k + 1) - Len(heard) = k - (Len(heard) - 1)
      BY <1>3, <1>4, <1>5, <2>2
    <3> QED BY <1>4, <1>5, <3>1
  <2> QED BY <1>3, <1>4, <1>5, <2>1, <2>2
<1>7. Len(old) \in Nat \ {0} /\ Len(new) = Len(old) - 1 /\ old[1] = Head(heard).request
  BY <1>3, <1>4, <1>5
<1> QED
  BY <1>3, <1>6, <1>7 DEF old, new

(* What is under way on the last connection *)
LEMMA UnderWayIs ==
  /\ UnderWay = Joined(replies, links[Len(links)].requests)
  /\ UnderWay' = Joined(replies', links'[Len(links')].requests)
  /\ PutsUnderWay = PutsIn(UnderWay)
  /\ AnswersInOrder <=> (canSendWrites => InOrder(UnderWay, outstanding))
BY DEF UnderWay, Current, Joined, PutsUnderWay, PutsIn, AnswersInOrder, InOrder

(* The requests of the last connection *)
LEMMA LastLink ==
  ASSUME Typed, links # <<>>
  PROVE  /\ Len(links) \in Nat \ {0} /\ links[Len(links)] \in GoodLinks
         /\ links[Len(links)].requests \in Seq(GoodRequests)
         /\ replies \in Seq(GoodReplies)
<1>1. Len(links) \in Nat \ {0}
  BY EmptySeq DEF Typed
<1>2. links[Len(links)] \in GoodLinks
  BY <1>1, ElementOfSeq DEF Typed
<1> QED BY <1>1, <1>2 DEF GoodLinks, Typed

(* More is under way after it is sent. *)
LEMMA UnderWaySent ==
  ASSUME Typed, links # <<>>, NEW requests \in Seq(GoodRequests), Send(requests),
         replies' = replies
  PROVE  /\ Len(UnderWay) \in Nat /\ Len(requests) \in Nat
         /\ Len(UnderWay') = Len(UnderWay) + Len(requests)
         /\ \A k \in 1..Len(UnderWay) : UnderWay'[k] = UnderWay[k]
         /\ \A k \in 1..Len(requests) : UnderWay'[Len(UnderWay) + k] = requests[k]
<1> DEFINE q == links[Len(links)].requests
<1>1. q \in Seq(GoodRequests) /\ replies \in Seq(GoodReplies)
  BY LastLink
<1>2. Len(links') = Len(links) /\ links'[Len(links)].requests = q \o requests
  BY Sent DEF Typed
<1>3. UnderWay = Joined(replies, q) /\ UnderWay' = Joined(replies, q \o requests)
  BY <1>2, UnderWayIs
<1> HIDE DEF q
<1> DEFINE old == Joined(replies, q)
           new == Joined(replies, q \o requests)
<1>4. /\ Len(old) \in Nat /\ Len(requests) \in Nat
      /\ Len(new) = Len(old) + Len(requests)
      /\ \A k \in 1..Len(old) : new[k] = old[k]
      /\ \A k \in 1..Len(requests) : new[Len(old) + k] = requests[k]
  BY <1>1, JoinedMore
<1>5. UnderWay = old /\ UnderWay' = new
  BY <1>3
<1> HIDE DEF old, new
<1> QED
  BY <1>4, <1>5

(* One request more is under way. *)
LEMMA UnderWaySentOne ==
  ASSUME Typed, links # <<>>, NEW msg \in GoodRequests, Send(<<msg>>), replies' = replies
  PROVE  /\ Len(UnderWay) \in Nat /\ Len(UnderWay') = Len(UnderWay) + 1
         /\ \A k \in 1..Len(UnderWay) : UnderWay'[k] = UnderWay[k]
         /\ UnderWay'[Len(UnderWay) + 1] = msg
<1>1. <<msg>> \in Seq(GoodRequests) /\ Len(<<msg>>) = 1 /\ <<msg>>[1] = msg
  OBVIOUS
<1> DEFINE requests == <<msg>>
<1> HIDE DEF requests
<1>2. /\ Len(UnderWay) \in Nat
      /\ Len(UnderWay') = Len(UnderWay) + Len(requests)
      /\ \A k \in 1..Len(UnderWay) : UnderWay'[k] = UnderWay[k]
      /\ \A k \in 1..Len(requests) : UnderWay'[Len(UnderWay) + k] = requests[k]
  BY <1>1, UnderWaySent DEF requests
<1>3. Len(requests) = 1 /\ requests[1] = msg
  BY <1>1 DEF requests
<1> QED
  BY <1>2, <1>3

(* An answer is heard. *)
LEMMA UnderWayHeard ==
  ASSUME Typed, replies # <<>>, replies' = Tail(replies), links' = links
  PROVE  /\ Len(UnderWay) \in Nat \ {0} /\ Len(UnderWay') = Len(UnderWay) - 1
         /\ UnderWay[1] = Head(replies).request /\ Head(replies) \in GoodReplies
         /\ \A k \in 1..Len(UnderWay') : UnderWay'[k] = UnderWay[k + 1]
<1> DEFINE q == links[Len(links)].requests
<1>1. q \in Seq(GoodRequests) /\ replies \in Seq(GoodReplies)
  BY LastLink DEF Typed
<1>2. UnderWay = Joined(replies, q) /\ UnderWay' = Joined(Tail(replies), q)
  BY UnderWayIs
<1> HIDE DEF q
<1> DEFINE old == Joined(replies, q)
           new == Joined(Tail(replies), q)
<1>3. /\ Len(old) \in Nat \ {0} /\ Len(new) = Len(old) - 1
      /\ old[1] = Head(replies).request /\ Head(replies) \in GoodReplies
      /\ \A k \in 1..Len(new) : new[k] = old[k + 1]
  BY <1>1, JoinedTail
<1>4. UnderWay = old /\ UnderWay' = new
  BY <1>2
<1> HIDE DEF old, new
<1> QED
  BY <1>3, <1>4

(* An answer is heard and more is sent. *)
LEMMA UnderWayHeardSent ==
  ASSUME Typed, replies # <<>>, replies' = Tail(replies),
         NEW requests \in Seq(GoodRequests), Send(requests)
  PROVE  /\ Len(UnderWay) \in Nat \ {0} /\ UnderWay[1] = Head(replies).request
         /\ Len(UnderWay') = (Len(UnderWay) - 1) + Len(requests)
         /\ \A k \in 1..(Len(UnderWay) - 1) : UnderWay'[k] = UnderWay[k + 1]
         /\ \A k \in 1..Len(requests) : UnderWay'[(Len(UnderWay) - 1) + k] = requests[k]
<1> DEFINE q == links[Len(links)].requests
           mid == Joined(Tail(replies), q)
<1>1. q \in Seq(GoodRequests) /\ replies \in Seq(GoodReplies) /\ links # <<>>
  BY LastLink DEF Typed
<1>2. Len(links') = Len(links) /\ links'[Len(links)].requests = q \o requests
  BY <1>1, Sent DEF Typed
<1>3. UnderWay = Joined(replies, q) /\ UnderWay' = Joined(Tail(replies), q \o requests)
  BY <1>2, UnderWayIs
<1> HIDE DEF q
<1> DEFINE old == Joined(replies, q)
           rest == Tail(replies)
           new == Joined(rest, q \o requests)
<1>4. /\ Len(old) \in Nat \ {0} /\ Len(mid) = Len(old) - 1
      /\ old[1] = Head(replies).request /\ rest \in Seq(GoodReplies)
      /\ \A k \in 1..Len(mid) : mid[k] = old[k + 1]
  BY <1>1, JoinedTail
<1>7. mid = Joined(rest, q)
  OBVIOUS
<1> HIDE DEF rest, mid
<1>8. /\ Len(new) = Len(Joined(rest, q)) + Len(requests)
      /\ \A k \in 1..Len(Joined(rest, q)) : new[k] = Joined(rest, q)[k]
      /\ \A k \in 1..Len(requests) : new[Len(Joined(rest, q)) + k] = requests[k]
  BY <1>1, <1>4, JoinedMore
<1>9. UnderWay = old /\ UnderWay' = new
  BY <1>3 DEF rest
<1> HIDE DEF old, new
<1>5. /\ Len(UnderWay) \in Nat \ {0} /\ Len(mid) = Len(UnderWay) - 1
      /\ UnderWay[1] = Head(replies).request
      /\ \A k \in 1..Len(mid) : mid[k] = UnderWay[k + 1]
  BY <1>4, <1>9
<1>6. /\ Len(UnderWay') = Len(mid) + Len(requests)
      /\ \A k \in 1..Len(mid) : UnderWay'[k] = mid[k]
      /\ \A k \in 1..Len(requests) : UnderWay'[Len(mid) + k] = requests[k]
  BY <1>7, <1>8, <1>9
<1> QED
  BY <1>5, <1>6

(* The server answers the next request of the last connection. *)
LEMMA UnderWayAnswered ==
  ASSUME Typed, links # <<>>, links[Len(links)].requests # <<>>, NEW ok \in BOOLEAN,
         Len(links') = Len(links),
         links'[Len(links)].requests = Tail(links[Len(links)].requests),
         replies' = Append(replies, Reply(Head(links[Len(links)].requests), ok))
  PROVE  UnderWay' = UnderWay
<1> DEFINE q == links[Len(links)].requests
           answer == Reply(Head(q), ok)
<1>1. q \in Seq(GoodRequests) /\ replies \in Seq(GoodReplies)
  BY LastLink
<1>2. UnderWay = Joined(replies, q) /\ UnderWay' = Joined(Append(replies, answer), Tail(q))
  BY UnderWayIs
<1>3. /\ Tail(q) \in Seq(GoodRequests) /\ Len(Tail(q)) = Len(q) - 1 /\ Head(q) = q[1]
      /\ Head(q) \in GoodRequests /\ Len(q) \in Nat \ {0}
      /\ \A k \in 1..Len(Tail(q)) : Tail(q)[k] = q[k + 1]
  BY <1>1, Dropped
<1>4. answer \in GoodReplies /\ answer.request = q[1]
  BY <1>3 DEF Reply, GoodReplies
<1> HIDE DEF q, answer
<1>5. /\ Append(replies, answer) \in Seq(GoodReplies) /\ Len(replies) \in Nat
      /\ Len(Append(replies, answer)) = Len(replies) + 1
      /\ \A k \in 1..Len(replies) : Append(replies, answer)[k] = replies[k]
      /\ Append(replies, answer)[Len(replies) + 1] = answer
  BY <1>1, <1>4, Appended
<1>6. /\ UnderWay \in Seq(GoodRequests) /\ Len(UnderWay) = Len(replies) + Len(q)
      /\ \A k \in 1..Len(replies) : UnderWay[k] = replies[k].request
      /\ \A k \in (Len(replies) + 1)..(Len(replies) + Len(q)) : UnderWay[k] = q[k - Len(replies)]
  BY <1>1, <1>2, JoinedAt
<1>7. /\ UnderWay' \in Seq(GoodRequests)
      /\ Len(UnderWay') = (Len(replies) + 1) + (Len(q) - 1)
      /\ \A k \in 1..(Len(replies) + 1) : UnderWay'[k] = Append(replies, answer)[k].request
      /\ \A k \in ((Len(replies) + 1) + 1)..((Len(replies) + 1) + (Len(q) - 1)) :
           UnderWay'[k] = Tail(q)[k - (Len(replies) + 1)]
  <2>1. LET h == Append(replies, answer)
            q2 == Tail(q) IN
        /\ UnderWay' \in Seq(GoodRequests) /\ Len(UnderWay') = Len(h) + Len(q2)
        /\ \A k \in 1..Len(h) : UnderWay'[k] = h[k].request
        /\ \A k \in (Len(h) + 1)..(Len(h) + Len(q2)) : UnderWay'[k] = q2[k - Len(h)]
    BY <1>2, <1>3, <1>5, JoinedAt
  <2> QED BY <1>3, <1>5, <2>1
<1>8. \A k \in 1..Len(UnderWay) : UnderWay'[k] = UnderWay[k]
  <2> SUFFICES ASSUME NEW k \in 1..Len(UnderWay) PROVE UnderWay'[k] = UnderWay[k]
    OBVIOUS
  <2>1. CASE k <= Len(replies)
    <3>1. k \in 1..Len(replies) /\ k \in 1..(Len(replies) + 1)
      BY <1>3, <1>5, <1>6, <2>1
    <3> QED BY <1>5, <1>6, <1>7, <3>1
  <2>2. CASE k = Len(replies) + 1
    <3>1. k \in (Len(replies) + 1)..(Len(replies) + Len(q)) /\ k - Len(replies) = 1
          /\ k \in 1..(Len(replies) + 1)
      BY <1>3, <1>5, <2>2
    <3>2. UnderWay[k] = q[1]
      BY <1>6, <3>1
    <3>3. UnderWay'[k] = answer.request
      BY <1>5, <1>7, <2>2, <3>1
    <3> QED BY <1>4, <3>2, <3>3
  <2>3. CASE k > Len(replies) + 1
    <3>1. /\ k \in (Len(replies) + 1)..(Len(replies) + Len(q))
          /\ k \in ((Len(replies) + 1) + 1)..((Len(replies) + 1) + (Len(q) - 1))
          /\ k - (Len(replies) + 1) \in 1..Len(Tail(q))
          /\ (k - (Len(replies) + 1)) + 1 = k - Len(replies)
      BY <1>3, <1>5, <1>6, <2>3
    <3>2. UnderWay'[k] = q[k - Len(replies)]
      BY <1>3, <1>7, <3>1
    <3> QED BY <1>6, <3>1, <3>2
  <2> QED BY <1>3, <1>5, <1>6, <2>1, <2>2, <2>3
<1>9. Len(UnderWay') = Len(UnderWay)
  BY <1>3, <1>5, <1>6, <1>7
<1> QED
  BY <1>6, <1>7, <1>8, <1>9, SeqEqual

(* The server takes the next request of the last connection, without an    *)
(* answer.                                                                 *)
LEMMA UnderWayTaken ==
  ASSUME Typed, links # <<>>, links[Len(links)].requests # <<>>,
         Len(links') = Len(links),
         links'[Len(links)].requests = Tail(links[Len(links)].requests),
         replies' = replies
  PROVE  LET r == Len(replies) + 1 IN
         /\ Len(UnderWay) \in Nat /\ r \in 1..Len(UnderWay)
         /\ Len(UnderWay') = Len(UnderWay) - 1
         /\ UnderWay[r] = Head(links[Len(links)].requests)
         /\ \A k \in 1..Len(UnderWay') : UnderWay'[k] = IF k < r THEN UnderWay[k] ELSE UnderWay[k + 1]
<1> DEFINE q == links[Len(links)].requests
           r == Len(replies) + 1
<1>1. q \in Seq(GoodRequests) /\ replies \in Seq(GoodReplies)
  BY LastLink
<1>2. UnderWay = Joined(replies, q) /\ UnderWay' = Joined(replies, Tail(q))
  BY UnderWayIs
<1>3. /\ Tail(q) \in Seq(GoodRequests) /\ Len(Tail(q)) = Len(q) - 1 /\ Head(q) = q[1]
      /\ Len(q) \in Nat \ {0} /\ Len(replies) \in Nat
      /\ \A k \in 1..Len(Tail(q)) : Tail(q)[k] = q[k + 1]
  BY <1>1, Dropped, LenProperties
<1> HIDE DEF q
<1>4. /\ Len(UnderWay) = Len(replies) + Len(q)
      /\ \A k \in 1..Len(replies) : UnderWay[k] = replies[k].request
      /\ \A k \in (Len(replies) + 1)..(Len(replies) + Len(q)) : UnderWay[k] = q[k - Len(replies)]
  BY <1>1, <1>2, JoinedAt
<1>5. /\ Len(UnderWay') = Len(replies) + (Len(q) - 1)
      /\ \A k \in 1..Len(replies) : UnderWay'[k] = replies[k].request
      /\ \A k \in (Len(replies) + 1)..(Len(replies) + (Len(q) - 1)) :
           UnderWay'[k] = Tail(q)[k - Len(replies)]
  BY <1>1, <1>2, <1>3, JoinedAt
<1>6. r \in 1..Len(UnderWay) /\ UnderWay[r] = q[1]
  <2>1. r \in (Len(replies) + 1)..(Len(replies) + Len(q)) /\ r - Len(replies) = 1
    BY <1>3
  <2> QED BY <1>3, <1>4, <2>1
<1>7. \A k \in 1..Len(UnderWay') : UnderWay'[k] = IF k < r THEN UnderWay[k] ELSE UnderWay[k + 1]
  <2> SUFFICES ASSUME NEW k \in 1..Len(UnderWay')
               PROVE  UnderWay'[k] = IF k < r THEN UnderWay[k] ELSE UnderWay[k + 1]
    OBVIOUS
  <2>1. CASE k < r
    <3>1. k \in 1..Len(replies)
      BY <1>3, <1>5, <2>1
    <3>2. UnderWay'[k] = UnderWay[k]
      BY <1>4, <1>5, <3>1
    <3> QED BY <2>1, <3>2
  <2>2. CASE ~(k < r)
    <3>1. /\ k \in (Len(replies) + 1)..(Len(replies) + (Len(q) - 1))
          /\ k + 1 \in (Len(replies) + 1)..(Len(replies) + Len(q))
          /\ k - Len(replies) \in 1..Len(Tail(q)) /\ (k - Len(replies)) + 1 = (k + 1) - Len(replies)
      BY <1>3, <1>5, <2>2
    <3>2. UnderWay'[k] = q[(k + 1) - Len(replies)]
      BY <1>3, <1>5, <3>1
    <3> QED BY <1>4, <2>2, <3>1, <3>2
  <2> QED BY <2>1, <2>2
<1> QED
  BY <1>3, <1>4, <1>5, <1>6, <1>7 DEF q

(* The server says that it has revoked the token. *)
LEMMA UnderWayRevoked ==
  ASSUME Typed, links # <<>>, Len(links') = Len(links),
         links'[Len(links)].requests = links[Len(links)].requests,
         replies' = Append(replies, Revoked)
  PROVE  LET r == Len(replies) + 1 IN
         /\ Len(UnderWay) \in Nat /\ r \in 1..(Len(UnderWay) + 1)
         /\ Len(UnderWay') = Len(UnderWay) + 1
         /\ UnderWay'[r] = Unauth
         /\ \A k \in 1..Len(UnderWay) : UnderWay'[IF k < r THEN k ELSE k + 1] = UnderWay[k]
<1> DEFINE q == links[Len(links)].requests
           r == Len(replies) + 1
<1>1. q \in Seq(GoodRequests) /\ replies \in Seq(GoodReplies)
  BY LastLink
<1>2. UnderWay = Joined(replies, q) /\ UnderWay' = Joined(Append(replies, Revoked), q)
  BY UnderWayIs
<1>3. Revoked \in GoodReplies /\ Revoked.request = Unauth
  BY RequestTypes DEF Revoked, Reply, GoodReplies
<1> HIDE DEF q
<1>4. /\ Append(replies, Revoked) \in Seq(GoodReplies) /\ Len(replies) \in Nat
      /\ Len(Append(replies, Revoked)) = Len(replies) + 1
      /\ \A k \in 1..Len(replies) : Append(replies, Revoked)[k] = replies[k]
      /\ Append(replies, Revoked)[Len(replies) + 1] = Revoked
  BY <1>1, <1>3, Appended
<1>5. /\ Len(UnderWay) = Len(replies) + Len(q) /\ Len(q) \in Nat
      /\ \A k \in 1..Len(replies) : UnderWay[k] = replies[k].request
      /\ \A k \in (Len(replies) + 1)..(Len(replies) + Len(q)) : UnderWay[k] = q[k - Len(replies)]
  BY <1>1, <1>2, JoinedAt
<1>6. /\ Len(UnderWay') = (Len(replies) + 1) + Len(q)
      /\ \A k \in 1..(Len(replies) + 1) : UnderWay'[k] = Append(replies, Revoked)[k].request
      /\ \A k \in ((Len(replies) + 1) + 1)..((Len(replies) + 1) + Len(q)) :
           UnderWay'[k] = q[k - (Len(replies) + 1)]
  <2>1. LET h == Append(replies, Revoked)
            q2 == q IN
        /\ UnderWay' \in Seq(GoodRequests) /\ Len(UnderWay') = Len(h) + Len(q2)
        /\ \A k \in 1..Len(h) : UnderWay'[k] = h[k].request
        /\ \A k \in (Len(h) + 1)..(Len(h) + Len(q2)) : UnderWay'[k] = q2[k - Len(h)]
    BY <1>1, <1>2, <1>4, JoinedAt
  <2> QED BY <1>4, <2>1
<1>7. UnderWay'[r] = Unauth
  BY <1>3, <1>4, <1>6
<1>8. \A k \in 1..Len(UnderWay) : UnderWay'[IF k < r THEN k ELSE k + 1] = UnderWay[k]
  <2> SUFFICES ASSUME NEW k \in 1..Len(UnderWay)
               PROVE  UnderWay'[IF k < r THEN k ELSE k + 1] = UnderWay[k]
    OBVIOUS
  <2>1. CASE k < r
    <3>1. k \in 1..Len(replies) /\ k \in 1..(Len(replies) + 1)
      BY <1>4, <1>5, <2>1
    <3>2. UnderWay'[k] = UnderWay[k]
      BY <1>4, <1>5, <1>6, <3>1
    <3> QED BY <2>1, <3>2
  <2>2. CASE ~(k < r)
    <3>1. /\ k \in (Len(replies) + 1)..(Len(replies) + Len(q))
          /\ k + 1 \in ((Len(replies) + 1) + 1)..((Len(replies) + 1) + Len(q))
          /\ (k + 1) - (Len(replies) + 1) = k - Len(replies)
      BY <1>4, <1>5, <2>2
    <3>2. UnderWay'[k + 1] = UnderWay[k]
      BY <1>5, <1>6, <3>1
    <3> QED BY <2>2, <3>2
  <2> QED BY <2>1, <2>2
<1> QED
  BY <1>4, <1>5, <1>6, <1>7, <1>8

(* Nothing is under way at first. *)
LEMMA OrderedInit == Init => Ordered
BY DEF Init, Ordered, Handshake, canSendWrites

(* Steps that leave the connection and its puts alone *)
LEMMA OrderedFrame ==
  Ordered /\ UNCHANGED <<conn, links, replies, outstanding>> => Ordered'
<1> SUFFICES ASSUME Ordered, UNCHANGED <<conn, links, replies, outstanding>> PROVE Ordered'
  OBVIOUS
<1>1. UnderWay' = UnderWay /\ Current' = Current
  BY DEF UnderWay, Current
<1> QED
  BY <1>1 DEF Ordered, Handshake, canSendWrites

(* Every step preserves it. *)
LEMMA OrderedStep == Typed /\ OneAttempt /\ HeldOnce /\ Ordered /\ [Next]_vars => Ordered'
<1> SUFFICES ASSUME Typed, OneAttempt, HeldOnce, Ordered, [Next]_vars PROVE Ordered'
  OBVIOUS
<1> USE DEF session, client, network, history, bounds
<1> DEFINE u == UnderWay
           v == UnderWay'
<1>0. /\ outstanding \in Seq(Clients) /\ Len(outstanding) \in Nat
      /\ \A i \in 1..Len(outstanding) : outstanding[i] \in Clients
      /\ \A i, j \in 1..Len(outstanding) : outstanding[i] = outstanding[j] => i = j
  BY LenProperties, ElementOfSeq DEF Typed, HeldOnce
<1>1. CASE UNCHANGED <<conn, links, replies, outstanding>>
  BY <1>1, OrderedFrame
<1>2. CASE conn' \in {"Disconnected", "GettingToken"}
  BY <1>2 DEF Ordered, Handshake, canSendWrites
<1>3. CASE putInternal
  <2> DEFINE c == Head(sharedQueue).client
  <2>1. /\ UNCHANGED <<conn, replies>> /\ outstanding' = Append(outstanding, c)
        /\ IF canSendWrites THEN Send(<<PutRequest(c)>>) ELSE UNCHANGED links
        /\ sharedQueue # <<>> /\ Head(sharedQueue).op = "put"
    BY <1>3 DEF putInternal, Runs
  <2>2. c \in Clients /\ OnQueue(c)
    <3>1. Head(sharedQueue) = sharedQueue[1] /\ Len(sharedQueue) \in Nat \ {0}
          /\ Head(sharedQueue) \in GoodBlocks
      BY <2>1, Dropped DEF Typed
    <3> QED BY <2>1, <3>1, ClientAssumption DEF OnQueue, QueuedPuts, GoodBlocks, Blocks
  <2>3. CASE canSendWrites
    <3>1. links # <<>> /\ conn = "Connected" /\ conn' = "Connected"
      BY <2>1, <2>3 DEF canSendWrites, Typed, Live
    <3>3. /\ Len(u) \in Nat /\ Len(v) = Len(u) + 1 /\ \A k \in 1..Len(u) : v[k] = u[k]
          /\ v[Len(u) + 1] = PutRequest(c)
      BY <2>1, <2>2, <2>3, <3>1, RequestTypes, UnderWaySentOne
    <3>4. /\ Len(outstanding') = Len(outstanding) + 1
          /\ \A i \in 1..Len(outstanding) : outstanding'[i] = outstanding[i]
          /\ outstanding'[Len(outstanding) + 1] = c
      BY <1>0, <2>1, <2>2, Appended
    <3>5. \A i \in 1..Len(outstanding) : outstanding[i] # c
      BY <2>2 DEF HeldOnce, OnConnection
    <3>6. PutRequest(c).op = "put" /\ PutRequest(c).client = c /\ ~PutRequest(c).restore
      BY DEF PutRequest
    <3>7. InOrder(u, outstanding) /\ \A k \in 1..Len(u) : ~u[k].restore
      BY <2>3, <3>1 DEF Ordered, Handshake
    <3> HIDE DEF u, v
    <3>8. InOrder(v, outstanding')
      BY <1>0, <3>3, <3>4, <3>5, <3>6, <3>7, SendPut
    <3>9. \A k \in 1..Len(v) : ~v[k].restore
      BY <3>3, <3>6, <3>7
    <3> QED BY <3>1, <3>8, <3>9 DEF Ordered, Handshake, v
  <2>4. CASE ~canSendWrites
    <3>1. UNCHANGED <<conn, links, replies>> /\ conn # "Connected"
      BY <2>1, <2>4 DEF canSendWrites
    <3>2. UnderWay' = UnderWay /\ Current' = Current
      BY <3>1 DEF UnderWay, Current
    <3> QED BY <3>1, <3>2 DEF Ordered, Handshake, canSendWrites
  <2> QED BY <2>3, <2>4
<1>4. ASSUME NEW msg \in GoodRequests, msg.op # "put", ~msg.restore, Send(<<msg>>), connected,
             UNCHANGED <<conn, replies, outstanding>>
      PROVE  Ordered'
  <2>1. links # <<>> /\ conn \in {"Authenticating", "Connected"}
    BY <1>4 DEF connected, Typed, Live
  <2>3. /\ Len(u) \in Nat /\ Len(v) = Len(u) + 1 /\ \A k \in 1..Len(u) : v[k] = u[k]
        /\ v[Len(u) + 1] = msg
    BY <1>4, <2>1, UnderWaySentOne
  <2> HIDE DEF u, v
  <2>4. CASE conn = "Authenticating"
    <3>1. /\ Len(u) > 0 /\ u[1].restore
          /\ \A k \in 1..Len(u) : u[k].op # "put" /\ (k > 1 => ~u[k].restore)
      BY <2>4 DEF Ordered, Handshake, u
    <3>2. /\ Len(v) > 0 /\ v[1].restore
          /\ \A k \in 1..Len(v) : v[k].op # "put" /\ (k > 1 => ~v[k].restore)
      BY <1>4, <2>3, <3>1
    <3> QED BY <1>4, <2>4, <3>2 DEF Ordered, Handshake, canSendWrites, v
  <2>5. CASE conn = "Connected"
    <3>1. InOrder(u, outstanding) /\ \A k \in 1..Len(u) : ~u[k].restore
      BY <2>5 DEF Ordered, Handshake, canSendWrites, u
    <3>2. InOrder(v, outstanding)
      BY <1>4, <2>3, <3>1, SendNoPut
    <3>3. \A k \in 1..Len(v) : ~v[k].restore
      BY <1>4, <2>3, <3>1
    <3> QED BY <1>4, <2>5, <3>2, <3>3 DEF Ordered, Handshake, v
  <2> QED BY <2>1, <2>4, <2>5
<1>5. CASE refreshAuthToken
  <2> DEFINE who == Head(sharedQueue).who
             msg == IF who # NoUser THEN Auth(who, FALSE) ELSE Unauth
  <2>1. who \in AnyUser
    BY <1>5, Dropped DEF refreshAuthToken, Runs, Typed, GoodBlocks, Blocks
  <2>2. msg \in GoodRequests /\ msg.op # "put" /\ ~msg.restore
    BY <2>1, RequestTypes DEF Auth, Unauth
  <2>3. UNCHANGED <<conn, replies, outstanding>> /\ IF connected THEN Send(<<msg>>) ELSE UNCHANGED links
    BY <1>5 DEF refreshAuthToken
  <2> HIDE DEF msg
  <2> QED BY <1>1, <1>4, <2>2, <2>3
<1>6. CASE openNetworkConnection
  <2>1. links' = Append(links, NewLink) /\ replies' = <<>> /\ conn' = "Connecting"
    BY <1>6 DEF openNetworkConnection
  <2>2. NewLink \in GoodLinks /\ NewLink.requests = <<>> /\ NewLink.cred = NoUser
    BY EmptySeq DEF NewLink, GoodLinks, AnyUser
  <2>3. links'[Len(links')] = NewLink
    BY <2>1, <2>2, Appended DEF Typed
  <2> QED BY <2>1, <2>2, <2>3 DEF Ordered, Handshake, canSendWrites, Current
<1>7. ASSUME NEW n \in Nat, NEW after, NEW puts,
             puts = [i \in 1..Len(outstanding) |-> PutRequest(outstanding[i])],
             \A k \in 1..n : after[k].op # "put" /\ ~after[k].restore,
             Len(after) = n + Len(puts),
             \A k \in 1..Len(puts) : after[n + k] = puts[k]
      PROVE  InOrder(after, outstanding) /\ \A k \in 1..Len(after) : ~after[k].restore
  <2>1. Len(puts) = Len(outstanding)
    BY <1>0, <1>7, Restored
  <2>2. \A i \in 1..Len(outstanding) :
          puts[i].op = "put" /\ puts[i].client = outstanding[i] /\ ~puts[i].restore
    BY <1>7 DEF PutRequest
  <2>3. \A i \in 1..Len(outstanding) :
          after[n + i].op = "put" /\ after[n + i].client = outstanding[i]
    BY <1>7, <2>1, <2>2
  <2>4. \A k \in 1..n : after[k].op # "put"
    BY <1>7
  <2>5. InOrder(after, outstanding)
    BY <1>0, <1>7, <2>1, <2>3, <2>4, RestoreInOrder
  <2>6. \A k \in 1..Len(after) : ~after[k].restore
    <3> SUFFICES ASSUME NEW k \in 1..Len(after) PROVE ~after[k].restore
      OBVIOUS
    <3>1. CASE k <= n
      BY <1>7, <3>1
    <3>2. CASE k > n
      <4>1. k - n \in 1..Len(puts) /\ n + (k - n) = k
        BY <1>0, <1>7, <2>1, <3>2
      <4>2. after[k] = puts[k - n]
        BY <1>7, <4>1
      <4> QED BY <2>1, <2>2, <4>1, <4>2
    <3> QED BY <1>0, <1>7, <2>1, <3>1, <3>2
  <2> QED BY <2>5, <2>6
<1>8. CASE onReady
  <2>1. /\ conn = "Connecting" /\ links # <<>> /\ UNCHANGED <<replies, outstanding>>
        /\ links[Len(links)].requests = <<>> /\ replies = <<>>
    BY <1>8 DEF onReady, Ordered, Handshake, Current, Typed, Live, OneAttempt, connected
  <2>2. Len(u) = 0
    <3>1. replies \in Seq(GoodReplies) /\ links[Len(links)].requests \in Seq(GoodRequests)
      BY <2>1, LastLink
    <3>2. Len(u) = Len(replies) + Len(links[Len(links)].requests)
      BY <3>1, JoinedAt, UnderWayIs
    <3> QED BY <2>1, <3>2
  <2>3. CASE authToken = NoUser
    <3>1. conn' = "Connected" /\ restoreState
      BY <1>8, <2>3 DEF onReady
    <3>2. \A k \in 1..Len(u) : u[k].op # "put" /\ ~u[k].restore
      BY <2>2
    <3> DEFINE puts == [i \in 1..Len(outstanding) |-> PutRequest(outstanding[i])]
    <3>3. puts \in Seq(GoodRequests) /\ Send(puts)
      BY <1>0, <3>1, Restored DEF restoreState
    <3>4. puts = [i \in 1..Len(outstanding) |-> PutRequest(outstanding[i])]
      OBVIOUS
    <3> HIDE DEF puts, u, v
    <3>5. /\ Len(u) \in Nat /\ Len(v) = Len(u) + Len(puts)
          /\ \A k \in 1..Len(u) : v[k] = u[k]
          /\ \A k \in 1..Len(puts) : v[Len(u) + k] = puts[k]
      BY <2>1, <3>3, UnderWaySent DEF u, v
    <3>6. InOrder(v, outstanding) /\ \A k \in 1..Len(v) : ~v[k].restore
      <4>1. \A k \in 1..Len(u) : v[k].op # "put" /\ ~v[k].restore
        BY <3>2, <3>5
      <4> DEFINE n == Len(u)
      <4>2. /\ n \in Nat /\ Len(v) = n + Len(puts)
            /\ \A k \in 1..n : v[k].op # "put" /\ ~v[k].restore
            /\ \A k \in 1..Len(puts) : v[n + k] = puts[k]
        BY <3>5, <4>1
      <4> HIDE DEF n
      <4> QED BY <1>7, <3>4, <4>2
    <3> QED BY <2>1, <3>1, <3>6 DEF Ordered, Handshake, v
  <2>4. CASE authToken # NoUser
    <3> DEFINE msg == Auth(authToken, TRUE)
    <3>1. msg \in GoodRequests /\ msg.op = "auth" /\ msg.restore
      BY RequestTypes DEF Typed, Auth
    <3>2. Send(<<msg>>) /\ conn' = "Authenticating"
      BY <1>8, <2>4 DEF onReady
    <3> HIDE DEF msg
    <3>4. Len(v) = Len(u) + 1 /\ v[Len(u) + 1] = msg
      BY <2>1, <3>1, <3>2, UnderWaySentOne
    <3> QED BY <2>2, <3>1, <3>2, <3>4 DEF Ordered, Handshake, canSendWrites
  <2> QED BY <2>3, <2>4
<1>9. ASSUME replies # <<>>
      PROVE  conn \in {"Authenticating", "Connected"} /\ links # <<>>
  BY <1>9 DEF OneAttempt, connected, Typed
<1>10. CASE AuthAccepted
  <2>1. /\ replies # <<>> /\ Head(replies).request.op = "auth" /\ replies' = Tail(replies)
        /\ conn' = "Connected" /\ UNCHANGED outstanding
        /\ IF Head(replies).request.restore THEN restoreState ELSE UNCHANGED links
    BY <1>10 DEF AuthAccepted, Hears
  <2>2. conn \in {"Authenticating", "Connected"} /\ links # <<>>
    BY <1>9, <2>1
  <2>3. CASE Head(replies).request.restore
    <3> DEFINE puts == [i \in 1..Len(outstanding) |-> PutRequest(outstanding[i])]
    <3>1. puts \in Seq(GoodRequests) /\ Send(puts)
      BY <1>0, <2>1, <2>3, Restored DEF restoreState
    <3>2. puts = [i \in 1..Len(outstanding) |-> PutRequest(outstanding[i])]
      OBVIOUS
    <3> HIDE DEF puts, u, v
    <3>3. /\ Len(u) \in Nat \ {0} /\ u[1] = Head(replies).request
          /\ Len(v) = (Len(u) - 1) + Len(puts)
          /\ \A k \in 1..(Len(u) - 1) : v[k] = u[k + 1]
          /\ \A k \in 1..Len(puts) : v[(Len(u) - 1) + k] = puts[k]
      BY <2>1, <3>1, UnderWayHeardSent DEF u, v
    <3>4. conn = "Authenticating"
      BY <2>2, <2>3, <3>3 DEF Ordered, Handshake, u
    <3>5. \A k \in 1..Len(u) : u[k].op # "put" /\ (k > 1 => ~u[k].restore)
      BY <3>4 DEF Ordered, Handshake, u
    <3> DEFINE n == Len(u) - 1
    <3>6. \A k \in 1..n : v[k].op # "put" /\ ~v[k].restore
      BY <3>3, <3>5
    <3>7. /\ n \in Nat /\ Len(v) = n + Len(puts)
          /\ \A k \in 1..Len(puts) : v[n + k] = puts[k]
      BY <3>3
    <3> HIDE DEF n
    <3>8. InOrder(v, outstanding) /\ \A k \in 1..Len(v) : ~v[k].restore
      BY <1>7, <3>2, <3>6, <3>7
    <3> QED BY <2>1, <3>8 DEF Ordered, Handshake, v
  <2>4. CASE ~Head(replies).request.restore
    <3> HIDE DEF u, v
    <3>1. /\ Len(u) \in Nat \ {0} /\ Len(v) = Len(u) - 1 /\ u[1] = Head(replies).request
          /\ \A k \in 1..Len(v) : v[k] = u[k + 1]
      BY <2>1, <2>4, UnderWayHeard DEF u, v
    <3>2. conn = "Connected"
      BY <2>2, <2>4, <3>1 DEF Ordered, Handshake, u
    <3>3. InOrder(u, outstanding) /\ \A k \in 1..Len(u) : ~u[k].restore
      BY <3>2 DEF Ordered, Handshake, canSendWrites, u
    <3>4. InOrder(v, outstanding)
      <4>1. 1 \in 1..Len(u) /\ u[1].op # "put" /\ Len(u) \in Nat
            /\ \A k \in 1..Len(v) : v[k] = IF k < 1 THEN u[k] ELSE u[k + 1]
        BY <2>1, <3>1
      <4> QED BY <3>1, <3>3, <4>1, DropNoPut
    <3>5. \A k \in 1..Len(v) : ~v[k].restore
      BY <3>1, <3>3
    <3> QED BY <2>1, <3>4, <3>5 DEF Ordered, Handshake, v
  <2> QED BY <2>3, <2>4
<1>11. CASE PutAnswered
  <2> DEFINE c == Head(replies).request.client
  <2>1. /\ replies # <<>> /\ Head(replies).request.op = "put" /\ replies' = Tail(replies)
        /\ UNCHANGED <<conn, links>>
        /\ IF OnConnection(c) THEN outstanding' = Without(outstanding, c)
           ELSE UNCHANGED outstanding
    BY <1>11 DEF PutAnswered, Hears, OnConnection
  <2> HIDE DEF u, v
  <2>2. /\ Len(u) \in Nat \ {0} /\ Len(v) = Len(u) - 1 /\ u[1] = Head(replies).request
        /\ \A k \in 1..Len(v) : v[k] = u[k + 1]
    BY <2>1, UnderWayHeard DEF u, v
  <2>3. conn = "Connected"
    BY <1>9, <2>1, <2>2 DEF Ordered, Handshake, u
  <2>4. InOrder(u, outstanding) /\ \A k \in 1..Len(u) : ~u[k].restore
    BY <2>3 DEF Ordered, Handshake, canSendWrites, u
  <2>5. 1 \in 1..Len(outstanding) /\ c = outstanding[1]
    BY <1>0, <2>1, <2>2, <2>4, FirstPut
  <2>6. outstanding' = Without(outstanding, outstanding[1])
    BY <2>1, <2>5 DEF OnConnection
  <2>7. /\ Len(outstanding') = Len(outstanding) - 1
        /\ \A i \in 1..(Len(outstanding) - 1) :
             outstanding'[i] = IF i < 1 THEN outstanding[i] ELSE outstanding[i + 1]
    BY <1>0, <2>5, <2>6, WithoutAt
  <2>8. \A i \in 1..Len(outstanding') : outstanding'[i] = outstanding[i + 1]
    BY <1>0, <2>7
  <2>9. InOrder(v, outstanding')
    <3> DEFINE less == outstanding'
    <3>1. /\ Len(less) = Len(outstanding) - 1
          /\ \A i \in 1..Len(less) : less[i] = outstanding[i + 1]
      BY <2>7, <2>8
    <3>2. u[1].op = "put"
      BY <2>1, <2>2
    <3> HIDE DEF less, c
    <3>3. InOrder(v, less)
      BY <1>0, <2>2, <2>4, <3>1, <3>2, DropPut
    <3> QED BY <3>3 DEF less
  <2>10. \A k \in 1..Len(v) : ~v[k].restore
    BY <2>2, <2>4
  <2> QED BY <2>1, <2>3, <2>9, <2>10 DEF Ordered, Handshake, v
<1>12. ASSUME NEW n \in 1..Len(links), Serve(n) PROVE Ordered'
  <2>1. PICK cred \in AnyUser, ok \in BOOLEAN : Serving(n, cred, ok)
    BY <1>12, Served
  <2> DEFINE new == [requests |-> Tail(links[n].requests), cred |-> cred]
             q == links[n].requests
  <2>2. /\ links' = [links EXCEPT ![n] = new] /\ new \in GoodLinks /\ links \in Seq(GoodLinks)
        /\ q # <<>> /\ links # <<>> /\ Len(links) \in Nat \ {0} /\ Head(q) \in GoodRequests
    <3>1. links' = [links EXCEPT ![n] = new] /\ new \in GoodLinks
      BY <2>1 DEF Serving
    <3>2. q # <<>> /\ Head(q) \in GoodRequests
      BY <1>12, Served
    <3>3. links \in Seq(GoodLinks) /\ links # <<>> /\ Len(links) \in Nat \ {0}
      BY LenProperties, EmptySeq DEF Typed
    <3> QED BY <3>1, <3>2, <3>3
  <2>3. UNCHANGED <<conn, outstanding>>
    BY <1>12 DEF Serve
  <2>4. new.requests = Tail(q)
    OBVIOUS
  <2> HIDE DEF new
  <2>5. Len(links') = Len(links)
        /\ \A j \in 1..Len(links) : links'[j] = IF j = n THEN new ELSE links[j]
    BY <2>2, ExceptSeq
  <2>6. CASE n # Len(links)
    <3>1. links'[Len(links)] = links[Len(links)] /\ UNCHANGED replies
      <4>1. Len(links) \in 1..Len(links)
        BY <2>2
      <4>2. links'[Len(links)] = links[Len(links)]
        BY <2>5, <2>6, <4>1
      <4>3. UNCHANGED replies
        BY <2>1, <2>6 DEF Serving, Current
      <4> QED BY <4>2, <4>3
    <3>2. UnderWay' = UnderWay
      BY <2>5, <3>1 DEF UnderWay, Current
    <3> QED BY <2>3, <2>5, <3>1, <3>2 DEF Ordered, Handshake, canSendWrites, Current
  <2>7. CASE n = Len(links) /\ ~connected
    <3>1. conn # "Connecting"
      BY <2>2, <2>7 DEF Ordered, Handshake, Current
    <3> QED BY <1>2, <2>3, <2>7, <3>1 DEF connected, Typed, States
  <2>8. CASE n = Len(links) /\ connected /\ Head(q).op # "unauth"
    <3>1. replies' = Append(replies, Reply(Head(q), ok)) /\ links'[Len(links)].requests = Tail(q)
      BY <2>1, <2>2, <2>4, <2>5, <2>8 DEF Serving, Current
    <3>2. UnderWay' = UnderWay
      BY <2>2, <2>5, <2>8, <3>1, UnderWayAnswered
    <3> QED BY <2>3, <2>8, <3>2 DEF Ordered, Handshake, canSendWrites, connected
  <2>9. CASE n = Len(links) /\ connected /\ Head(q).op = "unauth"
    <3> DEFINE r == Len(replies) + 1
    <3>1. UNCHANGED replies /\ links'[Len(links)].requests = Tail(q)
      BY <2>1, <2>2, <2>4, <2>5, <2>9 DEF Serving, Current
    <3> HIDE DEF u, v
    <3>2. /\ Len(u) \in Nat /\ r \in 1..Len(u) /\ Len(v) = Len(u) - 1 /\ u[r] = Head(q)
          /\ \A k \in 1..Len(v) : v[k] = IF k < r THEN u[k] ELSE u[k + 1]
      BY <2>2, <2>5, <2>9, <3>1, UnderWayTaken DEF u, v
    <3>3. ~u[r].restore /\ u[r].op # "put"
      BY <2>2, <2>9, <3>2 DEF GoodRequests
    <3> HIDE DEF r
    <3>4. CASE conn = "Authenticating"
      <4>1. /\ Len(u) > 0 /\ u[1].restore
            /\ \A k \in 1..Len(u) : u[k].op # "put" /\ (k > 1 => ~u[k].restore)
        BY <3>4 DEF Ordered, Handshake, u
      <4>2. r > 1
        BY <3>2, <3>3, <4>1
      <4>3. Len(v) > 0 /\ v[1].restore
        <5>1. 1 \in 1..Len(v) /\ 1 < r /\ Len(v) > 0
          BY <3>2, <4>2
        <5>2. v[1] = u[1]
          BY <3>2, <5>1
        <5> QED BY <4>1, <5>1, <5>2
      <4>4. ASSUME NEW k \in 1..Len(v) PROVE v[k].op # "put" /\ (k > 1 => ~v[k].restore)
        <5>1. CASE k < r
          <6>1. k \in 1..Len(u) /\ v[k] = u[k]
            BY <3>2, <5>1
          <6> QED BY <4>1, <6>1
        <5>2. CASE ~(k < r)
          <6>1. k + 1 \in 1..Len(u) /\ v[k] = u[k + 1] /\ k + 1 > 1
            BY <3>2, <5>2
          <6> QED BY <4>1, <6>1
        <5> QED BY <5>1, <5>2
      <4> QED BY <2>3, <3>4, <4>3, <4>4 DEF Ordered, Handshake, canSendWrites, v
    <3>5. CASE conn = "Connected"
      <4>1. InOrder(u, outstanding) /\ \A k \in 1..Len(u) : ~u[k].restore
        BY <3>5 DEF Ordered, Handshake, canSendWrites, u
      <4>2. InOrder(v, outstanding)
        BY <3>2, <3>3, <4>1, DropNoPut
      <4>3. \A k \in 1..Len(v) : ~v[k].restore
        BY <3>2, <4>1
      <4> QED BY <2>3, <3>5, <4>2, <4>3 DEF Ordered, Handshake, v
    <3> QED BY <2>9, <3>4, <3>5 DEF connected
  <2> QED BY <2>6, <2>7, <2>8, <2>9
<1>13. CASE Revoke
  <2> DEFINE r == Len(replies) + 1
             new == [links[Len(links)] EXCEPT !.cred = NoUser]
  <2>1. /\ conn = "Connected" /\ links # <<>> /\ UNCHANGED <<conn, outstanding>>
        /\ links' = [links EXCEPT ![Len(links)] = new]
        /\ replies' = Append(replies, Revoked)
    BY <1>13 DEF Revoke, Current, Typed, Live
  <2>2. /\ Len(links) \in Nat \ {0} /\ links[Len(links)] \in GoodLinks /\ links \in Seq(GoodLinks)
    BY <2>1, LastLink DEF Typed
  <2>3. new \in GoodLinks /\ new.requests = links[Len(links)].requests
    BY <2>2 DEF GoodLinks, AnyUser
  <2> HIDE DEF new, u, v
  <2>4. Len(links') = Len(links) /\ links'[Len(links)].requests = links[Len(links)].requests
    BY <2>1, <2>2, <2>3, ExceptSeq
  <2>5. /\ Len(u) \in Nat /\ r \in 1..(Len(u) + 1) /\ Len(v) = Len(u) + 1 /\ v[r] = Unauth
        /\ \A k \in 1..Len(u) : v[IF k < r THEN k ELSE k + 1] = u[k]
    BY <2>1, <2>4, UnderWayRevoked DEF u, v
  <2>6. InOrder(u, outstanding) /\ \A k \in 1..Len(u) : ~u[k].restore
    BY <2>1 DEF Ordered, Handshake, canSendWrites, u
  <2> HIDE DEF r
  <2>7. v[r].op # "put" /\ ~v[r].restore
    BY <2>5 DEF Unauth
  <2>8. InOrder(v, outstanding)
    BY <2>5, <2>6, <2>7, InsertNoPut
  <2>9. \A k \in 1..Len(v) : ~v[k].restore
    <3> SUFFICES ASSUME NEW k \in 1..Len(v) PROVE ~v[k].restore
      OBVIOUS
    <3>1. CASE k < r
      <4>1. k \in 1..Len(u)
        BY <2>5, <3>1
      <4> QED BY <2>5, <2>6, <3>1, <4>1
    <3>2. CASE k > r
      <4>1. k - 1 \in 1..Len(u) /\ ~(k - 1 < r) /\ (k - 1) + 1 = k
        BY <2>5, <3>2
      <4>2. v[k] = u[k - 1]
        BY <2>5, <4>1
      <4> QED BY <2>6, <4>1, <4>2
    <3> QED BY <2>5, <2>7, <3>1, <3>2
  <2> QED BY <2>1, <2>8, <2>9 DEF Ordered, Handshake, v
<1>14. CASE \/ \E who \in Users : SignIn(who)
            \/ ShowMainScreen \/ SignOut \/ ForcedSignOut \/ RenewToken
            \/ (\E c \in Clients : saveClient(c)) \/ HandOn \/ TokenFetched
  BY <1>1, <1>14 DEF SignIn, ShowMainScreen, SignOut, ForcedSignOut, RenewToken, saveClient,
     HandOn, TokenFetched
<1>15. CASE FetchFailed \/ RunRetry \/ Lose \/ onKill \/ AuthLost \/ EndProcess
  BY <1>2, <1>15 DEF FetchFailed, RunRetry, Lose, onKill, AuthLost, EndProcess, onDisconnect
<1>16. CASE UNCHANGED vars
  BY <1>1, <1>16 DEF vars
<1> QED
  BY <1>3, <1>5, <1>6, <1>8, <1>10, <1>11, <1>12, <1>13, <1>14, <1>15, <1>16
     DEF Next, SharedQueue, Listen

(* The handshake and the order of the puts hold for ever. *)
LEMMA OrderedAlways == Spec => []Ordered
<1>1. Spec => []OneAttempt
  BY OneAttemptInit, OneAttemptStep, TypedAlways, PTL DEF Spec
<1> QED
  BY <1>1, OrderedInit, OrderedStep, TypedAlways, HeldOnceAlways, PTL DEF Spec

(* On a connection the puts are under way in the order they were handed    *)
(* over, each once, however often tokens change, are revoked or are        *)
(* refused in between: so they are answered in that order.                 *)
THEOREM PutsAnsweredInOrder == Spec => []AnswersInOrder
<1>1. Ordered => AnswersInOrder
  BY UnderWayIs DEF Ordered
<1> QED
  BY <1>1, OrderedAlways, PTL

-----------------------------------------------------------------------------
(* Credentials *)

(* More elements that say nothing *)
LEMMA WordExtended ==
  ASSUME NEW q, NEW r, NEW ops, NEW m \in Nat, NEW p \in Nat, m <= p,
         \A k \in 1..(m - 1) : r[k] = q[k],
         \A k \in m..(p - 1) : r[k].op \notin ops
  PROVE  /\ \A who : Word(r, ops, p, who) <=> Word(q, ops, m, who)
         /\ Silent(r, ops, p) <=> Silent(q, ops, m)
<1>1. ASSUME NEW who, Word(q, ops, m, who), NEW i \in 1..(p - 1), r[i].op \in ops,
             \A j \in (i + 1)..(p - 1) : r[j].op \notin ops
      PROVE  r[i].who = who
  <2>1. i \in 1..(m - 1) /\ r[i] = q[i]
    BY <1>1
  <2>2. \A j \in (i + 1)..(m - 1) : q[j].op \notin ops
    BY <1>1, <2>1
  <2> QED BY <1>1, <2>1, <2>2 DEF Word
<1>2. ASSUME NEW who, Word(r, ops, p, who), NEW i \in 1..(m - 1), q[i].op \in ops,
             \A j \in (i + 1)..(m - 1) : q[j].op \notin ops
      PROVE  q[i].who = who
  <2>1. i \in 1..(p - 1) /\ r[i] = q[i]
    BY <1>2
  <2>2. \A j \in (i + 1)..(p - 1) : r[j].op \notin ops
    <3> SUFFICES ASSUME NEW j \in (i + 1)..(p - 1) PROVE r[j].op \notin ops
      OBVIOUS
    <3>1. CASE j <= m - 1
      BY <1>2, <3>1
    <3>2. CASE j > m - 1
      BY <3>2
    <3> QED BY <3>1, <3>2
  <2> QED BY <1>2, <2>1, <2>2 DEF Word
<1>3. Silent(q, ops, m) => Silent(r, ops, p)
  <2> SUFFICES ASSUME Silent(q, ops, m), NEW j \in 1..(p - 1) PROVE r[j].op \notin ops
    BY DEF Silent
  <2>1. CASE j <= m - 1
    BY <2>1 DEF Silent
  <2>2. CASE j > m - 1
    BY <2>2
  <2> QED BY <2>1, <2>2
<1>4. Silent(r, ops, p) => Silent(q, ops, m)
  <2> SUFFICES ASSUME Silent(r, ops, p), NEW j \in 1..(m - 1) PROVE q[j].op \notin ops
    BY DEF Silent
  <2>1. j \in 1..(p - 1) /\ r[j] = q[j]
    OBVIOUS
  <2> QED BY <2>1 DEF Silent
<1>5. \A who : Word(r, ops, p, who) <=> Word(q, ops, m, who)
  BY <1>1, <1>2 DEF Word
<1> QED
  BY <1>3, <1>4, <1>5

(* The last element before p says something. *)
LEMMA WordSaid ==
  ASSUME NEW q, NEW ops, NEW m \in Nat \ {0}, q[m].op \in ops
  PROVE  /\ \A who : Word(q, ops, m + 1, who) <=> q[m].who = who
         /\ ~Silent(q, ops, m + 1)
<1>1. m \in 1..((m + 1) - 1) /\ \A j \in (m + 1)..((m + 1) - 1) : q[j].op \notin ops
  OBVIOUS
<1>2. \A i \in 1..((m + 1) - 1) :
        (\A j \in (i + 1)..((m + 1) - 1) : q[j].op \notin ops) => i = m
  OBVIOUS
<1>3. ~Silent(q, ops, m + 1)
  BY <1>1 DEF Silent
<1>4. \A who : Word(q, ops, m + 1, who) => q[m].who = who
  BY <1>1 DEF Word
<1>5. \A who : q[m].who = who => Word(q, ops, m + 1, who)
  BY <1>2 DEF Word
<1> QED BY <1>3, <1>4, <1>5

(* The first element goes. *)
LEMMA WordTail ==
  ASSUME NEW q, NEW r, NEW ops, NEW p \in Nat \ {0},
         \A k \in 1..(p - 1) : r[k] = q[k + 1]
  PROVE  /\ \A who : Word(q, ops, p + 1, who) => Word(r, ops, p, who)
         /\ Silent(r, ops, p) /\ q[1].op \notin ops => Silent(q, ops, p + 1)
         /\ \A who : Silent(r, ops, p) /\ q[1].op \in ops /\ Word(q, ops, p + 1, who)
                       => q[1].who = who
<1>1. \A j \in 1..p : j # 1 => j - 1 \in 1..(p - 1) /\ q[j] = r[j - 1]
  <2> SUFFICES ASSUME NEW j \in 1..p, j # 1 PROVE j - 1 \in 1..(p - 1) /\ q[j] = r[j - 1]
    OBVIOUS
  <2>1. j - 1 \in 1..(p - 1) /\ (j - 1) + 1 = j
    OBVIOUS
  <2> QED BY <2>1
<1>2. ASSUME NEW who, Word(q, ops, p + 1, who), NEW i \in 1..(p - 1), r[i].op \in ops,
             \A j \in (i + 1)..(p - 1) : r[j].op \notin ops
      PROVE  r[i].who = who
  <2>1. i + 1 \in 1..((p + 1) - 1) /\ r[i] = q[i + 1]
    BY <1>2
  <2>2. \A j \in ((i + 1) + 1)..((p + 1) - 1) : q[j].op \notin ops
    <3> SUFFICES ASSUME NEW j \in ((i + 1) + 1)..((p + 1) - 1) PROVE q[j].op \notin ops
      OBVIOUS
    <3>1. j \in 1..p /\ j # 1 /\ j - 1 \in (i + 1)..(p - 1)
      OBVIOUS
    <3> QED BY <1>1, <1>2, <3>1
  <2> DEFINE l == i + 1
  <2> HIDE DEF l
  <2>3. /\ l \in 1..((p + 1) - 1) /\ q[l].op \in ops /\ r[i] = q[l]
        /\ \A j \in (l + 1)..((p + 1) - 1) : q[j].op \notin ops
    BY <1>2, <2>1, <2>2 DEF l
  <2> QED BY <1>2, <2>3 DEF Word
<1>3. ASSUME Silent(r, ops, p)
      PROVE  \A j \in 2..((p + 1) - 1) : q[j].op \notin ops
  <2> SUFFICES ASSUME NEW j \in 2..((p + 1) - 1) PROVE q[j].op \notin ops
    OBVIOUS
  <2>1. j \in 1..p /\ j # 1
    OBVIOUS
  <2> QED BY <1>1, <1>3, <2>1 DEF Silent
<1>4. ASSUME Silent(r, ops, p), q[1].op \notin ops PROVE Silent(q, ops, p + 1)
  BY <1>3, <1>4 DEF Silent
<1>5. ASSUME NEW who, Silent(r, ops, p), q[1].op \in ops, Word(q, ops, p + 1, who)
      PROVE  q[1].who = who
  <2>1. 1 \in 1..((p + 1) - 1) /\ \A j \in (1 + 1)..((p + 1) - 1) : q[j].op \notin ops
    BY <1>3, <1>5
  <2> QED BY <1>5, <2>1 DEF Word
<1>6. \A who : Word(q, ops, p + 1, who) => Word(r, ops, p, who)
  BY <1>2 DEF Word
<1> QED
  BY <1>4, <1>5, <1>6

(* A refusal stays under way until it is heard. *)
LEMMA RefusalKept ==
  ASSUME Typed, replies # <<>>, replies' = Tail(replies),
         Head(replies).request.op = "put" \/ Head(replies).ok
  PROVE  RefusalUnderWay => RefusalUnderWay'
<1> SUFFICES ASSUME RefusalUnderWay PROVE RefusalUnderWay'
  OBVIOUS
<1>1. /\ Head(replies) = replies[1] /\ Len(replies') = Len(replies) - 1 /\ Len(replies) \in Nat \ {0}
      /\ \A k \in 1..Len(replies') : replies'[k] = replies[k + 1]
  BY Dropped DEF Typed
<1>2. PICK k \in 1..Len(replies) : Refusal(k)
  BY DEF RefusalUnderWay
<1>3. k # 1
  BY <1>1, <1>2 DEF Refusal
<1>4. k - 1 \in 1..Len(replies') /\ (k - 1) + 1 = k
  BY <1>1, <1>3
<1>5. replies'[k - 1] = replies[k]
  BY <1>1, <1>4
<1> QED
  BY <1>2, <1>4, <1>5 DEF RefusalUnderWay, Refusal

(* An answer leaves the refusals under way, and may be one. *)
LEMMA RefusalAdded ==
  ASSUME Typed, NEW answer \in GoodReplies, replies' = Append(replies, answer)
  PROVE  /\ RefusalUnderWay => RefusalUnderWay'
         /\ answer.request.op # "put" /\ ~answer.ok => RefusalUnderWay'
<1>1. /\ Len(replies') = Len(replies) + 1 /\ Len(replies) \in Nat
      /\ \A k \in 1..Len(replies) : replies'[k] = replies[k]
      /\ replies'[Len(replies) + 1] = answer
  BY Appended DEF Typed
<1>2. \A k \in 1..Len(replies) : k \in 1..Len(replies')
  BY <1>1
<1>3. RefusalUnderWay => RefusalUnderWay'
  BY <1>1, <1>2 DEF RefusalUnderWay, Refusal
<1>4. Len(replies) + 1 \in 1..Len(replies')
  BY <1>1
<1>5. answer.request.op # "put" /\ ~answer.ok => RefusalUnderWay'
  BY <1>1, <1>4 DEF RefusalUnderWay, Refusal
<1> QED BY <1>3, <1>5

(* What restoreState sends says nothing of credentials, and neither does a *)
(* put.                                                                    *)
LEMMA RestoredPuts ==
  ASSUME Typed, links # <<>>, restoreState
  PROVE  LET n == Len(links)
             q == links[n].requests
             r == links'[n].requests
         IN  /\ Len(links') = n /\ links'[n].cred = links[n].cred
             /\ Len(q) \in Nat /\ Len(r) \in Nat /\ Len(q) <= Len(r)
             /\ Len(r) = Len(q) + Len(outstanding)
             /\ \A k \in 1..Len(q) : r[k] = q[k]
             /\ \A i \in 1..Len(outstanding) : r[Len(q) + i] = PutRequest(outstanding[i])
             /\ \A k \in (Len(q) + 1)..Len(r) : r[k].op = "put"
<1> DEFINE n == Len(links)
           q == links[n].requests
           r == links'[n].requests
           puts == [i \in 1..Len(outstanding) |-> PutRequest(outstanding[i])]
<1>1. /\ puts \in Seq(GoodRequests) /\ Len(puts) = Len(outstanding) /\ Len(outstanding) \in Nat
      /\ \A i \in 1..Len(outstanding) : puts[i] = PutRequest(outstanding[i])
  BY Restored, LenProperties DEF Typed
<1>2. Send(puts)
  BY DEF restoreState
<1> HIDE DEF puts
<1>3. Len(links') = n /\ links'[n].cred = links[n].cred /\ r = q \o puts /\ q \in Seq(GoodRequests)
  BY <1>1, <1>2, Sent, LastLink DEF Typed
<1> HIDE DEF q, r
<1>4. /\ Len(q) \in Nat /\ Len(r) = Len(q) + Len(puts)
      /\ \A k \in 1..(Len(q) + Len(puts)) : r[k] = IF k <= Len(q) THEN q[k] ELSE puts[k - Len(q)]
  <2>1. /\ Len(q) \in Nat /\ Len(q \o puts) = Len(q) + Len(puts)
        /\ \A k \in 1..(Len(q) + Len(puts)) :
             (q \o puts)[k] = IF k <= Len(q) THEN q[k] ELSE puts[k - Len(q)]
    <3>1. q \in Seq(GoodRequests) /\ puts \in Seq(GoodRequests)
      BY <1>1, <1>3
    <3> QED BY <3>1, ConcatProperties, LenProperties
  <2> QED BY <1>3, <2>1
<1>5. \A k \in 1..Len(q) : r[k] = q[k]
  BY <1>1, <1>4
<1>6. \A i \in 1..Len(outstanding) : r[Len(q) + i] = PutRequest(outstanding[i])
  <2> SUFFICES ASSUME NEW i \in 1..Len(outstanding) PROVE r[Len(q) + i] = PutRequest(outstanding[i])
    OBVIOUS
  <2>1. Len(q) + i \in 1..(Len(q) + Len(puts)) /\ ~(Len(q) + i <= Len(q)) /\ (Len(q) + i) - Len(q) = i
    BY <1>1, <1>4
  <2> QED BY <1>1, <1>4, <2>1
<1>7. \A k \in (Len(q) + 1)..Len(r) : r[k].op = "put"
  <2> SUFFICES ASSUME NEW k \in (Len(q) + 1)..Len(r) PROVE r[k].op = "put"
    OBVIOUS
  <2>1. k - Len(q) \in 1..Len(outstanding) /\ Len(q) + (k - Len(q)) = k
    BY <1>1, <1>4
  <2>2. r[k] = PutRequest(outstanding[k - Len(q)])
    BY <1>6, <2>1
  <2> QED BY <2>2 DEF PutRequest
<1>8. Len(r) \in Nat /\ Len(q) <= Len(r) /\ Len(r) = Len(q) + Len(outstanding)
  BY <1>1, <1>4
<1> QED
  BY <1>3, <1>4, <1>5, <1>6, <1>7, <1>8 DEF q, r

(* One request is sent. *)
LEMMA SentOne ==
  ASSUME Typed, links # <<>>, NEW msg \in GoodRequests, Send(<<msg>>)
  PROVE  LET n == Len(links)
             q == links[n].requests
             r == links'[n].requests
         IN  /\ Len(links') = n /\ links'[n].cred = links[n].cred
             /\ Len(q) \in Nat /\ Len(r) = Len(q) + 1
             /\ \A k \in 1..Len(q) : r[k] = q[k]
             /\ r[Len(q) + 1] = msg
<1> DEFINE n == Len(links)
           q == links[n].requests
           r == links'[n].requests
           one == <<msg>>
<1>1. one \in Seq(GoodRequests) /\ Len(one) = 1 /\ one[1] = msg /\ Send(one)
  OBVIOUS
<1> HIDE DEF one
<1>3. Len(links') = n /\ links'[n].cred = links[n].cred /\ r = q \o one /\ q \in Seq(GoodRequests)
  BY <1>1, Sent, LastLink DEF Typed
<1> HIDE DEF q, r
<1>4. /\ Len(q) \in Nat /\ Len(r) = Len(q) + Len(one)
      /\ \A k \in 1..(Len(q) + Len(one)) : r[k] = IF k <= Len(q) THEN q[k] ELSE one[k - Len(q)]
  <2>1. /\ Len(q) \in Nat /\ Len(q \o one) = Len(q) + Len(one)
        /\ \A k \in 1..(Len(q) + Len(one)) :
             (q \o one)[k] = IF k <= Len(q) THEN q[k] ELSE one[k - Len(q)]
    BY <1>1, <1>3, ConcatProperties, LenProperties
  <2> QED BY <1>3, <2>1
<1>5. \A k \in 1..Len(q) : r[k] = q[k]
  BY <1>1, <1>4
<1>6. r[Len(q) + 1] = msg
  <2>1. Len(q) + 1 \in 1..(Len(q) + Len(one)) /\ ~(Len(q) + 1 <= Len(q)) /\ (Len(q) + 1) - Len(q) = 1
    BY <1>1, <1>4
  <2> QED BY <1>1, <1>4, <2>1
<1> QED
  BY <1>1, <1>3, <1>4, <1>5, <1>6 DEF q, r

(* The server takes the next request of the last connection. *)
LEMMA TakenFromLast ==
  ASSUME Typed, links # <<>>, NEW cred, NEW ok \in BOOLEAN, Serving(Len(links), cred, ok),
         links[Len(links)].requests # <<>>
  PROVE  LET n == Len(links)
             q == links[n].requests
             r == links'[n].requests
         IN  /\ Len(links') = n /\ links'[n].cred = cred
             /\ Len(q) \in Nat \ {0} /\ Len(r) = Len(q) - 1
             /\ \A k \in 1..Len(r) : r[k] = q[k + 1]
             /\ Head(q) = q[1] /\ Head(q) \in GoodRequests
             /\ Reply(Head(q), ok) \in GoodReplies
<1> DEFINE n == Len(links)
           q == links[n].requests
           new == [requests |-> Tail(q), cred |-> cred]
<1>1. n \in 1..Len(links) /\ q \in Seq(GoodRequests) /\ links \in Seq(GoodLinks)
  BY LastLink DEF Typed
<1>2. links' = [links EXCEPT ![n] = new] /\ new \in GoodLinks
  BY DEF Serving
<1>3. new.requests = Tail(q) /\ new.cred = cred
  OBVIOUS
<1> HIDE DEF new
<1>4. Len(links') = n /\ links'[n] = new
  BY <1>1, <1>2, ExceptSeq
<1>5. /\ Len(q) \in Nat \ {0} /\ Len(Tail(q)) = Len(q) - 1
      /\ \A k \in 1..Len(Tail(q)) : Tail(q)[k] = q[k + 1]
      /\ Head(q) = q[1] /\ Head(q) \in GoodRequests
  BY <1>1, Dropped
<1>6. Reply(Head(q), ok) \in GoodReplies
  BY <1>5 DEF Reply, GoodReplies
<1> QED
  BY <1>3, <1>4, <1>5, <1>6

(* The server takes a request of another connection. *)
LEMMA TakenFromOther ==
  ASSUME Typed, links # <<>>, NEW n \in 1..Len(links), n # Len(links),
         NEW cred, NEW ok, Serving(n, cred, ok)
  PROVE  /\ Len(links') = Len(links) /\ links'[Len(links)] = links[Len(links)]
         /\ replies' = replies
<1> DEFINE new == [requests |-> Tail(links[n].requests), cred |-> cred]
<1>1. Len(links) \in 1..Len(links) /\ links \in Seq(GoodLinks)
  BY LastLink DEF Typed
<1>2. links' = [links EXCEPT ![n] = new] /\ new \in GoodLinks
  BY DEF Serving
<1> HIDE DEF new
<1>3. Len(links') = Len(links) /\ \A j \in 1..Len(links) : links'[j] = IF j = n THEN new ELSE links[j]
  BY <1>1, <1>2, ExceptSeq
<1>4. links'[Len(links)] = links[Len(links)]
  BY <1>1, <1>3
<1>5. replies' = replies
  BY DEF Serving, Current
<1> QED BY <1>3, <1>4, <1>5

(* The credentials are revoked. *)
LEMMA RevokedLink ==
  ASSUME Typed, Revoke
  PROVE  /\ links # <<>> /\ Len(links') = Len(links)
         /\ links'[Len(links)].requests = links[Len(links)].requests
         /\ links'[Len(links)].cred = NoUser
         /\ Revoked \in GoodReplies /\ Revoked.request.op # "put" /\ ~Revoked.ok
         /\ replies' = Append(replies, Revoked)
<1> DEFINE new == [links[Len(links)] EXCEPT !.cred = NoUser]
<1>1. /\ conn = "Connected" /\ links # <<>>
      /\ links' = [links EXCEPT ![Len(links)] = new]
      /\ replies' = Append(replies, Revoked)
  BY DEF Revoke, Current, Typed, Live
<1>2. /\ Len(links) \in Nat \ {0} /\ links[Len(links)] \in GoodLinks /\ links \in Seq(GoodLinks)
  BY <1>1, LastLink DEF Typed
<1>3. new \in GoodLinks /\ new.requests = links[Len(links)].requests /\ new.cred = NoUser
  BY <1>2 DEF GoodLinks, AnyUser
<1> HIDE DEF new
<1>4. Len(links') = Len(links) /\ links'[Len(links)] = new
  BY <1>1, <1>2, <1>3, ExceptSeq
<1>5. Revoked \in GoodReplies /\ Revoked.request.op # "put" /\ ~Revoked.ok
  BY RequestTypes DEF Revoked, Reply, GoodReplies, Unauth
<1> QED BY <1>1, <1>3, <1>4, <1>5

(* The last word of the process about its token is never lost. *)
LEMMA LastWordStep == Typed /\ OneAttempt /\ Ordered /\ LastWord /\ [Next]_vars => LastWord'
<1> SUFFICES ASSUME Typed, OneAttempt, Ordered, LastWord, [Next]_vars PROVE LastWord'
  OBVIOUS
<1> USE DEF session, client, network, history, bounds
<1> DEFINE n == Len(links)
           q == links[n].requests
           r == links'[n].requests
<1>1. ASSUME UNCHANGED <<conn, authToken, replies>>, Len(links') = n, links'[n] = links[n]
      PROVE  LastWord'
  BY <1>1 DEF LastWord, connected, Current, RefusalUnderWay, Refusal
<1>2. CASE conn' \notin {"Authenticating", "Connected"}
  BY <1>2 DEF LastWord, connected
<1>3. ASSUME connected
      PROVE  /\ links # <<>> /\ Word(q, Speaks, Len(q) + 1, authToken)
             /\ Silent(q, Speaks, Len(q) + 1) => links[n].cred = authToken \/ RefusalUnderWay
             /\ q \in Seq(GoodRequests) /\ n \in Nat \ {0} /\ Len(q) \in Nat
  <2>1. links # <<>>
    BY <1>3 DEF connected, Typed, Live
  <2>2. q \in Seq(GoodRequests) /\ n \in Nat \ {0}
    BY <2>1, LastLink
  <2> QED BY <1>3, <2>1, <2>2, LenProperties DEF LastWord, Current
<1>4. ASSUME Len(links') = n, links'[n].cred = links[n].cred, authToken' = authToken,
             Word(q, Speaks, Len(q) + 1, authToken),
             Silent(q, Speaks, Len(q) + 1) => links[n].cred = authToken \/ RefusalUnderWay,
             Len(q) \in Nat, Len(r) \in Nat, Len(q) <= Len(r),
             \A k \in 1..Len(q) : r[k] = q[k],
             \A k \in (Len(q) + 1)..Len(r) : r[k].op = "put",
             RefusalUnderWay => RefusalUnderWay'
      PROVE  LastWord'
  <2> DEFINE m == Len(q) + 1
             p == Len(r) + 1
  <2>1. /\ m \in Nat /\ p \in Nat /\ m <= p
        /\ \A k \in 1..(m - 1) : r[k] = q[k]
        /\ \A k \in m..(p - 1) : r[k].op \notin Speaks
    BY <1>4 DEF Speaks
  <2> HIDE DEF m, p, q, r
  <2>2. /\ \A who : Word(r, Speaks, p, who) <=> Word(q, Speaks, m, who)
        /\ Silent(r, Speaks, p) <=> Silent(q, Speaks, m)
    BY <2>1, WordExtended
  <2>3. /\ Word(r, Speaks, Len(r) + 1, authToken)
        /\ Silent(r, Speaks, Len(r) + 1) => links'[n].cred = authToken \/ RefusalUnderWay'
    BY <1>4, <2>2 DEF m, p
  <2> QED BY <1>4, <2>3 DEF LastWord, Current, r
<1>5. ASSUME NEW msg \in GoodRequests, Send(<<msg>>), msg.op \in Speaks, links # <<>>,
             authToken' = msg.who
      PROVE  LastWord'
  <2>1. Len(links') = n /\ Len(q) \in Nat /\ Len(r) = Len(q) + 1 /\ r[Len(q) + 1] = msg
    BY <1>5, SentOne
  <2> DEFINE m == Len(r)
  <2>2. m \in Nat \ {0} /\ r[m] = msg
    BY <2>1
  <2> HIDE DEF q, r, m
  <2>3. Word(r, Speaks, m + 1, authToken') /\ ~Silent(r, Speaks, m + 1)
    BY <1>5, <2>2, WordSaid
  <2> QED BY <2>1, <2>3 DEF LastWord, Current, r, m
<1>6. CASE putInternal
  <2> DEFINE c == Head(sharedQueue).client
  <2>1. /\ UNCHANGED <<conn, authToken, replies>>
        /\ IF canSendWrites THEN Send(<<PutRequest(c)>>) ELSE UNCHANGED links
        /\ sharedQueue # <<>> /\ Head(sharedQueue).op = "put"
    BY <1>6 DEF putInternal, Runs
  <2>2. PutRequest(c) \in GoodRequests
    BY <2>1, Dropped, RequestTypes, ClientAssumption DEF Typed, GoodBlocks, Blocks
  <2>3. CASE canSendWrites
    <3> DEFINE msg == PutRequest(c)
    <3>1. msg \in GoodRequests /\ Send(<<msg>>) /\ msg.op = "put" /\ connected
      BY <2>1, <2>2, <2>3 DEF PutRequest, canSendWrites, connected
    <3> HIDE DEF msg
    <3>2. /\ Len(links') = n /\ links'[n].cred = links[n].cred
          /\ Len(q) \in Nat /\ Len(r) = Len(q) + 1
          /\ \A k \in 1..Len(q) : r[k] = q[k]
          /\ r[Len(q) + 1] = msg
      BY <1>3, <3>1, SentOne
    <3> HIDE DEF q, r, n
    <3>3. /\ Len(r) \in Nat /\ Len(q) <= Len(r)
          /\ \A k \in (Len(q) + 1)..Len(r) : r[k].op = "put"
      BY <3>1, <3>2
    <3>4. RefusalUnderWay => RefusalUnderWay'
      BY <2>1 DEF RefusalUnderWay, Refusal
    <3> QED BY <1>3, <1>4, <2>1, <3>1, <3>2, <3>3, <3>4
  <2>4. CASE ~canSendWrites
    BY <1>1, <2>1, <2>4
  <2> QED BY <2>3, <2>4
<1>7. CASE refreshAuthToken
  <2> DEFINE who == Head(sharedQueue).who
             msg == IF who # NoUser THEN Auth(who, FALSE) ELSE Unauth
  <2>1. who \in AnyUser
    BY <1>7, Dropped DEF refreshAuthToken, Runs, Typed, GoodBlocks, Blocks
  <2>2. msg \in GoodRequests /\ msg.op \in Speaks /\ msg.who = who
    BY <2>1, RequestTypes DEF Auth, Unauth, Speaks
  <2>3. /\ authToken' = who /\ conn' = conn
        /\ connected => Send(<<msg>>)
    BY <1>7 DEF refreshAuthToken
  <2> HIDE DEF msg
  <2>4. CASE connected
    BY <1>3, <1>5, <2>2, <2>3, <2>4
  <2>5. CASE ~connected
    BY <1>2, <2>3, <2>5 DEF connected
  <2> QED BY <2>4, <2>5
<1>8. CASE onReady
  <2>1. /\ conn = "Connecting" /\ links # <<>> /\ UNCHANGED <<authToken, replies>>
        /\ q = <<>> /\ links[n].cred = NoUser
    BY <1>8 DEF onReady, Ordered, Handshake, Current, Typed, Live
  <2>2. CASE authToken = NoUser
    <3>1. restoreState
      BY <1>8, <2>2 DEF onReady
    <3>2. /\ Len(links') = n /\ links'[n].cred = links[n].cred
          /\ Len(q) \in Nat /\ Len(r) \in Nat /\ Len(q) <= Len(r)
          /\ \A k \in 1..Len(q) : r[k] = q[k]
          /\ \A k \in (Len(q) + 1)..Len(r) : r[k].op = "put"
      BY <2>1, <3>1, RestoredPuts
    <3>3. Len(q) = 0
      BY <2>1
    <3>4. Word(q, Speaks, Len(q) + 1, authToken)
      BY <3>3 DEF Word
    <3>5. RefusalUnderWay => RefusalUnderWay'
      BY <2>1 DEF RefusalUnderWay, Refusal
    <3> HIDE DEF q, r, n
    <3> QED BY <1>4, <2>1, <2>2, <3>2, <3>4, <3>5
  <2>3. CASE authToken # NoUser
    <3> DEFINE msg == Auth(authToken, TRUE)
    <3>1. msg \in GoodRequests /\ msg.op \in Speaks /\ msg.who = authToken
      BY RequestTypes DEF Typed, Auth, Speaks
    <3>2. Send(<<msg>>)
      BY <1>8, <2>3 DEF onReady
    <3> HIDE DEF msg
    <3> QED BY <1>5, <2>1, <3>1, <3>2
  <2> QED BY <2>2, <2>3
<1>9. CASE AuthAccepted \/ PutAnswered
  <2>1. /\ replies # <<>> /\ replies' = Tail(replies) /\ UNCHANGED authToken
        /\ Head(replies).request.op = "put" \/ Head(replies).ok
        /\ restoreState \/ UNCHANGED links
    BY <1>9 DEF AuthAccepted, PutAnswered, Hears
  <2>2. connected
    BY <2>1 DEF OneAttempt
  <2>3. RefusalUnderWay => RefusalUnderWay'
    BY <2>1, RefusalKept
  <2>4. CASE restoreState
    <3>2. /\ Len(links') = n /\ links'[n].cred = links[n].cred
          /\ Len(q) \in Nat /\ Len(r) \in Nat /\ Len(q) <= Len(r)
          /\ \A k \in 1..Len(q) : r[k] = q[k]
          /\ \A k \in (Len(q) + 1)..Len(r) : r[k].op = "put"
      BY <1>3, <2>2, <2>4, RestoredPuts
    <3> HIDE DEF q, r, n
    <3> QED BY <1>3, <1>4, <2>1, <2>2, <2>3, <3>2
  <2>5. CASE UNCHANGED links
    <3>1. Len(links') = n /\ links'[n].cred = links[n].cred /\ r = q
      BY <2>5
    <3> HIDE DEF q, r, n
    <3>2. /\ Len(q) \in Nat /\ Len(r) \in Nat /\ Len(q) <= Len(r)
          /\ \A k \in 1..Len(q) : r[k] = q[k]
          /\ \A k \in (Len(q) + 1)..Len(r) : r[k].op = "put"
      BY <1>3, <2>2, <3>1
    <3> QED BY <1>3, <1>4, <2>1, <2>2, <2>3, <3>1, <3>2
  <2> QED BY <2>1, <2>4, <2>5
<1>10. ASSUME NEW a \in 1..Len(links), Serve(a) PROVE LastWord'
  <2>1. PICK cred \in AnyUser, ok \in BOOLEAN : Serving(a, cred, ok)
    BY <1>10, Served
  <2>2. UNCHANGED <<conn, authToken>> /\ links[a].requests # <<>>
    BY <1>10 DEF Serve
  <2>3. CASE ~connected
    BY <1>2, <2>2, <2>3 DEF connected
  <2>4. CASE connected /\ a # n
    BY <1>1, <1>3, <2>1, <2>2, <2>4, TakenFromOther
  <2>5. CASE connected /\ a = n
    <3>1. /\ Len(links') = n /\ links'[n].cred = cred
          /\ Len(q) \in Nat \ {0} /\ Len(r) = Len(q) - 1
          /\ \A k \in 1..Len(r) : r[k] = q[k + 1]
          /\ Head(q) = q[1] /\ Head(q) \in GoodRequests
          /\ Reply(Head(q), ok) \in GoodReplies
      BY <1>3, <2>1, <2>2, <2>5, TakenFromLast
    <3>2. /\ Word(q, Speaks, Len(q) + 1, authToken)
          /\ Silent(q, Speaks, Len(q) + 1) => links[n].cred = authToken \/ RefusalUnderWay
      BY <1>3, <2>5
    <3>3. /\ replies' = IF Head(q).op # "unauth" THEN Append(replies, Reply(Head(q), ok)) ELSE replies
          /\ \/ Head(q).op = "auth" /\ ((ok /\ cred = Head(q).who) \/ ~ok)
             \/ Head(q).op = "unauth" /\ cred = NoUser
             \/ Head(q).op = "put" /\ cred = links[n].cred
      BY <2>1, <2>5 DEF Serving, Current
    <3> HIDE DEF q, r
    <3>4. RefusalUnderWay => RefusalUnderWay'
      <4>1. CASE Head(q).op # "unauth"
        BY <3>1, <3>3, <4>1, RefusalAdded
      <4>2. CASE Head(q).op = "unauth"
        BY <3>3, <4>2 DEF RefusalUnderWay, Refusal
      <4> QED BY <4>1, <4>2
    <3> DEFINE p == Len(q)
    <3>5. p \in Nat \ {0} /\ \A k \in 1..(p - 1) : r[k] = q[k + 1]
      BY <3>1
    <3>6. Word(q, Speaks, p + 1, authToken)
      BY <3>2
    <3> HIDE DEF p
    <3>7. /\ Word(r, Speaks, p, authToken)
          /\ Silent(r, Speaks, p) /\ q[1].op \notin Speaks => Silent(q, Speaks, p + 1)
          /\ Silent(r, Speaks, p) /\ q[1].op \in Speaks => q[1].who = authToken
      BY <3>5, <3>6, WordTail
    <3>8. Silent(r, Speaks, p) => cred = authToken \/ RefusalUnderWay'
      <4> SUFFICES ASSUME Silent(r, Speaks, p) PROVE cred = authToken \/ RefusalUnderWay'
        OBVIOUS
      <4>1. CASE Head(q).op = "auth" /\ ok /\ cred = Head(q).who
        BY <3>1, <3>7, <4>1 DEF Speaks
      <4>2. CASE Head(q).op = "auth" /\ ~ok
        <5>1. /\ Reply(Head(q), ok).request.op # "put" /\ ~Reply(Head(q), ok).ok
              /\ replies' = Append(replies, Reply(Head(q), ok))
          BY <3>3, <4>2 DEF Reply
        <5> QED BY <3>1, <5>1, RefusalAdded
      <4>3. CASE Head(q).op = "unauth" /\ cred = NoUser
        BY <3>1, <3>7, <4>3 DEF Speaks, GoodRequests
      <4>4. CASE Head(q).op = "put" /\ cred = links[n].cred
        <5>1. Silent(q, Speaks, Len(q) + 1)
          BY <3>1, <3>7, <4>4 DEF Speaks, p
        <5> QED BY <3>2, <3>4, <4>4, <5>1
      <4> QED BY <3>3, <4>1, <4>2, <4>3, <4>4
    <3>9. p = Len(r) + 1
      BY <3>1 DEF p
    <3> QED BY <2>2, <3>1, <3>7, <3>8, <3>9 DEF LastWord, Current, r
  <2> QED BY <2>3, <2>4, <2>5
<1>11. CASE Revoke
  <2>1. RefusalUnderWay'
    BY <1>11, RevokedLink, RefusalAdded
  <2>2. connected /\ authToken' = authToken
    BY <1>11 DEF Revoke, connected
  <2>3. Len(links') = n /\ r = q
    BY <1>11, RevokedLink
  <2>4. Word(r, Speaks, Len(r) + 1, authToken')
    BY <1>3, <2>2, <2>3
  <2> QED BY <2>1, <2>3, <2>4 DEF LastWord, Current
<1>12. CASE \/ \E who \in Users : SignIn(who)
            \/ ShowMainScreen \/ SignOut \/ ForcedSignOut \/ RenewToken
            \/ (\E c \in Clients : saveClient(c)) \/ HandOn \/ TokenFetched
            \/ UNCHANGED vars
  <2>1. UNCHANGED <<conn, authToken, replies, links>>
    BY <1>12 DEF SignIn, ShowMainScreen, SignOut, ForcedSignOut, RenewToken, saveClient,
       HandOn, TokenFetched, vars
  <2> QED BY <1>1, <2>1
<1>13. CASE openNetworkConnection \/ FetchFailed \/ RunRetry \/ Lose \/ onKill \/ AuthLost \/ EndProcess
  BY <1>2, <1>13 DEF openNetworkConnection, FetchFailed, RunRetry, Lose, onKill, AuthLost,
     EndProcess, onDisconnect
<1> QED
  BY <1>6, <1>7, <1>8, <1>9, <1>10, <1>11, <1>12, <1>13 DEF Next, SharedQueue, Listen

(* The last word of the process about its token is never lost: it is on    *)
(* the way, or the server works with it, or has told that it does not.     *)
LEMMA LastWordAlways == Spec => []LastWord
<1>1. Init => LastWord
  BY DEF Init, LastWord, connected
<1>2. Spec => []OneAttempt
  BY OneAttemptInit, OneAttemptStep, TypedAlways, PTL DEF Spec
<1> QED
  BY <1>1, <1>2, LastWordStep, TypedAlways, OrderedAlways, PTL DEF Spec

(* Once no token and no answer about one is under way, the connection      *)
(* works with the token of the process, whatever was refused, revoked or   *)
(* renewed before.                                                         *)
THEOREM CredentialsAlwaysAgree == Spec => []CredentialsAgree
<1>1. Typed /\ LastWord => CredentialsAgree
  <2> SUFFICES ASSUME Typed, LastWord, canSendWrites,
                      \A i \in 1..Len(UnderWay) : UnderWay[i].op = "put"
               PROVE  links[Current].cred = authToken
    BY DEF CredentialsAgree
  <2> DEFINE q == links[Len(links)].requests
  <2>1. links # <<>> /\ connected
    BY DEF canSendWrites, connected, Typed, Live
  <2>2. q \in Seq(GoodRequests) /\ replies \in Seq(GoodReplies)
    BY <2>1, LastLink
  <2>3. UnderWay = Joined(replies, q)
    BY UnderWayIs
  <2> HIDE DEF q
  <2>4. /\ Len(replies) \in Nat /\ Len(q) \in Nat
        /\ Len(Joined(replies, q)) = Len(replies) + Len(q)
        /\ \A k \in 1..Len(replies) : Joined(replies, q)[k] = replies[k].request
        /\ \A k \in 1..Len(q) : Joined(replies, q)[Len(replies) + k] = q[k]
    BY <2>2, JoinedAt
  <2>5. \A i \in 1..Len(Joined(replies, q)) : Joined(replies, q)[i].op = "put"
    BY <2>3
  <2>6. \A k \in 1..Len(replies) : replies[k].request.op = "put"
    BY <2>4, <2>5
  <2>7. \A k \in 1..Len(q) : q[k].op = "put"
    BY <2>4, <2>5
  <2>8. ~RefusalUnderWay
    BY <2>6 DEF RefusalUnderWay, Refusal
  <2>9. Silent(q, Speaks, Len(q) + 1)
    BY <2>4, <2>7 DEF Silent, Speaks
  <2> QED BY <2>1, <2>8, <2>9 DEF LastWord, Current, q
<1> QED
  BY <1>1, TypedAlways, LastWordAlways, PTL
-----------------------------------------------------------------------------
(* Refusals *)

(* A queue grows by one, or its head runs. *)
LEMMA AllAppended ==
  ASSUME NEW S, NEW q \in Seq(S), NEW e \in S, NEW from \in Nat \ {0}, NEW who,
         AllOf(q, from, who), e.op \in Tells => e.who = who
  PROVE  AllOf(Append(q, e), from, who)
<1>1. /\ Len(Append(q, e)) = Len(q) + 1 /\ Len(q) \in Nat
      /\ \A i \in 1..Len(Append(q, e)) : Append(q, e)[i] = IF i = Len(q) + 1 THEN e ELSE q[i]
      /\ \A i \in 1..Len(q) : Append(q, e)[i] = q[i]
      /\ Append(q, e)[Len(q) + 1] = e
  BY Appended, AppendedAt
<1> SUFFICES ASSUME NEW i \in from..(Len(q) + 1), Append(q, e)[i].op \in Tells
             PROVE  Append(q, e)[i].who = who
  BY <1>1 DEF AllOf
<1>2. CASE i = Len(q) + 1
  BY <1>1, <1>2
<1>3. CASE i # Len(q) + 1
  <2>1. i \in from..Len(q) /\ Append(q, e)[i] = q[i]
    BY <1>1, <1>3
  <2> QED BY <2>1 DEF AllOf
<1> QED BY <1>2, <1>3

(* The head of the queue runs. *)
LEMMA AllTail ==
  ASSUME NEW S, NEW q \in Seq(S), q # <<>>, NEW from \in Nat \ {0}, NEW who,
         AllOf(q, from + 1, who)
  PROVE  AllOf(Tail(q), from, who)
<1>1. /\ Len(Tail(q)) = Len(q) - 1 /\ Len(q) \in Nat \ {0}
      /\ \A i \in 1..Len(Tail(q)) : Tail(q)[i] = q[i + 1]
  BY Dropped
<1> SUFFICES ASSUME NEW i \in from..Len(Tail(q)), Tail(q)[i].op \in Tells
             PROVE  Tail(q)[i].who = who
  BY DEF AllOf
<1>2. i + 1 \in (from + 1)..Len(q) /\ i \in 1..Len(Tail(q))
  BY <1>1
<1> QED BY <1>1, <1>2 DEF AllOf

(* Fewer positions are asked about. *)
LEMMA AllLater ==
  ASSUME NEW q, NEW from \in Nat, NEW who, AllOf(q, from, who), Len(q) \in Nat
  PROVE  AllOf(q, from + 1, who)
<1>1. \A i \in (from + 1)..Len(q) : i \in from..Len(q)
  OBVIOUS
<1> QED BY <1>1 DEF AllOf

(* The last word of a queue that grows, and of one whose head runs *)
LEMMA WordAppended ==
  ASSUME NEW S, NEW q \in Seq(S), NEW e \in S, NEW ops, NEW who
  PROVE  LET s == Append(q, e) IN
         /\ Len(q) \in Nat /\ Len(s) = Len(q) + 1
         /\ \A p \in 1..(Len(q) + 1) :
              /\ Word(s, ops, p, who) <=> Word(q, ops, p, who)
              /\ Silent(s, ops, p) <=> Silent(q, ops, p)
         /\ e.op \notin ops =>
              /\ Word(s, ops, Len(s) + 1, who) <=> Word(q, ops, Len(q) + 1, who)
              /\ Silent(s, ops, Len(s) + 1) <=> Silent(q, ops, Len(q) + 1)
         /\ e.op \in ops =>
              /\ Word(s, ops, Len(s) + 1, who) <=> e.who = who
              /\ ~Silent(s, ops, Len(s) + 1)
<1> DEFINE s == Append(q, e)
           m == Len(q) + 1
<1>1. /\ Len(s) = m /\ Len(q) \in Nat
      /\ \A i \in 1..Len(q) : s[i] = q[i]
      /\ s[m] = e
  BY Appended
<1> HIDE DEF s
<1>2. ASSUME NEW p \in 1..(Len(q) + 1)
      PROVE  /\ Word(s, ops, p, who) <=> Word(q, ops, p, who)
             /\ Silent(s, ops, p) <=> Silent(q, ops, p)
  <2>1. /\ p \in Nat /\ p <= p /\ \A k \in 1..(p - 1) : s[k] = q[k]
        /\ \A k \in p..(p - 1) : s[k].op \notin ops
    BY <1>1
  <2> QED BY <2>1, WordExtended
<1>3. ASSUME e.op \notin ops
      PROVE  /\ Word(s, ops, m + 1, who) <=> Word(q, ops, m, who)
             /\ Silent(s, ops, m + 1) <=> Silent(q, ops, m)
  <2> DEFINE p == m + 1
  <2>1. /\ m \in Nat /\ p \in Nat /\ m <= p /\ \A k \in 1..(m - 1) : s[k] = q[k]
        /\ \A k \in m..(p - 1) : s[k].op \notin ops
    BY <1>1, <1>3
  <2> HIDE DEF m, p
  <2>2. /\ Word(s, ops, p, who) <=> Word(q, ops, m, who)
        /\ Silent(s, ops, p) <=> Silent(q, ops, m)
    BY <2>1, WordExtended
  <2> QED BY <2>2 DEF p
<1>4. ASSUME e.op \in ops
      PROVE  /\ Word(s, ops, m + 1, who) <=> e.who = who
             /\ ~Silent(s, ops, m + 1)
  <2>1. m \in Nat \ {0} /\ s[m] = e
    BY <1>1
  <2> HIDE DEF m
  <2> QED BY <1>4, <2>1, WordSaid
<1> HIDE DEF m
<1>5. Len(q) + 1 = m
  BY DEF m
<1> QED
  BY <1>1, <1>2, <1>3, <1>4, <1>5 DEF s

(* The head of the queue runs: the last word stays, or it was the head. *)
LEMMA WordDropped ==
  ASSUME NEW S, NEW q \in Seq(S), q # <<>>, NEW ops, NEW who
  PROVE  LET s == Tail(q) IN
         /\ Len(q) \in Nat \ {0} /\ Len(s) + 1 = Len(q)
         /\ \A p \in 1..Len(q) :
              /\ Word(q, ops, p + 1, who) => Word(s, ops, p, who)
              /\ Silent(s, ops, p) /\ Head(q).op \notin ops => Silent(q, ops, p + 1)
              /\ Silent(s, ops, p) /\ Head(q).op \in ops /\ Word(q, ops, p + 1, who)
                   => Head(q).who = who
<1> DEFINE s == Tail(q)
<1>1. /\ Len(s) = Len(q) - 1 /\ Len(q) \in Nat \ {0} /\ Head(q) = q[1]
      /\ \A i \in 1..Len(s) : s[i] = q[i + 1]
  BY Dropped
<1> HIDE DEF s
<1>2. ASSUME NEW p \in 1..Len(q)
      PROVE  /\ Word(q, ops, p + 1, who) => Word(s, ops, p, who)
             /\ Silent(s, ops, p) /\ q[1].op \notin ops => Silent(q, ops, p + 1)
             /\ Silent(s, ops, p) /\ q[1].op \in ops /\ Word(q, ops, p + 1, who)
                  => q[1].who = who
  <2>1. p \in Nat \ {0} /\ \A k \in 1..(p - 1) : s[k] = q[k + 1]
    BY <1>1
  <2> QED BY <2>1, WordTail
<1>3. Len(s) + 1 = Len(q)
  BY <1>1
<1> QED
  BY <1>1, <1>2, <1>3 DEF s

(* What Auth has posted reaches the connection in order, and after all of  *)
(* it the connection has the token of the user, or has just been given one *)
(* that was out of date.                                                   *)
LEMMA NewsInOrderStep == Typed /\ OneAttempt /\ NewsInOrder /\ [Next]_vars => NewsInOrder'
<1> SUFFICES ASSUME Typed, OneAttempt, NewsInOrder, [Next]_vars PROVE NewsInOrder'
  OBVIOUS
<1> USE DEF session, client, network, history, bounds
<1> DEFINE end(q) == Len(q) + 1
<1>0. posted \in Seq(AuthBlocks) /\ sharedQueue \in Seq(GoodBlocks)
      /\ Len(posted) \in Nat /\ Len(sharedQueue) \in Nat
  BY LenProperties DEF Typed
<1>1. ASSUME UNCHANGED <<session, posted>>, Arrived => Arrived'
      PROVE  NewsInOrder'
  BY <1>1 DEF NewsInOrder, AtHome
<1>2. ASSUME UNCHANGED <<sharedQueue, user>>,
             conn' \in Live => conn \in Live /\ authToken' = authToken /\ overtaken' = overtaken
      PROVE  Arrived => Arrived'
  BY <1>2 DEF Arrived
<1>3. ASSUME NEW e \in AuthBlocks, posted' = Append(posted, e), user' \in AnyUser,
             e.op \in Tells => e.who = user',
             e.op \notin Tells => UNCHANGED session, AtHome' => AtHome /\ user' = user,
             UNCHANGED <<sharedQueue, authToken, overtaken>>, conn' \in Live => conn \in Live
      PROVE  NewsInOrder'
  <2>1. CASE e.op \in Tells
    <3>1. Word(posted', Tells, end(posted'), user') /\ ~Silent(posted', Tells, end(posted'))
      BY <1>0, <1>3, <2>1, WordAppended
    <3>2. AtHome' => AllOf(posted', 1, user')
      BY <1>0, <1>3, <2>1, AllAppended DEF NewsInOrder
    <3>3. AtHome' => Arrived'
      BY <1>3 DEF NewsInOrder, Arrived
    <3> QED BY <3>1, <3>2, <3>3 DEF NewsInOrder
  <2>2. CASE e.op \notin Tells
    <3>1. /\ Word(posted', Tells, end(posted'), user) <=> Word(posted, Tells, end(posted), user)
          /\ Silent(posted', Tells, end(posted')) <=> Silent(posted, Tells, end(posted))
      BY <1>0, <1>3, <2>2, WordAppended
    <3>2. UNCHANGED session /\ (AtHome' <=> AtHome)
      BY <1>3, <2>2 DEF AtHome
    <3>3. AtHome' => AllOf(posted', 1, user')
      BY <1>0, <1>3, <2>2, <3>2, AllAppended DEF NewsInOrder
    <3>4. Arrived => Arrived'
      BY <1>3, <3>2 DEF Arrived
    <3> QED BY <3>1, <3>2, <3>3, <3>4 DEF NewsInOrder
  <2> QED BY <2>1, <2>2
<1>4. CASE \E who \in Users : SignIn(who)
  <2> PICK who \in Users : SignIn(who)
    BY <1>4
  <2>1. Token(who) \in AuthBlocks /\ Token(who).op \in Tells /\ Token(who).who = who
    BY AuthBlockTypes DEF AnyUser, Token, Tells
  <2>2. /\ posted' = Append(posted, Token(who)) /\ user' = who /\ screen' = NoUser
        /\ UNCHANGED <<sharedQueue, authToken, overtaken, conn>>
    BY DEF SignIn, PostToken
  <2>3. ~AtHome' /\ user' \in AnyUser
    BY <2>2 DEF AtHome, AnyUser
  <2> HIDE DEF end
  <2> QED BY <1>3, <2>1, <2>2, <2>3
<1>5. CASE ShowMainScreen
  <2>1. UNCHANGED <<user, posted, sharedQueue, conn, authToken, overtaken>>
        /\ \A i \in 1..Len(posted) : posted[i].op # "token"
    BY <1>5 DEF ShowMainScreen
  <2>2. Silent(posted, Tells, end(posted)) /\ AllOf(posted, 1, user)
    BY <1>0, <2>1 DEF Silent, AllOf, Tells
  <2>3. Arrived
    BY <2>2 DEF NewsInOrder
  <2> QED BY <2>1, <2>2, <2>3 DEF NewsInOrder, Arrived
<1>6. CASE SignOut \/ ForcedSignOut
  <2> DEFINE e == Token(NoUser)
  <2>1. e \in AuthBlocks /\ e.op \in Tells /\ e.who = NoUser
    BY AuthBlockTypes DEF AnyUser, Token, Tells
  <2>2. /\ user' = NoUser /\ UNCHANGED <<sharedQueue, authToken, overtaken, conn>>
        /\ user = NoUser => UNCHANGED posted
        /\ user # NoUser => posted' = Append(posted, e)
    BY <1>6 DEF SignOut, ForcedSignOut, PostToken
  <2> HIDE DEF e, end
  <2>3. ~AtHome' /\ user' \in AnyUser
    BY <2>2 DEF AtHome, AnyUser
  <2>4. CASE user = NoUser
    BY <2>2, <2>3, <2>4 DEF NewsInOrder, Arrived
  <2>5. CASE user # NoUser
    BY <1>3, <2>1, <2>2, <2>3, <2>5
  <2> QED BY <2>4, <2>5
<1>7. CASE RenewToken
  <2> DEFINE e == Token(user)
  <2>1. e \in AuthBlocks /\ e.op \in Tells /\ e.who = user /\ user \in AnyUser
    BY AuthBlockTypes DEF Typed, Token, Tells
  <2>2. posted' = Append(posted, e) /\ UNCHANGED <<session, sharedQueue, authToken, overtaken, conn>>
    BY <1>7 DEF RenewToken, PostToken
  <2>3. AtHome' => AtHome
    BY <2>2 DEF AtHome
  <2> HIDE DEF e, end
  <2> QED BY <1>3, <2>1, <2>2, <2>3
<1>8. CASE \E c \in Clients : saveClient(c)
  <2> PICK c \in Clients : saveClient(c)
    BY <1>8
  <2>1. Put(c) \in GoodBlocks /\ Put(c).op \notin Tells
    BY RequestTypes DEF Put, Tells
  <2>2. /\ sharedQueue' = Append(sharedQueue, Put(c))
        /\ UNCHANGED <<session, posted, conn, authToken, overtaken>>
    BY DEF saveClient
  <2>3. /\ Word(sharedQueue', Tells, end(sharedQueue'), user)
             <=> Word(sharedQueue, Tells, end(sharedQueue), user)
        /\ Silent(sharedQueue', Tells, end(sharedQueue'))
             <=> Silent(sharedQueue, Tells, end(sharedQueue))
    BY <1>0, <2>1, <2>2, WordAppended
  <2>4. Arrived => Arrived'
    BY <2>2, <2>3 DEF Arrived
  <2> QED BY <1>1, <2>2, <2>4
<1>9. CASE HandOn
  <2> DEFINE e == Head(posted)
  <2>1. /\ posted # <<>> /\ posted' = Tail(posted) /\ sharedQueue' = Append(sharedQueue, e)
        /\ UNCHANGED <<session, conn, authToken, overtaken>>
    BY <1>9 DEF HandOn
  <2>2. e \in GoodBlocks /\ e = posted[1] /\ Len(posted) \in Nat \ {0}
    BY <1>0, <2>1, Dropped DEF AuthBlocks
  <2>3. /\ Len(posted') + 1 = Len(posted)
        /\ \A p \in 1..Len(posted) :
             /\ Word(posted, Tells, p + 1, user) => Word(posted', Tells, p, user)
             /\ Silent(posted', Tells, p) /\ e.op \notin Tells => Silent(posted, Tells, p + 1)
             /\ Silent(posted', Tells, p) /\ e.op \in Tells /\ Word(posted, Tells, p + 1, user)
                  => e.who = user
    BY <1>0, <2>1, WordDropped
  <2>4. /\ Word(posted', Tells, end(posted'), user)
        /\ Silent(posted', Tells, end(posted')) /\ e.op \notin Tells =>
             Silent(posted, Tells, end(posted))
        /\ Silent(posted', Tells, end(posted')) /\ e.op \in Tells => e.who = user
    <3> DEFINE p == Len(posted)
    <3>1. p \in 1..Len(posted) /\ end(posted') = p /\ end(posted) = p + 1
      BY <2>2, <2>3
    <3>2. Word(posted, Tells, p + 1, user)
      BY <3>1 DEF NewsInOrder
    <3> HIDE DEF p, e, end
    <3> QED BY <2>3, <3>1, <3>2
  <2>5. AtHome' <=> AtHome
    BY <2>1 DEF AtHome
  <2>6. AtHome => AllOf(posted', 1, user) /\ (e.op \in Tells => e.who = user)
    <3> SUFFICES ASSUME AtHome PROVE AllOf(posted', 1, user) /\ (e.op \in Tells => e.who = user)
      OBVIOUS
    <3>1. AllOf(posted, 1, user)
      BY DEF NewsInOrder
    <3>2. AllOf(posted, 1 + 1, user)
      BY <1>0, <3>1, AllLater
    <3>3. AllOf(Tail(posted), 1, user)
      BY <1>0, <2>1, <3>2, AllTail
    <3> QED BY <2>1, <2>2, <3>1, <3>3 DEF AllOf
  <2>7. /\ e.op \notin Tells =>
             /\ Word(sharedQueue', Tells, end(sharedQueue'), user)
                  <=> Word(sharedQueue, Tells, end(sharedQueue), user)
             /\ Silent(sharedQueue', Tells, end(sharedQueue'))
                  <=> Silent(sharedQueue, Tells, end(sharedQueue))
        /\ e.op \in Tells =>
             /\ Word(sharedQueue', Tells, end(sharedQueue'), user) <=> e.who = user
             /\ ~Silent(sharedQueue', Tells, end(sharedQueue'))
    BY <1>0, <2>1, <2>2, WordAppended
  <2>8. ASSUME AtHome' \/ Silent(posted', Tells, end(posted')) PROVE Arrived'
    <3>1. CASE e.op \in Tells
      BY <2>1, <2>4, <2>5, <2>6, <2>7, <2>8, <3>1 DEF Arrived
    <3>2. CASE e.op \notin Tells
      <4>1. Arrived
        BY <2>4, <2>5, <2>8, <3>2 DEF NewsInOrder
      <4> QED BY <2>1, <2>7, <3>2, <4>1 DEF Arrived
    <3> QED BY <3>1, <3>2
  <2> QED BY <2>1, <2>4, <2>5, <2>6, <2>8 DEF NewsInOrder
<1>10. CASE SharedQueue
  <2> DEFINE e == Head(sharedQueue)
  <2>1. /\ sharedQueue # <<>> /\ sharedQueue' = Tail(sharedQueue) /\ UNCHANGED <<session, posted>>
        /\ \/ e.op = "token" /\ authToken' = e.who
           \/ e.op = "context" /\ overtaken' = (e.who # user) /\ authToken' = e.who
           \/ e.op = "put" /\ UNCHANGED <<conn, authToken, overtaken>>
           \/ e.op = "error" /\ conn' = "Disconnected"
    BY <1>10 DEF SharedQueue, putInternal, refreshAuthToken, openNetworkConnection, FetchFailed, Runs
  <2>2. /\ Len(sharedQueue') + 1 = Len(sharedQueue) /\ Len(sharedQueue) \in Nat \ {0}
        /\ \A p \in 1..Len(sharedQueue) :
             /\ Word(sharedQueue, Tells, p + 1, user) => Word(sharedQueue', Tells, p, user)
             /\ Silent(sharedQueue', Tells, p) /\ e.op \notin Tells => Silent(sharedQueue, Tells, p + 1)
             /\ Silent(sharedQueue', Tells, p) /\ e.op \in Tells /\ Word(sharedQueue, Tells, p + 1, user)
                  => e.who = user
    BY <1>0, <2>1, WordDropped
  <2>3. ASSUME Word(sharedQueue, Tells, end(sharedQueue), user)
        PROVE  /\ Word(sharedQueue', Tells, end(sharedQueue'), user)
               /\ Silent(sharedQueue', Tells, end(sharedQueue')) /\ e.op \notin Tells =>
                    Silent(sharedQueue, Tells, end(sharedQueue))
               /\ Silent(sharedQueue', Tells, end(sharedQueue')) /\ e.op \in Tells => e.who = user
    <3> DEFINE p == Len(sharedQueue)
    <3>1. p \in 1..Len(sharedQueue) /\ end(sharedQueue') = p /\ end(sharedQueue) = p + 1
      BY <2>2
    <3> HIDE DEF p, e, end
    <3> QED BY <2>2, <2>3, <3>1
  <2>4. Arrived => Arrived'
    <3> SUFFICES ASSUME Arrived PROVE Arrived'
      OBVIOUS
    <3>1. Word(sharedQueue, Tells, end(sharedQueue), user)
      BY DEF Arrived
    <3>2. Word(sharedQueue', Tells, end(sharedQueue'), user')
      BY <2>1, <2>3, <3>1
    <3>3. ASSUME Silent(sharedQueue', Tells, end(sharedQueue')), conn' \in Live
          PROVE  authToken' = user' \/ overtaken'
      <4>1. CASE e.op = "token" /\ authToken' = e.who
        BY <2>1, <2>3, <3>1, <3>3, <4>1 DEF Tells
      <4>2. CASE e.op = "context" /\ overtaken' = (e.who # user) /\ authToken' = e.who
        BY <2>1, <4>2
      <4>3. CASE e.op = "put" /\ UNCHANGED <<conn, authToken, overtaken>>
        <5>1. Silent(sharedQueue, Tells, end(sharedQueue))
          BY <2>3, <3>1, <3>3, <4>3 DEF Tells
        <5> QED BY <2>1, <3>3, <4>3, <5>1 DEF Arrived
      <4>4. CASE e.op = "error" /\ conn' = "Disconnected"
        BY <3>3, <4>4 DEF Live
      <4> QED BY <2>1, <4>1, <4>2, <4>3, <4>4
    <3> QED BY <3>2, <3>3 DEF Arrived
  <2> QED BY <1>1, <2>1, <2>4
<1>11. CASE RunRetry \/ TokenFetched
  <2>1. /\ UNCHANGED <<session, sharedQueue, authToken, overtaken>>
        /\ conn' \in Live => conn \in Live
        /\ \/ UNCHANGED posted
           \/ posted' = Append(posted, Context(user))
           \/ posted' = Append(posted, Context(fetch))
           \/ posted' = Append(posted, FetchError)
    BY <1>11 DEF RunRetry, TokenFetched, Live
  <2>2. /\ Context(user) \in AuthBlocks /\ Context(user).op \notin Tells
        /\ Context(fetch) \in AuthBlocks /\ Context(fetch).op \notin Tells
        /\ FetchError \in AuthBlocks /\ FetchError.op \notin Tells
    BY AuthBlockTypes DEF Typed, Context, FetchError, Tells
  <2>3. (AtHome' => AtHome /\ user' = user) /\ user' \in AnyUser
    BY <2>1 DEF AtHome, Typed
  <2>4. CASE UNCHANGED posted
    BY <1>1, <1>2, <2>1, <2>4
  <2>5. ASSUME NEW e \in AuthBlocks, e.op \notin Tells, posted' = Append(posted, e)
        PROVE  NewsInOrder'
    BY <1>3, <2>1, <2>3, <2>5
  <2> QED BY <2>1, <2>2, <2>4, <2>5
<1>12. CASE onReady \/ Lose \/ onKill \/ AuthAccepted \/ AuthLost \/ PutAnswered \/ Revoke
            \/ (\E n \in 1..Len(links) : Serve(n)) \/ UNCHANGED vars
  <2>1. AuthAccepted => conn \in Live
    BY DEF AuthAccepted, Hears, OneAttempt, connected, Live
  <2>2. UNCHANGED <<session, posted, sharedQueue>>
    BY <1>12 DEF onReady, Lose, onKill, AuthAccepted, AuthLost, PutAnswered, Revoke, Serve, vars
  <2>3. conn' \in Live => conn \in Live /\ authToken' = authToken /\ overtaken' = overtaken
    BY <1>12, <2>1 DEF onReady, Lose, onKill, AuthAccepted, AuthLost, PutAnswered, Revoke, Serve, vars,
       onDisconnect, Live
  <2> QED BY <1>1, <1>2, <2>2, <2>3
<1>13. CASE EndProcess
  <2>1. /\ posted' = <<>> /\ sharedQueue' = <<>> /\ conn' = "Disconnected"
    BY <1>13 DEF EndProcess
  <2> QED BY <2>1 DEF NewsInOrder, Arrived, Word, Silent, AllOf, Live
<1> QED
  BY <1>4, <1>5, <1>6, <1>7, <1>8, <1>9, <1>10, <1>11, <1>12, <1>13 DEF Next, Listen

(* A client that waits without an excuse has waited before, or is saved    *)
(* now; its owner is signed in all the time.                               *)
LEMMA WaitsOn ==
  ASSUME Typed, HeldOnce, [Next]_vars, NEW c \in Clients,
         fate'[c] = "waiting", c \notin excused'
  PROVE  /\ c \notin excused
         /\ \/ fate[c] = "waiting" /\ owner'[c] = owner[c]
            \/ fate[c] = "new" /\ saveClient(c)
         /\ fate[c] = "waiting" /\ owner[c] = user => user' = user
<1> USE DEF session, client, network, history, bounds
<1>1. CASE \E who \in Users : SignIn(who)
  BY <1>1 DEF SignIn, HeldOnce, PostToken
<1>2. CASE SignOut \/ ForcedSignOut
  BY <1>2 DEF SignOut, ForcedSignOut, Excuse, Waiting
<1>3. CASE \E d \in Clients : saveClient(d)
  <2> PICK d \in Clients : saveClient(d)
    BY <1>3
  <2>1. /\ fate' = [fate EXCEPT ![d] = "waiting"] /\ owner' = [owner EXCEPT ![d] = screen]
        /\ fate[d] = "new" /\ user' = user /\ excused \subseteq excused'
    BY DEF saveClient, Excuse
  <2>2. CASE c = d
    BY <2>1, <2>2
  <2>3. CASE c # d
    BY <2>1, <2>3 DEF Typed
  <2> QED BY <2>2, <2>3
<1>4. CASE PutAnswered
  <2>1. UNCHANGED <<user, owner, excused>>
    BY <1>4 DEF PutAnswered
  <2>2. fate[c] = "waiting"
    BY <1>4 DEF PutAnswered, Typed
  <2> QED BY <2>1, <2>2
<1>5. CASE EndProcess
  BY <1>5 DEF EndProcess
<1>6. CASE openNetworkConnection
  BY <1>6 DEF openNetworkConnection, Excuse
<1>7. CASE ShowMainScreen \/ RenewToken \/ HandOn \/ putInternal \/ refreshAuthToken \/ FetchFailed
  BY <1>7 DEF ShowMainScreen, RenewToken, HandOn, putInternal, refreshAuthToken, FetchFailed
<1>8. CASE RunRetry \/ TokenFetched \/ onReady \/ Lose \/ onKill
  BY <1>8 DEF RunRetry, TokenFetched, onReady, Lose, onKill
<1>9. CASE Revoke \/ AuthAccepted \/ AuthLost \/ (\E n \in 1..Len(links) : Serve(n)) \/ UNCHANGED vars
  BY <1>9 DEF Revoke, AuthAccepted, AuthLost, Serve, vars
<1> QED
  BY <1>1, <1>2, <1>3, <1>4, <1>5, <1>6, <1>7, <1>8, <1>9 DEF Next, SharedQueue, Listen

(* Removing an answered put keeps the others. *)
LEMMA StillHeld ==
  ASSUME Typed, HeldOnce, NEW c, NEW d, OnConnection(d), outstanding' = Without(outstanding, d),
         OnConnection(c)'
  PROVE  OnConnection(c)
<1>1. PICK k \in 1..Len(outstanding) : outstanding[k] = d
  BY DEF OnConnection
<1>2. /\ Len(outstanding') = Len(outstanding) - 1 /\ Len(outstanding) \in Nat
      /\ \A i \in 1..(Len(outstanding) - 1) :
           outstanding'[i] = IF i < k THEN outstanding[i] ELSE outstanding[i + 1]
  <2>1. /\ outstanding \in Seq(Clients) /\ Len(outstanding) \in Nat
        /\ \A i, j \in 1..Len(outstanding) : outstanding[i] = outstanding[j] => i = j
    BY LenProperties DEF Typed, HeldOnce
  <2>2. /\ Len(Without(outstanding, outstanding[k])) = Len(outstanding) - 1
        /\ \A i \in 1..(Len(outstanding) - 1) :
             Without(outstanding, outstanding[k])[i] =
               IF i < k THEN outstanding[i] ELSE outstanding[i + 1]
    BY <2>1, WithoutAt
  <2>3. outstanding' = Without(outstanding, outstanding[k])
    BY <1>1
  <2> QED BY <2>1, <2>2, <2>3
<1>3. PICK i \in 1..(Len(outstanding) - 1) : outstanding'[i] = c
  BY <1>2 DEF OnConnection
<1>4. i \in 1..Len(outstanding) /\ i + 1 \in 1..Len(outstanding)
  BY <1>2, <1>3
<1> QED BY <1>2, <1>3, <1>4 DEF OnConnection

(* The client that is saved: every token ahead of it is its owner's. *)
LEMMA CoveredNew ==
  ASSUME Typed, HeldOnce, NewsInOrder, NEW c \in Clients, saveClient(c), c \notin excused'
  PROVE  Covered(c)' /\ ~OnConnection(c)'
<1> DEFINE m == Len(sharedQueue) + 1
<1>1. /\ screen # NoUser /\ fate[c] = "new" /\ owner'[c] = screen
      /\ sharedQueue' = Append(sharedQueue, Put(c))
      /\ UNCHANGED <<user, screen, posted, conn, authToken, outstanding>>
      /\ user = screen /\ ~(overtaken /\ ~TokenQueued)
  BY DEF saveClient, Excuse, Typed, session, client
<1>2. Put(c) \in GoodBlocks /\ Put(c).op = "put" /\ Put(c).client = c /\ Put(c).op \notin Tells
  BY RequestTypes DEF Put, Tells
<1>3. /\ Len(sharedQueue) \in Nat /\ Len(sharedQueue') = m
      /\ \A i \in 1..Len(sharedQueue) : sharedQueue'[i] = sharedQueue[i]
      /\ sharedQueue'[m] = Put(c)
  BY <1>1, <1>2, Appended DEF Typed
<1>4. ~OnConnection(c) /\ ~OnQueue(c)
  BY <1>1 DEF HeldOnce
<1>5. AtHome
  BY <1>1 DEF AtHome
<1>6. AllOf(posted, 1, user) /\ Arrived
  BY <1>5 DEF NewsInOrder
<1>7. ~OnConnection(c)'
  BY <1>1, <1>4 DEF OnConnection
<1>8. ASSUME NEW p \in QueuedPuts', sharedQueue'[p].client = c PROVE p = m
  <2>1. p \in 1..m /\ sharedQueue'[p].op = "put"
    BY <1>3, <1>8 DEF QueuedPuts
  <2>2. CASE p # m
    <3>1. p \in 1..Len(sharedQueue) /\ sharedQueue'[p] = sharedQueue[p]
      BY <1>3, <2>1, <2>2
    <3> QED BY <1>4, <1>8, <2>1, <3>1 DEF OnQueue, QueuedPuts
  <2> QED BY <2>2
<1>9. AllOf(sharedQueue', m + 1, user')
  BY <1>3 DEF AllOf
<1>10. /\ Word(sharedQueue', Tells, m, user) <=> Word(sharedQueue, Tells, m, user)
       /\ Silent(sharedQueue', Tells, m) <=> Silent(sharedQueue, Tells, m)
  <2>1. m \in 1..(Len(sharedQueue) + 1) /\ sharedQueue \in Seq(GoodBlocks)
    BY <1>3 DEF Typed
  <2> HIDE DEF m
  <2> QED BY <1>1, <1>2, <2>1, WordAppended
<1>11. Word(sharedQueue', Tells, m, user')
  BY <1>1, <1>6, <1>10 DEF Arrived
<1>12. Silent(sharedQueue', Tells, m) /\ conn' \in Live => authToken' = user'
  <2> SUFFICES ASSUME Silent(sharedQueue, Tells, m), conn \in Live PROVE authToken = user
    BY <1>1, <1>10
  <2>1. ~TokenQueued
    BY <1>3 DEF TokenQueued, Silent, Tells
  <2> QED BY <1>1, <1>6, <2>1 DEF Arrived
<1> HIDE DEF m
<1> QED
  BY <1>1, <1>6, <1>7, <1>8, <1>9, <1>11, <1>12 DEF Covered

(* The credentials that a client without an excuse will meet are its       *)
(* owner's, whatever the step.                                             *)
LEMMA CoveredStep ==
  ASSUME Typed, OneAttempt, HeldOnce, [Next]_vars, NEW c \in Clients,
         fate[c] = "waiting", fate'[c] = "waiting", c \notin excused', Covered(c)
  PROVE  Covered(c)'
<1> USE DEF session, client, network, history, bounds
<1>0. /\ user' = user /\ owner'[c] = owner[c] /\ owner[c] = user /\ user # NoUser /\ c \notin excused
      /\ sharedQueue \in Seq(GoodBlocks) /\ posted \in Seq(AuthBlocks)
      /\ Len(sharedQueue) \in Nat /\ Len(posted) \in Nat
      /\ AllOf(posted, 1, user)
  BY WaitsOn, LenProperties DEF Covered, Typed, HeldOnce
<1>1. ASSUME UNCHANGED sharedQueue, AllOf(posted', 1, user), OnConnection(c)' => OnConnection(c),
             conn' \in Live => conn \in Live /\ authToken' = authToken
      PROVE  Covered(c)'
  <2>1. QueuedPuts' = QueuedPuts
    BY <1>1 DEF QueuedPuts
  <2> QED BY <1>0, <1>1, <2>1 DEF Covered
<1>2. ASSUME NEW e \in GoodBlocks, sharedQueue' = Append(sharedQueue, e), AllOf(posted', 1, user),
             e.op \in Tells => e.who = user, e.client # c,
             UNCHANGED <<outstanding, conn, authToken>>
      PROVE  Covered(c)'
  <2>1. /\ Len(sharedQueue') = Len(sharedQueue) + 1
        /\ \A i \in 1..Len(sharedQueue) : sharedQueue'[i] = sharedQueue[i]
        /\ sharedQueue'[Len(sharedQueue) + 1] = e
    BY <1>0, <1>2, Appended
  <2>2. ASSUME NEW p \in QueuedPuts', sharedQueue'[p].client = c
        PROVE  p \in QueuedPuts /\ sharedQueue[p].client = c /\ p \in 1..(Len(sharedQueue) + 1)
               /\ p + 1 \in Nat \ {0}
    <3>1. p \in 1..(Len(sharedQueue) + 1) /\ p # Len(sharedQueue) + 1 /\ sharedQueue'[p].op = "put"
      BY <1>0, <1>2, <2>1, <2>2 DEF QueuedPuts
    <3>2. p \in 1..Len(sharedQueue) /\ sharedQueue'[p] = sharedQueue[p]
      BY <1>0, <2>1, <3>1
    <3> QED BY <1>0, <2>2, <3>1, <3>2 DEF QueuedPuts
  <2>3. \A p \in 1..(Len(sharedQueue) + 1) :
          /\ Word(sharedQueue', Tells, p, user) <=> Word(sharedQueue, Tells, p, user)
          /\ Silent(sharedQueue', Tells, p) <=> Silent(sharedQueue, Tells, p)
    BY <1>0, <1>2, WordAppended
  <2>4. \A p \in Nat \ {0} : AllOf(sharedQueue, p, user) => AllOf(sharedQueue', p, user)
    BY <1>0, <1>2, AllAppended
  <2>5. ASSUME NEW p \in QueuedPuts', sharedQueue'[p].client = c
        PROVE  /\ AllOf(sharedQueue', p + 1, user)
               /\ Word(sharedQueue', Tells, p, user)
               /\ Silent(sharedQueue', Tells, p) /\ conn' \in Live => authToken' = user
    <3>1. /\ AllOf(sharedQueue, p + 1, user)
          /\ Word(sharedQueue, Tells, p, user)
          /\ Silent(sharedQueue, Tells, p) /\ conn \in Live => authToken = user
      BY <2>2, <2>5 DEF Covered
    <3> DEFINE s == p + 1
    <3>2. s \in Nat \ {0} /\ p \in 1..(Len(sharedQueue) + 1)
      BY <2>2, <2>5
    <3>3. AllOf(sharedQueue, s, user)
      BY <3>1
    <3> HIDE DEF s
    <3>4. AllOf(sharedQueue', s, user)
      BY <2>4, <3>2, <3>3
    <3> QED BY <1>2, <2>3, <3>1, <3>2, <3>4 DEF s
  <2>6. OnConnection(c)' => AllOf(sharedQueue', 1, user) /\ (conn' \in Live => authToken' = user)
    <3>1. OnConnection(c)' <=> OnConnection(c)
      BY <1>2 DEF OnConnection
    <3>2. OnConnection(c) => AllOf(sharedQueue, 1, user) /\ (conn \in Live => authToken = user)
      BY DEF Covered
    <3> QED BY <1>2, <2>4, <3>1, <3>2
  <2> QED BY <1>0, <1>2, <2>5, <2>6 DEF Covered
<1>3. CASE SharedQueue
  <2> DEFINE e == Head(sharedQueue)
             sq == sharedQueue'
  <2>1. /\ sharedQueue # <<>> /\ sharedQueue' = Tail(sharedQueue) /\ UNCHANGED posted
        /\ \/ /\ e.op = "token" /\ authToken' = e.who /\ UNCHANGED <<outstanding, conn>>
           \/ /\ e.op = "context" /\ authToken' = e.who /\ UNCHANGED outstanding
              /\ conn' = "Connecting" /\ Excuse(IF e.who # user THEN Exposed ELSE {})
           \/ /\ e.op = "put" /\ outstanding' = Append(outstanding, e.client)
              /\ UNCHANGED <<conn, authToken>>
           \/ /\ e.op = "error" /\ conn' = "Disconnected" /\ UNCHANGED <<outstanding, authToken>>
    BY <1>3 DEF SharedQueue, putInternal, refreshAuthToken, openNetworkConnection, FetchFailed, Runs
  <2>2. /\ e \in GoodBlocks /\ e = sharedQueue[1] /\ Len(sq) = Len(sharedQueue) - 1
        /\ Len(sharedQueue) \in Nat \ {0} /\ sq \in Seq(GoodBlocks)
        /\ \A i \in 1..Len(sq) : sq[i] = sharedQueue[i + 1]
    BY <1>0, <2>1, Dropped
  <2>3. \A p \in 1..Len(sharedQueue) :
          /\ Word(sharedQueue, Tells, p + 1, user) => Word(sq, Tells, p, user)
          /\ Silent(sq, Tells, p) /\ e.op \notin Tells => Silent(sharedQueue, Tells, p + 1)
          /\ Silent(sq, Tells, p) /\ e.op \in Tells /\ Word(sharedQueue, Tells, p + 1, user)
               => e.who = user
    BY <1>0, <2>1, WordDropped
  <2>4. \A p \in Nat \ {0} : AllOf(sharedQueue, p + 1, user) => AllOf(sq, p, user)
    BY <1>0, <2>1, AllTail
  <2>5. OnConnection(c) => AllOf(sharedQueue, 1 + 1, user)
    BY <1>0, AllLater DEF Covered
  <2>6. ASSUME OnConnection(c)'
        PROVE  OnConnection(c) \/ (e.op = "put" /\ e.client = c)
    <3>1. CASE UNCHANGED outstanding
      BY <2>6, <3>1 DEF OnConnection
    <3>2. CASE e.op = "put" /\ outstanding' = Append(outstanding, e.client)
      <4>1. e.client \in Clients /\ outstanding \in Seq(Clients)
        BY <2>2, <3>2, ClientAssumption DEF GoodBlocks, Blocks, Typed
      <4>2. /\ Len(outstanding') = Len(outstanding) + 1 /\ Len(outstanding) \in Nat
            /\ \A i \in 1..Len(outstanding) : outstanding'[i] = outstanding[i]
            /\ outstanding'[Len(outstanding) + 1] = e.client
        BY <3>2, <4>1, Appended
      <4>3. PICK i \in 1..(Len(outstanding) + 1) : outstanding'[i] = c
        BY <2>6, <4>2 DEF OnConnection
      <4>4. CASE i = Len(outstanding) + 1
        BY <3>2, <4>2, <4>3, <4>4
      <4>5. CASE i # Len(outstanding) + 1
        <5>1. i \in 1..Len(outstanding)
          BY <4>2, <4>3, <4>5
        <5> QED BY <4>2, <4>3, <5>1 DEF OnConnection
      <4> QED BY <4>4, <4>5
    <3> QED BY <2>1, <3>1, <3>2
  <2>7. e.op = "put" /\ e.client = c =>
          /\ AllOf(sharedQueue, 1 + 1, user)
          /\ conn \in Live => authToken = user
    <3> SUFFICES ASSUME e.op = "put", e.client = c
                 PROVE  AllOf(sharedQueue, 1 + 1, user) /\ (conn \in Live => authToken = user)
      OBVIOUS
    <3>1. 1 \in QueuedPuts /\ sharedQueue[1].client = c
      BY <2>2 DEF QueuedPuts
    <3>2. Silent(sharedQueue, Tells, 1)
      BY DEF Silent
    <3> QED BY <3>1, <3>2 DEF Covered
  <2>8. OnConnection(c)' => AllOf(sq, 1, user)
    <3>1. OnConnection(c)' => AllOf(sharedQueue, 1 + 1, user)
      BY <2>5, <2>6, <2>7
    <3>2. 1 \in Nat \ {0}
      OBVIOUS
    <3> HIDE DEF sq
    <3> QED BY <2>4, <3>1, <3>2
  <2>9. OnConnection(c)' /\ conn' \in Live => authToken' = user
    <3> SUFFICES ASSUME OnConnection(c)', conn' \in Live PROVE authToken' = user
      OBVIOUS
    <3>1. CASE e.op = "token" /\ authToken' = e.who
      <4>1. AllOf(sharedQueue, 1, user)
        BY <2>6, <3>1 DEF Covered
      <4> QED BY <2>2, <3>1, <4>1 DEF AllOf, Tells
    <3>2. CASE /\ e.op = "context" /\ authToken' = e.who /\ UNCHANGED outstanding
               /\ Excuse(IF e.who # user THEN Exposed ELSE {})
      <4>1. ~OnQueue(c)
        BY <2>6, <3>2 DEF HeldOnce
      <4>2. \A i \in 1..Len(sharedQueue) : sharedQueue[i].client # c
        BY <1>0, <4>1, ElementOfSeq, ClientAssumption DEF OnQueue, QueuedPuts, GoodBlocks
      <4>3. c \in Exposed
        BY <4>2 DEF Exposed, Waiting
      <4> QED BY <3>2, <4>3 DEF Excuse
    <3>3. CASE e.op = "put" /\ UNCHANGED <<conn, authToken>>
      BY <2>6, <2>7, <3>3 DEF Covered
    <3>4. CASE e.op = "error" /\ conn' = "Disconnected"
      BY <3>4 DEF Live
    <3> QED BY <2>1, <3>1, <3>2, <3>3, <3>4
  <2>10. ASSUME NEW p \in QueuedPuts', sq[p].client = c
         PROVE  /\ AllOf(sq, p + 1, user)
                /\ Word(sq, Tells, p, user)
                /\ Silent(sq, Tells, p) /\ conn' \in Live => authToken' = user
    <3> DEFINE s == p + 1
    <3>1. /\ p \in 1..Len(sq) /\ p \in 1..Len(sharedQueue) /\ s \in 1..Len(sharedQueue)
          /\ s \in Nat \ {0} /\ sharedQueue[s].op = "put" /\ sharedQueue[s].client = c
      BY <2>2, <2>10 DEF QueuedPuts
    <3>2. s \in QueuedPuts
      BY <3>1 DEF QueuedPuts
    <3>a. s = p + 1
      OBVIOUS
    <3> HIDE DEF s
    <3>3. /\ AllOf(sharedQueue, s + 1, user)
          /\ Word(sharedQueue, Tells, s, user)
          /\ Silent(sharedQueue, Tells, s) /\ conn \in Live => authToken = user
      BY <3>1, <3>2 DEF Covered
    <3> HIDE DEF sq, e
    <3>4. AllOf(sq, s, user)
      BY <2>4, <3>1, <3>3
    <3>5. /\ Word(sq, Tells, p, user)
          /\ Silent(sq, Tells, p) /\ e.op \notin Tells => Silent(sharedQueue, Tells, s)
          /\ Silent(sq, Tells, p) /\ e.op \in Tells => e.who = user
      BY <2>3, <3>1, <3>3, <3>a
    <3>6. ASSUME Silent(sq, Tells, p), conn' \in Live PROVE authToken' = user
      <4>1. CASE e.op = "token" /\ authToken' = e.who
        BY <3>5, <3>6, <4>1 DEF Tells
      <4>2. CASE e.op = "context" /\ authToken' = e.who /\ Excuse(IF e.who # user THEN Exposed ELSE {})
        <5>1. Silent(sharedQueue, Tells, s)
          BY <3>5, <3>6, <4>2 DEF Tells
        <5>2. ASSUME NEW i \in 1..Len(sharedQueue), sharedQueue[i].client = c,
                     NEW j \in 1..i
              PROVE  sharedQueue[j].op # "token"
          <6>1. i \in QueuedPuts
            BY <1>0, <5>2, ElementOfSeq, ClientAssumption DEF QueuedPuts, GoodBlocks
          <6>2. i = s
            BY <3>1, <3>2, <5>2, <6>1 DEF HeldOnce
          <6>3. CASE j = s
            BY <3>1, <6>3
          <6>4. CASE j # s
            <7>1. j \in 1..(s - 1)
              BY <3>1, <5>2, <6>2, <6>4
            <7> QED BY <5>1, <7>1 DEF Silent, Tells
          <6> QED BY <6>3, <6>4
        <5>3. c \in Exposed
          BY <5>2 DEF Exposed, Waiting
        <5> QED BY <4>2, <5>3 DEF Excuse
      <4>3. CASE e.op = "put" /\ UNCHANGED <<conn, authToken>>
        BY <3>3, <3>5, <3>6, <4>3 DEF Tells
      <4>4. CASE e.op = "error" /\ conn' = "Disconnected"
        BY <3>6, <4>4 DEF Live
      <4> QED BY <2>1, <4>1, <4>2, <4>3, <4>4 DEF e
    <3> QED BY <3>4, <3>5, <3>6, <3>a
  <2>11. AllOf(posted', 1, user)
    BY <1>0, <2>1
  <2> QED BY <1>0, <2>8, <2>9, <2>10, <2>11 DEF Covered
<1>4. CASE HandOn
  <2> DEFINE e == Head(posted)
  <2>1. /\ posted # <<>> /\ posted' = Tail(posted) /\ sharedQueue' = Append(sharedQueue, e)
        /\ UNCHANGED <<outstanding, conn, authToken>>
    BY <1>4 DEF HandOn
  <2>2. e \in GoodBlocks /\ e.client # c /\ e = posted[1] /\ Len(posted) \in Nat \ {0}
    BY <1>0, <2>1, Dropped, ClientAssumption DEF AuthBlocks, GoodBlocks
  <2>3. AllOf(posted, 1 + 1, user)
    BY <1>0, AllLater
  <2>4. AllOf(posted', 1, user)
    BY <1>0, <2>1, <2>3, AllTail
  <2>5. e.op \in Tells => e.who = user
    BY <1>0, <2>2 DEF AllOf
  <2> HIDE DEF e
  <2> QED BY <1>2, <2>1, <2>2, <2>4, <2>5
<1>5. CASE \E d \in Clients : saveClient(d)
  <2> PICK d \in Clients : saveClient(d)
    BY <1>5
  <2> DEFINE e == Put(d)
  <2>1. e \in GoodBlocks /\ e.op \notin Tells /\ e.client = d
    BY RequestTypes DEF Put, Tells
  <2>2. /\ sharedQueue' = Append(sharedQueue, e) /\ fate[d] = "new"
        /\ UNCHANGED <<posted, outstanding, conn, authToken>>
    BY DEF saveClient
  <2> HIDE DEF e
  <2> QED BY <1>0, <1>2, <2>1, <2>2
<1>6. ASSUME NEW e \in AuthBlocks, posted' = Append(posted, e), e.op \in Tells => e.who = user
      PROVE  AllOf(posted', 1, user)
  BY <1>0, <1>6, AllAppended
<1>7. CASE \/ ShowMainScreen \/ RenewToken \/ RunRetry \/ TokenFetched \/ onReady \/ Lose \/ onKill
           \/ (\E n \in 1..Len(links) : Serve(n)) \/ Revoke \/ AuthAccepted \/ AuthLost
           \/ UNCHANGED vars
  <2>1. UNCHANGED <<sharedQueue, outstanding>>
    BY <1>7 DEF ShowMainScreen, RenewToken, RunRetry, TokenFetched, onReady, Lose, onKill, Serve,
       Revoke, AuthAccepted, AuthLost, onDisconnect, vars
  <2>2. AuthAccepted => conn \in Live
    BY DEF AuthAccepted, Hears, OneAttempt, connected, Live
  <2>3. conn' \in Live => conn \in Live /\ authToken' = authToken
    BY <1>7, <2>2 DEF ShowMainScreen, RenewToken, RunRetry, TokenFetched, onReady, Lose, onKill, Serve,
       Revoke, AuthAccepted, AuthLost, onDisconnect, vars, Live
  <2>4. \/ UNCHANGED posted
        \/ posted' = Append(posted, Token(user))
        \/ posted' = Append(posted, Context(user))
        \/ posted' = Append(posted, Context(fetch))
        \/ posted' = Append(posted, FetchError)
    BY <1>7 DEF ShowMainScreen, RenewToken, RunRetry, TokenFetched, onReady, Lose, onKill, Serve,
       Revoke, AuthAccepted, AuthLost, onDisconnect, vars, PostToken
  <2>5. /\ Token(user) \in AuthBlocks /\ Token(user).who = user
        /\ Context(user) \in AuthBlocks /\ Context(user).op \notin Tells
        /\ Context(fetch) \in AuthBlocks /\ Context(fetch).op \notin Tells
        /\ FetchError \in AuthBlocks /\ FetchError.op \notin Tells
    BY AuthBlockTypes DEF Typed, Context, FetchError, Tells, Token
  <2>6. AllOf(posted', 1, user)
    BY <1>0, <1>6, <2>4, <2>5
  <2>7. OnConnection(c)' => OnConnection(c)
    BY <2>1 DEF OnConnection
  <2> QED BY <1>1, <2>1, <2>3, <2>6, <2>7
<1>8. CASE PutAnswered
  <2> DEFINE d == Head(replies).request.client
  <2>1. /\ UNCHANGED <<sharedQueue, posted, conn, authToken>>
        /\ IF OnConnection(d) THEN outstanding' = Without(outstanding, d) ELSE UNCHANGED outstanding
    BY <1>8 DEF PutAnswered, OnConnection
  <2>2. OnConnection(c)' => OnConnection(c)
    <3>1. CASE UNCHANGED outstanding
      BY <3>1 DEF OnConnection
    <3>2. CASE OnConnection(d) /\ outstanding' = Without(outstanding, d)
      BY <3>2, StillHeld
    <3> QED BY <2>1, <3>1, <3>2
  <2> QED BY <1>0, <1>1, <2>1, <2>2
<1>9. CASE EndProcess
  BY <1>9 DEF EndProcess
<1>10. CASE (\E who \in Users : SignIn(who)) \/ SignOut \/ ForcedSignOut
  BY <1>0, <1>10, UserAssumption DEF SignIn, SignOut, ForcedSignOut
<1> QED
  BY <1>3, <1>4, <1>5, <1>7, <1>8, <1>9, <1>10 DEF Next, Listen

(* A put is under way only for what is outstanding, and none is under way  *)
(* before the token is accepted.                                           *)
LEMMA PutsKnown ==
  ASSUME Typed, OneAttempt, Ordered
  PROVE  LET q == links[Len(links)].requests IN
         /\ \A k \in 1..Len(replies) : replies[k].request.op = "put" =>
              conn = "Connected" /\ OnConnection(replies[k].request.client)
         /\ connected => \A k \in 1..Len(q) : q[k].op = "put" =>
              conn = "Connected" /\ OnConnection(q[k].client)
<1> DEFINE q == links[Len(links)].requests
<1>1. CASE connected
  <2>1. links # <<>> /\ conn \in {"Authenticating", "Connected"}
    BY <1>1 DEF connected, Typed, Live
  <2>2. q \in Seq(GoodRequests) /\ replies \in Seq(GoodReplies)
    BY <2>1, LastLink
  <2>3. UnderWay = Joined(replies, q)
    BY UnderWayIs
  <2> HIDE DEF q
  <2>4. /\ Len(replies) \in Nat /\ Len(q) \in Nat
        /\ Len(Joined(replies, q)) = Len(replies) + Len(q)
        /\ \A k \in 1..Len(replies) : Joined(replies, q)[k] = replies[k].request
        /\ \A k \in 1..Len(q) : Joined(replies, q)[Len(replies) + k] = q[k]
    BY <2>2, JoinedAt
  <2>5. \A k \in 1..Len(UnderWay) : UnderWay[k].op = "put" =>
          conn = "Connected" /\ OnConnection(UnderWay[k].client)
    <3>1. CASE conn = "Authenticating"
      BY <3>1 DEF Ordered, Handshake
    <3>2. CASE conn = "Connected"
      <4>1. \A k \in PutsIn(UnderWay) : OnConnection(UnderWay[k].client)
        BY <3>2 DEF Ordered, canSendWrites, InOrder, OnConnection
      <4> QED BY <3>2, <4>1 DEF PutsIn
    <3> QED BY <2>1, <3>1, <3>2
  <2> DEFINE u == Joined(replies, q)
  <2>6. \A k \in 1..Len(u) : u[k].op = "put" => conn = "Connected" /\ OnConnection(u[k].client)
    BY <2>3, <2>5
  <2> HIDE DEF u
  <2>7. \A k \in 1..Len(replies) : k \in 1..Len(u) /\ u[k] = replies[k].request
    BY <2>4 DEF u
  <2>8. \A k \in 1..Len(q) : Len(replies) + k \in 1..Len(u) /\ u[Len(replies) + k] = q[k]
    BY <2>4 DEF u
  <2>9. \A k \in 1..Len(replies) : replies[k].request.op = "put" =>
          conn = "Connected" /\ OnConnection(replies[k].request.client)
    BY <2>6, <2>7
  <2>10. \A k \in 1..Len(q) : q[k].op = "put" => conn = "Connected" /\ OnConnection(q[k].client)
    BY <2>6, <2>8
  <2> QED BY <2>9, <2>10 DEF q
<1>2. CASE ~connected
  <2>1. replies = <<>>
    BY <1>2 DEF OneAttempt
  <2>2. Len(replies) = 0
    BY <2>1
  <2> QED BY <1>2, <2>2
<1> QED BY <1>1, <1>2

(* A put without an excuse meets its owner's credentials, or a refusal of  *)
(* them is heard before its answer, whatever the step.                     *)
LEMMA MetStep ==
  ASSUME Typed, OneAttempt, HeldOnce, Ordered, LastWord, [Next]_vars, NEW c \in Clients,
         fate[c] = "waiting", fate'[c] = "waiting", c \notin excused', Covered(c), Met(c)
  PROVE  Met(c)'
<1> USE DEF session, client, network, history, bounds
<1> DEFINE n == Len(links)
           q == links[n].requests
           r == links'[n].requests
           Safe(s, k, cred, refused) ==
             /\ Word(s, Speaks, k, user)
             /\ Silent(s, Speaks, k) => cred = user \/ refused
           Mine(m) == m.op = "put" /\ m.client = c
           Heard(k) == Mine(replies[k].request) /\ ~replies[k].ok => \E l \in 1..(k - 1) : Refusal(l)
<1>0. /\ user' = user /\ owner[c] = user /\ user # NoUser /\ user \in Users
      /\ <<user, user>> \in Permitted
  BY WaitsOn, RulesAssumption DEF Covered, Typed, HeldOnce, AnyUser
<1>1. OnConnection(c) =>
        /\ conn = "Connected" => \A k \in 1..Len(q) : Mine(q[k]) => Safe(q, k, links[n].cred, RefusalUnderWay)
        /\ \A k \in 1..Len(replies) : Heard(k)
  BY DEF Met, Current
<1>2. ASSUME conn' # "Connected", replies' = <<>> \/ (UNCHANGED replies /\ (OnConnection(c)' => OnConnection(c)))
      PROVE  Met(c)'
  <2>1. CASE replies' = <<>>
    <3>1. Len(replies') = 0
      BY <2>1
    <3> QED BY <1>2, <3>1 DEF Met
  <2>2. CASE UNCHANGED replies /\ (OnConnection(c)' => OnConnection(c))
    BY <1>2, <2>2 DEF Met, Refusal
  <2> QED BY <1>2, <2>1, <2>2
<1>3. ASSUME OnConnection(c)' => OnConnection(c), conn' = "Connected" => conn = "Connected",
             UNCHANGED replies, Len(links') = n, links'[n] = links[n]
      PROVE  Met(c)'
  BY <1>0, <1>3 DEF Met, Current, RefusalUnderWay, Refusal
<1>4. ASSUME Len(links') = n,
             conn' = "Connected" =>
               \A k \in 1..Len(r) : Mine(r[k]) => Safe(r, k, links'[n].cred, RefusalUnderWay'),
             \A k \in 1..Len(replies') :
               Mine(replies'[k].request) /\ ~replies'[k].ok => \E l \in 1..(k - 1) : Refusal(l)'
      PROVE  Met(c)'
  BY <1>0, <1>4 DEF Met, Current
<1>5. ASSUME Len(q) \in Nat, Len(r) \in Nat, Len(q) <= Len(r), \A k \in 1..Len(q) : r[k] = q[k],
             RefusalUnderWay => RefusalUnderWay', links'[n].cred = links[n].cred
      PROVE  \A k \in 1..(Len(q) + 1) :
               Safe(q, k, links[n].cred, RefusalUnderWay) => Safe(r, k, links'[n].cred, RefusalUnderWay')
  <2> SUFFICES ASSUME NEW k \in 1..(Len(q) + 1), Safe(q, k, links[n].cred, RefusalUnderWay)
               PROVE  Safe(r, k, links'[n].cred, RefusalUnderWay')
    OBVIOUS
  <2>1. /\ k \in Nat /\ k <= k /\ \A j \in 1..(k - 1) : r[j] = q[j]
        /\ \A j \in k..(k - 1) : r[j].op \notin Speaks
    BY <1>5
  <2> HIDE DEF q, r
  <2>2. /\ Word(r, Speaks, k, user) <=> Word(q, Speaks, k, user)
        /\ Silent(r, Speaks, k) <=> Silent(q, Speaks, k)
    BY <2>1, WordExtended
  <2> QED BY <1>5, <2>2
<1>6. ASSUME connected PROVE links # <<>> /\ q \in Seq(GoodRequests) /\ Len(q) \in Nat /\ n \in Nat \ {0}
  <2>1. links # <<>>
    BY <1>6 DEF connected, Typed, Live
  <2>2. q \in Seq(GoodRequests) /\ n \in Nat \ {0}
    BY <2>1, LastLink
  <2> QED BY <2>1, <2>2, LenProperties
<1>7. ASSUME connected, authToken = user
      PROVE  Safe(q, Len(q) + 1, links[n].cred, RefusalUnderWay)
  BY <1>7 DEF LastWord, Current
<1>8. ASSUME UNCHANGED outstanding PROVE OnConnection(c)' <=> OnConnection(c)
  BY <1>8 DEF OnConnection
<1>9. CASE putInternal
  <2> DEFINE d == Head(sharedQueue).client
  <2>1. /\ UNCHANGED <<conn, replies>> /\ outstanding' = Append(outstanding, d)
        /\ IF canSendWrites THEN Send(<<PutRequest(d)>>) ELSE UNCHANGED links
        /\ sharedQueue # <<>> /\ Head(sharedQueue).op = "put"
    BY <1>9 DEF putInternal, Runs
  <2>2. d \in Clients /\ 1 \in QueuedPuts /\ sharedQueue[1].client = d
    <3>1. Head(sharedQueue) = sharedQueue[1] /\ Len(sharedQueue) \in Nat \ {0}
          /\ Head(sharedQueue) \in GoodBlocks
      BY <2>1, Dropped DEF Typed
    <3> QED BY <2>1, <3>1, ClientAssumption DEF QueuedPuts, GoodBlocks, Blocks
  <2>3. OnConnection(c)' => OnConnection(c) \/ c = d
    <3>1. /\ Len(outstanding') = Len(outstanding) + 1 /\ Len(outstanding) \in Nat
          /\ \A i \in 1..Len(outstanding) : outstanding'[i] = outstanding[i]
          /\ outstanding'[Len(outstanding) + 1] = d
      BY <2>1, <2>2, Appended DEF Typed
    <3> SUFFICES ASSUME NEW i \in 1..(Len(outstanding) + 1), outstanding'[i] = c, c # d
                 PROVE  OnConnection(c)
      BY <3>1 DEF OnConnection
    <3>2. i \in 1..Len(outstanding)
      BY <3>1
    <3> QED BY <3>1, <3>2 DEF OnConnection
  <2>4. c = d =>
          /\ \A k \in 1..Len(replies) : ~Mine(replies[k].request)
          /\ connected => \A k \in 1..Len(q) : ~Mine(q[k])
          /\ conn \in Live => authToken = user
    <3> SUFFICES ASSUME c = d
                 PROVE  /\ \A k \in 1..Len(replies) : ~Mine(replies[k].request)
                        /\ connected => \A k \in 1..Len(q) : ~Mine(q[k])
                        /\ conn \in Live => authToken = user
      OBVIOUS
    <3>1. ~OnConnection(c)
      BY <2>2 DEF HeldOnce, OnQueue
    <3>2. Silent(sharedQueue, Tells, 1)
      BY DEF Silent
    <3>3. conn \in Live => authToken = user
      BY <2>2, <3>2 DEF Covered
    <3> QED BY <3>1, <3>3, PutsKnown
  <2>5. OnConnection(c)' => \A k \in 1..Len(replies) : Heard(k)
    BY <1>1, <2>3, <2>4
  <2>6. \A k \in 1..Len(replies) : Heard(k) =>
          (Mine(replies'[k].request) /\ ~replies'[k].ok => \E l \in 1..(k - 1) : Refusal(l)')
    BY <2>1 DEF Refusal
  <2>7. CASE canSendWrites
    <3> DEFINE msg == PutRequest(d)
    <3>1. msg \in GoodRequests /\ Send(<<msg>>) /\ msg.op = "put" /\ msg.client = d
          /\ connected /\ conn = "Connected" /\ conn \in Live
      BY <2>1, <2>2, <2>7, RequestTypes DEF PutRequest, canSendWrites, connected, Live
    <3> HIDE DEF msg
    <3>2. /\ Len(links') = n /\ links'[n].cred = links[n].cred
          /\ Len(q) \in Nat /\ Len(r) = Len(q) + 1
          /\ \A k \in 1..Len(q) : r[k] = q[k]
          /\ r[Len(q) + 1] = msg
      BY <1>6, <3>1, SentOne
    <3>3. RefusalUnderWay => RefusalUnderWay'
      BY <2>1 DEF RefusalUnderWay, Refusal
    <3> HIDE DEF q, r, n, Safe
    <3>4. \A k \in 1..(Len(q) + 1) :
            Safe(q, k, links[n].cred, RefusalUnderWay) => Safe(r, k, links'[n].cred, RefusalUnderWay')
      <4>1. Len(r) \in Nat /\ Len(q) <= Len(r)
        BY <3>2
      <4> QED BY <1>5, <3>2, <3>3, <4>1
    <3>5. ASSUME OnConnection(c)', NEW k \in 1..Len(r), Mine(r[k])
          PROVE  Safe(r, k, links'[n].cred, RefusalUnderWay')
      <4>1. CASE k = Len(q) + 1
        <5>1. c = d /\ authToken = user
          BY <2>4, <3>1, <3>2, <3>5, <4>1
        <5>2. Safe(q, Len(q) + 1, links[n].cred, RefusalUnderWay)
          BY <1>7, <3>1, <5>1
        <5>3. k \in 1..(Len(q) + 1)
          BY <3>2, <4>1
        <5> QED BY <3>4, <4>1, <5>2, <5>3
      <4>2. CASE k # Len(q) + 1
        <5>1. k \in 1..Len(q) /\ k \in 1..(Len(q) + 1) /\ Mine(q[k])
          BY <3>2, <3>5, <4>2
        <5>2. OnConnection(c)
          BY <2>3, <2>4, <3>1, <3>5, <5>1
        <5>3. Safe(q, k, links[n].cred, RefusalUnderWay)
          BY <1>1, <3>1, <5>1, <5>2
        <5> QED BY <3>4, <5>1, <5>3
      <4> QED BY <4>1, <4>2
    <3>6. CASE OnConnection(c)'
      <4>1. \A k \in 1..Len(replies') :
               Mine(replies'[k].request) /\ ~replies'[k].ok => \E l \in 1..(k - 1) : Refusal(l)'
        BY <2>1, <2>5, <2>6, <3>6
      <4> HIDE DEF Mine, Heard
      <4> QED BY <1>4, <3>2, <3>5, <3>6, <4>1
    <3>7. CASE ~OnConnection(c)'
      BY <3>7 DEF Met
    <3> QED BY <3>6, <3>7
  <2>8. CASE ~canSendWrites
    <3>1. conn' # "Connected" /\ UNCHANGED <<links, replies>>
      BY <2>1, <2>8 DEF canSendWrites
    <3>2. CASE OnConnection(c)'
      <4>1. \A k \in 1..Len(replies') :
               Mine(replies'[k].request) /\ ~replies'[k].ok => \E l \in 1..(k - 1) : Refusal(l)'
        BY <2>1, <2>5, <2>6, <3>2
      <4> QED BY <1>4, <3>1, <4>1
    <3>3. CASE ~OnConnection(c)'
      BY <3>3 DEF Met
    <3> QED BY <3>2, <3>3
  <2> QED BY <2>7, <2>8
<1>10. CASE refreshAuthToken
  <2> DEFINE who == Head(sharedQueue).who
             msg == IF who # NoUser THEN Auth(who, FALSE) ELSE Unauth
  <2>1. who \in AnyUser
    BY <1>10, Dropped DEF refreshAuthToken, Runs, Typed, GoodBlocks, Blocks
  <2>2. msg \in GoodRequests /\ msg.op # "put"
    BY <2>1, RequestTypes DEF Auth, Unauth
  <2>3. UNCHANGED <<conn, replies, outstanding>> /\ IF connected THEN Send(<<msg>>) ELSE UNCHANGED links
    BY <1>10 DEF refreshAuthToken
  <2> HIDE DEF msg
  <2>4. CASE ~connected
    <3>1. UNCHANGED links
      BY <2>3, <2>4
    <3> QED BY <1>3, <1>8, <2>3, <3>1
  <2>5. CASE connected
    <3>2. /\ Len(links') = n /\ links'[n].cred = links[n].cred
          /\ Len(q) \in Nat /\ Len(r) = Len(q) + 1
          /\ \A k \in 1..Len(q) : r[k] = q[k]
          /\ r[Len(q) + 1] = msg
      BY <1>6, <2>2, <2>3, <2>5, SentOne
    <3>3. RefusalUnderWay => RefusalUnderWay'
      BY <2>3 DEF RefusalUnderWay, Refusal
    <3> HIDE DEF q, r, n, Safe
    <3>4. \A k \in 1..(Len(q) + 1) :
            Safe(q, k, links[n].cred, RefusalUnderWay) => Safe(r, k, links'[n].cred, RefusalUnderWay')
      <4>1. Len(r) \in Nat /\ Len(q) <= Len(r)
        BY <3>2
      <4> QED BY <1>5, <3>2, <3>3, <4>1
    <3>5. ASSUME OnConnection(c), conn' = "Connected", NEW k \in 1..Len(r), Mine(r[k])
          PROVE  Safe(r, k, links'[n].cred, RefusalUnderWay')
      <4>1. k \in 1..Len(q) /\ k \in 1..(Len(q) + 1) /\ Mine(q[k])
        BY <2>2, <3>2, <3>5
      <4>2. Safe(q, k, links[n].cred, RefusalUnderWay)
        BY <1>1, <2>3, <3>5, <4>1
      <4> QED BY <3>4, <4>1, <4>2
    <3>6. CASE OnConnection(c)'
      <4>0. OnConnection(c)
        BY <1>8, <2>3, <3>6
      <4>1. \A k \in 1..Len(replies') :
               Mine(replies'[k].request) /\ ~replies'[k].ok => \E l \in 1..(k - 1) : Refusal(l)'
        BY <1>1, <2>3, <4>0 DEF Refusal
      <4> HIDE DEF Mine, Heard
      <4> QED BY <1>4, <3>2, <3>5, <4>0, <4>1
    <3>7. CASE ~OnConnection(c)'
      BY <3>7 DEF Met
    <3> QED BY <3>6, <3>7
  <2> QED BY <2>4, <2>5
<1>11. CASE onReady
  <2>1. conn = "Connecting" /\ UNCHANGED <<replies, outstanding, authToken>>
    BY <1>11 DEF onReady
  <2>2. CASE OnConnection(c)
    <3>1. authToken = user
      BY <2>1, <2>2 DEF Covered, Live
    <3>2. conn' = "Authenticating"
      BY <1>0, <1>11, <3>1 DEF onReady
    <3> QED BY <1>2, <1>8, <2>1, <3>2
  <2>3. CASE ~OnConnection(c)
    BY <1>8, <2>1, <2>3 DEF Met
  <2> QED BY <2>2, <2>3
<1>12. ASSUME replies # <<>>, replies' = Tail(replies), OnConnection(c)' => OnConnection(c),
              Head(replies).request.op = "put" \/ Head(replies).ok, OnConnection(c)'
       PROVE  /\ RefusalUnderWay => RefusalUnderWay'
              /\ \A k \in 1..Len(replies') :
                   Mine(replies'[k].request) /\ ~replies'[k].ok => \E l \in 1..(k - 1) : Refusal(l)'
  <2>1. RefusalUnderWay => RefusalUnderWay'
    BY <1>12, RefusalKept
  <2>2. /\ Head(replies) = replies[1] /\ Len(replies') = Len(replies) - 1 /\ Len(replies) \in Nat \ {0}
        /\ \A k \in 1..Len(replies') : replies'[k] = replies[k + 1]
    BY <1>12, Dropped DEF Typed
  <2>3. ASSUME NEW k \in 1..Len(replies'), Mine(replies'[k].request), ~replies'[k].ok
        PROVE  \E l \in 1..(k - 1) : Refusal(l)'
    <3> DEFINE s == k + 1
    <3>1. s \in 1..Len(replies) /\ replies[s] = replies'[k]
      BY <2>2
    <3>2. s = k + 1
      OBVIOUS
    <3> HIDE DEF s
    <3>3. Heard(s)
      BY <1>1, <1>12, <3>1
    <3>4. PICK l \in 1..(s - 1) : Refusal(l)
      BY <2>3, <3>1, <3>3
    <3>5. l # 1
      BY <1>12, <2>2, <3>4 DEF Refusal
    <3>6. l - 1 \in 1..(k - 1) /\ l - 1 \in 1..Len(replies') /\ (l - 1) + 1 = l
      BY <2>2, <3>2, <3>4, <3>5
    <3>7. replies'[l - 1] = replies[l]
      BY <2>2, <3>6
    <3>8. Refusal(l - 1)'
      BY <3>4, <3>7 DEF Refusal
    <3> QED BY <3>6, <3>8
  <2> QED BY <2>1, <2>3
<1>13. CASE AuthAccepted
  <2>1. /\ replies # <<>> /\ Head(replies).request.op = "auth" /\ replies' = Tail(replies)
        /\ Head(replies).ok /\ conn' = "Connected" /\ UNCHANGED <<outstanding, authToken>>
        /\ IF Head(replies).request.restore THEN restoreState ELSE UNCHANGED links
    BY <1>13 DEF AuthAccepted, Hears
  <2>2. connected
    BY <2>1 DEF OneAttempt
  <2>3. CASE ~OnConnection(c)
    BY <1>8, <2>1, <2>3 DEF Met
  <2>4. CASE OnConnection(c)
    <3>0. OnConnection(c)'
      BY <1>8, <2>1, <2>4
    <3>1. /\ RefusalUnderWay => RefusalUnderWay'
          /\ \A k \in 1..Len(replies') :
               Mine(replies'[k].request) /\ ~replies'[k].ok => \E l \in 1..(k - 1) : Refusal(l)'
      BY <1>12, <2>1, <2>4, <3>0
    <3>2. authToken = user
      BY <2>2, <2>4 DEF Covered, connected, Live
    <3>3. /\ Len(links') = n /\ links'[n].cred = links[n].cred
          /\ Len(q) \in Nat /\ Len(r) \in Nat /\ Len(q) <= Len(r)
          /\ \A k \in 1..Len(q) : r[k] = q[k]
          /\ \A k \in (Len(q) + 1)..Len(r) : r[k].op = "put"
      <4>1. CASE restoreState
        BY <1>6, <2>2, <4>1, RestoredPuts
      <4>2. CASE UNCHANGED links
        <5>1. Len(links') = n /\ links'[n].cred = links[n].cred /\ r = q /\ Len(q) \in Nat
          BY <1>6, <2>2, <4>2
        <5> HIDE DEF q, r, n
        <5> QED BY <5>1
      <4> QED BY <2>1, <4>1, <4>2
    <3>4. \A k \in 1..Len(q) : Mine(q[k]) => Safe(q, k, links[n].cred, RefusalUnderWay)
      BY <1>1, <2>2, <2>4, PutsKnown
    <3>5. Safe(q, Len(q) + 1, links[n].cred, RefusalUnderWay)
      BY <1>7, <2>2, <3>2
    <3>6. \A k \in 1..(Len(q) + 1) :
            Safe(q, k, links[n].cred, RefusalUnderWay) => Safe(r, k, links'[n].cred, RefusalUnderWay')
      BY <1>5, <3>1, <3>3
    <3> HIDE DEF q, r, n
    <3>7. ASSUME NEW k \in 1..Len(r), Mine(r[k]) PROVE Safe(r, k, links'[n].cred, RefusalUnderWay')
      <4>1. CASE k <= Len(q)
        <5>1. k \in 1..Len(q) /\ k \in 1..(Len(q) + 1) /\ Mine(q[k])
          BY <3>3, <3>7, <4>1
        <5> QED BY <3>4, <3>6, <5>1
      <4>2. CASE k > Len(q)
        <5> DEFINE m == Len(q) + 1
        <5>1. /\ m \in Nat /\ k \in Nat /\ m <= k /\ \A j \in 1..(m - 1) : r[j] = q[j]
              /\ \A j \in m..(k - 1) : r[j].op \notin Speaks
          BY <3>3, <4>2 DEF Speaks
        <5> HIDE DEF m
        <5>2. /\ Word(r, Speaks, k, user) <=> Word(q, Speaks, m, user)
              /\ Silent(r, Speaks, k) <=> Silent(q, Speaks, m)
          BY <5>1, WordExtended
        <5> QED BY <3>1, <3>3, <3>5, <5>2 DEF m
      <4> QED BY <3>3, <4>1, <4>2
    <3> HIDE DEF Safe, Mine
    <3> QED BY <1>4, <3>1, <3>3, <3>7
  <2> QED BY <2>3, <2>4
<1>14. CASE PutAnswered
  <2> DEFINE d == Head(replies).request.client
  <2>1. /\ replies # <<>> /\ Head(replies).request.op = "put" /\ replies' = Tail(replies)
        /\ UNCHANGED <<conn, links>>
        /\ IF OnConnection(d) THEN outstanding' = Without(outstanding, d) ELSE UNCHANGED outstanding
    BY <1>14 DEF PutAnswered, Hears, OnConnection
  <2>2. OnConnection(c)' => OnConnection(c)
    <3>1. CASE UNCHANGED outstanding
      BY <1>8, <3>1
    <3>2. CASE OnConnection(d) /\ outstanding' = Without(outstanding, d)
      BY <3>2, StillHeld
    <3> QED BY <2>1, <3>1, <3>2
  <2>3. CASE ~OnConnection(c)'
    BY <2>3 DEF Met
  <2>4. CASE OnConnection(c)'
    <3>1. /\ RefusalUnderWay => RefusalUnderWay'
          /\ \A k \in 1..Len(replies') :
               Mine(replies'[k].request) /\ ~replies'[k].ok => \E l \in 1..(k - 1) : Refusal(l)'
      BY <1>12, <2>1, <2>2, <2>4
    <3>2. conn' = "Connected" =>
            \A k \in 1..Len(r) : Mine(r[k]) => Safe(r, k, links'[n].cred, RefusalUnderWay')
      BY <1>1, <2>1, <2>2, <2>4, <3>1
    <3>3. Len(links') = n
      BY <2>1
    <3> HIDE DEF Safe, Mine, r, n
    <3> QED BY <1>4, <3>1, <3>2, <3>3
  <2> QED BY <2>3, <2>4
<1>15. ASSUME NEW answer \in GoodReplies, replies' = Append(replies, answer), OnConnection(c)
       PROVE  /\ RefusalUnderWay => RefusalUnderWay'
              /\ answer.request.op # "put" /\ ~answer.ok => RefusalUnderWay'
              /\ (Mine(answer.request) /\ ~answer.ok => RefusalUnderWay) =>
                   \A k \in 1..Len(replies') :
                     Mine(replies'[k].request) /\ ~replies'[k].ok => \E l \in 1..(k - 1) : Refusal(l)'
  <2>1. /\ RefusalUnderWay => RefusalUnderWay'
        /\ answer.request.op # "put" /\ ~answer.ok => RefusalUnderWay'
    BY <1>15, RefusalAdded
  <2>2. /\ Len(replies') = Len(replies) + 1 /\ Len(replies) \in Nat
        /\ \A k \in 1..Len(replies) : replies'[k] = replies[k]
        /\ replies'[Len(replies) + 1] = answer
    BY <1>15, Appended DEF Typed
  <2>3. \A l \in 1..Len(replies) : Refusal(l)' <=> Refusal(l)
    BY <2>2 DEF Refusal
  <2>4. ASSUME Mine(answer.request) /\ ~answer.ok => RefusalUnderWay, NEW k \in 1..Len(replies'),
               Mine(replies'[k].request), ~replies'[k].ok
        PROVE  \E l \in 1..(k - 1) : Refusal(l)'
    <3>1. CASE k <= Len(replies)
      <4>1. k \in 1..Len(replies) /\ replies'[k] = replies[k]
        BY <2>2, <3>1
      <4>2. Heard(k)
        BY <1>1, <1>15, <4>1
      <4>3. PICK l \in 1..(k - 1) : Refusal(l)
        BY <2>4, <4>1, <4>2
      <4>4. l \in 1..Len(replies)
        BY <2>2, <4>1
      <4> QED BY <2>3, <4>3, <4>4
    <3>2. CASE k = Len(replies) + 1
      <4>1. RefusalUnderWay
        BY <2>2, <2>4, <3>2
      <4>2. PICK l \in 1..Len(replies) : Refusal(l)
        BY <4>1 DEF RefusalUnderWay
      <4>3. l \in 1..(k - 1)
        BY <2>2, <3>2
      <4> QED BY <2>3, <4>2, <4>3
    <3> QED BY <2>2, <3>1, <3>2
  <2> QED BY <2>1, <2>4
<1>16. ASSUME NEW a \in 1..Len(links), Serve(a) PROVE Met(c)'
  <2>1. PICK cred \in AnyUser, ok \in BOOLEAN : Serving(a, cred, ok)
    BY <1>16, Served
  <2>2. UNCHANGED <<conn, outstanding>> /\ links[a].requests # <<>>
    BY <1>16 DEF Serve
  <2>3. OnConnection(c)' <=> OnConnection(c)
    BY <1>8, <2>2
  <2>4. CASE ~connected
    <3>1. UNCHANGED replies /\ conn' # "Connected"
      BY <2>1, <2>2, <2>4 DEF Serving, connected
    <3> QED BY <1>2, <2>3, <3>1
  <2>5. CASE connected /\ a # n
    <3>1. Len(links') = n /\ links'[n] = links[n] /\ UNCHANGED replies
      BY <1>6, <2>1, <2>5, TakenFromOther
    <3> QED BY <1>3, <2>2, <2>3, <3>1
  <2>6. CASE ~OnConnection(c)
    BY <2>3, <2>6 DEF Met
  <2>7. CASE connected /\ a = n /\ OnConnection(c)
    <3>1. /\ Len(links') = n /\ links'[n].cred = cred
          /\ Len(q) \in Nat \ {0} /\ Len(r) = Len(q) - 1
          /\ \A k \in 1..Len(r) : r[k] = q[k + 1]
          /\ Head(q) = q[1] /\ Head(q) \in GoodRequests
          /\ Reply(Head(q), ok) \in GoodReplies
      BY <1>6, <2>1, <2>2, <2>7, TakenFromLast
    <3>2. /\ replies' = IF q[1].op # "unauth" THEN Append(replies, Reply(q[1], ok)) ELSE replies
          /\ \/ q[1].op = "auth" /\ ((ok /\ cred = q[1].who) \/ ~ok)
             \/ q[1].op = "unauth" /\ cred = NoUser
             \/ /\ q[1].op = "put" /\ cred = links[n].cred
                /\ ~ok => <<cred, owner[q[1].client]>> \notin Permitted
      BY <2>1, <2>7, <3>1 DEF Serving, Current
    <3>3. conn = "Connected" => \A k \in 1..Len(q) : Mine(q[k]) => Safe(q, k, links[n].cred, RefusalUnderWay)
      BY <1>1, <2>7
    <3>4. Mine(q[1]) => conn = "Connected"
      BY <2>7, <3>1, PutsKnown
    <3> HIDE DEF q, r
    <3>5. Mine(q[1]) /\ q[1].op = "put" /\ ~ok => RefusalUnderWay
      <4> SUFFICES ASSUME Mine(q[1]), ~ok PROVE RefusalUnderWay
        OBVIOUS
      <4>1. Safe(q, 1, links[n].cred, RefusalUnderWay)
        BY <3>1, <3>3, <3>4
      <4>2. Silent(q, Speaks, 1)
        BY DEF Silent
      <4>3. links[n].cred # user
        BY <1>0, <3>2
      <4> QED BY <4>1, <4>2, <4>3
    <3>6. /\ RefusalUnderWay => RefusalUnderWay'
          /\ q[1].op = "auth" /\ ~ok => RefusalUnderWay'
          /\ \A k \in 1..Len(replies') :
               Mine(replies'[k].request) /\ ~replies'[k].ok => \E l \in 1..(k - 1) : Refusal(l)'
      <4>1. CASE q[1].op = "unauth"
        <5>1. UNCHANGED replies
          BY <3>2, <4>1
        <5> QED BY <1>1, <2>7, <4>1, <5>1 DEF RefusalUnderWay, Refusal
      <4>2. CASE q[1].op # "unauth"
        <5> DEFINE answer == Reply(q[1], ok)
        <5>1. /\ replies' = Append(replies, answer) /\ answer \in GoodReplies
              /\ answer.request = q[1] /\ answer.ok = ok
          BY <3>1, <3>2, <4>2 DEF Reply
        <5> HIDE DEF answer
        <5>2. /\ RefusalUnderWay => RefusalUnderWay'
              /\ answer.request.op # "put" /\ ~answer.ok => RefusalUnderWay'
              /\ (Mine(answer.request) /\ ~answer.ok => RefusalUnderWay) =>
                   \A k \in 1..Len(replies') :
                     Mine(replies'[k].request) /\ ~replies'[k].ok => \E l \in 1..(k - 1) : Refusal(l)'
          BY <1>15, <2>7, <5>1
        <5>3. Mine(answer.request) /\ ~answer.ok => RefusalUnderWay
          BY <3>5, <5>1
        <5> QED BY <5>1, <5>2, <5>3
      <4> QED BY <4>1, <4>2
    <3>7. ASSUME conn = "Connected", NEW k \in 1..Len(r), Mine(r[k])
          PROVE  Safe(r, k, cred, RefusalUnderWay')
      <4> DEFINE s == k + 1
      <4>1. /\ s \in 1..Len(q) /\ r[k] = q[s] /\ k \in Nat \ {0}
            /\ \A j \in 1..(k - 1) : r[j] = q[j + 1]
        BY <3>1, <3>7
      <4>2. s = k + 1
        OBVIOUS
      <4> HIDE DEF s
      <4>3. Safe(q, s, links[n].cred, RefusalUnderWay)
        BY <3>3, <3>7, <4>1
      <4>4. /\ Word(q, Speaks, k + 1, user) => Word(r, Speaks, k, user)
            /\ Silent(r, Speaks, k) /\ q[1].op \notin Speaks => Silent(q, Speaks, k + 1)
            /\ Silent(r, Speaks, k) /\ q[1].op \in Speaks /\ Word(q, Speaks, k + 1, user)
                 => q[1].who = user
        BY <4>1, WordTail
      <4>5. ASSUME Silent(r, Speaks, k) PROVE cred = user \/ RefusalUnderWay'
        <5>1. CASE q[1].op = "auth" /\ ok /\ cred = q[1].who
          BY <4>2, <4>3, <4>4, <4>5, <5>1 DEF Speaks
        <5>2. CASE q[1].op = "auth" /\ ~ok
          BY <3>6, <5>2
        <5>3. CASE q[1].op = "unauth" /\ cred = NoUser
          <6>1. q[1].who = NoUser
            BY <3>1, <5>3 DEF GoodRequests
          <6> QED BY <4>2, <4>3, <4>4, <4>5, <5>3, <6>1 DEF Speaks
        <5>4. CASE q[1].op = "put" /\ cred = links[n].cred
          BY <3>6, <4>2, <4>3, <4>4, <4>5, <5>4 DEF Speaks
        <5> QED BY <3>2, <5>1, <5>2, <5>3, <5>4
      <4> QED BY <4>2, <4>3, <4>4, <4>5
    <3> HIDE DEF Safe, Mine
    <3>8. conn' = "Connected" =>
            \A k \in 1..Len(r) : Mine(r[k]) => Safe(r, k, links'[n].cred, RefusalUnderWay')
      BY <2>2, <3>1, <3>7
    <3> HIDE DEF n
    <3> QED BY <1>4, <3>1, <3>6, <3>8
  <2> QED BY <2>4, <2>5, <2>6, <2>7
<1>17. CASE Revoke
  <2>1. UNCHANGED <<conn, outstanding>>
    BY <1>17 DEF Revoke
  <2>2. CASE ~OnConnection(c)
    BY <1>8, <2>1, <2>2 DEF Met
  <2>3. CASE OnConnection(c)
    <3>1. /\ Len(links') = n /\ r = q /\ Revoked \in GoodReplies
          /\ Revoked.request.op # "put" /\ ~Revoked.ok /\ replies' = Append(replies, Revoked)
      BY <1>17, RevokedLink
    <3>2. /\ RefusalUnderWay'
          /\ \A k \in 1..Len(replies') :
               Mine(replies'[k].request) /\ ~replies'[k].ok => \E l \in 1..(k - 1) : Refusal(l)'
      BY <1>15, <2>3, <3>1
    <3>3. conn' = "Connected" =>
            \A k \in 1..Len(r) : Mine(r[k]) => Safe(r, k, links'[n].cred, RefusalUnderWay')
      BY <1>1, <2>1, <2>3, <3>1, <3>2
    <3> HIDE DEF Safe, Mine, r, n
    <3> QED BY <1>4, <3>1, <3>2, <3>3
  <2> QED BY <2>2, <2>3
<1>18. CASE \/ \E who \in Users : SignIn(who)
            \/ ShowMainScreen \/ SignOut \/ ForcedSignOut \/ RenewToken
            \/ (\E d \in Clients : saveClient(d)) \/ HandOn \/ TokenFetched
            \/ UNCHANGED vars
  <2>1. UNCHANGED <<conn, replies, links, outstanding>>
    BY <1>18 DEF SignIn, ShowMainScreen, SignOut, ForcedSignOut, RenewToken, saveClient,
       HandOn, TokenFetched, vars
  <2> QED BY <1>3, <1>8, <2>1
<1>19. CASE openNetworkConnection \/ Lose \/ onKill \/ AuthLost \/ EndProcess
  BY <1>2, <1>19 DEF openNetworkConnection, Lose, onKill, AuthLost, EndProcess, onDisconnect
<1>20. CASE FetchFailed \/ RunRetry
  <2>1. UNCHANGED <<replies, outstanding>> /\ conn' # "Connected"
    BY <1>20 DEF FetchFailed, RunRetry
  <2> QED BY <1>2, <1>8, <2>1
<1> QED
  BY <1>9, <1>10, <1>11, <1>13, <1>14, <1>16, <1>17, <1>18, <1>19, <1>20 DEF Next, SharedQueue, Listen

(* A client without an excuse is not refused. *)
LEMMA NotRefusedStep ==
  Typed /\ OneAttempt /\ HeldOnce /\ Ordered /\ LastWord /\ NewsInOrder /\ NotRefused /\ [Next]_vars
    => NotRefused'
<1> SUFFICES ASSUME Typed, OneAttempt, HeldOnce, Ordered, LastWord, NewsInOrder, NotRefused, [Next]_vars
             PROVE  NotRefused'
  OBVIOUS
<1>1. ASSUME NEW c \in Clients, fate'[c] = "waiting", c \notin excused'
      PROVE  Covered(c)' /\ Met(c)'
  <2>1. c \notin excused /\ (fate[c] = "waiting" \/ saveClient(c))
    BY <1>1, WaitsOn
  <2>2. CASE fate[c] = "waiting"
    <3>1. Covered(c) /\ Met(c)
      BY <2>1, <2>2 DEF NotRefused
    <3> QED BY <1>1, <2>2, <3>1, CoveredStep, MetStep
  <2>3. CASE saveClient(c)
    BY <1>1, <2>3, CoveredNew DEF Met
  <2> QED BY <2>1, <2>2, <2>3
<1>2. ASSUME NEW c \in Clients, fate'[c] = "refused" PROVE c \in excused'
  <2>1. excused \subseteq excused'
    BY DEF Next, SharedQueue, Listen, SignIn, ShowMainScreen, SignOut, ForcedSignOut, RenewToken,
       saveClient, HandOn, putInternal, refreshAuthToken, openNetworkConnection, FetchFailed, RunRetry,
       TokenFetched, onReady, Lose, onKill, Serve, Revoke, AuthAccepted, AuthLost, PutAnswered,
       EndProcess, Excuse, vars, history
  <2>2. CASE fate[c] = "refused"
    BY <2>1, <2>2 DEF NotRefused, RefusalsExplained
  <2>3. CASE fate[c] # "refused"
    <3> DEFINE answer == Head(replies)
    <3>1. PutAnswered
      BY <1>2, <2>3 DEF Next, SharedQueue, Listen, SignIn, ShowMainScreen, SignOut, ForcedSignOut,
         RenewToken, saveClient, HandOn, putInternal, refreshAuthToken, openNetworkConnection,
         FetchFailed, RunRetry, TokenFetched, onReady, Lose, onKill, Serve, Revoke, AuthAccepted,
         AuthLost, EndProcess, vars, history, Typed
    <3>2. /\ replies # <<>> /\ answer.request.op = "put" /\ answer.request.client = c /\ ~answer.ok
          /\ OnConnection(c)
      BY <1>2, <2>3, <3>1 DEF PutAnswered, Hears, Typed, OnConnection
    <3>3. answer = replies[1] /\ Len(replies) \in Nat \ {0}
      BY <3>2, Dropped DEF Typed
    <3>4. ~Met(c)
      <4>1. 1 \in 1..Len(replies) /\ 1..(1 - 1) = {}
        BY <3>3
      <4> QED BY <3>2, <3>3, <4>1 DEF Met
    <3>5. fate[c] = "waiting"
      BY <3>2 DEF HeldOnce
    <3> QED BY <2>1, <3>4, <3>5 DEF NotRefused
  <2> QED BY <2>2, <2>3
<1> QED BY <1>1, <1>2 DEF NotRefused, RefusalsExplained

(* A client is refused only if its owner's session did not last from the   *)
(* save to the answer, or if a token out of date took the place of the     *)
(* owner's: however connections are lost, tokens refused, revoked, renewed *)
(* or late, and whatever the rules of the database grant to others.        *)
THEOREM RefusalsAlwaysExplained == Spec => []RefusalsExplained
<1>1. Init => NotRefused /\ NewsInOrder
  BY DEF Init, NotRefused, RefusalsExplained, NewsInOrder, Arrived, Word, Silent, AllOf, Live
<1>2. Spec => []OneAttempt
  BY OneAttemptInit, OneAttemptStep, TypedAlways, PTL DEF Spec
<1>3. Spec => []NewsInOrder
  BY <1>1, <1>2, NewsInOrderStep, TypedAlways, PTL DEF Spec
<1>4. Spec => []NotRefused
  BY <1>1, <1>2, <1>3, NotRefusedStep, TypedAlways, HeldOnceAlways, OrderedAlways, LastWordAlways,
     PTL DEF Spec
<1>5. NotRefused => RefusalsExplained
  BY DEF NotRefused
<1> QED BY <1>4, <1>5, PTL
=============================================================================
