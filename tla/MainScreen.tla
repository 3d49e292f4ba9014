------------------------------ MODULE MainScreen ------------------------------
(***************************************************************************)
(* The buttons and the alerts of one MainViewController, and the answers   *)
(* to its saves.                                                           *)
(*                                                                         *)
(* A tap on the save button runs to its end at once, but what disables the *)
(* buttons is a block on the main queue, what enables them is a timer, and *)
(* the answer of the database comes through two more blocks.  Blocks and   *)
(* timers keep the view controller alive and run after it has left the     *)
(* navigation stack as well.                                               *)
(*                                                                         *)
(* What the fields hold is a member of Clients when it would pass the      *)
(* validation, which ClientForm models, and NoClient when it would not.    *)
(***************************************************************************)
EXTENDS Naturals, Sequences

CONSTANTS
  Clients,   \* the clients a person enters, each of them once
  NoClient,  \* a form that is blank or does not pass the validation
  MaxQueue,  \* bound: the person does nothing while more blocks wait
  MaxTimers  \* bound: taps on save within the second of a timer

ASSUME ClientAssumption == NoClient \notin Clients
ASSUME BoundAssumption == MaxQueue \in Nat \ {0} /\ MaxTimers \in Nat \ {0}

VARIABLES
  inStack,    \* the view controller is in the navigation stack
  form,       \* what the text fields hold
  buttons,    \* isEnabled of the save button and of the close button
  alert,      \* the alert on the screen
  mainQueue,  \* blocks dispatched with DispatchQueue.main.async
  timers,     \* timers of stopLoading that are not due yet
  writes,     \* clients handed to setValue and not answered
  saved,      \* history: the clients handed to setValue, in order
  stored,     \* history: the clients the database has accepted
  told,       \* history: outcomes the person was shown
  lost        \* history: outcomes whose alert was refused

screen == <<inStack, form, buttons, alert>>
history == <<saved, stored, told, lost>>
vars == <<screen, mainQueue, timers, writes, history>>

Outcomes == [client : Clients, ok : BOOLEAN]

NoAlert == "none"

(* Blocks of the main queue *)
Simple(op)         == [op |-> op, client |-> NoClient, ok |-> TRUE]
Carry(op, outcome) == [op |-> op, client |-> outcome.client, ok |-> outcome.ok]
OutcomeOf(block)   == [client |-> block.client, ok |-> block.ok]

(* The head of the queue is a block of this kind, and runs. *)
Runs(op) == mainQueue # <<>> /\ Head(mainQueue).op = op

-----------------------------------------------------------------------------
Init ==
  /\ inStack = TRUE
  /\ form = NoClient
  /\ buttons = TRUE
  /\ alert = NoAlert
  /\ mainQueue = <<>>
  /\ timers = 0
  /\ writes = {}
  /\ saved = <<>>
  /\ stored = {}
  /\ told = {}
  /\ lost = {}

(* The person can reach the screen; an alert takes every touch. *)
Touchable == inStack /\ alert = NoAlert /\ Len(mainQueue) < MaxQueue

Entered == {saved[i] : i \in 1..Len(saved)}

(* The person edits the form, into a new client or into nothing valid. *)
Edit(client) ==
  /\ Touchable
  /\ client \notin Entered
  /\ form' = client
  /\ UNCHANGED <<inStack, buttons, alert, mainQueue, timers, writes, history>>

(* startLoading disables the buttons in a block. *)
startLoading == mainQueue' = Append(mainQueue, Simple("disable"))

(* Fault: the buttons are enabled at once, before startLoading's block. *)
StopLoadingAtOnce ==
  /\ buttons' = TRUE
  /\ UNCHANGED timers

(* stopLoading enables them a second later. *)
stopLoading ==
  /\ timers' = timers + 1
  /\ UNCHANGED buttons

(* Fault: the form is left as it is until the answer comes. *)
KeepData == UNCHANGED form

clearData == form' = NoClient

(* checkValidationErrors with errors: the alert, and the loader stops. *)
RejectForm ==
  /\ form = NoClient
  /\ alert' = "errors"
  /\ UNCHANGED <<form, writes, saved>>

(* Fault: the form is saved whether or not it has errors. *)
AcceptAnyForm ==
  /\ writes' = writes \cup {form}
  /\ saved' = Append(saved, form)
  /\ clearData
  /\ UNCHANGED alert

(* ... and without: saveUser, clearData.  The user has an id: what         *)
(* LoginSession pushes is a user of Auth.                                  *)
AcceptForm ==
  /\ form # NoClient
  /\ writes' = writes \cup {form}
  /\ saved' = Append(saved, form)
  /\ clearData
  /\ UNCHANGED alert

saveButtonTapped ==
  /\ Touchable /\ buttons /\ timers < MaxTimers
  /\ startLoading
  /\ RejectForm \/ AcceptForm
  /\ stopLoading
  /\ UNCHANGED <<inStack, stored, told, lost>>

(* A timer is due: its block joins the main queue. *)
TimerDue ==
  /\ timers > 0
  /\ timers' = timers - 1
  /\ mainQueue' = Append(mainQueue, Simple("enable"))
  /\ UNCHANGED <<screen, writes, history>>

RunDisable ==
  /\ Runs("disable")
  /\ buttons' = FALSE
  /\ mainQueue' = Tail(mainQueue)
  /\ UNCHANGED <<inStack, form, alert, timers, writes, history>>

RunEnable ==
  /\ Runs("enable")
  /\ buttons' = TRUE
  /\ mainQueue' = Tail(mainQueue)
  /\ UNCHANGED <<inStack, form, alert, timers, writes, history>>

-----------------------------------------------------------------------------
(* The answers to saves *)

(* The database accepts or rejects a write, in any order, or never, and    *)
(* raises its callback on the main queue.                                  *)
DatabaseAnswers(client, ok) ==
  /\ client \in writes
  /\ writes' = writes \ {client}
  /\ stored' = IF ok THEN stored \cup {client} ELSE stored
  /\ mainQueue' = Append(mainQueue,
                         Carry("answer", [client |-> client, ok |-> ok]))
  /\ UNCHANGED <<screen, timers, saved, told, lost>>

(* Fault: errors are not passed on. *)
AnswerSuccessOnly ==
  /\ Runs("answer")
  /\ mainQueue' = IF Head(mainQueue).ok
                  THEN Append(Tail(mainQueue),
                              Carry("outcome", OutcomeOf(Head(mainQueue))))
                  ELSE Tail(mainQueue)
  /\ UNCHANGED <<screen, timers, writes, history>>

(* The callback of saveClient dispatches the completion once more. *)
RunAnswer ==
  /\ Runs("answer")
  /\ mainQueue' = Append(Tail(mainQueue),
                         Carry("outcome", OutcomeOf(Head(mainQueue))))
  /\ UNCHANGED <<screen, timers, writes, history>>

(* The completion of saveUser presents "Error" or "Success"; an alert is   *)
(* refused over another one and by a screen that has left.                 *)
RunOutcome ==
  /\ Runs("outcome")
  /\ mainQueue' = Tail(mainQueue)
  /\ LET outcome == OutcomeOf(Head(mainQueue))
     IN  IF inStack /\ alert = NoAlert
         THEN /\ alert' = IF outcome.ok THEN "success" ELSE "error"
              /\ told' = told \cup {outcome}
              /\ UNCHANGED lost
         ELSE /\ lost' = lost \cup {outcome}
              /\ UNCHANGED <<alert, told>>
  /\ UNCHANGED <<inStack, form, buttons, timers, writes, saved, stored>>

-----------------------------------------------------------------------------
(* Leaving *)

(* MainViewController.logOut: the close button *)
logOut ==
  /\ Touchable /\ buttons
  /\ alert' = "confirm"
  /\ UNCHANGED <<inStack, form, buttons, mainQueue, timers, writes, history>>

(* OK on a message, Cancel on the confirmation *)
AlertDismissed ==
  /\ alert # NoAlert
  /\ alert' = NoAlert
  /\ UNCHANGED <<inStack, form, buttons, mainQueue, timers, writes, history>>

(* OK on the confirmation; the sign outs are LoginSession's. *)
LogOutConfirmed ==
  /\ alert = "confirm"
  /\ alert' = NoAlert
  /\ mainQueue' = Append(mainQueue, Simple("pop"))
  /\ UNCHANGED <<inStack, form, buttons, timers, writes, history>>

RunPop ==
  /\ Runs("pop")
  /\ mainQueue' = Tail(mainQueue)
  /\ inStack' = FALSE
  /\ UNCHANGED <<form, buttons, alert, timers, writes, history>>

-----------------------------------------------------------------------------
RunMainQueue == RunDisable \/ RunEnable \/ RunAnswer \/ RunOutcome \/ RunPop

Next ==
  \/ \E client \in Clients \cup {NoClient} : Edit(client)
  \/ saveButtonTapped
  \/ TimerDue
  \/ RunMainQueue
  \/ \E client \in Clients, ok \in BOOLEAN : DatabaseAnswers(client, ok)
  \/ logOut
  \/ AlertDismissed
  \/ LogOutConfirmed

(* The main queue and its timers run.  The database and people owe nothing: *)
(* without a connection no answer ever comes.                               *)
Fairness == WF_vars(RunMainQueue) /\ WF_vars(TimerDue)

Spec == Init /\ [][Next]_vars /\ Fairness

-----------------------------------------------------------------------------
Block == [op : {"disable", "enable", "answer", "outcome", "pop"},
          client : Clients \cup {NoClient}, ok : BOOLEAN]

(* The type of the state: an outcome always names a client. *)
TypeOK ==
  /\ inStack \in BOOLEAN
  /\ form \in Clients \cup {NoClient}
  /\ buttons \in BOOLEAN
  /\ alert \in {NoAlert, "errors", "success", "error", "confirm"}
  /\ mainQueue \in Seq(Block)
  /\ timers \in Nat
  /\ writes \subseteq Clients
  /\ saved \in Seq(Clients)
  /\ stored \subseteq Clients
  /\ told \subseteq Outcomes
  /\ lost \subseteq Outcomes

(* No client is handed to the database twice, however often the button is  *)
(* tapped before the block of startLoading runs or after that of an        *)
(* earlier stopLoading: the form is cleared within the tap.                *)
SavedOnce == \A i, j \in 1..Len(saved) : saved[i] = saved[j] => i = j

(* The last word on the buttons is "enable": it is a timer that still runs, *)
(* or a block with no "disable" behind it, or it has been said.  So it is   *)
(* whatever the order in which the blocks of startLoading and the timers of *)
(* stopLoading of several taps run.                                         *)
ButtonsOnTheirWay ==
  LET op(i) == mainQueue[i].op
  IN  \/ timers > 0
      \/ \E i \in 1..Len(mainQueue) :
           /\ op(i) = "enable"
           /\ \A j \in (i + 1)..Len(mainQueue) : op(j) # "disable"
      \/ /\ buttons
         /\ \A i \in 1..Len(mainQueue) : op(i) # "disable"

(* The outcomes on their way in a queue *)
OutcomesIn(queue) ==
  {OutcomeOf(queue[i]) :
     i \in {k \in 1..Len(queue) : queue[k].op \in {"answer", "outcome"}}}

Answered == OutcomesIn(mainQueue) \cup told \cup lost

(* Every save is unanswered, or has one outcome, the database's, which is  *)
(* on its way, was shown or was refused; none is dropped between the       *)
(* callback of setValue and the alert (saveClient, saveUser).              *)
OutcomeAccountedFor ==
  \A client \in Entered \ writes :
    \E outcome \in Answered :
      /\ outcome.client = client
      /\ outcome.ok <=> client \in stored
      /\ \A other \in Answered : other.client = client => other = outcome

(* The buttons come back after every save (stopLoading). *)
ButtonsComeBack == ~buttons ~> buttons
=============================================================================
