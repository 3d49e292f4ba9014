--------------------------- MODULE MainScreenProofs ---------------------------
(***************************************************************************)
(* Theorems about MainScreen, for every set of clients and every bound.    *)
(***************************************************************************)
EXTENDS MainScreen, TLAPS

(* A form that would be saved has not been saved before. *)
FreshForm == form # NoClient => form \notin Entered

(* What is written and not answered, what was answered, and what the       *)
(* database stored fit together.                                           *)
AnswerInv ==
  /\ writes \subseteq Entered
  /\ stored \subseteq Entered \ writes
  /\ Answered \subseteq Outcomes
  /\ \A outcome \in Answered :
       /\ outcome.client \in Entered \ writes
       /\ outcome.ok <=> outcome.client \in stored
  /\ \A client \in Entered \ writes :
       \E outcome \in Answered : outcome.client = client

(* The inductive invariant of the main screen *)
ScreenInv ==
  /\ TypeOK
  /\ SavedOnce
  /\ FreshForm
  /\ ButtonsOnTheirWay
  /\ AnswerInv

-----------------------------------------------------------------------------
(* The main queue *)

(* The outcome a block reports, if it does *)
Reported(block) ==
  IF block.op \in {"answer", "outcome"} THEN {OutcomeOf(block)} ELSE {}

(* A block appended to the queue adds what it reports. *)
LEMMA OutcomesAppend ==
  ASSUME NEW queue \in Seq(Block), NEW block \in Block
  PROVE  OutcomesIn(Append(queue, block)) = OutcomesIn(queue) \cup Reported(block)
<1> DEFINE longer == Append(queue, block)
<1>1. /\ Len(longer) = Len(queue) + 1
      /\ longer[Len(queue) + 1] = block
      /\ \A i \in 1..Len(queue) : longer[i] = queue[i]
  OBVIOUS
<1>2. Len(queue) \in Nat
  OBVIOUS
<1>3. ASSUME NEW outcome \in OutcomesIn(longer)
      PROVE  outcome \in OutcomesIn(queue) \cup Reported(block)
  <2> HIDE DEF longer
  <2>1. PICK i \in 1..Len(longer) :
          longer[i].op \in {"answer", "outcome"} /\ outcome = OutcomeOf(longer[i])
    BY <1>3 DEF OutcomesIn
  <2>2. i \in 1..Len(queue) \/ i = Len(queue) + 1
    BY <1>1, <1>2
  <2> QED
    BY <1>1, <2>1, <2>2 DEF OutcomesIn, Reported
<1>4. ASSUME NEW outcome \in OutcomesIn(queue) \cup Reported(block)
      PROVE  outcome \in OutcomesIn(longer)
  <2> HIDE DEF longer
  <2>1. CASE outcome \in OutcomesIn(queue)
    <3>1. PICK i \in 1..Len(queue) :
            queue[i].op \in {"answer", "outcome"} /\ outcome = OutcomeOf(queue[i])
      BY <2>1 DEF OutcomesIn
    <3>2. i \in 1..Len(longer) /\ longer[i] = queue[i]
      BY <1>1, <1>2
    <3> QED
      BY <3>1, <3>2 DEF OutcomesIn
  <2>2. CASE outcome \in Reported(block)
    <3>1. /\ Len(queue) + 1 \in 1..Len(longer)
          /\ longer[Len(queue) + 1].op \in {"answer", "outcome"}
          /\ outcome = OutcomeOf(longer[Len(queue) + 1])
      BY <1>1, <1>2, <2>2 DEF Reported
    <3> QED
      BY <3>1 DEF OutcomesIn
  <2> QED
    BY <1>4, <2>1, <2>2
<1> QED
  BY <1>3, <1>4

(* A block taken from the queue leaves the outcomes of the others. *)
LEMMA OutcomesTail ==
  ASSUME NEW queue \in Seq(Block), queue # <<>>
  PROVE  OutcomesIn(queue) = Reported(Head(queue)) \cup OutcomesIn(Tail(queue))
<1> DEFINE rest == Tail(queue)
<1>1. /\ Len(queue) \in Nat \ {0}
      /\ Len(rest) = Len(queue) - 1
      /\ Head(queue) = queue[1]
      /\ \A i \in 1..Len(rest) : rest[i] = queue[i + 1]
  OBVIOUS
<1>2. ASSUME NEW outcome \in OutcomesIn(queue)
      PROVE  outcome \in Reported(Head(queue)) \cup OutcomesIn(rest)
  <2> HIDE DEF rest
  <2>1. PICK i \in 1..Len(queue) :
          queue[i].op \in {"answer", "outcome"} /\ outcome = OutcomeOf(queue[i])
    BY <1>2 DEF OutcomesIn
  <2>2. CASE i = 1
    BY <1>1, <2>1, <2>2 DEF Reported
  <2>3. CASE i # 1
    <3>1. i - 1 \in 1..Len(rest) /\ rest[i - 1] = queue[i]
      BY <1>1, <2>3
    <3> QED
      BY <2>1, <3>1 DEF OutcomesIn
  <2> QED
    BY <2>2, <2>3
<1>3. ASSUME NEW outcome \in Reported(Head(queue)) \cup OutcomesIn(rest)
      PROVE  outcome \in OutcomesIn(queue)
  <2> HIDE DEF rest
  <2>1. CASE outcome \in Reported(Head(queue))
    <3>1. /\ 1 \in 1..Len(queue)
          /\ queue[1].op \in {"answer", "outcome"}
          /\ outcome = OutcomeOf(queue[1])
      BY <1>1, <2>1 DEF Reported
    <3> QED
      BY <3>1 DEF OutcomesIn
  <2>2. CASE outcome \in OutcomesIn(rest)
    <3>1. PICK i \in 1..Len(rest) :
            rest[i].op \in {"answer", "outcome"} /\ outcome = OutcomeOf(rest[i])
      BY <2>2 DEF OutcomesIn
    <3>2. i + 1 \in 1..Len(queue) /\ queue[i + 1] = rest[i]
      BY <1>1
    <3> QED
      BY <3>1, <3>2 DEF OutcomesIn
  <2> QED
    BY <1>3, <2>1, <2>2
<1> QED
  BY <1>2, <1>3

(* Blocks of both shapes are blocks. *)
LEMMA BlockTypes ==
  /\ \A op \in {"disable", "enable", "pop"} : Simple(op) \in Block
  /\ \A op \in {"answer", "outcome"}, outcome \in Outcomes :
       /\ Carry(op, outcome) \in Block
       /\ OutcomeOf(Carry(op, outcome)) = outcome
BY DEF Simple, Carry, Block, Outcomes, OutcomeOf

(* A block that is not "disable" may join the queue. *)
LEMMA ButtonsAppend ==
  ASSUME NEW block \in Block, block.op # "disable",
         mainQueue \in Seq(Block), ButtonsOnTheirWay,
         mainQueue' = Append(mainQueue, block),
         UNCHANGED <<buttons, timers>>
  PROVE  ButtonsOnTheirWay'
<1>1. /\ Len(mainQueue) \in Nat
      /\ Len(mainQueue') = Len(mainQueue) + 1
      /\ mainQueue'[Len(mainQueue) + 1] = block
      /\ \A i \in 1..Len(mainQueue) : mainQueue'[i] = mainQueue[i]
  OBVIOUS
<1>2. CASE timers > 0
  BY <1>2 DEF ButtonsOnTheirWay
<1>3. CASE \E i \in 1..Len(mainQueue) :
             /\ mainQueue[i].op = "enable"
             /\ \A j \in (i + 1)..Len(mainQueue) : mainQueue[j].op # "disable"
  <2>1. PICK i \in 1..Len(mainQueue) :
             /\ mainQueue[i].op = "enable"
             /\ \A j \in (i + 1)..Len(mainQueue) : mainQueue[j].op # "disable"
    BY <1>3
  <2>2. ASSUME NEW j \in (i + 1)..Len(mainQueue')
        PROVE  mainQueue'[j].op # "disable"
    <3>1. j \in (i + 1)..Len(mainQueue) \/ j = Len(mainQueue) + 1
      BY <1>1
    <3> QED
      BY <1>1, <2>1, <3>1
  <2>3. i \in 1..Len(mainQueue') /\ mainQueue'[i].op = "enable"
    BY <1>1, <2>1
  <2> QED
    BY <2>2, <2>3 DEF ButtonsOnTheirWay
<1>4. CASE buttons /\ \A i \in 1..Len(mainQueue) : mainQueue[i].op # "disable"
  <2>1. ASSUME NEW i \in 1..Len(mainQueue')
        PROVE  mainQueue'[i].op # "disable"
    <3>1. i \in 1..Len(mainQueue) \/ i = Len(mainQueue) + 1
      BY <1>1
    <3> QED
      BY <1>1, <1>4, <3>1
  <2> QED
    BY <1>4, <2>1 DEF ButtonsOnTheirWay
<1> QED
  BY <1>2, <1>3, <1>4 DEF ButtonsOnTheirWay

(* The head of the queue may run, if what it does to the buttons is what   *)
(* it says.                                                                *)
LEMMA ButtonsTail ==
  ASSUME mainQueue \in Seq(Block), mainQueue # <<>>, ButtonsOnTheirWay,
         mainQueue' = Tail(mainQueue),
         buttons' = CASE Head(mainQueue).op = "disable" -> FALSE
                      [] Head(mainQueue).op = "enable" -> TRUE
                      [] OTHER -> buttons,
         UNCHANGED timers
  PROVE  ButtonsOnTheirWay'
<1>1. /\ Len(mainQueue) \in Nat \ {0}
      /\ Len(mainQueue') = Len(mainQueue) - 1
      /\ Head(mainQueue) = mainQueue[1]
      /\ \A i \in 1..Len(mainQueue') : mainQueue'[i] = mainQueue[i + 1]
  OBVIOUS
<1>2. CASE timers > 0
  BY <1>2 DEF ButtonsOnTheirWay
<1>3. CASE \E i \in 1..Len(mainQueue) :
             /\ mainQueue[i].op = "enable"
             /\ \A j \in (i + 1)..Len(mainQueue) : mainQueue[j].op # "disable"
  <2>1. PICK i \in 1..Len(mainQueue) :
             /\ mainQueue[i].op = "enable"
             /\ \A j \in (i + 1)..Len(mainQueue) : mainQueue[j].op # "disable"
    BY <1>3
  <2>2. ASSUME NEW j \in i..Len(mainQueue')
        PROVE  mainQueue'[j].op # "disable"
    <3>1. j + 1 \in (i + 1)..Len(mainQueue) /\ j \in 1..Len(mainQueue')
      BY <1>1
    <3> QED
      BY <1>1, <2>1, <3>1
  <2>3. CASE i = 1
    <3>1. buttons' = TRUE
      BY <1>1, <2>1, <2>3
    <3> QED
      BY <2>2, <2>3, <3>1 DEF ButtonsOnTheirWay
  <2>4. CASE i # 1
    <3>1. i - 1 \in 1..Len(mainQueue') /\ mainQueue'[i - 1].op = "enable"
      BY <1>1, <2>1, <2>4
    <3>2. \A j \in ((i - 1) + 1)..Len(mainQueue') : mainQueue'[j].op # "disable"
      BY <2>2
    <3> QED
      BY <3>1, <3>2 DEF ButtonsOnTheirWay
  <2> QED
    BY <2>3, <2>4
<1>4. CASE buttons /\ \A i \in 1..Len(mainQueue) : mainQueue[i].op # "disable"
  <2>1. \A i \in 1..Len(mainQueue') : mainQueue'[i].op # "disable"
    BY <1>1, <1>4
  <2>2. Head(mainQueue).op # "disable"
    BY <1>1, <1>4
  <2>3. buttons'
    BY <1>4, <2>2
  <2> QED
    BY <2>1, <2>3 DEF ButtonsOnTheirWay
<1> QED
  BY <1>2, <1>3, <1>4 DEF ButtonsOnTheirWay

(* An index is the last one or an earlier one. *)
LEMMA LastOrEarlier ==
  \A n, j \in Nat : 1 <= j /\ j <= n => j = n \/ j \in 1..(n - 1)
OBVIOUS

(* The head of the queue may be replaced by a block at its end, if neither *)
(* touches the buttons.                                                    *)
LEMMA ButtonsRotate ==
  ASSUME mainQueue \in Seq(Block), mainQueue # <<>>, ButtonsOnTheirWay,
         Head(mainQueue).op = "answer",
         NEW block \in Block, block.op = "outcome",
         mainQueue' = Append(Tail(mainQueue), block),
         UNCHANGED <<buttons, timers>>
  PROVE  ButtonsOnTheirWay'
<1>1. /\ Len(mainQueue) \in Nat \ {0}
      /\ Len(mainQueue') = Len(mainQueue)
      /\ mainQueue[1].op = "answer"
      /\ mainQueue'[Len(mainQueue)] = block
      /\ \A i \in 1..(Len(mainQueue) - 1) : mainQueue'[i] = mainQueue[i + 1]
  OBVIOUS
<1>2. CASE timers > 0
  BY <1>2 DEF ButtonsOnTheirWay
<1>3. CASE \E i \in 1..Len(mainQueue) :
             /\ mainQueue[i].op = "enable"
             /\ \A j \in (i + 1)..Len(mainQueue) : mainQueue[j].op # "disable"
  <2>1. PICK i \in 1..Len(mainQueue) :
             /\ mainQueue[i].op = "enable"
             /\ \A j \in (i + 1)..Len(mainQueue) : mainQueue[j].op # "disable"
    BY <1>3
  <2>2. i - 1 \in 1..Len(mainQueue') /\ mainQueue'[i - 1].op = "enable"
    <3>1. i # 1
      BY <1>1, <2>1
    <3> QED
      BY <1>1, <2>1, <3>1
  <2>3. ASSUME NEW j \in ((i - 1) + 1)..Len(mainQueue')
        PROVE  mainQueue'[j].op # "disable"
    <3>0. j \in Nat /\ i <= j /\ j <= Len(mainQueue) /\ 1 <= j
      BY <1>1
    <3>1. j = Len(mainQueue) \/ j \in 1..(Len(mainQueue) - 1)
      BY <1>1, <3>0, LastOrEarlier
    <3>2. CASE j \in 1..(Len(mainQueue) - 1)
      <4>1. j + 1 \in (i + 1)..Len(mainQueue)
        BY <1>1, <3>0, <3>2
      <4> QED
        BY <1>1, <2>1, <3>2, <4>1
    <3> QED
      BY <1>1, <3>1, <3>2
  <2> QED
    BY <2>2, <2>3 DEF ButtonsOnTheirWay
<1>4. CASE buttons /\ \A i \in 1..Len(mainQueue) : mainQueue[i].op # "disable"
  <2>1. ASSUME NEW j \in 1..Len(mainQueue')
        PROVE  mainQueue'[j].op # "disable"
    <3>0. j \in Nat /\ 1 <= j /\ j <= Len(mainQueue)
      BY <1>1
    <3>1. j = Len(mainQueue) \/ j \in 1..(Len(mainQueue) - 1)
      BY <1>1, <3>0, LastOrEarlier
    <3>2. CASE j \in 1..(Len(mainQueue) - 1)
      <4>1. j + 1 \in 1..Len(mainQueue)
        BY <1>1, <3>2
      <4> QED
        BY <1>1, <1>4, <3>2, <4>1
    <3> QED
      BY <1>1, <3>1, <3>2
  <2> QED
    BY <1>4, <2>1 DEF ButtonsOnTheirWay
<1> QED
  BY <1>2, <1>3, <1>4 DEF ButtonsOnTheirWay

(* A step that moves outcomes without losing one keeps AnswerInv. *)
LEMMA AnswersKept ==
  ASSUME AnswerInv, Answered' = Answered, UNCHANGED <<writes, saved, stored>>
  PROVE  AnswerInv'
BY DEF AnswerInv, Entered

-----------------------------------------------------------------------------
(* One lemma per action *)

(* An edit changes the form only, and not into a client already saved. *)
LEMMA EditKeeps ==
  ASSUME ScreenInv, NEW client \in Clients \cup {NoClient}, Edit(client)
  PROVE  ScreenInv'
<1> USE DEF ScreenInv, Edit, screen, history
<1>1. TypeOK'
  BY DEF TypeOK
<1>2. FreshForm'
  BY DEF FreshForm, Entered
<1>3. SavedOnce' /\ ButtonsOnTheirWay'
  BY DEF SavedOnce, ButtonsOnTheirWay
<1>4. Answered' = Answered
  BY DEF Answered
<1> QED
  BY <1>1, <1>2, <1>3, <1>4, AnswersKept

(* What is entered after a save *)
LEMMA EnteredAppend ==
  ASSUME saved \in Seq(Clients), NEW client \in Clients,
         saved' = Append(saved, client)
  PROVE  Entered' = Entered \cup {client}
<1>1. /\ Len(saved) \in Nat
      /\ Len(saved') = Len(saved) + 1
      /\ saved'[Len(saved) + 1] = client
      /\ \A i \in 1..Len(saved) : saved'[i] = saved[i]
  OBVIOUS
<1>2. 1..Len(saved') = (1..Len(saved)) \cup {Len(saved) + 1}
  BY <1>1
<1>3. ASSUME NEW c \in Entered'
      PROVE  c \in Entered \cup {client}
  <2>1. PICK i \in 1..Len(saved') : c = saved'[i]
    BY <1>3 DEF Entered
  <2> QED
    BY <1>1, <1>2, <2>1 DEF Entered
<1>4. ASSUME NEW c \in Entered
      PROVE  c \in Entered'
  <2>1. PICK i \in 1..Len(saved) : c = saved[i]
    BY <1>4 DEF Entered
  <2>2. i \in 1..Len(saved') /\ c = saved'[i]
    BY <1>1, <1>2, <2>1
  <2> QED
    BY <2>2 DEF Entered
<1>5. client \in Entered'
  <2>1. Len(saved) + 1 \in 1..Len(saved')
    BY <1>1
  <2> QED
    BY <1>1, <2>1 DEF Entered
<1> QED
  BY <1>3, <1>4, <1>5

(* A tap starts a timer, so the buttons come back, and blanks the form     *)
(* within the same handler, so nothing is saved twice.                     *)
LEMMA SaveKeeps ==
  ASSUME ScreenInv, saveButtonTapped
  PROVE  ScreenInv'
<1> USE DEF ScreenInv
<1>1. /\ mainQueue \in Seq(Block)
      /\ mainQueue' = Append(mainQueue, Simple("disable"))
      /\ Simple("disable") \in Block
      /\ timers \in Nat /\ timers' = timers + 1
      /\ UNCHANGED <<inStack, buttons, stored, told, lost>>
  BY BlockTypes DEF TypeOK, saveButtonTapped, startLoading, stopLoading
<1>2. ButtonsOnTheirWay'
  <2>1. timers' > 0
    BY <1>1
  <2> QED
    BY <2>1 DEF ButtonsOnTheirWay
<1>3. Answered' = Answered
  <2>1. Reported(Simple("disable")) = {}
    BY DEF Reported, Simple
  <2>2. OutcomesIn(mainQueue') = OutcomesIn(mainQueue)
    BY <1>1, <2>1, OutcomesAppend
  <2> QED
    BY <1>1, <2>2 DEF Answered
<1>4. CASE RejectForm
  <2>1. TypeOK'
    BY <1>1, <1>4 DEF TypeOK, RejectForm
  <2>2. SavedOnce' /\ FreshForm'
    BY <1>4 DEF SavedOnce, FreshForm, RejectForm, Entered
  <2>3. AnswerInv'
    BY <1>1, <1>3, <1>4, AnswersKept DEF RejectForm
  <2> QED
    BY <1>2, <2>1, <2>2, <2>3
<1>5. CASE AcceptForm
  <2>1. /\ form \in Clients /\ form \notin Entered
        /\ saved \in Seq(Clients) /\ saved' = Append(saved, form)
        /\ writes' = writes \cup {form}
        /\ form' = NoClient /\ alert' = alert
    BY <1>5 DEF AcceptForm, clearData, TypeOK, FreshForm
  <2>2. Entered' = Entered \cup {form}
    BY <2>1, EnteredAppend
  <2>3. TypeOK'
    BY <1>1, <2>1 DEF TypeOK
  <2>4. SavedOnce'
    <3>1. /\ Len(saved) \in Nat
          /\ Len(saved') = Len(saved) + 1
          /\ saved'[Len(saved) + 1] = form
          /\ \A i \in 1..Len(saved) : saved'[i] = saved[i] /\ saved'[i] # form
      BY <2>1 DEF Entered
    <3>2. \A i \in 1..Len(saved') : i \in 1..Len(saved) \/ i = Len(saved) + 1
      BY <3>1
    <3> QED
      BY <3>1, <3>2 DEF SavedOnce
  <2>5. FreshForm'
    BY <2>1 DEF FreshForm
  <2>6. AnswerInv'
    <3>1. Entered' \ writes' = Entered \ writes
      BY <2>1, <2>2 DEF AnswerInv
    <3> QED
      BY <1>1, <1>3, <2>1, <2>2, <3>1 DEF AnswerInv
  <2> QED
    BY <1>2, <2>3, <2>4, <2>5, <2>6
<1> QED
  BY <1>4, <1>5 DEF saveButtonTapped

(* A block that reports nothing and does not disable joins the queue. *)
LEMMA QueueKeeps ==
  ASSUME ScreenInv, NEW block \in Block, block.op \in {"enable", "pop"},
         mainQueue' = Append(mainQueue, block), TypeOK',
         ButtonsOnTheirWay', UNCHANGED <<form, writes, history>>
  PROVE  ScreenInv'
<1> USE DEF ScreenInv, history
<1>1. SavedOnce' /\ FreshForm'
  BY DEF SavedOnce, FreshForm, Entered
<1>2. Reported(block) = {} /\ mainQueue \in Seq(Block)
  BY DEF Reported, TypeOK
<1>3. Answered' = Answered
  BY <1>2, OutcomesAppend DEF Answered
<1> QED
  BY <1>1, <1>3, AnswersKept

(* A timer's block joins the queue behind every "disable". *)
LEMMA TimerKeeps ==
  ASSUME ScreenInv, TimerDue
  PROVE  ScreenInv'
<1>1. /\ Simple("enable") \in Block
      /\ Simple("enable").op = "enable"
  BY BlockTypes DEF Simple
<1>2. TypeOK'
  BY <1>1 DEF ScreenInv, TypeOK, TimerDue, screen, history
<1>3. ButtonsOnTheirWay'
  <2>1. /\ mainQueue \in Seq(Block)
        /\ mainQueue' = Append(mainQueue, Simple("enable"))
    BY DEF ScreenInv, TypeOK, TimerDue
  <2>2. /\ Len(mainQueue') \in 1..Len(mainQueue')
        /\ mainQueue'[Len(mainQueue')].op = "enable"
    BY <1>1, <2>1
  <2>3. \A j \in (Len(mainQueue') + 1)..Len(mainQueue') : FALSE
    BY <2>2
  <2> QED
    BY <2>2, <2>3 DEF ButtonsOnTheirWay
<1> QED
  BY <1>1, <1>2, <1>3, QueueKeeps DEF TimerDue, screen

(* A confirmed log out adds its pop. *)
LEMMA LogOutKeeps ==
  ASSUME ScreenInv, LogOutConfirmed
  PROVE  ScreenInv'
<1>1. /\ Simple("pop") \in Block
      /\ Simple("pop").op = "pop"
  BY BlockTypes DEF Simple
<1>2. TypeOK'
  BY <1>1 DEF ScreenInv, TypeOK, LogOutConfirmed, history, NoAlert
<1>3. ButtonsOnTheirWay'
  BY <1>1, ButtonsAppend DEF ScreenInv, TypeOK, LogOutConfirmed
<1> QED
  BY <1>1, <1>2, <1>3, QueueKeeps DEF LogOutConfirmed

(* A step that only shows or removes an alert, or none at all *)
LEMMA AlertKeeps ==
  ASSUME ScreenInv, TypeOK',
         UNCHANGED <<inStack, form, buttons, mainQueue, timers, writes, history>>
  PROVE  ScreenInv'
<1> USE DEF ScreenInv, history
<1>1. SavedOnce' /\ FreshForm' /\ ButtonsOnTheirWay'
  BY DEF SavedOnce, FreshForm, Entered, ButtonsOnTheirWay
<1>2. Answered' = Answered
  BY DEF Answered
<1> QED
  BY <1>1, <1>2, AnswersKept

(* The blocks without an outcome *)
LEMMA RunKeeps ==
  ASSUME ScreenInv, RunDisable \/ RunEnable \/ RunPop
  PROVE  ScreenInv'
<1> USE DEF ScreenInv, history, Runs, RunDisable, RunEnable, RunPop
<1>1. /\ mainQueue \in Seq(Block) /\ mainQueue # <<>>
      /\ mainQueue' = Tail(mainQueue)
      /\ UNCHANGED <<form, timers, writes, saved, stored, told, lost>>
  BY DEF TypeOK
<1>2. TypeOK'
  <2>1. mainQueue' \in Seq(Block)
    BY <1>1
  <2> QED
    BY <1>1, <2>1 DEF TypeOK
<1>3. ButtonsOnTheirWay'
  <2>1. buttons' = CASE Head(mainQueue).op = "disable" -> FALSE
                     [] Head(mainQueue).op = "enable" -> TRUE
                     [] OTHER -> buttons
    OBVIOUS
  <2> QED
    BY <1>1, <2>1, ButtonsTail
<1>4. SavedOnce' /\ FreshForm'
  BY <1>1 DEF SavedOnce, FreshForm, Entered
<1>5. Answered' = Answered
  <2>1. Reported(Head(mainQueue)) = {}
    BY DEF Reported
  <2> QED
    BY <1>1, <2>1, OutcomesTail DEF Answered
<1> QED
  BY <1>1, <1>2, <1>3, <1>4, <1>5, AnswersKept

(* An outcome at the head of the queue names a client. *)
LEMMA HeadOutcome ==
  ASSUME ScreenInv, mainQueue # <<>>,
         Head(mainQueue).op \in {"answer", "outcome"}
  PROVE  /\ OutcomeOf(Head(mainQueue)) \in Outcomes
         /\ Reported(Head(mainQueue)) = {OutcomeOf(Head(mainQueue))}
         /\ OutcomesIn(mainQueue) =
              {OutcomeOf(Head(mainQueue))} \cup OutcomesIn(Tail(mainQueue))
<1>1. mainQueue \in Seq(Block)
  BY DEF ScreenInv, TypeOK
<1>2. Reported(Head(mainQueue)) = {OutcomeOf(Head(mainQueue))}
  BY DEF Reported
<1>3. OutcomesIn(mainQueue) =
        {OutcomeOf(Head(mainQueue))} \cup OutcomesIn(Tail(mainQueue))
  BY <1>1, <1>2, OutcomesTail
<1>4. OutcomeOf(Head(mainQueue)) \in Outcomes
  BY <1>3 DEF ScreenInv, AnswerInv, Answered
<1> QED
  BY <1>2, <1>3, <1>4

(* The database answers a write that waits. *)
LEMMA DatabaseKeeps ==
  ASSUME ScreenInv, NEW client \in Clients, NEW ok \in BOOLEAN,
         DatabaseAnswers(client, ok)
  PROVE  ScreenInv'
<1> DEFINE outcome == [client |-> client, ok |-> ok]
           block == Carry("answer", outcome)
<1>1. outcome \in Outcomes
  BY DEF Outcomes
<1>2. block \in Block /\ OutcomeOf(block) = outcome /\ block.op = "answer"
  BY <1>1, BlockTypes DEF Carry
<1>3. /\ outcome.client = client
      /\ outcome.ok = ok
  OBVIOUS
<1>4. /\ client \in writes
      /\ writes' = writes \ {client}
      /\ stored' = IF ok THEN stored \cup {client} ELSE stored
      /\ mainQueue' = Append(mainQueue, block)
      /\ UNCHANGED <<inStack, form, buttons, alert, timers, saved, told, lost>>
  BY DEF DatabaseAnswers, screen
<1> HIDE DEF block, outcome
<1>5. mainQueue \in Seq(Block)
  BY DEF ScreenInv, TypeOK
<1>6. TypeOK'
  <2>1. mainQueue' \in Seq(Block)
    BY <1>2, <1>4, <1>5
  <2>2. writes' \subseteq Clients /\ stored' \subseteq Clients
    BY <1>4 DEF ScreenInv, TypeOK
  <2> QED
    BY <1>4, <2>1, <2>2 DEF ScreenInv, TypeOK
<1>7. SavedOnce' /\ FreshForm' /\ Entered' = Entered
  BY <1>4 DEF ScreenInv, SavedOnce, FreshForm, Entered
<1>8. ButtonsOnTheirWay'
  BY <1>2, <1>4, <1>5, ButtonsAppend DEF ScreenInv
<1>9. Answered' = Answered \cup {outcome}
  <2>1. Reported(block) = {outcome}
    BY <1>2 DEF Reported
  <2>2. OutcomesIn(mainQueue') = OutcomesIn(mainQueue) \cup {outcome}
    BY <1>2, <1>4, <1>5, <2>1, OutcomesAppend
  <2> QED
    BY <1>4, <2>2 DEF Answered
<1>10. AnswerInv'
  <2>1. AnswerInv
    BY DEF ScreenInv
  <2>2. Entered' \ writes' = (Entered \ writes) \cup {client}
    BY <1>4, <1>7, <2>1 DEF AnswerInv
  <2>3. writes' \subseteq Entered' /\ stored' \subseteq Entered' \ writes'
    BY <1>4, <1>7, <2>1 DEF AnswerInv
  <2>4. Answered' \subseteq Outcomes
    BY <1>1, <1>9, <2>1 DEF AnswerInv
  <2>5. ASSUME NEW o \in Answered'
        PROVE  o.client \in Entered' \ writes' /\ (o.ok <=> o.client \in stored')
    <3>1. CASE o = outcome
      <4>1. client \notin stored
        BY <1>4, <2>1 DEF AnswerInv
      <4> QED
        BY <1>3, <1>4, <2>2, <3>1, <4>1
    <3>2. CASE o \in Answered
      <4>1. o.client # client
        BY <1>4, <2>1, <3>2 DEF AnswerInv
      <4> QED
        BY <1>4, <2>1, <2>2, <3>2, <4>1 DEF AnswerInv
    <3> QED
      BY <1>9, <3>1, <3>2
  <2>6. ASSUME NEW c \in Entered' \ writes'
        PROVE  \E o \in Answered' : o.client = c
    BY <1>3, <1>9, <2>1, <2>2 DEF AnswerInv
  <2> QED
    BY <2>3, <2>4, <2>5, <2>6 DEF AnswerInv
<1> QED
  BY <1>6, <1>7, <1>8, <1>10 DEF ScreenInv

(* The second dispatch moves the outcome to the end of the queue. *)
LEMMA AnswerKeeps ==
  ASSUME ScreenInv, RunAnswer
  PROVE  ScreenInv'
<1> DEFINE outcome == OutcomeOf(Head(mainQueue))
           block == Carry("outcome", outcome)
<1>1. /\ mainQueue \in Seq(Block) /\ mainQueue # <<>>
      /\ Head(mainQueue).op = "answer"
      /\ mainQueue' = Append(Tail(mainQueue), block)
      /\ UNCHANGED <<inStack, form, buttons, alert, timers, writes,
                     saved, stored, told, lost>>
  BY DEF ScreenInv, TypeOK, RunAnswer, Runs, screen, history
<1>2. /\ outcome \in Outcomes
      /\ OutcomesIn(mainQueue) = {outcome} \cup OutcomesIn(Tail(mainQueue))
  BY <1>1, HeadOutcome
<1>3. block \in Block /\ OutcomeOf(block) = outcome /\ block.op = "outcome"
  BY <1>2, BlockTypes DEF Carry
<1>4. Reported(block) = {outcome}
  BY <1>3 DEF Reported
<1> HIDE DEF block, outcome
<1>5. Tail(mainQueue) \in Seq(Block)
  BY <1>1
<1>6. TypeOK'
  <2>1. mainQueue' \in Seq(Block)
    BY <1>1, <1>3, <1>5
  <2> QED
    BY <1>1, <2>1 DEF ScreenInv, TypeOK
<1>7. SavedOnce' /\ FreshForm'
  BY <1>1 DEF ScreenInv, SavedOnce, FreshForm, Entered
<1>8. Answered' = Answered
  <2>1. OutcomesIn(mainQueue') = OutcomesIn(mainQueue)
    BY <1>1, <1>2, <1>3, <1>4, <1>5, OutcomesAppend
  <2> QED
    BY <1>1, <2>1 DEF Answered
<1>9. ButtonsOnTheirWay'
  BY <1>1, <1>3, ButtonsRotate DEF ScreenInv
<1> QED
  BY <1>1, <1>6, <1>7, <1>8, <1>9, AnswersKept DEF ScreenInv

(* An outcome that has reached the screen is shown or refused. *)
LEMMA OutcomeKeeps ==
  ASSUME ScreenInv, RunOutcome
  PROVE  ScreenInv'
<1> DEFINE outcome == OutcomeOf(Head(mainQueue))
<1>1. /\ mainQueue \in Seq(Block) /\ mainQueue # <<>>
      /\ Head(mainQueue).op = "outcome"
      /\ mainQueue' = Tail(mainQueue)
      /\ alert' \in {alert, "success", "error"}
      /\ told' \cup lost' = told \cup lost \cup {outcome}
      /\ told' \subseteq told \cup {outcome}
      /\ lost' \subseteq lost \cup {outcome}
      /\ UNCHANGED <<inStack, form, buttons, timers, writes, saved, stored>>
  BY DEF ScreenInv, TypeOK, RunOutcome, Runs
<1>2. /\ outcome \in Outcomes
      /\ OutcomesIn(mainQueue) = {outcome} \cup OutcomesIn(mainQueue')
  BY <1>1, HeadOutcome
<1> HIDE DEF outcome
<1>3. TypeOK'
  <2>1. mainQueue' \in Seq(Block)
    BY <1>1
  <2>2. told' \subseteq Outcomes /\ lost' \subseteq Outcomes
    BY <1>1, <1>2 DEF ScreenInv, TypeOK
  <2> QED
    BY <1>1, <2>1, <2>2 DEF ScreenInv, TypeOK
<1>4. SavedOnce' /\ FreshForm'
  BY <1>1 DEF ScreenInv, SavedOnce, FreshForm, Entered
<1>5. ButtonsOnTheirWay'
  <2>1. buttons' = CASE Head(mainQueue).op = "disable" -> FALSE
                     [] Head(mainQueue).op = "enable" -> TRUE
                     [] OTHER -> buttons
    BY <1>1
  <2> QED
    BY <1>1, <2>1, ButtonsTail DEF ScreenInv
<1>6. Answered' = Answered
  BY <1>1, <1>2 DEF Answered
<1> QED
  BY <1>1, <1>3, <1>4, <1>5, <1>6, AnswersKept DEF ScreenInv

-----------------------------------------------------------------------------
(* Theorems *)

(* ScreenInv holds in every state of the main screen. *)
THEOREM ScreenInvariant == Spec => []ScreenInv
<1>1. Init => ScreenInv
  <2> SUFFICES ASSUME Init PROVE ScreenInv
    OBVIOUS
  <2>1. TypeOK
    BY DEF Init, TypeOK
  <2>2. SavedOnce /\ FreshForm /\ ButtonsOnTheirWay
    BY DEF Init, SavedOnce, FreshForm, ButtonsOnTheirWay
  <2>3. Answered = {} /\ Entered = {}
    BY DEF Init, Answered, OutcomesIn, Entered
  <2>4. AnswerInv
    BY <2>3 DEF Init, AnswerInv
  <2> QED
    BY <2>1, <2>2, <2>4 DEF ScreenInv
<1>2. ScreenInv /\ [Next]_vars => ScreenInv'
  <2> SUFFICES ASSUME ScreenInv, [Next]_vars PROVE ScreenInv'
    OBVIOUS
  <2>1. ASSUME NEW client \in Clients \cup {NoClient}, Edit(client)
        PROVE  ScreenInv'
    BY <2>1, EditKeeps
  <2>2. CASE saveButtonTapped
    BY <2>2, SaveKeeps
  <2>3. CASE TimerDue
    BY <2>3, TimerKeeps
  <2>4. CASE RunDisable \/ RunEnable \/ RunPop
    BY <2>4, RunKeeps
  <2>5. CASE RunAnswer
    BY <2>5, AnswerKeeps
  <2>6. CASE RunOutcome
    BY <2>6, OutcomeKeeps
  <2>7. ASSUME NEW client \in Clients, NEW ok \in BOOLEAN,
               DatabaseAnswers(client, ok)
        PROVE  ScreenInv'
    BY <2>7, DatabaseKeeps
  <2>8. CASE logOut
    <3>1. TypeOK'
      BY <2>8 DEF ScreenInv, TypeOK, logOut, history
    <3> QED
      BY <2>8, <3>1, AlertKeeps DEF logOut
  <2>9. CASE AlertDismissed
    <3>1. TypeOK'
      BY <2>9 DEF ScreenInv, TypeOK, AlertDismissed, history
    <3> QED
      BY <2>9, <3>1, AlertKeeps DEF AlertDismissed
  <2>10. CASE LogOutConfirmed
    BY <2>10, LogOutKeeps
  <2>11. CASE UNCHANGED vars
    <3>1. TypeOK'
      BY <2>11 DEF ScreenInv, TypeOK, vars, screen, history
    <3> QED
      BY <2>11, <3>1, AlertKeeps DEF vars, screen
  <2> QED
    BY <2>1, <2>2, <2>3, <2>4, <2>5, <2>6, <2>7, <2>8, <2>9, <2>10, <2>11
    DEF Next, RunMainQueue
<1> QED
  BY <1>1, <1>2, PTL DEF Spec

(* The state of the main screen is typed; a form that does not pass the    *)
(* validation is never handed to the database (checkValidationErrors).     *)
THEOREM ScreenTypeCorrect == Spec => []TypeOK
<1>1. ScreenInv => TypeOK
  BY DEF ScreenInv
<1> QED
  BY <1>1, ScreenInvariant, PTL

(* However the taps fall before the block of startLoading and after that   *)
(* of an earlier stopLoading, no client is saved twice.                    *)
THEOREM NeverSavedTwice == Spec => []SavedOnce
<1>1. ScreenInv => SavedOnce
  BY DEF ScreenInv
<1> QED
  BY <1>1, ScreenInvariant, PTL

(* The last word on the buttons is always the "enable" of a stopLoading.   *)
THEOREM LastWordIsEnable == Spec => []ButtonsOnTheirWay
<1>1. ScreenInv => ButtonsOnTheirWay
  BY DEF ScreenInv
<1> QED
  BY <1>1, ScreenInvariant, PTL

(* No outcome is dropped between the callback of setValue and the alert,   *)
(* and none contradicts what the database did.                             *)
THEOREM NoOutcomeDropped == Spec => []OutcomeAccountedFor
<1>1. ScreenInv => OutcomeAccountedFor
  <2> SUFFICES ASSUME ScreenInv, NEW client \in Entered \ writes
               PROVE  \E outcome \in Answered :
                        /\ outcome.client = client
                        /\ outcome.ok <=> client \in stored
                        /\ \A other \in Answered :
                             other.client = client => other = outcome
    BY DEF OutcomeAccountedFor
  <2>1. AnswerInv
    BY DEF ScreenInv
  <2>2. PICK outcome \in Answered : outcome.client = client
    BY <2>1 DEF AnswerInv
  <2>3. outcome.ok <=> client \in stored
    BY <2>1, <2>2 DEF AnswerInv
  <2>4. ASSUME NEW other \in Answered, other.client = client
        PROVE  other = outcome
    <3>1. other.ok <=> client \in stored
      BY <2>1, <2>4 DEF AnswerInv
    <3>2. other \in Outcomes /\ outcome \in Outcomes
      BY <2>1, <2>2 DEF AnswerInv
    <3>3. other.ok = outcome.ok
      BY <2>3, <3>1, <3>2 DEF Outcomes
    <3> QED
      BY <2>2, <2>4, <3>2, <3>3 DEF Outcomes
  <2> QED
    BY <2>2, <2>3, <2>4
<1> QED
  BY <1>1, ScreenInvariant, PTL
=============================================================================
