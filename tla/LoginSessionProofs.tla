-------------------------- MODULE LoginSessionProofs --------------------------
(***************************************************************************)
(* The safety of LoginSession, for any set of accounts and any length of   *)
(* the main queue.  What has to be strengthened is how the screens, the    *)
(* attempt, the timer and the main queue exclude one another.              *)
(***************************************************************************)
EXTENDS LoginSession, SequenceTheorems, TLAPS

(* The timer runs on an untouched login screen, for Auth's current user. *)
TimerInv ==
  autoLogin # NoUser =>
    /\ nav = <<>> /\ isInitialView
    /\ alert = NoAlert
    /\ request = Idle
    /\ mainQueue = <<>>
    /\ ~facebookButton.enabled
    /\ currentUser = autoLogin

(* An attempt has the login screen to itself, its button disabled. *)
AttemptInv ==
  /\ request.phase = "idle" => request = Idle
  /\ request.phase \in {"reauth", "signIn"} => request.user \in Users
  /\ request # Idle =>
       /\ nav = <<>>
       /\ alert = NoAlert
       /\ autoLogin = NoUser
       /\ ~facebookButton.enabled /\ ~facebookButton.hidden

(* Over the main screen there is no alert but its own confirmation. *)
AlertInv ==
  /\ nav # <<>> => ~isInitialView
  /\ nav # <<>> => alert = NoAlert \/ (alert.kind = "confirm" /\ alert.depth = 1)
  /\ alert.depth <= Len(nav)
  /\ alert.kind = "none" => alert = NoAlert

(* The main queue holds pops and, last, at most one answer, whose user is  *)
(* still Auth's unless the token was found invalid since.                  *)
EntryInv(i) ==
  /\ mainQueue[i].depth <= Len(nav)
  /\ mainQueue[i].op # "pop" =>
       i = Len(mainQueue) /\ request.phase = "answered"
  /\ mainQueue[i].op = "signedIn" =>
       /\ mainQueue[i].user \in Users
       /\ currentUser = mainQueue[i].user \/ (currentUser = NoUser /\ revoked)

QueueInv == \A i \in 1..Len(mainQueue) : EntryInv(i)

(* The button is lost only to a failed attempt. *)
ButtonInv ==
  nav = <<>> /\ request = Idle /\ autoLogin = NoUser /\ ~failed =>
    facebookButton = [enabled |-> TRUE, hidden |-> FALSE]

(* Between processes nothing is left but what is stored. *)
StoppedInv ==
  ~running =>
    /\ nav = <<>> /\ isInitialView /\ alert = NoAlert /\ request = Idle
    /\ mainQueue = <<>> /\ autoLogin = NoUser /\ currentUser = NoUser

SessionInv ==
  /\ TypeOK
  /\ OneMainScreen
  /\ ScreenMatchesSession
  /\ TimerInv
  /\ AttemptInv
  /\ AlertInv
  /\ QueueInv
  /\ ButtonInv
  /\ StoppedInv

(* While the keychain works, Auth and its stored copy agree, and a session *)
(* that was closed is stored nowhere.                                      *)
StoredInv ==
  /\ running => currentUser = keychainUser
  /\ closed => keychainUser = NoUser

-----------------------------------------------------------------------------
(* One lemma per action of Next *)

(* A start finds nothing but what is stored.                                *)
LEMMA LaunchKeeps ==
  ASSUME SessionInv, NEW ok \in Keychain, Launch(ok)
  PROVE  SessionInv'
<1>1. TypeOK'
  BY DEF SessionInv, TypeOK, Maybe, Phases, Block, Launch, setupView, history
<1>2. /\ nav = <<>> /\ isInitialView /\ alert = NoAlert /\ request = Idle
      /\ mainQueue = <<>> /\ autoLogin = NoUser
      /\ UNCHANGED <<nav, isInitialView, alert, request, mainQueue>>
      /\ autoLogin' = currentUser'
      /\ facebookButton' = [enabled |-> currentUser' = NoUser,
                            hidden  |-> currentUser' # NoUser]
  BY DEF SessionInv, StoppedInv, Launch, setupView
<1>3. OneMainScreen' /\ ScreenMatchesSession' /\ AlertInv' /\ QueueInv'
  BY <1>2 DEF OneMainScreen, ScreenMatchesSession, AlertInv, NoAlert, QueueInv
<1>4. TimerInv' /\ ButtonInv'
  BY <1>2 DEF TimerInv, ButtonInv
<1>5. AttemptInv' /\ StoppedInv'
  BY <1>2 DEF AttemptInv, StoppedInv, Idle, Attempt, Launch
<1> QED BY <1>1, <1>3, <1>4, <1>5 DEF SessionInv

(* The end of the process leaves a blank state.                             *)
LEMMA KillKeeps ==
  ASSUME SessionInv, Kill
  PROVE  SessionInv'
<1>1. nav' \in Seq(Users) /\ mainQueue' \in Seq(Block)
  BY DEF Kill
<1>2. alert' \in [kind : {"none", "error", "errorLogOut", "confirm"}, depth : Nat]
  BY DEF Kill, NoAlert
<1>3. request' \in [phase : Phases, user : Maybe(Users), current : Maybe(Users)]
  BY DEF Kill, Idle, Attempt, Phases, Maybe
<1>4. facebookButton' \in [enabled : BOOLEAN, hidden : BOOLEAN]
  BY DEF Kill
<1>5. TypeOK'
  BY <1>1, <1>2, <1>3, <1>4 DEF SessionInv, TypeOK, Kill, Maybe
<1>6. OneMainScreen' /\ ScreenMatchesSession' /\ TimerInv' /\ AttemptInv'
      /\ AlertInv' /\ QueueInv' /\ ButtonInv' /\ StoppedInv'
  BY DEF SessionInv, OneMainScreen, ScreenMatchesSession, PopPending,
      TimerInv, NoAlert, Idle, Attempt, AttemptInv, AlertInv, QueueInv,
      EntryInv, ButtonInv, StoppedInv, Kill
<1> QED BY <1>5, <1>6 DEF SessionInv

(* The timer fires on an untouched login screen and pushes Auth's user.     *)
LEMMA AutoLoginFiresKeeps ==
  ASSUME SessionInv, AutoLoginFires
  PROVE  SessionInv'
<1>1. /\ autoLogin \in Users /\ nav = <<>> /\ currentUser = autoLogin
      /\ alert = NoAlert /\ request = Idle /\ mainQueue = <<>>
  BY DEF SessionInv, TypeOK, TimerInv, AutoLoginFires, Maybe
<1>2. /\ nav' = Append(nav, autoLogin)
      /\ isInitialView' = FALSE
      /\ facebookButton' = [facebookButton EXCEPT !.enabled = TRUE]
  BY DEF AutoLoginFires, goToMain, stopLoading
<1>3. nav' \in Seq(Users) /\ Len(nav') = 1 /\ nav'[1] = autoLogin
  BY <1>1, <1>2
<1>4. facebookButton' \in [enabled : BOOLEAN, hidden : BOOLEAN]
  BY <1>2 DEF SessionInv, TypeOK
<1>5. TypeOK'
  BY <1>2, <1>3, <1>4 DEF SessionInv, TypeOK, AutoLoginFires, auth, history, Maybe
<1>6. ScreenMatchesSession'
  BY <1>1, <1>3 DEF ScreenMatchesSession, Last, AutoLoginFires, auth
<1>7. ButtonInv'
  BY <1>3 DEF ButtonInv
<1>8. OneMainScreen' /\ AlertInv' /\ QueueInv'
  BY <1>1, <1>2, <1>3
  DEF OneMainScreen, AlertInv, NoAlert, QueueInv, AutoLoginFires
<1>9. TimerInv' /\ AttemptInv' /\ StoppedInv'
  BY <1>1 DEF TimerInv, AttemptInv, StoppedInv, Idle, Attempt, AutoLoginFires
<1> QED BY <1>5, <1>6, <1>7, <1>8, <1>9 DEF SessionInv

(* A tap finds no attempt and no timer, for each disables the button.       *)
LEMMA facebookTappedKeeps ==
  ASSUME SessionInv, facebookTapped
  PROVE  SessionInv'
<1>1. TypeOK'
  BY DEF SessionInv, TypeOK, Maybe, Phases, Block, facebookTapped, NoAlert,
      startLoading, Attempt, auth, history
<1>2. OneMainScreen' /\ ScreenMatchesSession' /\ TimerInv' /\ AlertInv'
      /\ ButtonInv' /\ StoppedInv'
  BY DEF SessionInv, OneMainScreen, ScreenMatchesSession, PopPending,
      TimerInv, NoAlert, Idle, Attempt, AlertInv, ButtonInv, StoppedInv,
      facebookTapped, startLoading, auth, history
<1>3. AttemptInv'
  BY DEF SessionInv, AttemptInv, Idle, Attempt, NoAlert, facebookTapped,
      startLoading, auth, history, TimerInv
<1>4. QueueInv'
  BY DEF SessionInv, QueueInv, EntryInv, facebookTapped, NoAlert,
      startLoading, Attempt, auth, history, AttemptInv, Idle
<1> QED BY <1>1, <1>2, <1>3, <1>4 DEF SessionInv

(* A cancelled dialog gives the button back.                                *)
LEMMA DialogCancelledKeeps ==
  ASSUME SessionInv, DialogCancelled
  PROVE  SessionInv'
<1>1. facebookButton \in [enabled : BOOLEAN, hidden : BOOLEAN]
  BY DEF SessionInv, TypeOK
<1>2. ~facebookButton.hidden
  BY DEF SessionInv, DialogCancelled, AttemptInv, Idle, Attempt
<1>3. facebookButton' = [enabled |-> TRUE, hidden |-> FALSE]
  BY <1>1, <1>2 DEF DialogCancelled, stopLoading
<1>4. ButtonInv'
  BY <1>3 DEF ButtonInv
<1>5. TypeOK'
  BY DEF SessionInv, TypeOK, Maybe, Phases, Block, DialogCancelled, Idle,
      Attempt, stopLoading, auth, history
<1>6. OneMainScreen' /\ ScreenMatchesSession' /\ TimerInv' /\ AttemptInv'
      /\ AlertInv' /\ QueueInv' /\ StoppedInv'
  BY DEF SessionInv, OneMainScreen, ScreenMatchesSession, PopPending,
      TimerInv, NoAlert, Idle, Attempt, AttemptInv, AlertInv, QueueInv,
      EntryInv, StoppedInv, DialogCancelled, stopLoading, auth, history
<1> QED BY <1>4, <1>5, <1>6 DEF SessionInv

(* An alert is shown over the login screen, which the attempt had to        *)
(* itself.                                                                  *)
LEMMA DialogFailedKeeps ==
  ASSUME SessionInv, DialogFailed
  PROVE  SessionInv'
<1>1. TypeOK'
  BY DEF SessionInv, TypeOK, Maybe, Phases, Block, DialogFailed, LoginFailed,
      Idle, Attempt, present, NoAlert, auth
<1>2. OneMainScreen' /\ ScreenMatchesSession' /\ TimerInv' /\ AttemptInv'
      /\ QueueInv' /\ ButtonInv' /\ StoppedInv'
  BY DEF SessionInv, OneMainScreen, ScreenMatchesSession, PopPending,
      TimerInv, NoAlert, Idle, Attempt, AttemptInv, QueueInv, EntryInv,
      ButtonInv, StoppedInv, DialogFailed, LoginFailed, present, auth
<1>3. AlertInv'
  BY DEF SessionInv, AlertInv, NoAlert, DialogFailed, LoginFailed, Idle,
      Attempt, present, auth, AttemptInv
<1> QED BY <1>1, <1>2, <1>3 DEF SessionInv

(* The same, without a log out.                                             *)
LEMMA DialogGivesNoTokenKeeps ==
  ASSUME SessionInv, DialogGivesNoToken
  PROVE  SessionInv'
<1>1. TypeOK'
  BY DEF SessionInv, TypeOK, Maybe, Phases, Block, DialogGivesNoToken, Idle,
      Attempt, present, NoAlert, auth
<1>2. OneMainScreen' /\ ScreenMatchesSession' /\ TimerInv' /\ AttemptInv'
      /\ QueueInv' /\ ButtonInv' /\ StoppedInv'
  BY DEF SessionInv, OneMainScreen, ScreenMatchesSession, PopPending,
      TimerInv, NoAlert, Idle, Attempt, AttemptInv, QueueInv, EntryInv,
      ButtonInv, StoppedInv, DialogGivesNoToken, present, auth
<1>3. AlertInv'
  BY DEF SessionInv, AlertInv, NoAlert, DialogGivesNoToken, Idle, Attempt,
      present, auth, AttemptInv
<1> QED BY <1>1, <1>2, <1>3 DEF SessionInv

(* The attempt goes on.                                                     *)
LEMMA DialogGivesTokenKeeps ==
  ASSUME SessionInv, NEW user \in Users, DialogGivesToken(user)
  PROVE  SessionInv'
<1>1. TypeOK'
  BY DEF SessionInv, TypeOK, Maybe, Phases, Block, DialogGivesToken,
      tryloginWithFacebook, Attempt, view, auth, history
<1>2. OneMainScreen' /\ ScreenMatchesSession' /\ TimerInv' /\ AttemptInv'
      /\ AlertInv' /\ QueueInv' /\ ButtonInv' /\ StoppedInv'
  BY DEF SessionInv, OneMainScreen, ScreenMatchesSession, PopPending,
      TimerInv, NoAlert, Idle, Attempt, AttemptInv, AlertInv, QueueInv,
      EntryInv, ButtonInv, StoppedInv, DialogGivesToken, tryloginWithFacebook,
      view, auth, history
<1> QED BY <1>1, <1>2 DEF SessionInv

(* The attempt goes on.                                                     *)
LEMMA ReauthMatchesKeeps ==
  ASSUME SessionInv, ReauthMatches
  PROVE  SessionInv'
<1>1. TypeOK'
  BY DEF SessionInv, TypeOK, Maybe, Phases, Block, ReauthMatches,
      tryloginWithFacebook, Attempt, view, auth, history
<1>2. OneMainScreen' /\ ScreenMatchesSession' /\ TimerInv' /\ AttemptInv'
      /\ AlertInv' /\ QueueInv' /\ ButtonInv' /\ StoppedInv'
  BY DEF SessionInv, OneMainScreen, ScreenMatchesSession, PopPending,
      TimerInv, NoAlert, Idle, Attempt, AttemptInv, AlertInv, QueueInv,
      EntryInv, ButtonInv, StoppedInv, ReauthMatches, tryloginWithFacebook,
      view, auth, history
<1> QED BY <1>1, <1>2 DEF SessionInv

(* The attempt ends in an alert.                                            *)
LEMMA ReauthFailsKeeps ==
  ASSUME SessionInv, ReauthFails
  PROVE  SessionInv'
<1>1. TypeOK'
  BY DEF SessionInv, TypeOK, Maybe, Phases, Block, ReauthFails, LoginFailed,
      Idle, Attempt, present, NoAlert, auth
<1>2. OneMainScreen' /\ ScreenMatchesSession' /\ TimerInv' /\ AttemptInv'
      /\ QueueInv' /\ ButtonInv' /\ StoppedInv'
  BY DEF SessionInv, OneMainScreen, ScreenMatchesSession, PopPending,
      TimerInv, NoAlert, Idle, Attempt, AttemptInv, QueueInv, EntryInv,
      ButtonInv, StoppedInv, ReauthFails, LoginFailed, present, auth
<1>3. AlertInv'
  BY DEF SessionInv, AlertInv, NoAlert, ReauthFails, LoginFailed, Idle,
      Attempt, present, auth, AttemptInv
<1> QED BY <1>1, <1>2, <1>3 DEF SessionInv

(* Nothing else depends on Facebook's token.                                *)
LEMMA TokenClearedKeeps ==
  ASSUME SessionInv, TokenCleared
  PROVE  SessionInv'
<1>1. TypeOK'
  BY DEF SessionInv, TypeOK, Maybe, Phases, Block, TokenCleared, view, auth,
      history
<1>2. OneMainScreen' /\ ScreenMatchesSession' /\ TimerInv' /\ AttemptInv'
      /\ AlertInv' /\ QueueInv' /\ ButtonInv' /\ StoppedInv'
  BY DEF SessionInv, OneMainScreen, ScreenMatchesSession, PopPending,
      TimerInv, NoAlert, Idle, Attempt, AttemptInv, AlertInv, QueueInv,
      EntryInv, ButtonInv, StoppedInv, TokenCleared, view, auth, history
<1> QED BY <1>1, <1>2 DEF SessionInv

(* The answer joins the queue last, with the user Auth has now.             *)
LEMMA SignInSucceedsKeeps ==
  ASSUME SessionInv, SignInSucceeds
  PROVE  SessionInv'
<1>1. request.user \in Users
  BY DEF SessionInv, AttemptInv, SignInSucceeds
<1>2. SignedIn(request.user) \in Block
  BY <1>1 DEF SignedIn, Block, Maybe
<1>3. mainQueue' \in Seq(Block)
  BY <1>2 DEF SessionInv, TypeOK, SignInSucceeds, Answer
<1>4. request' \in [phase : Phases, user : Maybe(Users), current : Maybe(Users)]
  BY DEF SessionInv, TypeOK, SignInSucceeds, Answer, Phases
<1>5. TypeOK'
  BY <1>1, <1>3, <1>4 DEF SessionInv, TypeOK, SignInSucceeds, view, Maybe
<1>6. OneMainScreen' /\ TimerInv' /\ AttemptInv' /\ AlertInv' /\ ButtonInv'
      /\ StoppedInv'
  BY DEF SessionInv, OneMainScreen, TimerInv, NoAlert, Idle, Attempt,
      AttemptInv, AlertInv, ButtonInv, StoppedInv, SignInSucceeds, Answer,
      SignedIn, view
<1>7. ScreenMatchesSession'
  BY DEF SessionInv, ScreenMatchesSession, PopPending, SignInSucceeds, Answer,
      SignedIn, view, AttemptInv, Idle, Attempt
<1>8. QueueInv'
  BY DEF SessionInv, QueueInv, EntryInv, SignInSucceeds, Answer, SignedIn,
      view, AttemptInv
<1> QED BY <1>5, <1>6, <1>7, <1>8 DEF SessionInv

(* The answer joins the queue last.                                         *)
LEMMA SignInFailsKeeps ==
  ASSUME SessionInv, SignInFails
  PROVE  SessionInv'
<1>1. SignInFailed \in Block
  BY DEF SignInFailed, Block, Maybe
<1>2. mainQueue' \in Seq(Block)
  BY <1>1 DEF SessionInv, TypeOK, SignInFails, Answer
<1>3. request' \in [phase : Phases, user : Maybe(Users), current : Maybe(Users)]
  BY DEF SessionInv, TypeOK, SignInFails, Answer, Phases
<1>4. TypeOK'
  BY <1>2, <1>3 DEF SessionInv, TypeOK, SignInFails, view, auth, history
<1>5. OneMainScreen' /\ ScreenMatchesSession' /\ TimerInv' /\ AttemptInv'
      /\ AlertInv' /\ QueueInv' /\ ButtonInv' /\ StoppedInv'
  BY DEF SessionInv, OneMainScreen, ScreenMatchesSession, PopPending,
      TimerInv, NoAlert, Idle, Attempt, AttemptInv, AlertInv, QueueInv,
      EntryInv, ButtonInv, StoppedInv, SignInFails, Answer, SignInFailed,
      view, auth, history
<1> QED BY <1>4, <1>5 DEF SessionInv

(* Auth is signed out under an answer or a main screen, and says so.        *)
LEMMA TokenFoundInvalidKeeps ==
  ASSUME SessionInv, NEW ok \in Keychain, TokenFoundInvalid(ok)
  PROVE  SessionInv'
<1>1. TypeOK'
  BY DEF SessionInv, TypeOK, Maybe, Phases, Block, TokenFoundInvalid, view
<1>2. OneMainScreen' /\ ScreenMatchesSession' /\ TimerInv' /\ AttemptInv'
      /\ AlertInv' /\ QueueInv' /\ ButtonInv' /\ StoppedInv'
  BY DEF SessionInv, OneMainScreen, ScreenMatchesSession, PopPending,
      TimerInv, NoAlert, Idle, Attempt, AttemptInv, AlertInv, QueueInv,
      EntryInv, ButtonInv, StoppedInv, TokenFoundInvalid, view
<1> QED BY <1>1, <1>2 DEF SessionInv

(* The answer is the last block, so no pop is left that the new screen      *)
(* could meet.                                                              *)
LEMMA RunSignedInKeeps ==
  ASSUME SessionInv, RunSignedIn
  PROVE  SessionInv'
<1> DEFINE user == Head(mainQueue).user
<1>1. /\ Len(mainQueue) \in Nat \ {0}
      /\ Head(mainQueue) = mainQueue[1]
      /\ Tail(mainQueue) \in Seq(Block)
  BY DEF SessionInv, TypeOK, RunSignedIn
<1>2. /\ user \in Users
      /\ request.phase = "answered"
      /\ currentUser = user \/ (currentUser = NoUser /\ revoked)
  <2>1. EntryInv(1)
    BY <1>1 DEF SessionInv, QueueInv
  <2> QED BY <1>1, <2>1 DEF EntryInv, RunSignedIn
<1>3. nav = <<>> /\ alert = NoAlert /\ autoLogin = NoUser
  BY <1>2 DEF SessionInv, AttemptInv, Idle, Attempt
<1>4. /\ nav' = Append(nav, user)
      /\ isInitialView' = FALSE
      /\ facebookButton' = [facebookButton EXCEPT !.enabled = TRUE]
  BY DEF RunSignedIn, goToMain, stopLoading
<1> HIDE DEF user
<1>5. nav' \in Seq(Users) /\ Len(nav') = 1 /\ nav'[1] = user
  BY <1>2, <1>3, <1>4
<1>6. facebookButton' \in [enabled : BOOLEAN, hidden : BOOLEAN]
  BY <1>4 DEF SessionInv, TypeOK
<1>7. request' \in [phase : Phases, user : Maybe(Users), current : Maybe(Users)]
  BY DEF RunSignedIn, Idle, Attempt, Phases, Maybe
<1>8. TypeOK'
  BY <1>1, <1>4, <1>5, <1>6, <1>7
  DEF SessionInv, TypeOK, RunSignedIn, auth, history, Maybe
<1>9. ScreenMatchesSession'
  BY <1>2, <1>5 DEF ScreenMatchesSession, Last, RunSignedIn, auth, history
<1>10. OneMainScreen' /\ AlertInv' /\ ButtonInv'
  BY <1>3, <1>4, <1>5 DEF OneMainScreen, AlertInv, ButtonInv, NoAlert, RunSignedIn
<1>11. TimerInv' /\ AttemptInv' /\ StoppedInv'
  BY <1>3 DEF TimerInv, AttemptInv, StoppedInv, Idle, Attempt, RunSignedIn
<1>12. QueueInv'
  <2>1. EntryInv(1) /\ mainQueue[1].op = "signedIn"
    BY <1>1 DEF SessionInv, QueueInv, RunSignedIn
  <2>2. Len(mainQueue) = 1
    BY <2>1 DEF EntryInv
  <2>3. mainQueue' = <<>>
    BY <1>1, <2>2 DEF SessionInv, TypeOK, RunSignedIn
  <2> QED BY <2>3 DEF QueueInv
<1> QED BY <1>8, <1>9, <1>10, <1>11, <1>12 DEF SessionInv

(* The attempt ends in an alert.                                            *)
LEMMA RunSignInFailedKeeps ==
  ASSUME SessionInv, RunSignInFailed
  PROVE  SessionInv'
<1>1. TypeOK'
  BY DEF SessionInv, TypeOK, Maybe, Phases, Block, RunSignInFailed,
      LoginFailed, Idle, Attempt, present, NoAlert, auth
<1>2. OneMainScreen' /\ ScreenMatchesSession' /\ TimerInv' /\ AttemptInv'
      /\ QueueInv' /\ ButtonInv' /\ StoppedInv'
  BY DEF SessionInv, OneMainScreen, ScreenMatchesSession, PopPending,
      TimerInv, NoAlert, Idle, Attempt, AttemptInv, QueueInv, EntryInv,
      ButtonInv, StoppedInv, RunSignInFailed, LoginFailed, present, auth
<1>3. AlertInv'
  BY DEF SessionInv, AlertInv, NoAlert, RunSignInFailed, LoginFailed, Idle,
      Attempt, present, auth, AttemptInv, QueueInv, EntryInv
<1> QED BY <1>1, <1>2, <1>3 DEF SessionInv

(* A pop of a screen that has left does nothing; another one leaves no      *)
(* screen.                                                                  *)
LEMMA RunPopKeeps ==
  ASSUME SessionInv, RunPop
  PROVE  SessionInv'
<1> DEFINE n == Len(mainQueue) - 1
<1>1. /\ mainQueue \in Seq(Block)
      /\ Len(mainQueue) \in Nat \ {0}
      /\ n \in Nat
      /\ Head(mainQueue) = mainQueue[1]
      /\ nav \in Seq(Users)
      /\ facebookButton \in [enabled : BOOLEAN, hidden : BOOLEAN]
      /\ alert \in [kind : {"none", "error", "errorLogOut", "confirm"}, depth : Nat]
  BY DEF SessionInv, TypeOK, RunPop
<1>2. UNCHANGED <<running, request, currentUser, keychainUser, fbToken, closed,
                  failed, revoked>>
  BY DEF RunPop, auth, history
<1>3. CASE mainQueue[1].depth = 0
  <2>1. /\ mainQueue' = Tail(mainQueue)
        /\ UNCHANGED <<nav, isInitialView, facebookButton, autoLogin, alert>>
    BY <1>1, <1>3 DEF RunPop, view
  <2>2. /\ mainQueue' \in Seq(Block)
        /\ Len(mainQueue') = n
        /\ \A i \in 1..n : mainQueue'[i] = mainQueue[i + 1]
    BY <1>1, <2>1, HeadTailProperties
  <2>3. TypeOK'
    BY <1>2, <2>1, <2>2 DEF SessionInv, TypeOK
  <2>4. PopPending => PopPending'
    <3> SUFFICES ASSUME NEW i \in 1..Len(mainQueue),
                        mainQueue[i].op = "pop", mainQueue[i].depth > 0
                 PROVE  PopPending'
      BY DEF PopPending
    <3>1. i # 1
      BY <1>3
    <3>2. i - 1 \in 1..n /\ mainQueue'[i - 1] = mainQueue[i]
      BY <1>1, <2>2, <3>1
    <3> QED BY <2>2, <3>2 DEF PopPending
  <2>5. ScreenMatchesSession'
    BY <1>2, <2>1, <2>4 DEF SessionInv, ScreenMatchesSession
  <2>6. QueueInv'
    <3> SUFFICES ASSUME NEW i \in 1..n
                 PROVE  EntryInv(i)'
      BY <2>2 DEF QueueInv
    <3>1. i + 1 \in 1..Len(mainQueue) /\ mainQueue'[i] = mainQueue[i + 1]
      BY <1>1, <2>2
    <3>2. EntryInv(i + 1)
      BY <3>1 DEF SessionInv, QueueInv
    <3>3. i + 1 = Len(mainQueue) => i = Len(mainQueue')
      BY <1>1, <2>2
    <3> QED BY <1>2, <2>1, <3>1, <3>2, <3>3 DEF EntryInv
  <2>7. TimerInv' /\ StoppedInv'
    BY <1>1, <1>2, <2>1 DEF SessionInv, TimerInv, StoppedInv, RunPop
  <2>8. OneMainScreen' /\ AttemptInv' /\ AlertInv' /\ ButtonInv'
    BY <1>2, <2>1
    DEF SessionInv, OneMainScreen, AttemptInv, AlertInv, ButtonInv, Idle, Attempt
  <2> QED BY <2>3, <2>5, <2>6, <2>7, <2>8 DEF SessionInv
<1>4. CASE mainQueue[1].depth # 0
  <2>1. Len(nav) = 1
    <3>1. mainQueue[1] \in Block /\ EntryInv(1)
      BY <1>1 DEF SessionInv, QueueInv
    <3>2. mainQueue[1].depth \in Nat /\ mainQueue[1].depth <= Len(nav)
      BY <3>1 DEF Block, EntryInv
    <3>3. Len(nav) \in Nat /\ Len(nav) <= 1
      BY <1>1 DEF SessionInv, OneMainScreen
    <3> DEFINE d == mainQueue[1].depth
    <3>4. d \in Nat /\ d # 0 /\ d <= Len(nav)
      BY <1>4, <3>2
    <3> HIDE DEF d
    <3> QED BY <3>3, <3>4
  <2>2. request = Idle /\ autoLogin = NoUser /\ ~isInitialView
    BY <2>1 DEF SessionInv, AttemptInv, TimerInv, AlertInv
  <2>3. /\ nav' = Front(nav)
        /\ mainQueue' = [i \in 1..n |->
             [mainQueue[i + 1] EXCEPT !.depth = StillAt(@, Len(nav) - 1)]]
        /\ alert' = [alert EXCEPT !.depth = StillAt(@, Len(nav) - 1)]
        /\ setupView(NoUser)
        /\ UNCHANGED isInitialView
    BY <1>1, <1>4, <2>1, <2>2 DEF RunPop
  <2>4. nav' = <<>>
    BY <1>1, <2>1, <2>3 DEF Front
  <2>5. /\ facebookButton' = [enabled |-> TRUE, hidden |-> FALSE]
        /\ autoLogin' = NoUser
    BY <2>2, <2>3 DEF setupView
  <2>6. \A d \in Nat : StillAt(d, Len(nav) - 1) = 0
    BY <2>1 DEF StillAt
  <2>7. ASSUME NEW i \in 1..n
        PROVE  /\ mainQueue'[i] = [mainQueue[i + 1] EXCEPT !.depth = 0]
               /\ mainQueue'[i] \in Block
    <3>1. mainQueue[i + 1] \in Block
      BY <1>1
    <3>2. StillAt(mainQueue[i + 1].depth, Len(nav) - 1) = 0
      BY <2>6, <3>1 DEF Block
    <3>3. mainQueue'[i] = [mainQueue[i + 1] EXCEPT !.depth = 0]
      BY <2>3, <3>2
    <3>4. [mainQueue[i + 1] EXCEPT !.depth = 0] \in Block
      BY <3>1 DEF Block
    <3> QED BY <3>3, <3>4
  <2>8. mainQueue' \in [1..n -> Block]
    <3>1. DOMAIN mainQueue' = 1..n /\ mainQueue' = [i \in 1..n |-> mainQueue'[i]]
      BY <2>3
    <3> QED BY <2>7, <3>1
  <2>9. mainQueue' \in Seq(Block) /\ Len(mainQueue') = n
    <3> HIDE DEF n
    <3>1. mainQueue' \in Seq(Block)
      BY <1>1, <2>8, SeqDef
    <3> QED BY <1>1, <2>8, <3>1
  <2>10. /\ alert' = [alert EXCEPT !.depth = 0]
         /\ alert'.kind = alert.kind /\ alert'.depth = 0
    BY <1>1, <2>3, <2>6
  <2>11. TypeOK'
    <3>1. alert' \in [kind : {"none", "error", "errorLogOut", "confirm"}, depth : Nat]
      BY <1>1, <2>10
    <3>2. /\ nav' \in Seq(Users)
          /\ facebookButton' \in [enabled : BOOLEAN, hidden : BOOLEAN]
          /\ autoLogin' \in Maybe(Users)
          /\ isInitialView' \in BOOLEAN
      BY <2>3, <2>4, <2>5 DEF SessionInv, TypeOK, Maybe
    <3> QED BY <1>2, <2>9, <3>1, <3>2 DEF SessionInv, TypeOK
  <2>12. QueueInv'
    <3> SUFFICES ASSUME NEW i \in 1..n
                 PROVE  EntryInv(i)'
      BY <2>9 DEF QueueInv
    <3>1. i + 1 \in 1..Len(mainQueue) /\ mainQueue[i + 1] \in Block
      BY <1>1
    <3>2. EntryInv(i + 1)
      BY <3>1 DEF SessionInv, QueueInv
    <3>3. mainQueue[i + 1].op = "pop"
      BY <2>2, <3>2 DEF EntryInv, Idle, Attempt
    <3>4. mainQueue'[i].depth = 0 /\ mainQueue'[i].op = "pop"
      BY <2>7, <3>1, <3>3 DEF Block
    <3> QED BY <2>4, <3>4 DEF EntryInv
  <2>13. AlertInv'
    <3>1. alert.kind = "none" => alert = NoAlert
      BY DEF SessionInv, AlertInv
    <3>2. alert.kind = "none" => alert' = NoAlert
      BY <1>1, <2>10, <3>1 DEF NoAlert
    <3> QED BY <2>4, <2>10, <3>2 DEF AlertInv
  <2>14. AttemptInv' /\ TimerInv'
    BY <1>2, <2>2, <2>5 DEF AttemptInv, TimerInv, Idle, Attempt
  <2>15. OneMainScreen' /\ ScreenMatchesSession'
    BY <2>4 DEF OneMainScreen, ScreenMatchesSession
  <2>16. ButtonInv' /\ StoppedInv'
    BY <1>2, <2>5 DEF ButtonInv, StoppedInv, RunPop
  <2> QED BY <2>11, <2>12, <2>13, <2>14, <2>15, <2>16 DEF SessionInv
<1> QED BY <1>3, <1>4

(* The confirmation belongs to the only main screen.                        *)
LEMMA logOutKeeps ==
  ASSUME SessionInv, logOut
  PROVE  SessionInv'
<1>1. TypeOK'
  BY DEF SessionInv, TypeOK, Maybe, Phases, Block, logOut, NoAlert, present,
      auth, history
<1>2. OneMainScreen' /\ ScreenMatchesSession' /\ TimerInv' /\ AttemptInv'
      /\ QueueInv' /\ ButtonInv' /\ StoppedInv'
  BY DEF SessionInv, OneMainScreen, ScreenMatchesSession, PopPending,
      TimerInv, NoAlert, Idle, Attempt, AttemptInv, QueueInv, EntryInv,
      ButtonInv, StoppedInv, logOut, present, auth, history
<1>3. AlertInv'
  BY DEF SessionInv, AlertInv, NoAlert, logOut, present, auth, history,
      OneMainScreen
<1> QED BY <1>1, <1>2, <1>3 DEF SessionInv

(* Nothing but the alert changes.                                           *)
LEMMA AlertCancelledKeeps ==
  ASSUME SessionInv, AlertCancelled
  PROVE  SessionInv'
<1>1. TypeOK'
  BY DEF SessionInv, TypeOK, Maybe, Phases, Block, AlertCancelled, NoAlert,
      auth, history
<1>2. OneMainScreen' /\ ScreenMatchesSession' /\ TimerInv' /\ AttemptInv'
      /\ AlertInv' /\ QueueInv' /\ ButtonInv' /\ StoppedInv'
  BY DEF SessionInv, OneMainScreen, ScreenMatchesSession, PopPending,
      TimerInv, NoAlert, Idle, Attempt, AttemptInv, AlertInv, QueueInv,
      EntryInv, ButtonInv, StoppedInv, AlertCancelled, auth, history
<1> QED BY <1>1, <1>2 DEF SessionInv

(* Nothing but the alert changes.                                           *)
LEMMA ErrorAcceptedKeeps ==
  ASSUME SessionInv, ErrorAccepted
  PROVE  SessionInv'
<1>1. TypeOK'
  BY DEF SessionInv, TypeOK, Maybe, Phases, Block, ErrorAccepted, NoAlert,
      auth, history
<1>2. OneMainScreen' /\ ScreenMatchesSession' /\ TimerInv' /\ AttemptInv'
      /\ AlertInv' /\ QueueInv' /\ ButtonInv' /\ StoppedInv'
  BY DEF SessionInv, OneMainScreen, ScreenMatchesSession, PopPending,
      TimerInv, NoAlert, Idle, Attempt, AttemptInv, AlertInv, QueueInv,
      EntryInv, ButtonInv, StoppedInv, ErrorAccepted, auth, history
<1> QED BY <1>1, <1>2 DEF SessionInv

(* A log out after an error happens on the login screen.                    *)
LEMMA LoginErrorAcceptedKeeps ==
  ASSUME SessionInv, NEW ok \in Keychain, LoginErrorAccepted(ok)
  PROVE  SessionInv'
<1>1. TypeOK'
  BY DEF SessionInv, TypeOK, Maybe, Phases, Block, LoginErrorAccepted,
      NoAlert, firebaseSignOut, auth, facebooklogOut, history
<1>2. OneMainScreen' /\ TimerInv' /\ AttemptInv' /\ AlertInv' /\ ButtonInv'
      /\ StoppedInv'
  BY DEF SessionInv, OneMainScreen, TimerInv, NoAlert, Idle, Attempt,
      AttemptInv, AlertInv, ButtonInv, StoppedInv, LoginErrorAccepted,
      firebaseSignOut, auth, facebooklogOut, history
<1>3. ScreenMatchesSession'
  BY DEF SessionInv, ScreenMatchesSession, PopPending, LoginErrorAccepted,
      NoAlert, firebaseSignOut, auth, facebooklogOut, history, AlertInv
<1>4. QueueInv'
  BY DEF SessionInv, QueueInv, EntryInv, LoginErrorAccepted, NoAlert,
      firebaseSignOut, auth, facebooklogOut, history, AttemptInv, Idle,
      Attempt
<1> QED BY <1>1, <1>2, <1>3, <1>4 DEF SessionInv

(* A log out on the main screen leaves its pop in the queue.                *)
LEMMA LogOutConfirmedKeeps ==
  ASSUME SessionInv, NEW ok \in Keychain, LogOutConfirmed(ok)
  PROVE  SessionInv'
<1>1. TypeOK'
  BY DEF SessionInv, TypeOK, Maybe, Phases, Block, LogOutConfirmed, NoAlert,
      firebaseSignOut, auth, facebooklogOut, Pop
<1>2. OneMainScreen' /\ TimerInv' /\ AttemptInv' /\ AlertInv' /\ ButtonInv'
      /\ StoppedInv'
  BY DEF SessionInv, OneMainScreen, TimerInv, NoAlert, Idle, Attempt,
      AttemptInv, AlertInv, ButtonInv, StoppedInv, LogOutConfirmed,
      firebaseSignOut, auth, facebooklogOut, Pop
<1>3. ScreenMatchesSession'
  BY DEF SessionInv, ScreenMatchesSession, PopPending, LogOutConfirmed,
      NoAlert, firebaseSignOut, auth, facebooklogOut, Pop, AlertInv
<1>4. QueueInv'
  BY DEF SessionInv, QueueInv, EntryInv, LogOutConfirmed, NoAlert,
      firebaseSignOut, auth, facebooklogOut, Pop, AttemptInv, AlertInv, Idle,
      Attempt
<1> QED BY <1>1, <1>2, <1>3, <1>4 DEF SessionInv

-----------------------------------------------------------------------------
(* The inductive invariant: how screens, attempts, the timer and the main  *)
(* queue exclude one another, whatever the keychain and the network do.    *)
THEOREM SessionInvariant == Spec => []SessionInv
<1>1. Init => SessionInv
  <2> SUFFICES ASSUME Init PROVE SessionInv
    OBVIOUS
  <2>1. TypeOK
    <3>1. nav \in Seq(Users) /\ mainQueue \in Seq(Block)
      BY DEF Init
    <3>2. /\ alert \in [kind : {"none", "error", "errorLogOut", "confirm"}, depth : Nat]
          /\ facebookButton \in [enabled : BOOLEAN, hidden : BOOLEAN]
      BY DEF Init, NoAlert
    <3>3. request \in [phase : Phases, user : Maybe(Users), current : Maybe(Users)]
      BY DEF Init, Idle, Attempt, Phases, Maybe
    <3> QED BY <3>1, <3>2, <3>3 DEF Init, TypeOK, Maybe
  <2>2. OneMainScreen /\ ScreenMatchesSession /\ TimerInv
    BY DEF Init, OneMainScreen, ScreenMatchesSession, TimerInv
  <2>3. AttemptInv /\ AlertInv
    BY DEF Init, AttemptInv, AlertInv, NoAlert, Idle, Attempt
  <2>4. QueueInv /\ ButtonInv /\ StoppedInv
    BY DEF Init, QueueInv, ButtonInv, StoppedInv
  <2> QED BY <2>1, <2>2, <2>3, <2>4 DEF SessionInv
<1>2. SessionInv /\ [Next]_vars => SessionInv'
  <2> SUFFICES ASSUME SessionInv, [Next]_vars
               PROVE  SessionInv'
    OBVIOUS
  <2>1. CASE \E ok \in Keychain : Launch(ok)
    BY <2>1, LaunchKeeps
  <2>2. CASE Kill
    BY <2>2, KillKeeps
  <2>3. CASE AutoLoginFires
    BY <2>3, AutoLoginFiresKeeps
  <2>4. CASE facebookTapped
    BY <2>4, facebookTappedKeeps
  <2>5. CASE DialogCancelled
    BY <2>5, DialogCancelledKeeps
  <2>6. CASE DialogFailed
    BY <2>6, DialogFailedKeeps
  <2>7. CASE DialogGivesNoToken
    BY <2>7, DialogGivesNoTokenKeeps
  <2>8. CASE \E user \in Users : DialogGivesToken(user)
    BY <2>8, DialogGivesTokenKeeps
  <2>9. CASE ReauthMatches
    BY <2>9, ReauthMatchesKeeps
  <2>10. CASE ReauthFails
    BY <2>10, ReauthFailsKeeps
  <2>11. CASE TokenCleared
    BY <2>11, TokenClearedKeeps
  <2>12. CASE SignInSucceeds
    BY <2>12, SignInSucceedsKeeps
  <2>13. CASE SignInFails
    BY <2>13, SignInFailsKeeps
  <2>14. CASE \E ok \in Keychain : TokenFoundInvalid(ok)
    BY <2>14, TokenFoundInvalidKeeps
  <2>15. CASE RunSignedIn
    BY <2>15, RunSignedInKeeps
  <2>16. CASE RunSignInFailed
    BY <2>16, RunSignInFailedKeeps
  <2>17. CASE RunPop
    BY <2>17, RunPopKeeps
  <2>18. CASE logOut
    BY <2>18, logOutKeeps
  <2>19. CASE AlertCancelled
    BY <2>19, AlertCancelledKeeps
  <2>20. CASE ErrorAccepted
    BY <2>20, ErrorAcceptedKeeps
  <2>21. CASE \E ok \in Keychain : LoginErrorAccepted(ok)
    BY <2>21, LoginErrorAcceptedKeeps
  <2>22. CASE \E ok \in Keychain : LogOutConfirmed(ok)
    BY <2>22, LogOutConfirmedKeeps
  <2>23. CASE UNCHANGED vars
    BY <2>23
    DEF vars, view, auth, history, SessionInv, TypeOK, OneMainScreen,
        ScreenMatchesSession, PopPending, TimerInv, AttemptInv, AlertInv,
        QueueInv, EntryInv, ButtonInv, StoppedInv
  <2> QED BY <2>1, <2>2, <2>3, <2>4, <2>5, <2>6, <2>7, <2>8, <2>9, <2>10,
             <2>11, <2>12, <2>13, <2>14, <2>15, <2>16, <2>17, <2>18, <2>19,
             <2>20, <2>21, <2>22, <2>23
           DEF Next, RunMainQueue, AuthAnswers, GraphAnswers
<1> QED BY <1>1, <1>2, PTL DEF Spec

(* Every variable keeps its type: a main screen always has a user. *)
THEOREM SessionTypeCorrect == Spec => []TypeOK
<1>1. SessionInv => TypeOK
  BY DEF SessionInv
<1> QED BY <1>1, SessionInvariant, PTL

(* The main screen is the screen of the user Auth is signed in as.  The    *)
(* strengthening is needed in full: the user comes from the timer or from  *)
(* a block of the main queue, and either could be out of date.             *)
THEOREM ScreenIsTheSession == Spec => []ScreenMatchesSession
<1>1. SessionInv => ScreenMatchesSession
  BY DEF SessionInv
<1> QED BY <1>1, SessionInvariant, PTL

(* The timer and the sign in callback never both push a main screen. *)
THEOREM NeverTwoMainScreens == Spec => []OneMainScreen
<1>1. SessionInv => OneMainScreen
  BY DEF SessionInv
<1> QED BY <1>1, SessionInvariant, PTL

(* The disabled button keeps login attempts apart. *)
THEOREM NeverTwoAttempts == Spec => []OneAttemptAtATime
<1>1. SessionInv => OneAttemptAtATime
  BY DEF SessionInv, AttemptInv, OneAttemptAtATime
<1> QED BY <1>1, SessionInvariant, PTL

(* A login screen at rest can be used unless an attempt has failed. *)
THEOREM RestIsUsable == Spec => []UsableUnlessFailed
<1>1. SessionInv => UsableUnlessFailed
  BY DEF SessionInv, ButtonInv, UsableUnlessFailed, AtRest
<1> QED BY <1>1, SessionInvariant, PTL

-----------------------------------------------------------------------------
(* While the keychain works, a step keeps Auth and its stored copy equal.  *)
LEMMA StoredStep ==
  ASSUME ~KeychainMayFail, SessionInv, StoredInv, [Next]_vars
  PROVE  StoredInv'
<1>1. Keychain = {TRUE}
  BY DEF Keychain
<1>2. CASE \E ok \in Keychain : Launch(ok)
  BY <1>1, <1>2 DEF StoredInv, Launch, history
<1>3. CASE Kill
  BY <1>3 DEF StoredInv, Kill
<1>4. CASE SignInSucceeds
  BY <1>4 DEF StoredInv, SignInSucceeds
<1>5. CASE \E ok \in Keychain : TokenFoundInvalid(ok)
  BY <1>1, <1>5 DEF StoredInv, TokenFoundInvalid
<1>6. CASE \E ok \in Keychain : LoginErrorAccepted(ok)
  BY <1>1, <1>6 DEF StoredInv, LoginErrorAccepted, firebaseSignOut, auth, history
<1>7. CASE \E ok \in Keychain : LogOutConfirmed(ok)
  BY <1>1, <1>7 DEF StoredInv, LogOutConfirmed, firebaseSignOut, auth
<1>8. CASE \/ AutoLoginFires \/ facebookTapped \/ DialogCancelled \/ DialogFailed
           \/ DialogGivesNoToken \/ GraphAnswers \/ TokenCleared \/ SignInFails
           \/ \E user \in Users : DialogGivesToken(user)
  BY <1>8
  DEF StoredInv, AutoLoginFires, facebookTapped, DialogCancelled, DialogFailed,
      DialogGivesNoToken, GraphAnswers, ReauthMatches, ReauthFails,
      TokenCleared, SignInFails, DialogGivesToken, auth, history
<1>9. CASE RunMainQueue \/ logOut \/ AlertCancelled \/ ErrorAccepted
  BY <1>9
  DEF StoredInv, RunMainQueue, RunSignedIn, RunSignInFailed, RunPop, logOut,
      AlertCancelled, ErrorAccepted, auth, history
<1>10. CASE UNCHANGED vars
  BY <1>10 DEF StoredInv, vars, auth, history
<1> QED BY <1>2, <1>3, <1>4, <1>5, <1>6, <1>7, <1>8, <1>9, <1>10
        DEF Next, AuthAnswers

(* While the keychain works, a session its user has closed is not opened   *)
(* by any later start: the timer never captures its user.                  *)
THEOREM ClosedStaysClosed ==
  ASSUME ~KeychainMayFail
  PROVE  Spec => []ClosedSessionStaysClosed
<1>1. Init => StoredInv
  BY DEF Init, StoredInv
<1>2. SessionInv /\ StoredInv /\ [Next]_vars => StoredInv'
  BY StoredStep
<1>3. SessionInv /\ StoredInv => ClosedSessionStaysClosed
  BY DEF SessionInv, StoppedInv, TimerInv, StoredInv, ClosedSessionStaysClosed
<1> QED BY <1>1, <1>2, <1>3, SessionInvariant, PTL DEF Spec
=============================================================================
