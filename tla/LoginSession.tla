----------------------------- MODULE LoginSession -----------------------------
(***************************************************************************)
(* Logging in and out: LoginViewController, the log out of the main screen *)
(* and ServiceLoginManager, over the parts of the Facebook and Firebase    *)
(* SDKs they call.                                                         *)
(*                                                                         *)
(* Three things keep a session and can disagree: the navigation stack,     *)
(* Auth's current user with its copy in the keychain, and Facebook's       *)
(* current access token.  Handlers run one at a time on the main thread;   *)
(* between them lie the login dialog, a Graph request, a Firebase request, *)
(* the main queue, a one second timer, and the end of the process, after   *)
(* which only the keychain is left.                                        *)
(*                                                                         *)
(* A Facebook account and the Firebase user it signs in are one member of  *)
(* Users.                                                                  *)
(***************************************************************************)
EXTENDS Naturals, Sequences, SequencesExt

CONSTANTS
  Users,            \* the accounts a person can log in with
  NoUser,           \* nil
  KeychainMayFail,  \* whether a keychain operation of Auth can fail
  MaxQueue          \* bound: blocks that wait on the main queue

ASSUME UserAssumption == NoUser \notin Users
ASSUME KeychainAssumption == KeychainMayFail \in BOOLEAN
ASSUME QueueAssumption == MaxQueue \in Nat \ {0}

VARIABLES
  running,         \* the process is alive
  nav,             \* userLogged of the MainViewControllers above the login screen
  isInitialView,   \* LoginViewController.isInitialView
  facebookButton,  \* its isEnabled and isHidden
  autoLogin,       \* the user captured by the timer of setupViewWithCurrentUser
  alert,           \* the alert on the screen and the view controller it is for
  request,         \* how far the login attempt has come, and for whom
  mainQueue,       \* blocks dispatched with DispatchQueue.main.async
  currentUser,     \* Auth.currentUser
  keychainUser,    \* the user Auth has in the keychain
  fbToken,         \* owner of AccessToken.current, which Facebook caches
  closed,          \* history: the last session was closed by its user
  failed,          \* history: a login attempt of this process has failed
  revoked          \* history: Auth signed the current user out by itself

view == <<nav, isInitialView, facebookButton, autoLogin, alert>>
auth == <<currentUser, keychainUser>>
history == <<closed, failed, revoked>>
vars == <<running, view, request, mainQueue, auth, fbToken, history>>

Maybe(S) == S \cup {NoUser}

(* Whether a keychain operation succeeds. *)
Keychain == IF KeychainMayFail THEN BOOLEAN ELSE {TRUE}

NoAlert == [kind |-> "none", depth |-> 0]

(* A login attempt: how far it has come, the account chosen in the dialog, *)
(* and the owner of the Facebook token that was current then.              *)
Attempt(phase, user, current) ==
  [phase |-> phase, user |-> user, current |-> current]
Idle == Attempt("idle", NoUser, NoUser)

-----------------------------------------------------------------------------
(* Blocks of the main queue.  A pop names the depth of its MainViewController *)
(* in the navigation stack, 0 once it has left it.                            *)

Pop(depth)     == [op |-> "pop", depth |-> depth, user |-> NoUser]
SignedIn(user) == [op |-> "signedIn", depth |-> 0, user |-> user]
SignInFailed   == [op |-> "signInFailed", depth |-> 0, user |-> NoUser]

(* What a reference to the view controller at depth d is worth once the    *)
(* stack has n view controllers.                                           *)
StillAt(d, n) == IF d > n THEN 0 ELSE d

-----------------------------------------------------------------------------
(* Pieces of handlers *)

(* Fault: the loader alone is started, or stopped. *)
LoaderOnly == UNCHANGED facebookButton

startLoading == facebookButton' = [facebookButton EXCEPT !.enabled = FALSE]
stopLoading  == facebookButton' = [facebookButton EXCEPT !.enabled = TRUE]

(* Fault: the user is read again when the block runs. *)
GoToMainRereadingUser(user) ==
  /\ isInitialView' = FALSE
  /\ stopLoading
  /\ nav' = Append(nav, currentUser)

(* LoginViewController.goToMain *)
goToMain(user) ==
  /\ isInitialView' = FALSE
  /\ stopLoading
  /\ nav' = Append(nav, user)

(* Faults of setupView: the button stays usable while the timer runs; the  *)
(* user is Facebook's; the timer is not started.                           *)
SetupViewWithButton(user) ==
  /\ facebookButton' = [enabled |-> TRUE, hidden |-> FALSE]
  /\ autoLogin' = IF user # NoUser THEN user ELSE autoLogin

SetupViewForFacebookUser(user) ==
  /\ facebookButton' = [enabled |-> fbToken = NoUser, hidden |-> fbToken # NoUser]
  /\ autoLogin' = IF fbToken # NoUser THEN fbToken ELSE autoLogin

SetupViewWithoutTimer(user) ==
  /\ facebookButton' = [enabled |-> user = NoUser, hidden |-> user # NoUser]
  /\ UNCHANGED autoLogin

(* LoginViewController.setupView for an active user, or for none: the      *)
(* button, or a timer that has captured the user and a loader that runs.   *)
setupView(user) ==
  /\ facebookButton' = [enabled |-> user = NoUser, hidden |-> user # NoUser]
  /\ autoLogin' = IF user # NoUser THEN user ELSE autoLogin

(* UIViewController.present: nothing is shown over another alert. *)
present(kind, depth) ==
  alert' = IF alert = NoAlert THEN [kind |-> kind, depth |-> depth] ELSE alert

(* ServiceLoginManager.firebaseSignOut over FIRAuth.signOut: without a     *)
(* current user nothing is removed, and a keychain that fails keeps the    *)
(* user; the error is dropped.                                             *)
firebaseSignOut(ok) ==
  IF currentUser # NoUser /\ ok
  THEN currentUser' = NoUser /\ keychainUser' = NoUser
  ELSE UNCHANGED auth

(* ServiceLoginManager.facebooklogOut *)
facebooklogOut == fbToken' = NoUser

-----------------------------------------------------------------------------
Init ==
  /\ running = FALSE
  /\ nav = <<>>
  /\ isInitialView = TRUE
  /\ facebookButton = [enabled |-> TRUE, hidden |-> FALSE]
  /\ autoLogin = NoUser
  /\ alert = NoAlert
  /\ request = Idle
  /\ mainQueue = <<>>
  /\ currentUser = NoUser
  /\ keychainUser = NoUser
  /\ fbToken = NoUser
  /\ closed = FALSE /\ failed = FALSE /\ revoked = FALSE

(* The process starts: Auth reads the keychain, Facebook its token cache,  *)
(* and the login screen loads.                                             *)
Launch(ok) ==
  /\ ~running
  /\ running' = TRUE
  /\ currentUser' = IF ok THEN keychainUser ELSE NoUser
  /\ setupView(currentUser')
  /\ UNCHANGED <<nav, isInitialView, alert, request, mainQueue, keychainUser,
                 fbToken, history>>

(* The process ends, for whatever reason, between two handlers: what is    *)
(* left is in the keychain.                                                *)
Kill ==
  /\ running
  /\ running' = FALSE
  /\ nav' = <<>>
  /\ isInitialView' = TRUE
  /\ facebookButton' = [enabled |-> TRUE, hidden |-> FALSE]
  /\ autoLogin' = NoUser
  /\ alert' = NoAlert
  /\ request' = Idle
  /\ mainQueue' = <<>>
  /\ currentUser' = NoUser
  /\ failed' = FALSE
  /\ revoked' = FALSE
  /\ UNCHANGED <<keychainUser, fbToken, closed>>

(* The timer of setupViewWithCurrentUser *)
AutoLoginFires ==
  /\ running /\ autoLogin # NoUser
  /\ goToMain(autoLogin)
  /\ autoLogin' = NoUser
  /\ UNCHANGED <<running, alert, request, mainQueue, auth, fbToken, history>>

facebookTapped ==
  /\ running /\ nav = <<>> /\ alert = NoAlert
  /\ facebookButton.enabled /\ ~facebookButton.hidden
  /\ startLoading
  /\ request' = Attempt("dialog", NoUser, NoUser)
  /\ UNCHANGED <<running, nav, isInitialView, autoLogin, alert, mainQueue,
                 auth, fbToken, history>>

-----------------------------------------------------------------------------
(* How FBSDKLoginManager answers facebookLogin.  Its handler runs on the   *)
(* main thread, once.                                                      *)

(* tryloginWithFacebook: the request to Firebase leaves. *)
tryloginWithFacebook(user) == request' = Attempt("signIn", user, NoUser)

(* Fault: the error is not shown. *)
LoginFailedSilently ==
  /\ request' = Idle
  /\ UNCHANGED alert
  /\ failed' = TRUE

(* .failed: an alert whose OK logs out; the loader is not stopped. *)
LoginFailed ==
  /\ request' = Idle
  /\ present("errorLogOut", 0)
  /\ failed' = TRUE

(* The dialog was cancelled, or no permission was granted: in the second   *)
(* case an answer that carries an authentication token alone replaces the  *)
(* access token by nil.                                                    *)
DialogCancelled ==
  /\ running /\ request.phase = "dialog"
  /\ request' = Idle
  /\ stopLoading
  /\ fbToken' \in {fbToken, NoUser}
  /\ UNCHANGED <<running, nav, isInitialView, autoLogin, alert, mainQueue,
                 auth, history>>

(* An error, perhaps one found in an answer with an authentication token.  *)
DialogFailed ==
  /\ running /\ request.phase = "dialog"
  /\ LoginFailed
  /\ fbToken' \in {fbToken, NoUser}
  /\ UNCHANGED <<running, nav, isInitialView, facebookButton, autoLogin,
                 mainQueue, auth, closed, revoked>>

(* A success with an authentication token and no access token: an alert    *)
(* without a handler; again the loader is not stopped.                     *)
DialogGivesNoToken ==
  /\ running /\ request.phase = "dialog"
  /\ request' = Idle
  /\ fbToken' = NoUser
  /\ present("error", 0)
  /\ failed' = TRUE
  /\ UNCHANGED <<running, nav, isInitialView, facebookButton, autoLogin,
                 mainQueue, auth, closed, revoked>>

(* completeAuthentication: with a token already there, the new one is      *)
(* first asked whose it is.                                                *)
DialogGivesToken(user) ==
  /\ running /\ request.phase = "dialog"
  /\ IF fbToken = NoUser
     THEN fbToken' = user /\ tryloginWithFacebook(user)
     ELSE UNCHANGED fbToken /\ request' = Attempt("reauth", user, fbToken)
  /\ UNCHANGED <<running, view, mainQueue, auth, history>>

(* validateReauthentication, with the token captured when it was asked *)
ReauthMatches ==
  /\ running /\ request.phase = "reauth"
  /\ request.user = request.current
  /\ fbToken' = request.user
  /\ tryloginWithFacebook(request.user)
  /\ UNCHANGED <<running, view, mainQueue, auth, history>>

(* Another account, or the Graph request failed. *)
ReauthFails ==
  /\ running /\ request.phase = "reauth"
  /\ LoginFailed
  /\ UNCHANGED <<running, nav, isInitialView, facebookButton, autoLogin,
                 mainQueue, auth, fbToken, closed, revoked>>

(* Facebook finds the current token invalid, from the answer to another    *)
(* request (the picture of the main screen) or when the app becomes active.*)
TokenCleared ==
  /\ running /\ fbToken # NoUser
  /\ fbToken' = NoUser
  /\ UNCHANGED <<running, view, request, mainQueue, auth, history>>

-----------------------------------------------------------------------------
(* How Auth answers signIn, on its work queue: the user is saved first and *)
(* becomes current only if that succeeds; the app hears of it later, on    *)
(* the main queue.                                                         *)

Answer(block) ==
  /\ mainQueue' = Append(mainQueue, block)
  /\ request' = [request EXCEPT !.phase = "answered"]

SignInSucceeds ==
  /\ running /\ request.phase = "signIn"
  /\ currentUser' = request.user
  /\ keychainUser' = request.user
  /\ Answer(SignedIn(request.user))
  /\ closed' = FALSE
  /\ revoked' = FALSE
  /\ UNCHANGED <<running, view, fbToken, failed>>

(* The request, or saving the user, failed. *)
SignInFails ==
  /\ running /\ request.phase = "signIn"
  /\ Answer(SignInFailed)
  /\ UNCHANGED <<running, view, auth, fbToken, history>>

(* signOutIfTokenIsInvalid: a token refresh, which only the database asks  *)
(* for, finds the user gone.  This sign out is forced: the user stops      *)
(* being current even when the keychain keeps it.                          *)
TokenFoundInvalid(ok) ==
  /\ running /\ ~isInitialView
  /\ currentUser # NoUser
  /\ currentUser' = NoUser
  /\ keychainUser' = IF ok THEN NoUser ELSE keychainUser
  /\ revoked' = TRUE
  /\ UNCHANGED <<running, view, request, mainQueue, fbToken, closed, failed>>

-----------------------------------------------------------------------------
(* The main queue runs its blocks in order. *)

RunSignedIn ==
  /\ running /\ mainQueue # <<>> /\ Head(mainQueue).op = "signedIn"
  /\ goToMain(Head(mainQueue).user)
  /\ mainQueue' = Tail(mainQueue)
  /\ request' = Idle
  /\ UNCHANGED <<running, autoLogin, alert, auth, fbToken, history>>

RunSignInFailed ==
  /\ running /\ mainQueue # <<>> /\ Head(mainQueue).op = "signInFailed"
  /\ LoginFailed
  /\ mainQueue' = Tail(mainQueue)
  /\ UNCHANGED <<running, nav, isInitialView, facebookButton, autoLogin,
                 auth, fbToken, closed, revoked>>

(* popViewController on the stack of a view controller that is still in    *)
(* it; the login screen below appears again: setupView(activeUser: false). *)
RunPop ==
  /\ running /\ mainQueue # <<>> /\ Head(mainQueue).op = "pop"
  /\ IF Head(mainQueue).depth = 0
     THEN /\ mainQueue' = Tail(mainQueue)
          /\ UNCHANGED view
     ELSE LET left == Len(nav) - 1
          IN  /\ nav' = Front(nav)
              /\ mainQueue' = [i \in 1..(Len(mainQueue) - 1) |->
                   [mainQueue[i + 1] EXCEPT !.depth = StillAt(@, left)]]
              /\ alert' = [alert EXCEPT !.depth = StillAt(@, left)]
              /\ IF left = 0 /\ ~isInitialView
                 THEN setupView(NoUser)
                 ELSE UNCHANGED <<facebookButton, autoLogin>>
              /\ UNCHANGED isInitialView
  /\ UNCHANGED <<running, request, auth, fbToken, history>>

-----------------------------------------------------------------------------
(* The main screen's close button and the alerts *)

(* MainViewController.logOut *)
logOut ==
  /\ running /\ nav # <<>> /\ alert = NoAlert
  /\ present("confirm", Len(nav))
  /\ UNCHANGED <<running, nav, isInitialView, facebookButton, autoLogin,
                 request, mainQueue, auth, fbToken, history>>

AlertCancelled ==
  /\ running /\ alert.kind = "confirm"
  /\ alert' = NoAlert
  /\ UNCHANGED <<running, nav, isInitialView, facebookButton, autoLogin,
                 request, mainQueue, auth, fbToken, history>>

(* OK on an error without a handler *)
ErrorAccepted ==
  /\ running /\ alert.kind = "error"
  /\ alert' = NoAlert
  /\ UNCHANGED <<running, nav, isInitialView, facebookButton, autoLogin,
                 request, mainQueue, auth, fbToken, history>>

(* OK on a failed login: ServiceLoginManager.logOut *)
LoginErrorAccepted(ok) ==
  /\ running /\ alert.kind = "errorLogOut"
  /\ alert' = NoAlert
  /\ firebaseSignOut(ok)
  /\ facebooklogOut
  /\ UNCHANGED <<running, nav, isInitialView, facebookButton, autoLogin,
                 request, mainQueue, history>>

(* OK on "Are you sure you want to close the session?" *)
LogOutConfirmed(ok) ==
  /\ running /\ alert.kind = "confirm"
  /\ Len(mainQueue) < MaxQueue
  /\ alert' = NoAlert
  /\ firebaseSignOut(ok)
  /\ facebooklogOut
  /\ mainQueue' = Append(mainQueue, Pop(alert.depth))
  /\ closed' = TRUE
  /\ UNCHANGED <<running, nav, isInitialView, facebookButton, autoLogin,
                 request, failed, revoked>>

-----------------------------------------------------------------------------
RunMainQueue == RunSignedIn \/ RunSignInFailed \/ RunPop
AuthAnswers  == SignInSucceeds \/ SignInFails
GraphAnswers == ReauthMatches \/ ReauthFails

Next ==
  \/ \E ok \in Keychain : Launch(ok)
  \/ Kill
  \/ AutoLoginFires
  \/ facebookTapped
  \/ DialogCancelled
  \/ DialogFailed
  \/ DialogGivesNoToken
  \/ \E user \in Users : DialogGivesToken(user)
  \/ GraphAnswers
  \/ TokenCleared
  \/ AuthAnswers
  \/ \E ok \in Keychain : TokenFoundInvalid(ok)
  \/ RunMainQueue
  \/ logOut
  \/ AlertCancelled
  \/ ErrorAccepted
  \/ \E ok \in Keychain : LoginErrorAccepted(ok)
  \/ \E ok \in Keychain : LogOutConfirmed(ok)

(* The main queue and timers run, and network requests end, with a         *)
(* time-out at worst.  People, the dialog and the process's end owe        *)
(* nothing.                                                                *)
Fairness ==
  /\ WF_vars(RunMainQueue)
  /\ WF_vars(AutoLoginFires)
  /\ WF_vars(GraphAnswers)
  /\ WF_vars(AuthAnswers)

Spec == Init /\ [][Next]_vars /\ Fairness

-----------------------------------------------------------------------------
Phases == {"idle", "dialog", "reauth", "signIn", "answered"}

Block == [op : {"pop", "signedIn", "signInFailed"}, depth : Nat,
          user : Maybe(Users)]

TypeOK ==
  /\ running \in BOOLEAN
  /\ nav \in Seq(Users)
  /\ isInitialView \in BOOLEAN
  /\ facebookButton \in [enabled : BOOLEAN, hidden : BOOLEAN]
  /\ autoLogin \in Maybe(Users)
  /\ alert \in [kind : {"none", "error", "errorLogOut", "confirm"}, depth : Nat]
  /\ request \in [phase : Phases, user : Maybe(Users), current : Maybe(Users)]
  /\ mainQueue \in Seq(Block)
  /\ currentUser \in Maybe(Users)
  /\ keychainUser \in Maybe(Users)
  /\ fbToken \in Maybe(Users)
  /\ closed \in BOOLEAN /\ failed \in BOOLEAN /\ revoked \in BOOLEAN

(* A pop is on its way for a view controller that is in the stack. *)
PopPending == \E i \in 1..Len(mainQueue) :
                mainQueue[i].op = "pop" /\ mainQueue[i].depth > 0

(* The main screen is the screen of the user Auth is signed in as: records *)
(* are filed under the one and written with the credentials of the other.  *)
(* Auth may only be signed out under it, on the way out or because the     *)
(* token was found invalid; it is never signed in as somebody else.        *)
ScreenMatchesSession ==
  nav # <<>> =>
    \/ currentUser = Last(nav)
    \/ currentUser = NoUser /\ (revoked \/ PopPending)

(* goToMain is reached from the timer and from the sign in callback, and   *)
(* never pushes a second main screen, which one log out would not leave.   *)
OneMainScreen == Len(nav) <= 1

(* facebookButton is enabled only between attempts: every LoginManager()   *)
(* is new, so nothing but the button keeps two attempts apart.             *)
OneAttemptAtATime ==
  running /\ request # Idle => /\ ~facebookButton.enabled
                               /\ nav = <<>> /\ alert = NoAlert
                               /\ autoLogin = NoUser

(* Nothing is under way and nothing covers the login screen. *)
AtRest ==
  /\ running /\ nav = <<>> /\ alert = NoAlert
  /\ request = Idle /\ mainQueue = <<>> /\ autoLogin = NoUser

(* A login screen at rest can be used, unless an attempt has failed since  *)
(* the process began (the error paths of ServiceLoginManager).             *)
UsableUnlessFailed ==
  AtRest /\ ~failed => facebookButton = [enabled |-> TRUE, hidden |-> FALSE]

(* A session that its user closed is not opened again by a later start: no *)
(* interleaving of log out, kill and a late sign in brings it back         *)
(* (MainViewControllerViewModel.logOut, firebaseSignOut).                  *)
ClosedSessionStaysClosed == closed => autoLogin = NoUser

(* Once the account is chosen the attempt ends on the main screen or in an *)
(* alert: no order of answers loses it (facebookLogin,                     *)
(* tryloginWithFacebook).                                                  *)
LoginIsAnswered ==
  (running /\ request.phase \in {"reauth", "signIn"})
    ~> (~running \/ nav # <<>> \/ alert # NoAlert)

(* A user that Auth remembers reaches the main screen after a start: the   *)
(* login button is hidden, so the timer is the only way on.                *)
RememberedUserGetsIn ==
  (running /\ facebookButton.hidden) ~> (~running \/ nav # <<>>)
=============================================================================
