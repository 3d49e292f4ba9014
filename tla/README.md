# MyClients: a TLA+ verification project

The repository is an iOS application in which a person logs in with Facebook
and saves clients into the Firebase Realtime Database. The app itself is about
a thousand lines of Swift; the SDKs it is built on are vendored under `Pods/`.
They are modelled where the app's own behaviour depends on what they do: Auth,
Facebook's login, and the connection of the Realtime Database. One vendored
part is modelled for its own sake: leveldb, the storage engine behind the
database's persistence. The app leaves that persistence off, so nothing in
the app's models depends on it, but it is the part of the repository with
the hardest behaviour (threads, crashes, recovery), and it is what the app
would stand on with one more line of configuration.

## 1. Inventory

| part | state it keeps | operations | talks to |
|---|---|---|---|
| login screen (`LoginViewController`, its view model, `SceneDelegate`) | the Facebook button, `isInitialView`, a one second timer with a captured user | load, timer fires, button tapped, appear again | login service, navigation stack |
| login service (`ServiceLoginManager`) | none: a new one per call, kept alive by its callbacks | `facebookLogin`, `tryloginWithFacebook`, `logOut` | Facebook SDK, Firebase Auth, the screen it was made for |
| Firebase Auth (vendored) | `currentUser`, a copy in the keychain | load, sign in, sign out, forced sign out | keychain, network, main queue |
| Facebook login (vendored) | the current access token, cached across starts | `logIn`, `logOut`, re-authentication, clearing an invalid token | dialog, network |
| main screen's form (`MainViewController`, its view model) | text fields, chosen date, `client`, `errors` | edits, picker, save, alert, clear | data service |
| main screen's loader and alerts | save and close buttons, alert on the screen | `startLoading`, `stopLoading`, answers of saves | main queue |
| log out (`MainViewControllerViewModel.logOut`) | none | confirm, sign out twice, pop | login service, navigation stack |
| data service (`ServiceDataManager`) | one database reference per call | `saveClient`, `checkIfClientExistInDB` | Realtime Database |
| Realtime Database (vendored) | outstanding puts, connection and its credentials | put, connect, authenticate, resend, acknowledge | network, Auth |
| leveldb's write path (vendored, `DBImpl`) | queue of writers, two memtables, log, MANIFEST, background thread | write, sync, switch, flush, merge, manual compaction, recover, close | files |
| leveldb's levels (vendored, `VersionSet`) | tables by level, snapshots, versions in use | get, snapshot, iterator, flush to a level, pick, move, merge, delete files | files |
| model and codec (`UserModel`) | none | `toDictionary`, decoding | |

Everything the app does runs on the main thread, one handler at a time. What
makes it hard is what lies between two handlers: the login dialog, a Graph
request, Auth's work queue, blocks dispatched to the main queue, timers, the
database's own queue, and the end of the process, after which the keychain is
all that is left. `PROJECT.json` lists the hazards with their lines.

What has to be true, part by part:

- *form*: a save happens exactly for a valid form; what is saved is that form
  and not what an earlier attempt left in the view model; a message blames the
  form on the screen;
- *session*: the main screen belongs to the user Auth is signed in as; there is
  one main screen; one login attempt at a time; a closed session stays closed;
  an attempt is answered; a login screen at rest can be used;
- *store*: an answer "saved" means stored; a put is neither forgotten nor held
  twice while the process lives; a refusal has a cause; a put is answered once
  the network stops failing;
- *leveldb's write path*: an acknowledged write survives the end of the process,
  a synced one the end of the machine; recovery finds every file and hands out
  no number again; every caller gets its answer;
- *leveldb's levels*: reads and snapshots see what was written, whatever is
  flushed, moved, merged, dropped and deleted meanwhile;
- *main screen*: a form is not saved twice; the buttons come back; the outcome
  of every save is shown or known to be lost.

## 2. Modules

| module | what it is |
|---|---|
| `ClientForm` | the form and its validation |
| `MCClientForm` | a small instance of it |
| `ClientFormProofs` | theorems about `ClientForm` |
| `LoginSession` | login, automatic login and log out |
| `MCLoginSession` | a small instance of it |
| `LoginSessionProofs` | theorems about `LoginSession` |
| `MainScreen` | the main screen's buttons and alerts, and the answers to saves |
| `MCMainScreen` | a small instance of it |
| `MainScreenProofs` | theorems about `MainScreen` |
| `ClientBook` | abstract: what the app may rely on when it hands a client over |
| `ClientStore` | a client's way to the server: queues, connection, credentials, server |
| `MCClientStore` | a small instance of it; it implements `ClientBook` |
| `ClientStoreProofs` | theorems about `ClientStore`, its refinement of `ClientBook` among them |
| `DurableStore` | abstract: what a store promises of its writes when it may fail |
| `DBImpl` | leveldb's writers, log, memtables, background thread, MANIFEST, recovery |
| `MCDBImpl` | a small instance of it; it implements `DurableStore` |
| `DBImplProofs` | theorems about its types, queue, file numbers and files |
| `DBImplDurabilityProofs` | theorems about what is recovered, and its refinement of `DurableStore` |
| `DBImplSequenceProofs` | the theorem about its sequence numbers |
| `SnapshotMap` | abstract: a map with snapshots |
| `VersionSet` | leveldb's levels, compactions, reads and snapshots |
| `MCVersionSet` | a small instance of it; it implements `SnapshotMap` |
| `VersionSetProofs` | theorems about `VersionSet`, its refinement of `SnapshotMap` among them |

Definitions keep the names of the code. A definition whose comment begins
with "Fault" is a wrong version of the one after it; `PROJECT.json` pairs each
with the property that tells them apart, and nothing else uses it.

### ClientForm

The variables are the three text fields, `dateSelected`, `client` and `errors`
of the view model, the last alert's errors, a history of what was handed to
`saveClient` and when, and the clock. A text is a member of `Texts`, of which
the model knows the length (`Count`), whether it consists of the letters the
field's delegate lets through (`Letters`), and the integer it reads as
(`IntOf`). A moment is an integer; `TicksPerDay` and `DaysPerYear` make days and
years of it, every year being equally long. `toString` is what the format
"dd/MM/yyyy" does to a date: the time of the day is lost.

`saveButtonTapped` is the handler but for `startLoading` and `stopLoading`, which
only disable the buttons for a while and are `MainScreen`'s; here the button
takes every tap, which allows every sequence of taps of the code and more. It
has the four checks in their order, each a
function on the view model's `client` and `errors`, then either the alert with
every error and `errors.removeAll()`, or the save and the clearing of the text
fields. A name field's delegate sees the replacement and not the result, but
texts of letters are closed under replacement, so one action per field stands
for every edit.

### LoginSession

The navigation stack is a sequence of the users of the main screens above the
login screen. `request` says how far a login attempt has come: the dialog, the
Graph request that compares the new Facebook token with the one that was
current (`validateReauthentication`), Auth's request, and its answer waiting on
the main queue. `currentUser` and `keychainUser` are Auth's user and its stored
copy; `fbToken` is the owner of Facebook's current token. `Kill` may happen
between any two handlers and leaves only `keychainUser` and `fbToken`.
`KeychainMayFail` lets every keychain operation of Auth fail.

A block of the main queue that pops a main screen refers to a view controller;
the model gives its depth in the stack, 0 once it has left it, since
`delegate.navigationController?.popViewController` does nothing then. An alert
asked for while another is up is not shown (UIKit refuses it).

A Facebook account and the Firebase user it signs in are one member of `Users`.
`closed`, `failed` and `revoked` are history variables.

### MainScreen

One `MainViewController` from its first appearance until its last block has
run. `mainQueue` is what was dispatched with `DispatchQueue.main.async`, in
order; a timer of `stopLoading` is a unit of `timers` until it is due. A tap on
save is one handler, but its effect on the buttons is not: they are disabled by
a block after it and enabled by a timer, so a second tap may come before the
block, and the timer of the first tap enables the buttons while the second save
is under way. The database's answer to a write passes through two blocks: the
callback of `setValue` and the one `saveClient` dispatches. The alert it leads
to is refused while another is up, or once the screen has left the navigation
stack. `form` is a client when the fields would pass the validation of
`ClientForm`, and `NoClient` when they would not. A person enters each client
once, so that a second save of the same client is a fault of the code. The write
itself is answered in any order, or never; what happens to it on the way is
`ClientStore`'s. `saved`, `stored`, `told` and `lost` are history
variables.

### ClientStore and ClientBook

`saveClient` is called on the main thread and dispatches a put to the database's
shared queue, on which all of `FPersistentConnection` runs; a block is a step.
Auth's news of a token go to the main queue first (`posted`) and from there to
the shared queue, so that a put and a change of user can overtake each other.
`outstanding` is `outstandingPuts` in the order of their index. `links` are the
connections opened, the last one current: a connection that was given up may
still deliver its requests, and nobody hears the answers, which is how a put is
stored and sent again. `conn` is `connectionState`; `retry` a scheduled retry,
`fetch` a token under way, `killed` the reason "server_kill".

The database's rules are not in the repository. `Permitted` says which token may
write under which user's path; it is only assumed that an owner may, and the
instance lets nobody else. A put is stored under the user of the main screen and
sent with the token the connection has by then, so a client saved by one user is
refused when another has logged in before it was sent; `RefusalsExplained` says
that this, or a fetched token that came too late, is behind every refusal. Its
history is `excused`: the clients whose owner left while they waited or had left
when they were handed over, and those that are sent while a token that came too
late is in force (`overtaken`), no change of it being ahead of them in the queue
(`Exposed`, `TokenQueued`).

`ClientBook` is what the app sees of all this: a client is handed over once and
answered at most once, "saved" is said only of what the server holds, a refused
or unanswered client may be stored nevertheless, and the end of the process takes
the waiting clients with it, since the app leaves persistence off.

A step of `refreshAuthToken` needs the token Auth reported, and a fetch that was
begun before a change of user returns the old user's token after it
(`overtaken`): the connection then works under the user who has left until Auth
reports the next token. No line of the repository claims otherwise, and the model
has it happen.

### DBImpl and DurableStore

A step is what a thread does while it holds `mutex_`, or one file operation with
`mutex_` released. A writer hands over one batch and the model follows where the
batch is: in the log's records (synced or not), a memtable, a table, the
MANIFEST. `pc` says where a call of `Write` is, `group` for how many writers its
leader writes. The background thread's flush and merge have stages (build, built,
logged), between which writers, other calls and crashes come. `ProcessCrash`
keeps the files; `MachineCrash` cuts every log to some length beyond what was
synced, and may take the MANIFEST back to its synced state. A record of the
MANIFEST whose sync is pending or has failed is found after the end of a process
or is not (`MayLoseRecord`). `Recover` and its followers are the stages of
`DB::Open`; they may fail, which leaves the database closed, and may be
interrupted as well. `Faults`
names the file operations that may fail: creating a log ("create"), appending a
record to it, of which nothing ("append") or a part ("torn") is left, syncing it,
writing a table, and adding or syncing a record of the MANIFEST ("manifest"), or
adding it in part ("tornEdit").

The MANIFEST is followed as what it adds up to, with its `tail`: "whole", "torn"
when its last record is there in part, which the reader passes over, or "corrupt"
when something was appended behind such a part, so that the reader meets a
checksum that does not match and `VersionSet::Recover` reports a corruption. A
process goes on using the MANIFEST in which a record of it has failed: a merge
that was under way installs its results there, and a flush may be tried again
during it. `AddEdit`, `AddPartOfEdit` and `EditFails` are `LogAndApply`'s record,
`Recoverable` what an open would find, which is nothing behind a corruption.
What is appended behind a part may also be passed over with it (`Behind`): while
the file ends before the length that the part's header announces, the reader
takes all of it for one record that was cut off by a crash.

Abstractions: all tables overlap (`VersionSet` has the ranges); a compaction's
outputs are one table with the last of their numbers; each recovered log becomes
one table; a directory entry is not lost once its file was created; a record is
lost as a whole; logs and MANIFESTs are shorter than a block (32 KB), so a record
appended in part hides what is appended behind it in the same log, the reader's
resynchronisation at the next block being out of reach, and it does not matter
that a failed append shifts the writer's count of the bytes in its block; of
several records of the MANIFEST that are not synced, the end of the machine takes
all or none. `reuse_logs` and `paranoid_checks` have their
defaults (off).

`DurableStore` knows a set of batches: what is acknowledged is there, the end of
the process loses nothing that was acknowledged, the end of the machine nothing
that was acknowledged as synced.

### VersionSet and SnapshotMap

An entry is a key, a sequence number that also stands for the value, and whether
it is a deletion. A table is `FileMetaData` with its entries. All decisions by
size are free, since sizes depend on values the model leaves out: which table
beyond level 0 is due, whether a flushed memtable stops above a large overlap,
whether a single table is moved or merged when something lies below it, whether
more inputs fit, and where outputs are cut. `DeletedKeys` are the keys that may be
deleted and `SplitKeys` those between whose entries an output may end; in the code
every key is both, and the run that has such a key is the one that fails.

The two memtables are one set, flushed as a whole: a write that comes during a
flush is in the next one. `merge.base` is the version a compaction began with,
which decides which deletions it may drop and keeps its inputs on disk.
Iterators hold versions; what they hold is the set of their table numbers. The
point reads are `Get`: memtables, the tables of level 0 from the newest, then one
table per level found as `FindFile` finds it. Loops that only add to a set until
nothing is left to add (the widening of `GetOverlappingInputs` in level 0,
`AddBoundaryInputs`) are written as the set they end with.

`SnapshotMap` is a map that only writes change, and snapshots that keep it as it
was. `KeepsSnapshots` says that reads through `Get`, now and by every snapshot,
are reads of that map, so that no flush, move or compaction is ever seen.

## 3. Runs

| run | shows |
|---|---|
| `client_form` | over two taps, with any edits and ticks between them, a tap saves exactly the valid form on the screen, each of the five messages is there exactly when what it says is wrong with the form now, and the age written is the age of somebody born on the day written (a year may be missing on the birthday itself, because the time of the day is lost) |
| `login_session` | with a keychain that may fail and a process that may end anywhere: the main screen is the session's, there is one main screen, one attempt at a time, a screen at rest is usable unless an attempt failed, a chosen account is always answered, a remembered user always gets in |
| `main_screen` | with two saves whose taps, blocks, timers, answers and alerts meet in every order: no client is saved twice, disabled buttons come back, and each answered save has one outcome, the database's, that is on its way, was shown or was refused |
| `log_out_fault` | *violated*: with a failing keychain a closed session is opened by the next start, because `firebaseSignOut` drops the error and the screen is popped all the same |
| `client_store` | two clients, lost connections, refused, revoked, renewed and late tokens, changes of user, the end of the process: no put is forgotten or held twice, answers come in order, the two ends agree on the credentials, refusals have a cause, the code's assertions hold, and the app sees no more than `ClientBook` allows |
| `client_store_liveness` | once the network stops failing, every client handed over is answered, unless the server has killed the connection |
| `db_impl` | three writers, one of them syncing, and a manual compaction, with one failing file operation (all but records written in part) and two ends of the process or the machine, recoveries included: `DurableStore`'s promises, no file missing, no number used again, sequence numbers ahead |
| `db_impl_calls` | the same threads with a forced memtable switch, and records of the log and the MANIFEST that are written in part: every call of `Write`, `TEST_CompactMemTable` and `TEST_CompactRange` returns, and nobody sleeps without somebody who will wake it |
| `db_impl_torn_record` | *violated*: a write behind a record that was appended in part is acknowledged and cannot be recovered, although only the process ended |
| `version_set` | three keys, of which two are deleted as well and one is cut into two tables, flushed to every level they may sink to, moved and merged by automatic compactions with a snapshot held: levels stay sorted, later entries stay above earlier ones, reads are right |
| `version_set_readers` | two iterators, automatic and manual compactions: no table goes that somebody still reads |
| `version_set_boundary` | *violated*: a key that can be both deleted and cut in two comes back after its deletion, since `SetupOtherInputs` does not take the boundary tables of level+1 |

The three violations are described under "findings" in `PROJECT.json`.

*Bounds.* `MaxTaps = 2` is enough for state left by one tap to meet the next;
`Texts` has names of 0, 2 and 3 letters, two of them of equal length so that one
can be taken for the other, a typed age of 0, and the ages on both sides of each
limit. A year of
the instance has two days of two moments, and the picker's dates lie around the
thirteenth and the hundred and twenty-first birthday, so that a tick crosses a
midnight, a birthday and a limit, with one in the future, whose age of 0 is too
young and no missing date. Two users are enough for a session to be taken
for another's. `MaxQueue = 2` lets a person confirm a log out a second time
before the first pop has run, which is what makes a pop outlive its screen; a
third confirmation would only add one more pop of that kind, and the theorems
hold for every `MaxQueue`. In `main_screen`, `MaxQueue = 3` and `MaxTimers = 2`
let a second tap come before the block of the first, with an answer between
them, and let the timers of two taps run together; a person does nothing while
more waits, but timers, answers and blocks go on. The form may be left alone for
ever once its taps are used up, and a main screen that was left stops once its
blocks have run, hence `CHECK_DEADLOCK FALSE` there; the session never stops.

In `client_store`, `MaxNews = 3` lets a user leave, another come while a put
waits, and one more piece of news meet a token that was fetched too early;
`MaxLosses = 1` lets what was sent be sent again on another connection, or the
process end. Accounts and clients are interchangeable (`SYMMETRY`); the liveness
run has one client, no symmetry, and `MaxLosses = 2`, so that what is sent again
may be lost again. In `db_impl` a memtable holds one
batch and two tables call for a merge, so that three writes reach every part of
the background's work; `MaxEnds = 2` lets a recovery be interrupted and run
again, and writers of the same kind are interchangeable. In `version_set` four
levels are the fewest with a level below the grandparents of level 0, three keys
the fewest with a gap that a flush can slip into, and three writes put, delete
and write beside. `version_set_readers` has three levels and no snapshot, but two
iterators, so that one may hold an older version than the other and than the
compaction, and manual compactions; whether a read is right is not asked there,
since with manual compactions it need not be ("Further observations").
`version_set_boundary` has the four writes its trace needs. The deletion and the
cut of one key are kept apart in `version_set` because together they fail. The levels' constants are smaller than the
code's (7 levels, four tables in level 0), which brings the same decisions
earlier. These systems stop when their callers' calls and the bounds are used up,
hence `CHECK_DEADLOCK FALSE`.

*Fairness.* `LoginSession` assumes weak fairness of the main queue and of the
timer (GCD runs what was dispatched) and of the answers to network requests,
which end with a time-out at worst. People, the dialog, the end of the process
and a token's revocation are never assumed to happen. `MainScreen`
assumes weak fairness of the main queue and of its timers only: without a
connection the database never answers. `ClientForm` has no fairness: all its
properties are safety. `ClientStore` assumes that blocks run, timers fire, token
fetches return and the server answers on the current connection; failures of the
network are bounded, so from some point on a connection holds. `DBImpl` assumes
that every thread goes on, as the scheduler of the operating system guarantees;
nobody is made to call. `VersionSet` has safety only.

*Further observations.* Small instances of the same modules show these as well;
they have no run of their own.

- After "An error ocurred. Try again later" the login button stays disabled: no
  error path of `ServiceLoginManager` calls `stopLoading`. `UsableUnlessFailed`
  says that nothing else disables it for good.
- The messages say "more than 3 characters" and "over 13 years old"; three
  characters and thirteen years are accepted (`SavesExactlyValidForms` has the
  limits of the code).
- After a "server_kill" nothing removes the reason, so the connection is not
  opened again in that process and later saves wait for ever; hence `killed` in
  `EveryPutAnswered`.
- `TEST_CompactRange` sets `manual_compaction_` to null when it returns on a
  background error while its compaction runs without `mutex_`; `BackgroundCompaction`
  then writes through the null pointer (db_impl.cc:755). `NullDereference` ends
  the process there.
- A null batch that joins another writer's group is answered without a memtable
  switch, so `TEST_CompactMemTable` may return with the memtable as it was.
- A record of the MANIFEST that is written in part can cost the whole database.
  When a flush during a merge fails that way (version_set.cc:849), the merge goes
  on and appends its own record to the same file (db_impl.cc:875), or the flush is
  tried again (db_impl.cc:908); the next `VersionSet::Recover` then reports a
  checksum mismatch (log_reader.cc:247) and `DB::Open` fails, although the logs
  and tables hold all that was acknowledged. With `DBImplTornRecord.cfg` at
  `Faults = {"tornEdit"}` and `Compactors = {c1}` TLC finds `NothingLost` violated
  after 24 states: a manual merge begins, a memtable is flushed beside it, its
  record is left in part, and `LogMerge` appends behind it. `KeepsPromises` is
  violated on the same constants, where the process ends afterwards.
- While a manual compaction of disjoint tables of level 0 or 1 runs, a memtable
  whose keys lie in the gap between them may be flushed into the output level;
  the output then overlaps it, against the assertion "Must not overlap"
  (version_set.cc:747), and reads go wrong. With `VersionSetReaders.cfg` at
  `DeletedKeys = {}`, `SplitKeys = {}`, `MaxWrites = 5` and `MaxIterators = 0`
  TLC finds `NoOverlap`, and in place of it `KeepsSnapshots`, violated after 13
  states: keys 1 and 3 are in the tables being merged, key 2 is flushed into the
  output level, and the output [1..3] is installed over the table [2]. `FindFile`
  reaches [1..3] first, which has no 2, and the key reads as absent. Automatic
  compactions leave no such gap: `version_set`.

## 4. Proofs

`ClientFormProofs` proves, for every set of texts, every calendar and without
the bounds of the instance:

- `FormInvariant`: `Spec => []FormInv`, the inductive invariant. `FormInv` is
  `TypeOK` with `ErrorsAreDrained`: a tap starts with an empty list of errors.
  Without it neither `TypeOK` nor the rest is inductive, since an error left
  behind would keep a valid form from being saved, and a record is complete only
  because a tap without errors has filled every field of the client.
- `TypeCorrect`: `Spec => []TypeOK`. `saves` is typed by `Record`, which does
  not contain the defaults that `toDictionary` has for nil: they are never
  written.
- `SavesExactlyValid` and `SavedIsTheForm`: the action properties
  `SavesExactlyValidForms` and `SavedRecordIsTheForm`. The lemmas below them say
  what each check does to the view model, and that the age computed by
  `compareDates` is n exactly when n whole years were lived (division with
  remainder, from the assumption that a year has at least one moment).
- `AgesStayTrue` and `MessagesBlameTheForm`: `AgesAreTrue`, which is inductive
  with `FormInv` by a lemma that compares the age at a moment with the age of
  somebody born at midnight of the same day, and the action property
  `MessageBlamesThisForm`, that each of the five messages is in the alert of a
  rejected tap exactly when the form has the fault it names. The property
  says by comparison of moments (`HasLived`) what an age and a birthday are, and
  not by the division of `compareDates`; the lemmas about ages carry one to the
  other.

`LoginSessionProofs` proves, for every set of accounts, every length of the main
queue and a keychain that may fail:

- `SessionInvariant`: `Spec => []SessionInv`, the inductive invariant, by one
  lemma per action. Its parts say how the things that can reach the screens
  exclude one another. `TimerInv`: the timer runs only on an untouched login
  screen and has captured Auth's current user. `AttemptInv`: an attempt has the
  login screen to itself, its button disabled. `AlertInv`: over the main screen
  there is no alert but its own confirmation, so a log out there always leaves a
  pop. `QueueInv`: the main queue holds pops and, last, at most one answer,
  whose user is still Auth's unless the token was found invalid since; a pop
  refers to a screen that is in the stack or to none. `ButtonInv`: the button is
  lost only to a failed attempt. `StoppedInv`: between processes nothing is left
  but what is stored.
- from it `SessionTypeCorrect`, `ScreenIsTheSession`, `NeverTwoMainScreens`,
  `NeverTwoAttempts` and `RestIsUsable`, for the invariants of `login_session`.
  None of these is inductive by itself: that the main screen is the session's
  depends on what waits in the queue, and that on the attempt's phase.
- `ClosedStaysClosed`: with `~KeychainMayFail`, `ClosedSessionStaysClosed`.
  `StoredInv` adds that Auth's user and the stored one are equal while the
  process runs, and that nothing is stored once a session was closed. The run
  `log_out_fault` shows that the hypothesis is needed.

`MainScreenProofs` proves, for every set of clients and without the bounds of
the instance:

- `ScreenInvariant`: `Spec => []ScreenInv`, the inductive invariant, by one
  lemma per action. `FreshForm` makes `SavedOnce` inductive: what a tap would
  save has not been saved, because a tap that saves leaves a blank form.
  `ButtonsOnTheirWay` is inductive by itself, since a tap queues its "disable"
  before its timer can queue an "enable" and the queue keeps its order.
  `AnswerInv` makes `OutcomeAccountedFor` inductive: an outcome belongs to a
  write that is no longer waiting, and agrees with what was stored.
- from it `ScreenTypeCorrect`, `NeverSavedTwice`, `LastWordIsEnable` and
  `NoOutcomeDropped`. That the buttons do come back (`ButtonsComeBack`) needs
  fairness and stays with TLC.

`ClientStoreProofs` proves, for every set of accounts and clients, all rules of
the database that let owners write, and every number of losses and news:

- `AssertionsNeverFire`, from `Typed` and `OneAttempt`: a retry, a token being
  fetched, its answer on the shared queue and an open connection exclude one
  another, and there is one of them at a time.
- `NeverForgotten` and `TypeCorrect`, from `HeldOnce`: a client that waits is in
  one place, a put on the shared queue or an outstanding put of the connection.
- `PutsAnsweredInOrder`, from `Handshake` (before the connection may write, no
  put is on it) and `Ordered`: along the answers and then the requests of the
  current link, puts are in the order of `outstanding`.
- `StoreKeepsTheBook`: `Spec => KeepsTheBook`, the refinement of `ClientBook`,
  from `Truthful`: a request on any link, given up or not, is of a client that
  was handed over, and an answer "ok" is about something stored.
- `CredentialsAlwaysAgree`, from `LastWord`: the process's last word about its
  token is on the way to the server, or is what the server works with, or its
  refusal is on the way back.
- `RefusalsAlwaysExplained`. `NewsInOrder` follows Auth's news through the two
  queues; `Covered` says that no other user's token can come before the put of
  an unexcused client, and `Met` that its request meets its user's credentials
  or a refusal is heard, and the connection given up, before its answer. The
  first version of the property failed: TLC found a refusal with `MaxNews = 3`
  that it did not explain, a client handed over while a late token was in force.

`DBImplProofs`, `DBImplDurabilityProofs` and `DBImplSequenceProofs` prove, for
every finite set of callers, all sizes and triggers, and any number of faults
and ends:

- `TypeCorrect`, `NobodyIsForgotten`, `FilesAreThere` and `NumbersNotReused` (the
  action property `FilesNotReused`), whichever operations fail. The inductive
  invariant is `Sound`: `Stopped` (nothing in memory survives a stop), `Staged`
  (the stages of the background thread), `Queued` (the front of the queue works,
  the others sleep, nobody is in it twice), `Scheduled` (work, and whoever waits
  for it, has a thread scheduled), `Numbered` (file numbers are below the counter
  of whoever would hand them out next, in the MANIFEST as it is synced, as it is
  written, and in memory) and `Filed` (what any of these versions names exists).
- `NothingIsLost` and `StoreKeepsItsPromises` (`Spec => KeepsPromises`, the
  refinement of `DurableStore`), provided that no record is written in part,
  neither of a log nor of the MANIFEST (`NoPartWritten`: neither "torn" nor
  "tornEdit" is in `Faults`); everything else may fail, appends that leave nothing
  included. Both halves are needed: `db_impl_torn_record` shows it of the first,
  "Further observations" of the second. `Reliable` adds to `Sound`: `Intact` (a
  log has no torn record), `Readable` (the MANIFEST as synced and as written ends
  with a whole record),
  `GroupLogged` (what a leader is about to insert is in the log, and synced when
  it said so) and `Durable`: what was acknowledged is in the tables and logs that
  recovery would read, under the MANIFEST as written and as synced, with the logs
  as they are, and what was acknowledged as synced with the logs cut to what is
  synced; in an open database, in memory or in its tables as well.
- `SequenceStaysAhead`, whichever operations fail. `Fresh` and `Distinct` say that
  what is stored has a number of its own, `Ahead` that the numbers of the group
  under way follow on everything stored, `Recorded` that the counter in each
  MANIFEST is not behind the tables it names.

`VersionSetProofs` proves, for every set of keys, any number of levels from three
and any number of writes, snapshots and iterators:

- `StockInvariant`, `TypeCorrect` and `FilesOutliveTheirReaders`, with manual
  compactions: `Stocked` says that tables are well formed, that numbers are below
  the counter, that the inputs of a running compaction are still in their levels,
  and that what a reader holds is on disk.
- `LayerInvariant`, `LevelsStaySorted` and `LaterStaysAbove`, without manual
  compactions (`~Manual`; with them `NoOverlap` fails, see "Further observations";
  the app never calls `CompactRange`). `NoOverlap` and `NewerAbove` are not
  inductive while a compaction runs: a memtable may be flushed beside it.
  `Merging` says why that does no harm. What stays in the level is later than
  what is taken (`LaterStays`), tables of the next level that are not inputs lie
  aside of all inputs, and the inputs leave no gap (`NoGap`) for a flush to slip
  into; this last part is what a manual compaction lacks. In levels further down
  nothing has come since the compaction began that its inputs' keys overlap, so
  its version still tells which deletions are needed.
- `SnapshotsKept`: `Spec => KeepsSnapshots`, the refinement of `SnapshotMap`,
  without manual compactions and if no key is both deleted and cut in two
  (`DeletedKeys \cap SplitKeys = {}`), which `version_set_boundary` shows to be a
  fault of the code. `GetIsLatest` says that a read finds the newest entry of the key that its
  sequence number allows, among all entries of all levels, and `InstallKeeps`
  that a compaction drops only what no snapshot, present or later, can see.

The inductive invariants were checked by TLC before they were proved, on the
instances of the runs or larger ones: `SessionInv` and `StoredInv` with
`MaxQueue = 3`, `Layered` with two keys, three levels, keys that are cut
in two and four writes (4.4 million states). The refinements are proved for a stutter, each
action of the detailed specification and the initial states; the fairness of
`Spec` is not used.

The assumptions are those of the modules: texts have lengths, "" has length 0
and is made of letters, nil is neither an integer nor a text nor an account, a
day and a year are not empty; an owner may write under its own path; the callers
of `DBImpl` are finitely many; there are at least three levels, a flush stops
above the last one, and keys are natural numbers, which stands for any order
that the comparator may have on the keys of the instance. That a nonempty set of
entries has a first and a last one is proved by the least number of a set, with
no induction over data.

Only model-checked are the liveness properties, since the prover has no fairness:
`LoginIsAnswered`, `RememberedUserGetsIn`, `ButtonsComeBack`, `EveryPutAnswered`,
`EveryWriterAnswered` and `EveryRangeReturns`. The last two count a call that ends
with the process as returned, the one that ends it through `NullDereference`
included.

## 5. Not modelled

- Appearance: colours, constraints, the keyboard's animation, haptics, titles.
- `fetchUserLoggedImage`, which only sets a picture. Its request can clear
  Facebook's token: `TokenCleared`.
- `checkIfClientExistInDB` and the `isTestable` branch of `saveClient`, which
  only tests call; decoding of `User`, which nothing calls.
- Leap years and time zones: `compareDates` is the calendar's count of whole
  years with years of equal length.
- Of the Realtime Database: listens, transactions, `onDisconnect` operations, the
  local write tree and persistence, which the app has no call for. Two callers of
  `tryScheduleReconnect` are left out, `enteringForeground` and
  `reachabilityCallback`: they act only on a disconnected connection, reset the
  delay and replace the scheduled retry by another one, and delays are not in the
  model. In `ClientStore` a sign out succeeds; the one that the keychain refuses,
  after which the user stays, is `LoginSession`'s.
- Of leveldb: the bytes of logs, tables, blocks and filters; the caches, the skip
  list, the merging iterators and the environment's threads and file limits;
  `RepairDB`, `DestroyDB`, `reuse_logs`. They are candidates for modules of their
  own: the log's fragments and the reader's resynchronisation, the skip list's
  single writer and its lock-free readers, and the cache's reference counts.
- The other pods (nanopb, GTMSessionFetcher, GoogleUtilities, FBSDK beyond the
  login, Firebase's core, installations and analytics). Most of the repository's
  C and Objective-C lines are there, a large part of them public headers that
  declare and do nothing, so the share of lines the map covers stays small; no
  part of the app's behaviour that the modules state depends on them.

## 6. Plan

1. `LogFormat` (`log_writer.cc`, `log_reader.cc`): what the reader returns of a log
   that was cut or torn anywhere is a prefix of what was written in each block,
   and what lies behind a torn record of a MANIFEST is reported, which `DBImpl`
   takes for granted.
2. Manual compactions: under which condition on the tables between their inputs
   `NoOverlap` and reads survive them.
3. `MyClientsApp`: the composition of session, main screen and store, for what
   crosses them: records filed under one user and written by another, answers
   that arrive after a log out.
