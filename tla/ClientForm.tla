------------------------------ MODULE ClientForm ------------------------------
(***************************************************************************)
(* The form of MainViewController in which a client is entered, and the    *)
(* validation that MainViewControllerViewModel runs when "save" is tapped. *)
(*                                                                         *)
(* The view model survives from one tap to the next: `client' keeps the    *)
(* fields of earlier attempts and `errors' is a list that every check      *)
(* appends to.  What is saved is `client', not the text fields, so the     *)
(* question this module asks is whether what an earlier tap left behind    *)
(* can reach a later record or a later message.                            *)
(*                                                                         *)
(* A text is a member of Texts: what is told apart is its length, whether  *)
(* it is made of letters only, and the integer it reads as.  A date is a   *)
(* moment, an integer; a day is TicksPerDay of them.                       *)
(***************************************************************************)
EXTENDS Integers, Sequences

CONSTANTS
  Texts,        \* what a text field can be asked to hold
  EmptyText,    \* ""
  Letters,      \* the texts made of characters of charactersAcceptable
  Count,        \* String.count of each text
  IntOf,        \* Int(String) of each text: an integer, or NoValue
  NoValue,      \* nil
  TicksPerDay,  \* moments in a day
  DaysPerYear,  \* days in a year (every year of the model has as many)
  PickerDates,  \* the moments the date picker can be turned to
  Opening,      \* the moment the screen is opened
  LastMoment,   \* bound: the clock stops here
  MaxTaps       \* bound: taps on the save button

ASSUME TextAssumption ==
  /\ EmptyText \in Letters /\ Letters \subseteq Texts
  /\ Count \in [Texts -> Nat] /\ Count[EmptyText] = 0
  /\ IntOf \in [Texts -> Int \cup {NoValue}]
  /\ NoValue \notin Int /\ NoValue \notin Texts

ASSUME DateAssumption ==
  /\ TicksPerDay \in Nat \ {0} /\ DaysPerYear \in Nat \ {0}
  /\ PickerDates \subseteq Nat
  /\ Opening \in Nat /\ LastMoment \in Nat /\ Opening <= LastMoment

ASSUME BoundAssumption == MaxTaps \in Nat

-----------------------------------------------------------------------------
(* Constants.swift *)

kMinAge == 13
kMaxAge == 120
kMinStringToAccept == 2

(* DataError: one case per message *)
DataError ==
  {"name", "lastName", "birthdayToYoung", "birthdayToOld", "birthdayNotMatch"}

VARIABLES
  nameTextField, lastNameTextField, yearsTextField,  \* .text of the fields
  dateSelected,   \* viewModel.dateSelected
  client,         \* viewModel.client, the fields the form fills
  errors,         \* viewModel.errors
  message,        \* the errors of the last alert that was presented
  saves,          \* what was handed to saveClient, in order, and when
  now,            \* Date()
  taps            \* taps on the save button so far

vars == <<nameTextField, lastNameTextField, yearsTextField, dateSelected,
          client, errors, message, saves, now, taps>>

-----------------------------------------------------------------------------
(* Dates *)

YearTicks == TicksPerDay * DaysPerYear

(* Fault: the calendar years are subtracted. *)
YearsApart(birthDay, to) == (to \div YearTicks) - (birthDay \div YearTicks)

(* Calendar.dateComponents([.year]) counts the whole years between the two *)
(* moments, towards zero.                                                  *)
compareDates(birthDay, to) ==
  IF birthDay <= to THEN (to - birthDay) \div YearTicks
                    ELSE -((birthDay - to) \div YearTicks)

(* "dd/MM/yyyy": the day is kept, the time of the day is lost. *)
toString(date) == date \div TicksPerDay

-----------------------------------------------------------------------------
(* The view model's checks, as functions on its state vm == [client, errors] *)

(* Fault: kMinStringToAccept itself is accepted. *)
ValidateShortName(vm, name, type) ==
  IF Count[name] >= kMinStringToAccept
  THEN [vm EXCEPT !.client = [@ EXCEPT ![type] = name]]
  ELSE [vm EXCEPT !.errors = Append(@, type)]

(* type is "name" or "lastName", which is also the error it appends. *)
validateFullName(vm, name, type) ==
  IF Count[name] > kMinStringToAccept
  THEN [vm EXCEPT !.client = [@ EXCEPT ![type] = name]]
  ELSE [vm EXCEPT !.errors = Append(@, type)]

(* Fault: a text that is no number leaves the age of an earlier tap. *)
SetYearsIfNumber(vm, years) ==
  IF IntOf[years] = NoValue THEN vm
  ELSE [vm EXCEPT !.client = [@ EXCEPT !.age = IntOf[years]]]

setYears(vm, years) == [vm EXCEPT !.client = [@ EXCEPT !.age = IntOf[years]]]

(* The errors that the age rules add once the age matches the date. *)
AgeErrors(years) ==
  (IF years < kMinAge THEN <<"birthdayToYoung">> ELSE <<>>)
    \o (IF years > kMaxAge THEN <<"birthdayToOld">> ELSE <<>>)

validateBirthDayDate(vm, date, at) ==
  LET years == compareDates(date, at)
      found == IF years # vm.client.age THEN <<"birthdayNotMatch">>
                                        ELSE AgeErrors(years)
  IN  [client |-> [vm.client EXCEPT !.birthDate = toString(date)],
       errors |-> vm.errors \o found]

(* The checks of saveButtonTapped in their order. *)
Validated ==
  LET named     == validateFullName([client |-> client, errors |-> errors],
                                    nameTextField, "name")
      lastNamed == validateFullName(named, lastNameTextField, "lastName")
      aged      == setYears(lastNamed, yearsTextField)
  IN  validateBirthDayDate(aged, dateSelected, now)

OrElse(value, default) == IF value = NoValue THEN default ELSE value

(* User.toDictionary; the key "id" is the database's child key, which      *)
(* saveClient fills in and ClientStore models.                             *)
toDictionary(c) ==
  [name     |-> OrElse(c.name, EmptyText),
   lastName |-> OrElse(c.lastName, EmptyText),
   years    |-> OrElse(c.age, 0),
   birthDay |-> OrElse(c.birthDate, EmptyText)]

-----------------------------------------------------------------------------
(* A new view controller: blank fields, a fresh view model. *)
Init ==
  /\ nameTextField = EmptyText
  /\ lastNameTextField = EmptyText
  /\ yearsTextField = EmptyText
  /\ now = Opening
  /\ dateSelected = Opening
  /\ client = [name |-> NoValue, lastName |-> NoValue, age |-> NoValue,
               birthDate |-> NoValue]
  /\ errors = <<>>
  /\ message = <<>>
  /\ saves = <<>>
  /\ taps = 0

(* Fault: the replacement is not filtered. *)
AcceptAnyCharacters(string) == string \in Texts

(* textField(_:shouldChangeCharactersIn:replacementString:) *)
shouldChangeCharactersIn(string) == string \in Letters

(* The user replaces the text of a name field.  Replacing a part of it     *)
(* reaches no other text: the part that stays is made of letters already.  *)
EditName(string) ==
  /\ shouldChangeCharactersIn(string)
  /\ nameTextField' = string
  /\ UNCHANGED <<lastNameTextField, yearsTextField, dateSelected, client,
                 errors, message, saves, now, taps>>

EditLastName(string) ==
  /\ shouldChangeCharactersIn(string)
  /\ lastNameTextField' = string
  /\ UNCHANGED <<nameTextField, yearsTextField, dateSelected, client,
                 errors, message, saves, now, taps>>

(* The years field has no delegate: anything can be pasted into it. *)
EditYears(string) ==
  /\ yearsTextField' = string
  /\ UNCHANGED <<nameTextField, lastNameTextField, dateSelected, client,
                 errors, message, saves, now, taps>>

datePickerValueChanged(date) ==
  /\ dateSelected' = date
  /\ UNCHANGED <<nameTextField, lastNameTextField, yearsTextField, client,
                 errors, message, saves, now, taps>>

(* Fault: the errors are kept. *)
PresentAndKeepErrors(found) ==
  /\ message' = found
  /\ errors' = found

(* presentDataErrorsMessage: one alert with every error, then removeAll. *)
presentDataErrorsMessage(found) ==
  /\ message' = found
  /\ errors' = <<>>

clearData ==
  /\ nameTextField' = EmptyText
  /\ lastNameTextField' = EmptyText
  /\ yearsTextField' = EmptyText

(* checkValidationErrors *)
RejectForm(vm) ==
  /\ vm.errors # <<>>
  /\ presentDataErrorsMessage(vm.errors)
  /\ UNCHANGED <<nameTextField, lastNameTextField, yearsTextField, saves>>

AcceptForm(vm) ==
  /\ vm.errors = <<>>
  /\ saves' = Append(saves, [record |-> toDictionary(vm.client), at |-> now])
  /\ clearData
  /\ errors' = vm.errors
  /\ UNCHANGED message

(* The whole tap but for startLoading and stopLoading, which only disable  *)
(* the buttons for a while and are MainScreen's: here the button takes     *)
(* every tap, which allows every sequence of taps of the code and more.    *)
saveButtonTapped ==
  /\ taps < MaxTaps
  /\ taps' = taps + 1
  /\ client' = Validated.client
  /\ RejectForm(Validated) \/ AcceptForm(Validated)
  /\ UNCHANGED <<dateSelected, now>>

(* Time passes while the form is on the screen. *)
Tick ==
  /\ now < LastMoment
  /\ now' = now + 1
  /\ UNCHANGED <<nameTextField, lastNameTextField, yearsTextField,
                 dateSelected, client, errors, message, saves, taps>>

Next ==
  \/ \E string \in Texts : EditName(string)
  \/ \E string \in Texts : EditLastName(string)
  \/ \E string \in Texts : EditYears(string)
  \/ \E date \in PickerDates : datePickerValueChanged(date)
  \/ saveButtonTapped
  \/ Tick

Spec == Init /\ [][Next]_vars

-----------------------------------------------------------------------------
(* What the form is for, said without the view model. *)

Client == [name : Letters \cup {NoValue}, lastName : Letters \cup {NoValue},
           age : Int \cup {NoValue}, birthDate : Nat \cup {NoValue}]

(* Every check has filled its field of the client before a save, so the    *)
(* defaults that toDictionary has for nil are never written.               *)
Record == [name : Letters, lastName : Letters, years : Int, birthDay : Nat]

TypeOK ==
  /\ nameTextField \in Letters
  /\ lastNameTextField \in Letters
  /\ yearsTextField \in Texts
  /\ dateSelected \in Nat
  /\ client \in Client
  /\ errors \in Seq(DataError)
  /\ message \in Seq(DataError)
  /\ saves \in Seq([record : Record, at : Nat])
  /\ now \in Nat
  /\ taps \in Nat

(* Somebody born at `birth' has lived n whole years at the moment `at'. *)
HasLived(birth, n, at) ==
  /\ birth + n * YearTicks <= at
  /\ at < birth + (n + 1) * YearTicks

(* The form on the screen describes an acceptable client. *)
FormIsValid ==
  /\ Count[nameTextField] >= 3
  /\ Count[lastNameTextField] >= 3
  /\ \E n \in kMinAge..kMaxAge :
       IntOf[yearsTextField] = n /\ HasLived(dateSelected, n, now)

(* The record holds what the fields show, and nothing an earlier tap left  *)
(* in viewModel.client.                                                    *)
IsTheForm(record) ==
  /\ record.name = nameTextField
  /\ record.lastName = lastNameTextField
  /\ record.years = IntOf[yearsTextField]
  /\ record.birthDay = toString(dateSelected)

Tapped == taps' # taps
Saved  == Len(saves') > Len(saves)

(* A tap saves exactly when the form on the screen is valid, whatever the  *)
(* taps before it found wrong (saveButtonTapped, checkValidationErrors).   *)
SavesExactlyValidForms == [][Tapped => (Saved <=> FormIsValid)]_vars

(* The record handed to saveClient is the form on the screen at the tap:   *)
(* validateFullName leaves the previous client.name in place when it fails *)
(* and the client is never reset.                                          *)
SavedRecordIsTheForm ==
  [][Saved => /\ Len(saves') = Len(saves) + 1
              /\ IsTheForm(saves'[Len(saves')].record)]_vars

(* n whole years lie between the chosen date and now; those to a date that *)
(* is still to come count backwards.                                       *)
IsAge(n) ==
  \/ dateSelected <= now /\ n >= 0 /\ HasLived(dateSelected, n, now)
  \/ now < dateSelected /\ n <= 0 /\ HasLived(now, -n, dateSelected)

(* The years field holds the age that the chosen date gives. *)
AgeIsRight == IntOf[yearsTextField] # NoValue /\ IsAge(IntOf[yearsTextField])

(* What is wrong with the form on the screen: a name is too short; the age *)
(* is wrong; it is right, and the thirteenth birthday is still to come or  *)
(* the hundred and twenty-first has been.                                  *)
IsAtFault(error) ==
  \/ error = "name" /\ Count[nameTextField] < 3
  \/ error = "lastName" /\ Count[lastNameTextField] < 3
  \/ error = "birthdayNotMatch" /\ ~AgeIsRight
  \/ error = "birthdayToYoung" /\ AgeIsRight /\ now < dateSelected + 13 * YearTicks
  \/ error = "birthdayToOld" /\ AgeIsRight /\ dateSelected + 121 * YearTicks <= now

(* The alert of a rejected tap blames exactly what is wrong with the form  *)
(* now, each fault once: none is missing, none is taken for another, and   *)
(* none is left over from an earlier tap (validateFullName,                *)
(* validateBirthDayDate, errors.removeAll).                                *)
MessageBlamesThisForm ==
  [][(Tapped /\ ~Saved) =>
       /\ message' # <<>>
       /\ \A i, j \in 1..Len(message') : message'[i] = message'[j] => i = j
       /\ \A error \in DataError :
            (\E i \in 1..Len(message') : message'[i] = error) <=> IsAtFault(error)]_vars

(* No tap leaves an error behind for the next one. *)
ErrorsAreDrained == errors = <<>>

(* The age in a record is the age at the moment of the save of somebody    *)
(* born on the recorded day, give or take the time of the day: birthDay    *)
(* has lost it, so a year may be missing on the birthday itself.           *)
AgesAreTrue ==
  \A i \in 1..Len(saves) :
    LET r == saves[i].record
        at == saves[i].at
        midnight == r.birthDay * TicksPerDay
    IN  /\ r.years \in kMinAge..kMaxAge
        /\ \/ HasLived(midnight, r.years, at)
           \/ /\ HasLived(midnight, r.years + 1, at)
              /\ toString(at) = r.birthDay + (r.years + 1) * DaysPerYear
=============================================================================
