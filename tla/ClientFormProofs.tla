--------------------------- MODULE ClientFormProofs ---------------------------
(***************************************************************************)
(* What ClientForm promises, for every set of texts, every calendar and    *)
(* any number of taps.  The checks are described one at a time by lemmas   *)
(* on the view model's state; ValidatedEffect puts them together.          *)
(***************************************************************************)
EXTENDS ClientForm, SequenceTheorems, TLAPS

ViewModel == [client : Client, errors : Seq(DataError)]

(* A year has a positive length. *)
LEMMA YearTicksPositive == YearTicks \in Nat \ {0}
  BY DateAssumption DEF YearTicks

(* compareDates returns an integer. *)
LEMMA compareDatesType ==
  ASSUME NEW birthDay \in Nat, NEW to \in Nat
  PROVE  compareDates(birthDay, to) \in Int
<1>1. CASE birthDay <= to
  BY <1>1, YearTicksPositive DEF compareDates
<1>2. CASE ~(birthDay <= to)
  BY <1>2, YearTicksPositive DEF compareDates
<1> QED BY <1>1, <1>2

(* toString returns the number of a day. *)
LEMMA toStringType ==
  ASSUME NEW date \in Nat
  PROVE  toString(date) \in Nat
BY DateAssumption DEF toString

(* The check of the first name: the client takes it, or an error is added. *)
LEMMA validateNameEffect ==
  ASSUME NEW vm \in ViewModel, NEW text \in Letters
  PROVE  LET new == validateFullName(vm, text, "name")
             ok  == Count[text] > 2
         IN  /\ new \in ViewModel
             /\ new.client.name = IF ok THEN text ELSE vm.client.name
             /\ new.client.lastName = vm.client.lastName
             /\ new.client.age = vm.client.age
             /\ new.client.birthDate = vm.client.birthDate
             /\ new.errors = IF ok THEN vm.errors ELSE Append(vm.errors, "name")
<1> DEFINE new == validateFullName(vm, text, "name")
<1>1. vm.client \in Client /\ vm.errors \in Seq(DataError)
  BY DEF ViewModel
<1>2. CASE Count[text] > 2
  <2>1. /\ new = [vm EXCEPT !.client = [@ EXCEPT !["name"] = text]]
    BY <1>2 DEF validateFullName, kMinStringToAccept
  <2>2. new.errors = vm.errors /\ new.client = [vm.client EXCEPT !["name"] = text]
    BY <2>1 DEF ViewModel
  <2>3. new.client \in Client
    BY <2>2, <1>1 DEF Client
  <2>4. new \in ViewModel
    BY <1>1, <2>1, <2>2, <2>3 DEF ViewModel
  <2> HIDE DEF new
  <2>5. /\ new.client.name = text
        /\ new.client.lastName = vm.client.lastName
        /\ new.client.age = vm.client.age
        /\ new.client.birthDate = vm.client.birthDate
    BY <1>1, <1>2, <2>2 DEF Client
  <2> QED BY <1>2, <2>2, <2>4, <2>5 DEF new
<1>3. CASE ~(Count[text] > 2)
  <2>1. new = [vm EXCEPT !.errors = Append(@, "name")]
    BY <1>3 DEF validateFullName, kMinStringToAccept
  <2>2. new.errors = Append(vm.errors, "name") /\ new.client = vm.client
    BY <2>1 DEF ViewModel
  <2>3. new.errors \in Seq(DataError)
    BY <1>1, <2>2 DEF DataError
  <2>4. new \in ViewModel
    BY <1>1, <2>1, <2>2, <2>3 DEF ViewModel
  <2> HIDE DEF new
  <2>5. /\ new.client.name = vm.client.name
        /\ new.client.lastName = vm.client.lastName
        /\ new.client.age = vm.client.age
        /\ new.client.birthDate = vm.client.birthDate
    BY <1>1, <2>2 DEF Client
  <2> QED BY <1>3, <2>2, <2>4, <2>5 DEF new
<1> QED BY <1>2, <1>3

(* The same for the last name. *)
LEMMA validateLastNameEffect ==
  ASSUME NEW vm \in ViewModel, NEW text \in Letters
  PROVE  LET new == validateFullName(vm, text, "lastName")
             ok  == Count[text] > 2
         IN  /\ new \in ViewModel
             /\ new.client.name = vm.client.name
             /\ new.client.lastName = IF ok THEN text ELSE vm.client.lastName
             /\ new.client.age = vm.client.age
             /\ new.client.birthDate = vm.client.birthDate
             /\ new.errors = IF ok THEN vm.errors ELSE Append(vm.errors, "lastName")
<1> DEFINE new == validateFullName(vm, text, "lastName")
<1>1. vm.client \in Client /\ vm.errors \in Seq(DataError)
  BY DEF ViewModel
<1>2. CASE Count[text] > 2
  <2>1. /\ new = [vm EXCEPT !.client = [@ EXCEPT !["lastName"] = text]]
    BY <1>2 DEF validateFullName, kMinStringToAccept
  <2>2. new.errors = vm.errors /\ new.client = [vm.client EXCEPT !["lastName"] = text]
    BY <2>1 DEF ViewModel
  <2>3. new.client \in Client
    BY <2>2, <1>1 DEF Client
  <2>4. new \in ViewModel
    BY <1>1, <2>1, <2>2, <2>3 DEF ViewModel
  <2> HIDE DEF new
  <2>5. /\ new.client.name = vm.client.name
        /\ new.client.lastName = text
        /\ new.client.age = vm.client.age
        /\ new.client.birthDate = vm.client.birthDate
    BY <1>1, <1>2, <2>2 DEF Client
  <2> QED BY <1>2, <2>2, <2>4, <2>5 DEF new
<1>3. CASE ~(Count[text] > 2)
  <2>1. new = [vm EXCEPT !.errors = Append(@, "lastName")]
    BY <1>3 DEF validateFullName, kMinStringToAccept
  <2>2. new.errors = Append(vm.errors, "lastName") /\ new.client = vm.client
    BY <2>1 DEF ViewModel
  <2>3. new.errors \in Seq(DataError)
    BY <1>1, <2>2 DEF DataError
  <2>4. new \in ViewModel
    BY <1>1, <2>1, <2>2, <2>3 DEF ViewModel
  <2> HIDE DEF new
  <2>5. /\ new.client.name = vm.client.name
        /\ new.client.lastName = vm.client.lastName
        /\ new.client.age = vm.client.age
        /\ new.client.birthDate = vm.client.birthDate
    BY <1>1, <2>2 DEF Client
  <2> QED BY <1>3, <2>2, <2>4, <2>5 DEF new
<1> QED BY <1>2, <1>3

(* setYears overwrites the age, with nil too. *)
LEMMA setYearsEffect ==
  ASSUME NEW vm \in ViewModel, NEW text \in Texts
  PROVE  LET new == setYears(vm, text)
         IN  /\ new \in ViewModel
             /\ new.client.name = vm.client.name
             /\ new.client.lastName = vm.client.lastName
             /\ new.client.age = IntOf[text]
             /\ new.client.birthDate = vm.client.birthDate
             /\ new.errors = vm.errors
BY TextAssumption DEF setYears, ViewModel, Client

(* The age rules add no error exactly between the two limits. *)
LEMMA AgeErrorsEffect ==
  ASSUME NEW years \in Int
  PROVE  /\ AgeErrors(years) \in Seq(DataError)
         /\ AgeErrors(years) = <<>> <=> years \in 13..120
<1>1. CASE years < 13
  BY <1>1 DEF AgeErrors, DataError, kMinAge, kMaxAge
<1>2. CASE years > 120
  BY <1>2 DEF AgeErrors, DataError, kMinAge, kMaxAge
<1>3. CASE years \in 13..120
  BY <1>3 DEF AgeErrors, DataError, kMinAge, kMaxAge
<1> QED BY <1>1, <1>2, <1>3

(* The check of the birthday. *)
LEMMA validateBirthDayDateEffect ==
  ASSUME NEW vm \in ViewModel, NEW date \in Nat, NEW at \in Nat
  PROVE  LET new   == validateBirthDayDate(vm, date, at)
             years == compareDates(date, at)
         IN  /\ new \in ViewModel
             /\ new.client.name = vm.client.name
             /\ new.client.lastName = vm.client.lastName
             /\ new.client.age = vm.client.age
             /\ new.client.birthDate = toString(date)
             /\ new.errors = <<>> <=> /\ vm.errors = <<>>
                                      /\ years = vm.client.age
                                      /\ years \in 13..120
<1> DEFINE years == compareDates(date, at)
           found == IF years # vm.client.age THEN <<"birthdayNotMatch">>
                                             ELSE AgeErrors(years)
           new   == validateBirthDayDate(vm, date, at)
<1>1. years \in Int /\ toString(date) \in Nat
  BY compareDatesType, toStringType
<1>2. found \in Seq(DataError) /\ (found = <<>> <=> years = vm.client.age /\ years \in 13..120)
  <2> HIDE DEF years
  <2>1. CASE years # vm.client.age
    <3>1. <<"birthdayNotMatch">> \in Seq(DataError) /\ <<"birthdayNotMatch">> # <<>>
      BY DEF DataError
    <3> QED BY <2>1, <3>1
  <2>2. CASE years = vm.client.age
    BY <1>1, <2>2, AgeErrorsEffect
  <2> QED BY <2>1, <2>2
<1>3. /\ vm.errors \in Seq(DataError)
      /\ vm.client \in Client
  BY DEF ViewModel
<1>4. /\ new.client = [vm.client EXCEPT !.birthDate = toString(date)]
      /\ new.errors = vm.errors \o found
      /\ new = [client |-> new.client, errors |-> new.errors]
  BY DEF validateBirthDayDate
<1> HIDE DEF new, found, years
<1>5. /\ vm.errors \o found \in Seq(DataError)
      /\ vm.errors \o found = <<>> <=> vm.errors = <<>> /\ found = <<>>
  BY <1>2, <1>3, ConcatProperties, ConcatEqualIffEmpty
<1>6. /\ new.client \in Client
      /\ new.client.name = vm.client.name
      /\ new.client.lastName = vm.client.lastName
      /\ new.client.age = vm.client.age
      /\ new.client.birthDate = toString(date)
  BY <1>1, <1>3, <1>4 DEF Client
<1>7. new \in ViewModel
  BY <1>4, <1>5, <1>6 DEF ViewModel
<1> QED BY <1>2, <1>4, <1>5, <1>6, <1>7 DEF new, years

(* The whole of saveButtonTapped up to checkValidationErrors: the two      *)
(* dates and the age always reach the client, a name reaches it when it is *)
(* long enough, and with no error to begin with none is found exactly when *)
(* the four checks pass.                                                   *)
LEMMA ValidatedEffect ==
  ASSUME TypeOK
  PROVE  /\ Validated \in ViewModel
         /\ Validated.client.age = IntOf[yearsTextField]
         /\ Validated.client.birthDate = toString(dateSelected)
         /\ Count[nameTextField] > 2 => Validated.client.name = nameTextField
         /\ Count[lastNameTextField] > 2
              => Validated.client.lastName = lastNameTextField
         /\ Validated.errors = <<>> =>
              /\ Count[nameTextField] > 2
              /\ Count[lastNameTextField] > 2
              /\ compareDates(dateSelected, now) = IntOf[yearsTextField]
              /\ compareDates(dateSelected, now) \in 13..120
         /\ (/\ errors = <<>>
             /\ Count[nameTextField] > 2
             /\ Count[lastNameTextField] > 2
             /\ compareDates(dateSelected, now) = IntOf[yearsTextField]
             /\ compareDates(dateSelected, now) \in 13..120)
              => Validated.errors = <<>>
<1> DEFINE start     == [client |-> client, errors |-> errors]
           named     == validateFullName(start, nameTextField, "name")
           lastNamed == validateFullName(named, lastNameTextField, "lastName")
           aged      == setYears(lastNamed, yearsTextField)
           dated     == validateBirthDayDate(aged, dateSelected, now)
<1>1. /\ nameTextField \in Letters /\ lastNameTextField \in Letters
      /\ yearsTextField \in Texts /\ dateSelected \in Nat /\ now \in Nat
  BY DEF TypeOK
<1>2. start \in ViewModel /\ start.errors = errors
  BY DEF TypeOK, ViewModel
<1>3. dated = Validated
  BY DEF Validated
<1> HIDE DEF start
<1>4. /\ named \in ViewModel
      /\ Count[nameTextField] > 2 =>
           named.errors = errors /\ named.client.name = nameTextField
      /\ ~(Count[nameTextField] > 2) => named.errors = Append(errors, "name")
  BY <1>1, <1>2, validateNameEffect
<1> HIDE DEF named
<1>5. /\ lastNamed \in ViewModel
      /\ lastNamed.client.name = named.client.name
      /\ Count[lastNameTextField] > 2 =>
           /\ lastNamed.errors = named.errors
           /\ lastNamed.client.lastName = lastNameTextField
      /\ ~(Count[lastNameTextField] > 2) =>
           lastNamed.errors = Append(named.errors, "lastName")
  BY <1>1, <1>4, validateLastNameEffect
<1> HIDE DEF lastNamed
<1>6. /\ aged \in ViewModel
      /\ aged.client.name = lastNamed.client.name
      /\ aged.client.lastName = lastNamed.client.lastName
      /\ aged.client.age = IntOf[yearsTextField]
      /\ aged.errors = lastNamed.errors
  BY <1>1, <1>5, setYearsEffect
<1> HIDE DEF aged
<1>7. /\ dated \in ViewModel
      /\ dated.client.name = aged.client.name
      /\ dated.client.lastName = aged.client.lastName
      /\ dated.client.age = aged.client.age
      /\ dated.client.birthDate = toString(dateSelected)
      /\ dated.errors = <<>> <=>
           /\ aged.errors = <<>>
           /\ compareDates(dateSelected, now) = aged.client.age
           /\ compareDates(dateSelected, now) \in 13..120
  BY <1>1, <1>6, validateBirthDayDateEffect
<1> HIDE DEF dated
<1>8. errors \in Seq(DataError) /\ named.errors \in Seq(DataError)
  BY <1>4 DEF TypeOK, ViewModel
<1>9. Append(errors, "name") # <<>> /\ Append(named.errors, "lastName") # <<>>
  BY <1>8
<1>10. aged.errors = <<>> =>
         Count[nameTextField] > 2 /\ Count[lastNameTextField] > 2
  BY <1>4, <1>5, <1>6, <1>9
<1> QED BY <1>3, <1>4, <1>5, <1>6, <1>7, <1>10

(* A product grows with its first factor. *)
LEMMA ProductGrows ==
  ASSUME NEW a \in Nat, NEW b \in Nat, NEW d \in Nat, a <= b
  PROVE  a * d <= b * d
<1> DEFINE c == b - a
<1>1. c \in Nat /\ b = a + c
  OBVIOUS
<1> HIDE DEF c
<1>2. b * d = a * d + c * d /\ c * d \in Nat /\ a * d \in Nat
  BY <1>1
<1> QED BY <1>2

(* The quotient by a year is the number of years that somebody has lived. *)
LEMMA YearsLived ==
  ASSUME NEW birth \in Nat, NEW at \in Nat, NEW n \in Nat, birth <= at
  PROVE  (at - birth) \div YearTicks = n <=> HasLived(birth, n, at)
<1> DEFINE Y == YearTicks
           q == (at - birth) \div Y
           r == (at - birth) % Y
<1>1. Y \in Nat \ {0}
  BY YearTicksPositive
<1>2. /\ q \in Nat /\ r \in 0..(Y-1)
      /\ at - birth = q * Y + r
  BY <1>1
<1> HIDE DEF q, r, Y
<1>3. q = n => n * Y <= at - birth /\ at - birth < (n + 1) * Y
  BY <1>1, <1>2
<1>4. ASSUME n * Y <= at - birth, at - birth < (n + 1) * Y PROVE q = n
  <2>1. n * Y <= q * Y + r /\ q * Y + r < (n + 1) * Y
    BY <1>2, <1>4
  <2>2. ~(q < n)
    <3>1. ASSUME q < n PROVE (q + 1) * Y <= n * Y
      BY <1>1, <1>2, <3>1
    <3> QED BY <1>1, <1>2, <2>1, <3>1
  <2>3. ~(n < q)
    <3>1. ASSUME n < q PROVE (n + 1) * Y <= q * Y
      BY <1>1, <1>2, <3>1
    <3> QED BY <1>1, <1>2, <2>1, <3>1
  <2> QED BY <1>2, <2>2, <2>3
<1> QED BY <1>1, <1>3, <1>4 DEF HasLived, Y, q

(* compareDates counts the whole years that somebody has lived. *)
LEMMA WholeYears ==
  ASSUME NEW birth \in Nat, NEW at \in Nat, NEW n \in Nat \ {0}
  PROVE  compareDates(birth, at) = n <=> HasLived(birth, n, at)
<1>1. CASE birth <= at
  BY <1>1, YearsLived DEF compareDates
<1>2. CASE ~(birth <= at)
  <2>1. compareDates(birth, at) <= 0
    BY <1>2, YearTicksPositive DEF compareDates
  <2>2. n * YearTicks >= 0
    BY YearTicksPositive
  <2> QED BY <1>2, <2>1, <2>2, YearTicksPositive, compareDatesType DEF HasLived
<1> QED BY <1>1, <1>2

(* It counts those to a date that is still to come backwards. *)
LEMMA WholeAge ==
  ASSUME dateSelected \in Nat, now \in Nat, NEW n \in Int
  PROVE  compareDates(dateSelected, now) = n <=> IsAge(n)
<1>1. CASE dateSelected <= now
  <2> DEFINE q == (now - dateSelected) \div YearTicks
  <2>1. compareDates(dateSelected, now) = q
    BY <1>1 DEF compareDates
  <2>2. q \in Nat
    BY <1>1, YearTicksPositive
  <2>3. IsAge(n) <=> n \in Nat /\ HasLived(dateSelected, n, now)
    BY <1>1 DEF IsAge
  <2>4. n \in Nat => (q = n <=> HasLived(dateSelected, n, now))
    BY <1>1, YearsLived
  <2> HIDE DEF q
  <2> QED BY <2>1, <2>2, <2>3, <2>4
<1>2. CASE now < dateSelected
  <2> DEFINE q == (dateSelected - now) \div YearTicks
  <2>1. compareDates(dateSelected, now) = -q
    BY <1>2 DEF compareDates
  <2>2. q \in Nat
    BY <1>2, YearTicksPositive
  <2>3. IsAge(n) <=> -n \in Nat /\ HasLived(now, -n, dateSelected)
    BY <1>2 DEF IsAge
  <2>4. -n \in Nat => (q = -n <=> HasLived(now, -n, dateSelected))
    BY <1>2, YearsLived
  <2> HIDE DEF q
  <2>5. -q = n <=> q = -n
    BY <2>2
  <2> QED BY <2>1, <2>2, <2>3, <2>4, <2>5
<1> QED BY <1>1, <1>2

(* The years are fewer than n until the n-th birthday. *)
LEMMA BirthdayToCome ==
  ASSUME dateSelected \in Nat, now \in Nat, NEW n \in Nat \ {0}
  PROVE  compareDates(dateSelected, now) < n <=> now < dateSelected + n * YearTicks
<1> DEFINE Y == YearTicks
<1>1. Y \in Nat /\ n * Y \in Nat
  BY YearTicksPositive
<1>2. CASE dateSelected <= now
  <2> DEFINE q == (now - dateSelected) \div YearTicks
  <2>1. compareDates(dateSelected, now) = q
    BY <1>2 DEF compareDates
  <2>2. q \in Nat
    BY <1>2, YearTicksPositive
  <2>3. HasLived(dateSelected, q, now)
    BY <1>2, <2>2, YearsLived
  <2> HIDE DEF q
  <2>4. dateSelected + q * Y <= now /\ now < dateSelected + (q + 1) * Y
    BY <2>3 DEF HasLived
  <2>5. q * Y \in Nat /\ (q + 1) * Y \in Nat
    BY <1>1, <2>2
  <2>6. ASSUME q < n PROVE (q + 1) * Y <= n * Y
    BY <1>1, <2>2, <2>6, ProductGrows
  <2>7. ASSUME ~(q < n) PROVE n * Y <= q * Y
    BY <1>1, <2>2, <2>7, ProductGrows
  <2> HIDE DEF Y
  <2>8. q < n <=> now < dateSelected + n * Y
    BY <1>1, <2>2, <2>4, <2>5, <2>6, <2>7
  <2> QED BY <2>1, <2>8 DEF Y
<1>3. CASE now < dateSelected
  <2>1. compareDates(dateSelected, now) \in Int /\ compareDates(dateSelected, now) <= 0
    BY <1>3, YearTicksPositive, compareDatesType DEF compareDates
  <2> QED BY <1>1, <1>3, <2>1
<1> QED BY <1>2, <1>3

-----------------------------------------------------------------------------
(* The inductive invariant: the types alone do not say that a record's     *)
(* fields were all filled, and the errors of a tap must not reach the next *)
(* one.                                                                    *)
FormInv == TypeOK /\ ErrorsAreDrained

(* Stated apart for toDictionaryEffect. *)
LEMMA AgesAreIntegers == \A years \in 13..120 : years \in Int
OBVIOUS

(* toDictionary of a client that passed the checks, field by field. *)
LEMMA toDictionaryEffect ==
  ASSUME TypeOK, Validated.errors = <<>>
  PROVE  /\ toDictionary(Validated.client) \in Record
         /\ IsTheForm(toDictionary(Validated.client))
<1>1. /\ nameTextField \in Letters /\ lastNameTextField \in Letters
      /\ dateSelected \in Nat /\ now \in Nat
  BY DEF TypeOK
<1>2. /\ Validated.client.name = nameTextField
      /\ Validated.client.lastName = lastNameTextField
      /\ Validated.client.age = IntOf[yearsTextField]
      /\ Validated.client.birthDate = toString(dateSelected)
      /\ IntOf[yearsTextField] \in 13..120
  BY ValidatedEffect
<1>3. /\ nameTextField # NoValue /\ lastNameTextField # NoValue
      /\ IntOf[yearsTextField] # NoValue /\ toString(dateSelected) # NoValue
      /\ toString(dateSelected) \in Nat /\ IntOf[yearsTextField] \in Int
  <2>1. toString(dateSelected) \in Int /\ toString(dateSelected) \in Nat
    BY <1>1, toStringType
  <2>2. IntOf[yearsTextField] \in Int
    BY <1>2, AgesAreIntegers, Zenon
  <2>3. nameTextField \in Texts /\ lastNameTextField \in Texts
    BY <1>1, TextAssumption
  <2> QED BY <2>1, <2>2, <2>3, TextAssumption
<1> QED BY <1>1, <1>2, <1>3 DEF toDictionary, OrElse, Record, IsTheForm

(* One tap keeps the invariant. *)
LEMMA TapKeepsFormInv ==
  ASSUME FormInv, saveButtonTapped
  PROVE  FormInv'
<1> USE DEF FormInv, saveButtonTapped
<1>1. /\ Validated.client \in Client
      /\ Validated.errors \in Seq(DataError)
  BY ValidatedEffect DEF ViewModel
<1>2. CASE RejectForm(Validated)
  BY <1>1, <1>2, EmptySeq
     DEF RejectForm, presentDataErrorsMessage, TypeOK, ErrorsAreDrained
<1>3. CASE AcceptForm(Validated)
  <2>1. toDictionary(Validated.client) \in Record
    BY <1>3, toDictionaryEffect DEF AcceptForm
  <2>2. saves' \in Seq([record : Record, at : Nat])
    BY <1>3, <2>1 DEF AcceptForm, TypeOK
  <2> QED BY <1>1, <1>3, <2>2, TextAssumption
          DEF AcceptForm, clearData, TypeOK, ErrorsAreDrained
<1> QED BY <1>2, <1>3

(* The types of the form's state hold in every behaviour, and every tap    *)
(* leaves viewModel.errors empty for the next one.                         *)
THEOREM FormInvariant == Spec => []FormInv
<1>1. Init => FormInv
  BY TextAssumption, DateAssumption, BoundAssumption, EmptySeq
     DEF Init, FormInv, TypeOK, ErrorsAreDrained, Client
<1>2. FormInv /\ [Next]_vars => FormInv'
  <2> SUFFICES ASSUME FormInv, [Next]_vars PROVE FormInv'
    OBVIOUS
  <2> USE DEF FormInv, TypeOK, ErrorsAreDrained
  <2>1. ASSUME NEW string \in Texts, EditName(string) PROVE FormInv'
    BY <2>1 DEF EditName, shouldChangeCharactersIn
  <2>2. ASSUME NEW string \in Texts, EditLastName(string) PROVE FormInv'
    BY <2>2 DEF EditLastName, shouldChangeCharactersIn
  <2>3. ASSUME NEW string \in Texts, EditYears(string) PROVE FormInv'
    BY <2>3 DEF EditYears
  <2>4. ASSUME NEW date \in PickerDates, datePickerValueChanged(date) PROVE FormInv'
    BY <2>4, DateAssumption DEF datePickerValueChanged
  <2>5. CASE saveButtonTapped
    BY <2>5, TapKeepsFormInv
  <2>6. CASE Tick
    BY <2>6 DEF Tick
  <2>7. CASE UNCHANGED vars
    BY <2>7 DEF vars
  <2> QED BY <2>1, <2>2, <2>3, <2>4, <2>5, <2>6, <2>7 DEF Next
<1> QED BY <1>1, <1>2, PTL DEF Spec

(* TypeOK for every behaviour. *)
THEOREM TypeCorrect == Spec => []TypeOK
<1>1. FormInv => TypeOK
  BY DEF FormInv
<1> QED BY <1>1, FormInvariant, PTL

(* Only a tap counts as one, and only a tap saves. *)
LEMMA OnlyTapsMatter ==
  ASSUME FormInv, [Next]_vars, ~saveButtonTapped
  PROVE  taps' = taps /\ saves' = saves
BY DEF Next, vars, EditName, EditLastName, EditYears, datePickerValueChanged, Tick

(* A tap appends one record, or none. *)
LEMMA TapOutcome ==
  ASSUME FormInv, saveButtonTapped
  PROVE  /\ taps' # taps
         /\ \/ /\ Validated.errors # <<>>
               /\ saves' = saves
            \/ /\ Validated.errors = <<>>
               /\ Len(saves') = Len(saves) + 1
               /\ saves'[Len(saves')].record = toDictionary(Validated.client)
<1>1. taps \in Nat /\ saves \in Seq([record : Record, at : Nat])
  BY DEF FormInv, TypeOK
<1>2. taps' # taps
  BY <1>1 DEF saveButtonTapped
<1>3. CASE RejectForm(Validated)
  BY <1>2, <1>3 DEF RejectForm
<1>4. CASE AcceptForm(Validated)
  <2> DEFINE entry == [record |-> toDictionary(Validated.client), at |-> now]
  <2>1. entry \in [record : Record, at : Nat]
    BY <1>4, toDictionaryEffect DEF FormInv, TypeOK, AcceptForm
  <2>2. entry.record = toDictionary(Validated.client)
    OBVIOUS
  <2>3. saves' = Append(saves, entry) /\ Validated.errors = <<>>
    BY <1>4 DEF AcceptForm
  <2> HIDE DEF entry
  <2>4. Len(saves') = Len(saves) + 1 /\ saves'[Len(saves')] = entry
    BY <1>1, <2>1, <2>3
  <2> QED BY <1>2, <2>2, <2>3, <2>4
<1> QED BY <1>3, <1>4 DEF saveButtonTapped

(* A tap saves exactly the forms that are valid on the screen: nothing an  *)
(* earlier tap left in the view model lets a bad form through or holds a   *)
(* good one back, for every calendar and every text.                       *)
THEOREM SavesExactlyValid == Spec => SavesExactlyValidForms
<1>1. FormInv /\ [Next]_vars => [Tapped => (Saved <=> FormIsValid)]_vars
  <2> SUFFICES ASSUME FormInv, [Next]_vars, Tapped
               PROVE  Saved <=> FormIsValid
    BY DEF vars
  <2>1. saveButtonTapped
    BY OnlyTapsMatter DEF Tapped
  <2>2. saves \in Seq([record : Record, at : Nat]) /\ errors = <<>>
    BY DEF FormInv, TypeOK, ErrorsAreDrained
  <2>3. Saved <=> Validated.errors = <<>>
    BY <2>1, <2>2, TapOutcome DEF Saved
  <2>4. Validated.errors = <<>> <=>
          /\ Count[nameTextField] > 2
          /\ Count[lastNameTextField] > 2
          /\ compareDates(dateSelected, now) = IntOf[yearsTextField]
          /\ compareDates(dateSelected, now) \in 13..120
    BY <2>2, ValidatedEffect DEF FormInv
  <2>5. (/\ compareDates(dateSelected, now) = IntOf[yearsTextField]
         /\ compareDates(dateSelected, now) \in 13..120)
        <=> \E n \in 13..120 :
              IntOf[yearsTextField] = n /\ HasLived(dateSelected, n, now)
    <3>1. dateSelected \in Nat /\ now \in Nat
      BY DEF FormInv, TypeOK
    <3>2. \A n \in 13..120 : compareDates(dateSelected, now) = n
                               <=> HasLived(dateSelected, n, now)
      BY <3>1, WholeYears
    <3> QED BY <3>2
  <2>6. /\ Count[nameTextField] > 2 <=> Count[nameTextField] >= 3
        /\ Count[lastNameTextField] > 2 <=> Count[lastNameTextField] >= 3
    <3>1. Count[nameTextField] \in Nat /\ Count[lastNameTextField] \in Nat
      BY TextAssumption DEF FormInv, TypeOK
    <3> QED BY <3>1
  <2>7. FormIsValid <=>
          /\ Count[nameTextField] >= 3
          /\ Count[lastNameTextField] >= 3
          /\ \E n \in 13..120 :
               IntOf[yearsTextField] = n /\ HasLived(dateSelected, n, now)
    BY DEF FormIsValid, kMinAge, kMaxAge
  <2> QED BY <2>3, <2>4, <2>5, <2>6, <2>7, Zenon
<1> QED BY <1>1, FormInvariant, PTL DEF Spec, SavesExactlyValidForms

(* The record that reaches saveClient is the form at the tap, although the *)
(* view model's client is never reset.                                     *)
THEOREM SavedIsTheForm == Spec => SavedRecordIsTheForm
<1> DEFINE Act == Saved => /\ Len(saves') = Len(saves) + 1
                           /\ IsTheForm(saves'[Len(saves')].record)
<1>1. FormInv /\ [Next]_vars => [Act]_vars
  <2> SUFFICES ASSUME FormInv, [Next]_vars, Saved
               PROVE  /\ Len(saves') = Len(saves) + 1
                      /\ IsTheForm(saves'[Len(saves')].record)
    BY DEF vars
  <2>1. saves \in Seq([record : Record, at : Nat])
    BY DEF FormInv, TypeOK
  <2>2. saveButtonTapped
    BY <2>1, OnlyTapsMatter DEF Saved
  <2>3. Validated.errors = <<>>
    BY <2>1, <2>2, TapOutcome DEF Saved
  <2>4. IsTheForm(toDictionary(Validated.client))
    BY <2>3, toDictionaryEffect DEF FormInv
  <2> QED BY <2>2, <2>3, <2>4, TapOutcome
<1> QED BY <1>1, FormInvariant, PTL DEF Spec, SavedRecordIsTheForm
-----------------------------------------------------------------------------
(* The ages in the records *)

(* The quotient is the number of whole divisors. *)
LEMMA Quotient ==
  ASSUME NEW a \in Nat, NEW d \in Nat \ {0}, NEW k \in Nat, k * d <= a, a < k * d + d
  PROVE  a \div d = k
<1> DEFINE q == a \div d
           r == a % d
<1>1. q \in Nat /\ r \in 0..(d - 1) /\ a = q * d + r
  OBVIOUS
<1> HIDE DEF q, r
<1>2. ~(q < k)
  <2>1. ASSUME q < k PROVE (q + 1) * d <= k * d
    BY <1>1, <2>1
  <2>2. (q + 1) * d = q * d + d
    BY <1>1
  <2> QED BY <1>1, <2>1, <2>2
<1>3. ~(k < q)
  <2>1. ASSUME k < q PROVE (k + 1) * d <= q * d
    BY <1>1, <2>1
  <2>2. (k + 1) * d = k * d + d
    OBVIOUS
  <2> QED BY <1>1, <2>1, <2>2
<1>4. q = k
  BY <1>1, <1>2, <1>3
<1> QED BY <1>4 DEF q

(* A day begins at most a day before any moment of it. *)
LEMMA Midnight ==
  ASSUME NEW date \in Nat
  PROVE  /\ toString(date) \in Nat
         /\ toString(date) * TicksPerDay <= date
         /\ date < toString(date) * TicksPerDay + TicksPerDay
<1> DEFINE q == date \div TicksPerDay
           r == date % TicksPerDay
<1>1. q \in Nat /\ r \in 0..(TicksPerDay - 1) /\ date = q * TicksPerDay + r
  BY DateAssumption
<1>2. q * TicksPerDay <= date /\ date < q * TicksPerDay + TicksPerDay
  <2>1. q * TicksPerDay \in Nat /\ TicksPerDay \in Nat
    BY <1>1, DateAssumption
  <2> HIDE DEF q, r
  <2> QED BY <1>1, <2>1
<1> QED BY <1>1, <1>2 DEF toString

(* The part of AgesAreTrue about one record *)
AgeIsTrue(r, at) ==
  /\ r.years \in kMinAge..kMaxAge
  /\ \/ HasLived(r.birthDay * TicksPerDay, r.years, at)
     \/ /\ HasLived(r.birthDay * TicksPerDay, r.years + 1, at)
        /\ toString(at) = r.birthDay + (r.years + 1) * DaysPerYear

(* The age of the selected date is that of its day, but for the birthday. *)
LEMMA AgeOfTheDay ==
  ASSUME NEW date \in Nat, NEW at \in Nat, NEW n \in Nat, HasLived(date, n, at)
  PROVE  LET midnight == toString(date) * TicksPerDay
         IN  \/ HasLived(midnight, n, at)
             \/ /\ HasLived(midnight, n + 1, at)
                /\ toString(at) = toString(date) + (n + 1) * DaysPerYear
<1> DEFINE day  == toString(date)
           T    == TicksPerDay
           Y    == YearTicks
           m    == day * T
           last == n * Y
           days == (n + 1) * DaysPerYear
<1>1. /\ day \in Nat /\ m <= date /\ date < m + T
      /\ T \in Nat \ {0} /\ DaysPerYear \in Nat \ {0} /\ Y \in Nat \ {0} /\ Y = T * DaysPerYear
  BY Midnight, YearTicksPositive, DateAssumption DEF YearTicks
<1>2. T <= Y
  BY <1>1
<1>3. /\ m \in Nat /\ last \in Nat /\ days \in Nat
      /\ (n + 1) * Y = last + Y /\ (n + 1 + 1) * Y = last + Y + Y
  <2> HIDE DEF Y, T, day
  <2> QED BY <1>1
<1>4. date + last <= at /\ at < date + (last + Y)
  BY <1>3 DEF HasLived
<1>5. last + Y = days * T
  <2>1. (n + 1) * (T * DaysPerYear) = ((n + 1) * DaysPerYear) * T
    BY <1>1
  <2> QED BY <1>1, <1>3, <2>1
<1>6. day + days \in Nat /\ (day + days) * T = m + (last + Y)
  <2>1. (day + days) * T = day * T + days * T
    <3> HIDE DEF day, days, T
    <3> QED BY <1>1, <1>3
  <2> QED BY <1>1, <1>3, <1>5, <2>1
<1>7. HasLived(m, n, at) <=> m + last <= at /\ at < m + (last + Y)
  BY <1>3 DEF HasLived
<1>8. HasLived(m, n + 1, at) <=> m + (last + Y) <= at /\ at < m + (last + Y + Y)
  BY <1>3 DEF HasLived
<1> HIDE DEF m, last, days, day, T, Y
<1>9. CASE at < m + (last + Y)
  BY <1>1, <1>3, <1>4, <1>7, <1>9 DEF m, day, T
<1>10. CASE ~(at < m + (last + Y))
  <2>1. m + (last + Y) <= at /\ at < m + (last + Y) + T
    BY <1>1, <1>3, <1>4, <1>10
  <2>2. at < m + (last + Y + Y)
    BY <1>1, <1>2, <1>3, <2>1
  <2>3. (day + days) * T <= at /\ at < (day + days) * T + T
    BY <1>6, <2>1
  <2>4. at \div T = day + days
    BY <1>1, <1>6, <2>3, Quotient
  <2>5. toString(at) = day + days
    BY <2>4 DEF toString, T
  <2>6. HasLived(m, n + 1, at)
    BY <1>8, <2>1, <2>2
  <2> QED BY <2>5, <2>6 DEF m, day, days, T
<1> QED BY <1>9, <1>10

(* What a tap saves has a true age. *)
LEMMA SavedAgeIsTrue ==
  ASSUME FormInv, Validated.errors = <<>>
  PROVE  AgeIsTrue(toDictionary(Validated.client), now)
<1> DEFINE r == toDictionary(Validated.client)
<1>1. dateSelected \in Nat /\ now \in Nat
  BY DEF FormInv, TypeOK
<1>2. r.years = IntOf[yearsTextField] /\ r.birthDay = toString(dateSelected)
  BY toDictionaryEffect DEF FormInv, IsTheForm
<1>3. compareDates(dateSelected, now) = IntOf[yearsTextField] /\ IntOf[yearsTextField] \in 13..120
  BY ValidatedEffect DEF FormInv
<1> HIDE DEF r
<1>4. r.years \in 13..120 /\ r.years \in Nat /\ r.years \in Nat \ {0}
  <2>1. \A y \in 13..120 : y \in Nat /\ y \in Nat \ {0}
    OBVIOUS
  <2>2. r.years \in 13..120
    BY <1>2, <1>3, Zenon
  <2> QED BY <2>1, <2>2, Zenon
<1>5. HasLived(dateSelected, r.years, now)
  BY <1>1, <1>2, <1>3, <1>4, WholeYears
<1>6. \/ HasLived(toString(dateSelected) * TicksPerDay, r.years, now)
      \/ /\ HasLived(toString(dateSelected) * TicksPerDay, r.years + 1, now)
         /\ toString(now) = toString(dateSelected) + (r.years + 1) * DaysPerYear
  BY <1>1, <1>4, <1>5, AgeOfTheDay
<1>7. AgeIsTrue(r, now)
  BY <1>2, <1>4, <1>6 DEF AgeIsTrue, kMinAge, kMaxAge
<1> QED BY <1>7 DEF r

(* The age in every record that was ever saved is that of somebody born on *)
(* the recorded day, at the moment of the save; on the birthday itself one *)
(* year may be missing, because the record does not hold the time of day.  *)
THEOREM AgesStayTrue == Spec => []AgesAreTrue
<1> DEFINE True == \A i \in 1..Len(saves) : AgeIsTrue(saves[i].record, saves[i].at)
<1>1. True <=> AgesAreTrue
  BY DEF AgesAreTrue, AgeIsTrue
<1>2. Init => True
  BY DEF Init
<1>3. FormInv /\ True /\ [Next]_vars => True'
  <2> SUFFICES ASSUME FormInv, True, [Next]_vars PROVE True'
    OBVIOUS
  <2>1. CASE ~saveButtonTapped
    BY <2>1, OnlyTapsMatter
  <2>2. CASE RejectForm(Validated)
    BY <2>2 DEF RejectForm
  <2>3. CASE AcceptForm(Validated)
    <3> DEFINE entry == [record |-> toDictionary(Validated.client), at |-> now]
    <3>1. AgeIsTrue(entry.record, entry.at)
      BY <2>3, SavedAgeIsTrue DEF AcceptForm
    <3>2. saves' = Append(saves, entry) /\ saves \in Seq([record : Record, at : Nat])
      BY <2>3 DEF AcceptForm, FormInv, TypeOK
    <3>3. entry \in [record : Record, at : Nat]
      BY <2>3, toDictionaryEffect DEF FormInv, TypeOK, AcceptForm
    <3> HIDE DEF entry
    <3>4. /\ Len(saves') = Len(saves) + 1 /\ saves'[Len(saves) + 1] = entry
          /\ \A i \in 1..Len(saves) : saves'[i] = saves[i]
      BY <3>2, <3>3
    <3>5. \A i \in 1..Len(saves') : i \in 1..Len(saves) \/ i = Len(saves) + 1
      BY <3>2, <3>4
    <3> QED BY <3>1, <3>4, <3>5
  <2> QED BY <2>1, <2>2, <2>3 DEF saveButtonTapped
<1> HIDE DEF True
<1>4. Spec => []True
  BY <1>2, <1>3, FormInvariant, PTL DEF Spec
<1>5. []True => []AgesAreTrue
  BY <1>1, PTL
<1> QED BY <1>4, <1>5
-----------------------------------------------------------------------------
(* The messages *)

Has(s, e) == \E i \in 1..Len(s) : s[i] = e
Once(s) == \A i, j \in 1..Len(s) : s[i] = s[j] => i = j

(* A list that gets an error it did not have *)
LEMMA OneMore ==
  ASSUME NEW s \in Seq(DataError), NEW e \in DataError
  PROVE  /\ \A x : Has(Append(s, e), x) <=> Has(s, x) \/ x = e
         /\ Once(s) /\ ~Has(s, e) => Once(Append(s, e))
<1> DEFINE t == Append(s, e)
<1>1. /\ Len(s) \in Nat /\ Len(t) = Len(s) + 1 /\ t[Len(s) + 1] = e
      /\ \A i \in 1..Len(s) : t[i] = s[i]
  OBVIOUS
<1> HIDE DEF t
<1>2. \A i : i \in 1..Len(t) <=> i \in 1..Len(s) \/ i = Len(s) + 1
  BY <1>1
<1>3. \A x : Has(t, x) <=> Has(s, x) \/ x = e
  BY <1>1, <1>2 DEF Has
<1>4. Once(s) /\ ~Has(s, e) => Once(t)
  BY <1>1, <1>2 DEF Once, Has
<1> QED BY <1>3, <1>4 DEF t

(* The age rules add one error, or none. *)
LEMMA OneAgeError ==
  ASSUME NEW years \in Int
  PROVE  /\ years < 13 => AgeErrors(years) = <<"birthdayToYoung">>
         /\ years > 120 => AgeErrors(years) = <<"birthdayToOld">>
         /\ ~(years < 13) /\ ~(years > 120) => AgeErrors(years) = <<>>
<1> DEFINE young == IF years < kMinAge THEN <<"birthdayToYoung">> ELSE <<>>
           old   == IF years > kMaxAge THEN <<"birthdayToOld">> ELSE <<>>
<1>1. /\ years < 13 => young = <<"birthdayToYoung">> /\ old = <<>>
      /\ years > 120 => young = <<>> /\ old = <<"birthdayToOld">>
      /\ ~(years < 13) /\ ~(years > 120) => young = <<>> /\ old = <<>>
  BY DEF kMinAge, kMaxAge
<1>2. AgeErrors(years) = young \o old
  BY DEF AgeErrors
<1> HIDE DEF young, old
<1>3. \A s \in Seq(DataError) : s \o <<>> = s /\ <<>> \o s = s
  OBVIOUS
<1>4. <<"birthdayToYoung">> \in Seq(DataError) /\ <<"birthdayToOld">> \in Seq(DataError)
      /\ <<>> \in Seq(DataError)
  BY DEF DataError
<1>5. /\ <<>> \o <<>> = <<>>
      /\ <<"birthdayToYoung">> \o <<>> = <<"birthdayToYoung">>
      /\ <<>> \o <<"birthdayToOld">> = <<"birthdayToOld">>
  BY <1>3, <1>4
<1> QED BY <1>1, <1>2, <1>5, Zenon

(* What the checks of one tap find, with no error to begin with *)
LEMMA ErrorsFound ==
  ASSUME TypeOK, errors = <<>>
  PROVE  /\ Once(Validated.errors)
         /\ Has(Validated.errors, "name") <=> ~(Count[nameTextField] > 2)
         /\ Has(Validated.errors, "lastName") <=> ~(Count[lastNameTextField] > 2)
         /\ LET years == compareDates(dateSelected, now)
            IN  /\ Has(Validated.errors, "birthdayNotMatch") <=> years # IntOf[yearsTextField]
                /\ Has(Validated.errors, "birthdayToYoung") <=>
                     years = IntOf[yearsTextField] /\ years < 13
                /\ Has(Validated.errors, "birthdayToOld") <=>
                     years = IntOf[yearsTextField] /\ years > 120
<1> DEFINE start     == [client |-> client, errors |-> errors]
           named     == validateFullName(start, nameTextField, "name")
           lastNamed == validateFullName(named, lastNameTextField, "lastName")
           aged      == setYears(lastNamed, yearsTextField)
           dated     == validateBirthDayDate(aged, dateSelected, now)
           years     == compareDates(dateSelected, now)
           found     == IF years # aged.client.age THEN <<"birthdayNotMatch">>
                                                   ELSE AgeErrors(years)
<1>1. /\ nameTextField \in Letters /\ lastNameTextField \in Letters
      /\ yearsTextField \in Texts /\ dateSelected \in Nat /\ now \in Nat
  BY DEF TypeOK
<1>2. start \in ViewModel /\ start.errors = errors
  BY DEF TypeOK, ViewModel
<1>3. dated = Validated /\ dated.errors = aged.errors \o found
  BY DEF Validated, validateBirthDayDate
<1> HIDE DEF start
<1>4. /\ named \in ViewModel
      /\ Count[nameTextField] > 2 => named.errors = errors
      /\ ~(Count[nameTextField] > 2) => named.errors = Append(errors, "name")
  BY <1>1, <1>2, validateNameEffect
<1> HIDE DEF named
<1>5. /\ lastNamed \in ViewModel
      /\ Count[lastNameTextField] > 2 => lastNamed.errors = named.errors
      /\ ~(Count[lastNameTextField] > 2) =>
           lastNamed.errors = Append(named.errors, "lastName")
  BY <1>1, <1>4, validateLastNameEffect
<1> HIDE DEF lastNamed
<1>6. /\ aged \in ViewModel
      /\ aged.client.age = IntOf[yearsTextField]
      /\ aged.errors = lastNamed.errors
  BY <1>1, <1>5, setYearsEffect
<1> HIDE DEF aged, dated
<1>7. years \in Int
  BY <1>1, compareDatesType
<1>8. /\ years # IntOf[yearsTextField] => found = <<"birthdayNotMatch">>
      /\ years = IntOf[yearsTextField] =>
           /\ years < 13 => found = <<"birthdayToYoung">>
           /\ years > 120 => found = <<"birthdayToOld">>
           /\ ~(years < 13) /\ ~(years > 120) => found = <<>>
  <2> HIDE DEF years
  <2> QED BY <1>6, <1>7, OneAgeError
<1> HIDE DEF found, years
<1>9. /\ named.errors \in Seq(DataError) /\ lastNamed.errors \in Seq(DataError)
      /\ aged.errors \in Seq(DataError) /\ errors \in Seq(DataError)
  BY <1>4, <1>5, <1>6 DEF ViewModel, TypeOK
<1>10. {"name", "lastName", "birthdayToYoung", "birthdayToOld", "birthdayNotMatch"} \subseteq DataError
  BY DEF DataError
<1>11. Once(errors) /\ \A x : ~Has(errors, x)
  BY DEF Once, Has
<1>12. /\ Once(named.errors)
       /\ \A x : Has(named.errors, x) <=> (x = "name" /\ ~(Count[nameTextField] > 2))
  <2>1. CASE Count[nameTextField] > 2
    BY <1>4, <1>11, <2>1
  <2>2. CASE ~(Count[nameTextField] > 2)
    <3>1. "name" \in DataError /\ errors \in Seq(DataError)
      BY <1>9, <1>10
    <3>2. /\ \A x : Has(Append(errors, "name"), x) <=> Has(errors, x) \/ x = "name"
          /\ Once(Append(errors, "name"))
      BY <1>11, <3>1, OneMore, Zenon
    <3>3. named.errors = Append(errors, "name")
      BY <1>4, <2>2
    <3> QED BY <1>11, <2>2, <3>2, <3>3, Zenon
  <2> QED BY <2>1, <2>2
<1>13. /\ Once(lastNamed.errors)
       /\ \A x : Has(lastNamed.errors, x) <=>
            \/ x = "name" /\ ~(Count[nameTextField] > 2)
            \/ x = "lastName" /\ ~(Count[lastNameTextField] > 2)
  <2>1. CASE Count[lastNameTextField] > 2
    BY <1>5, <1>12, <2>1
  <2>2. CASE ~(Count[lastNameTextField] > 2)
    <3>1. ~Has(named.errors, "lastName")
      BY <1>12
    <3>2. "lastName" \in DataError /\ named.errors \in Seq(DataError)
      BY <1>9, <1>10
    <3>3. /\ \A x : Has(Append(named.errors, "lastName"), x)
                  <=> Has(named.errors, x) \/ x = "lastName"
          /\ Once(Append(named.errors, "lastName"))
      BY <1>12, <3>1, <3>2, OneMore, Zenon
    <3>4. lastNamed.errors = Append(named.errors, "lastName")
      BY <1>5, <2>2
    <3> QED BY <1>12, <2>2, <3>3, <3>4, Zenon
  <2> QED BY <2>1, <2>2
<1>14. \A e \in DataError : aged.errors \o <<e>> = Append(aged.errors, e)
  BY <1>9
<1>15. aged.errors \o <<>> = aged.errors
  BY <1>9
<1> DEFINE Fault(e) ==
             \/ e = "birthdayNotMatch" /\ years # IntOf[yearsTextField]
             \/ e = "birthdayToYoung" /\ years = IntOf[yearsTextField] /\ years < 13
             \/ e = "birthdayToOld" /\ years = IntOf[yearsTextField] /\ years > 120
<1>16. \/ dated.errors = aged.errors /\ \A e : ~Fault(e)
       \/ \E e \in {"birthdayToYoung", "birthdayToOld", "birthdayNotMatch"} :
            dated.errors = Append(aged.errors, e) /\ \A x : Fault(x) <=> x = e
  <2>1. CASE years # IntOf[yearsTextField]
    BY <1>3, <1>8, <1>10, <1>14, <2>1
  <2>2. CASE years = IntOf[yearsTextField] /\ years < 13
    <3>1. dated.errors = Append(aged.errors, "birthdayToYoung")
      BY <1>3, <1>8, <1>10, <1>14, <2>2
    <3>2. ~(years > 120)
      BY <1>7, <2>2
    <3> QED BY <2>2, <3>1, <3>2
  <2>3. CASE years = IntOf[yearsTextField] /\ years > 120
    <3>1. dated.errors = Append(aged.errors, "birthdayToOld")
      BY <1>3, <1>8, <1>10, <1>14, <2>3
    <3>2. ~(years < 13)
      BY <1>7, <2>3
    <3> QED BY <2>3, <3>1, <3>2
  <2>4. CASE years = IntOf[yearsTextField] /\ ~(years < 13) /\ ~(years > 120)
    BY <1>3, <1>8, <1>15, <2>4
  <2> QED BY <2>1, <2>2, <2>3, <2>4
<1> DEFINE Good(s) == /\ Once(s)
                      /\ Has(s, "name") <=> ~(Count[nameTextField] > 2)
                      /\ Has(s, "lastName") <=> ~(Count[lastNameTextField] > 2)
                      /\ \A e \in {"birthdayToYoung", "birthdayToOld", "birthdayNotMatch"} :
                           Has(s, e) <=> Fault(e)
<1> HIDE DEF Fault
<1>17. ASSUME NEW e \in {"birthdayToYoung", "birthdayToOld", "birthdayNotMatch"},
              dated.errors = Append(aged.errors, e), \A x : Fault(x) <=> x = e
       PROVE  Good(dated.errors)
  <2>1. ~Has(aged.errors, e) /\ Once(aged.errors) /\ e \in DataError
    BY <1>6, <1>10, <1>13
  <2>2. Once(dated.errors) /\ \A x : Has(dated.errors, x) <=> Has(aged.errors, x) \/ x = e
    BY <1>9, <1>17, <2>1, OneMore
  <2> QED BY <1>6, <1>13, <1>17, <2>2
<1>18. ASSUME dated.errors = aged.errors, \A e : ~Fault(e)
       PROVE  Good(dated.errors)
  BY <1>6, <1>13, <1>18
<1>19. Good(dated.errors)
  <2> HIDE DEF Good
  <2> QED BY <1>16, <1>17, <1>18
<1>20. Good(Validated.errors)
  <2> HIDE DEF Good
  <2> QED BY <1>3, <1>19, Zenon
<1>21. years = compareDates(dateSelected, now)
  BY DEF years
<1> QED BY <1>20, <1>21 DEF Fault

(* The alert of a rejected tap names exactly what is wrong with the form   *)
(* on the screen, each of the five faults once: none is missing, and none  *)
(* is there that an earlier tap had found.                                 *)
THEOREM MessagesBlameTheForm == Spec => MessageBlamesThisForm
<1> DEFINE Blames ==
      /\ message' # <<>>
      /\ \A i, j \in 1..Len(message') : message'[i] = message'[j] => i = j
      /\ \A error \in DataError :
           (\E i \in 1..Len(message') : message'[i] = error) <=> IsAtFault(error)
<1>1. FormInv /\ [Next]_vars => [(Tapped /\ ~Saved) => Blames]_vars
  <2> SUFFICES ASSUME FormInv, [Next]_vars, Tapped, ~Saved PROVE Blames
    BY DEF vars
  <2>1. saveButtonTapped
    BY OnlyTapsMatter DEF Tapped
  <2>2. saves \in Seq([record : Record, at : Nat]) /\ errors = <<>> /\ TypeOK
    BY DEF FormInv, TypeOK, ErrorsAreDrained
  <2>3. Validated.errors # <<>>
    BY <2>1, <2>2, TapOutcome DEF Saved
  <2>4. message' = Validated.errors
    BY <2>1, <2>3 DEF saveButtonTapped, RejectForm, AcceptForm, presentDataErrorsMessage
  <2> DEFINE years == compareDates(dateSelected, now)
             age   == IntOf[yearsTextField]
  <2>5. /\ Once(message')
        /\ Has(message', "name") <=> ~(Count[nameTextField] > 2)
        /\ Has(message', "lastName") <=> ~(Count[lastNameTextField] > 2)
        /\ Has(message', "birthdayNotMatch") <=> years # age
        /\ Has(message', "birthdayToYoung") <=> years = age /\ years < 13
        /\ Has(message', "birthdayToOld") <=> years = age /\ years > 120
    BY <2>2, <2>4, ErrorsFound
  <2>6. /\ ~(Count[nameTextField] > 2) <=> Count[nameTextField] < 3
        /\ ~(Count[lastNameTextField] > 2) <=> Count[lastNameTextField] < 3
    <3>1. Count[nameTextField] \in Nat /\ Count[lastNameTextField] \in Nat
      BY TextAssumption DEF FormInv, TypeOK
    <3> QED BY <3>1
  <2>7. /\ dateSelected \in Nat /\ now \in Nat /\ years \in Int
        /\ age \in Int \cup {NoValue} /\ NoValue \notin Int
    BY <2>2, compareDatesType, TextAssumption DEF TypeOK
  <2>8. years = age <=> AgeIsRight
    <3>1. CASE age = NoValue
      BY <2>7, <3>1 DEF AgeIsRight
    <3>2. CASE age \in Int
      BY <2>7, <3>2, WholeAge DEF AgeIsRight
    <3> QED BY <2>7, <3>1, <3>2
  <2>9. /\ years < 13 <=> now < dateSelected + 13 * YearTicks
        /\ years > 120 <=> dateSelected + 121 * YearTicks <= now
    <3>1. years < 13 <=> now < dateSelected + 13 * YearTicks
      BY <2>7, BirthdayToCome
    <3>2. years < 121 <=> now < dateSelected + 121 * YearTicks
      BY <2>7, BirthdayToCome
    <3>3. 121 * YearTicks \in Nat
      BY YearTicksPositive
    <3> HIDE DEF years
    <3> QED BY <2>7, <3>1, <3>2, <3>3
  <2> HIDE DEF years, age
  <2>10. ASSUME NEW error \in DataError PROVE Has(message', error) <=> IsAtFault(error)
    BY <2>5, <2>6, <2>8, <2>9 DEF DataError, IsAtFault
  <2> QED BY <2>3, <2>4, <2>5, <2>10 DEF Once, Has
<1> QED BY <1>1, FormInvariant, PTL DEF Spec, MessageBlamesThisForm
=============================================================================
