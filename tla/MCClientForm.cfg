SPECIFICATION Spec
CONSTANTS
  Texts <- MCTexts
  EmptyText = ""
  Letters <- MCLetters
  Count <- MCCount
  IntOf <- MCIntOf
  NoValue = NoValue
  TicksPerDay = 2
  DaysPerYear = 2
  PickerDates <- MCPickerDates
  Opening <- MCOpening
  LastMoment = 487
  MaxTaps = 2
INVARIANTS TypeOK AgesAreTrue
PROPERTIES SavesExactlyValidForms SavedRecordIsTheForm MessageBlamesThisForm
CHECK_DEADLOCK FALSE
