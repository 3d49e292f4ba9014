----------------------------- MODULE MCClientForm -----------------------------
(* A small instance of ClientForm.  A year has two days of two moments, so *)
(* that the age boundaries, a birthday and midnight are all a tick away.   *)
EXTENDS ClientForm

MCLetters == {"", "ab", "abc", "xyz"}
MCTexts == MCLetters \cup {"0", "12", "13", "120", "121"}
MCCount == [t \in MCTexts |-> CASE t = "" -> 0
                                [] t = "0" -> 1
                                [] t \in {"ab", "12", "13"} -> 2
                                [] t \in {"abc", "xyz", "120", "121"} -> 3]
MCIntOf == [t \in MCTexts |-> CASE t = "0" -> 0
                                [] t = "12" -> 12
                                [] t = "13" -> 13
                                [] t = "120" -> 120
                                [] t = "121" -> 121
                                [] OTHER -> NoValue]

MCOpening == 4 * 121 + 1
(* One tick before the thirteenth birthday; one before the hundred and     *)
(* twenty-first, at midnight and at noon; a day to come.                   *)
MCPickerDates == {MCOpening - 4 * 13 + 1,
                  MCOpening - 4 * 121 + 1, MCOpening - 4 * 121 + 2,
                  MCOpening + 2}
=============================================================================
