SPECIFICATION Spec
CONSTANTS
  Clients = {c1, c2}
  NoClient = NoClient
  MaxQueue = 3
  MaxTimers = 2
INVARIANTS TypeOK SavedOnce ButtonsOnTheirWay OutcomeAccountedFor
PROPERTY ButtonsComeBack
CHECK_DEADLOCK FALSE
