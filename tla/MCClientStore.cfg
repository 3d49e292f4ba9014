SPECIFICATION Spec
CONSTANTS
  Users = {a, b}
  NoUser = NoUser
  Clients = {c1, c2}
  NoClient = NoClient
  Permitted <- OwnersOnly
  MaxLosses = 1
  MaxNews = 3
INVARIANTS TypeOK NothingForgotten AnswersInOrder CredentialsAgree RefusalsExplained AssertionsHold
PROPERTIES KeepsTheBook
SYMMETRY Interchangeable
CHECK_DEADLOCK FALSE
