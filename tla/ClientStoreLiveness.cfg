SPECIFICATION Spec
CONSTANTS
  Users = {a, b}
  NoUser = NoUser
  Clients = {c1}
  NoClient = NoClient
  Permitted <- OwnersOnly
  MaxLosses = 2
  MaxNews = 2
PROPERTY EveryPutAnswered
CHECK_DEADLOCK FALSE
