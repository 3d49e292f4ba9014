SPECIFICATION Spec
CONSTANTS
  Users = {u1, u2}
  NoUser = NoUser
  KeychainMayFail = TRUE
  MaxQueue = 2
INVARIANT ClosedSessionStaysClosed
