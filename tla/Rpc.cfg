SPECIFICATION FairSpec
CONSTANTS
  Request = {a, b, quit}
  Shutdowns = {quit}
  Socket = {s1, s2}
  None = None
INVARIANTS TypeOK OneConnection Accounted
PROPERTIES ImplementsCalls Settled
CHECK_DEADLOCK FALSE
