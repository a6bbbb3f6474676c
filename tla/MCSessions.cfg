SPECIFICATION FairSpec
\* Nobody is signed in and every sign-in of the bound is used up.
CHECK_DEADLOCK FALSE
CONSTANTS
  Callers = {c1, c2}
  MaxSessions = 2
  MaxEvents = 2
INVARIANTS
  TypeOK
  NoSelfRevocation
  SignOutHolds
PROPERTIES
  NeverDroppedAlive
  CallsGoThrough
  CallsEnd
