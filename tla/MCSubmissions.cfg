SPECIFICATION Spec
CONSTANTS
  p1 = p1
  p2 = p2
  alice = alice
  bob = bob
  None = None
  Plays <- MCPlays
  Users <- MCUsers
  MaxSends = 2
  MaxFailures = 1
  MaxSignOuts = 1
  MaxExits = 1
  Slow <- MCFirst
  Refusable <- MCFirst
SYMMETRY Symmetry
INVARIANTS
  TypeOK
  TicketSurvivesRetries
  DroppedForAReason
  QuitKeepsReplays
PROPERTIES
  LedgerSpec
