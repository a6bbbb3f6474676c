SPECIFICATION Spec
CONSTANTS
  p1 = p1
  p2 = p2
  alice = alice
  bob = bob
  None = None
  Plays <- MCPlays
  Users <- MCUsers
  MaxSends = 2
  MaxFailures = 0
  MaxSignOuts = 0
  MaxExits = 0
  Slow <- MCNone
  Refusable <- MCNone
SYMMETRY Symmetry
INVARIANTS
  TicketsKeepComing
