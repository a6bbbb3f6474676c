SPECIFICATION FairSpec
CONSTANTS
  p1 = p1
  p2 = p2
  alice = alice
  bob = bob
  None = None
  Plays <- MCPlays
  Users <- MCUsers
  MaxSends = 4
  MaxFailures = 2
  MaxSignOuts = 0
  MaxExits = 0
  Slow <- MCNone
  Refusable <- MCFirst
PROPERTIES
  EverySubmissionSettles
