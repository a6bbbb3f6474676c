SPECIFICATION FairSpec
CONSTANTS
    p1 = p1
    p2 = p2
    c1 = c1
    c2 = c2
    Plays = {p1, p2}
    Charts = {c1}
    ChartOf <- OneChart
    Strength <- Rising
    Casual = {}
    Slots = {s1, s2}
    None = None
    MaxReviews = 1
    MaxStatusChanges = 2
    MaxDisturbances = 1
INVARIANTS
    TypeOK
    StatsFollowRows
    BestsFollowRows
    BoardFollows
PROPERTIES
    EveryHandlerEnds
CHECK_DEADLOCK FALSE
