SPECIFICATION Spec
CONSTANTS
    p1 = p1
    p2 = p2
    c1 = c1
    c2 = c2
    Plays = {p1, p2}
    Charts = {c1, c2}
    ChartOf <- TwoCharts
    Strength <- Rising
    Casual = {}
    Slots = {s1, s2}
    None = None
    MaxReviews = 0
    MaxStatusChanges = 1
    MaxDisturbances = 0
INVARIANTS
    StatsExact
CHECK_DEADLOCK FALSE
