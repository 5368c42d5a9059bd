SPECIFICATION MCFairSpec
CONSTANTS
    Absent = Absent
    Unused = Unused
    n1 = n1
    n2 = n2
    s1 = s1
    s2 = s2
    Tasks = {"t1", "t2"}
INVARIANTS
    ShownIsTrue
PROPERTIES
    AgentsHeal
    AccessFollows
    WorkEnds
CHECK_DEADLOCK FALSE
