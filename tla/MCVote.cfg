CONSTANTS
    p1 = p1
    p2 = p2
    p3 = p3
    Pids = {p1, p2, p3}
    Agree = Agree
    None = None
    Elections <- MCElections
    MaxVotes = 2
SPECIFICATION Spec
INVARIANTS
    TypeOK
    IndexSound
    BallotsValid
    OpenUndecided
    MembersIndexed
PROPERTIES
    ExpiredEnd
CHECK_DEADLOCK FALSE
