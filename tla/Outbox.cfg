SPECIFICATION FairSpec
CONSTANTS
    first = first
    second = second
    other = other
    paper = paper
    live = live
    Key = {first, second}
    Account = {paper, live}
    OrderingKey <- AccountOf
    Session = {s1, s2}
    Relay = {r1, r2}
    BatchSize = 2
    MaxAttempts = 2
    MaxClock = 0
    MaxLost = 1
INVARIANTS
    AcceptedIsRecorded
    DuplicatesAreExplained
PROPERTIES
    ImplementsHandoff
    EveryRowIsClosed
