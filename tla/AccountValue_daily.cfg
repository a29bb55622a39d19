\* Two prices and two snapshots of two assets, one of them renamed.
SPECIFICATION MCSpec
CONSTANTS
    a1 = a1  a2 = a2  n1 = n1  n2 = n2  c1 = c1  c2 = c2  s1 = s1  s2 = s2
    BatchIds <- MCBatchIds
    Payloads <- MCPayloads
    Assets = {a1, a2}
    Names = {n1, n2}
    MaxDay = 3
    DaysToIngest = 2
    Week = 4
    Scale = 2
    Unit = 4
CHECK_DEADLOCK FALSE
INVARIANTS TypeOK ValueRight ValueChangeTrueOrZero FailsOnDustOnly
PROPERTY ImplementsSettledFact
