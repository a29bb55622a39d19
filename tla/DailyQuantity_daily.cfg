\* Three snapshots, and a run a day that may fail, over a week of five days.
SPECIFICATION Spec
CONSTANTS
    s1 = s1  s2 = s2  s3 = s3
    BatchIds <- ThreeSnapshots
    Payloads = {0, 1, 3}
    MaxDay = 6
    DaysToIngest = 2
    Week = 5
    Scale = 6
SYMMETRY Symmetric
CHECK_DEADLOCK FALSE
INVARIANTS TypeOK LatestIsRight ChangeTrueOrZero ChangeTrueInside SundayExact NeverDividesByZero
PROPERTY ImplementsSettledFact
