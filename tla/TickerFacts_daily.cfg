\* Daily runs over a week of four days, failing, late or missing: two batches of
\* prices, one perhaps late, and two price changes.
SPECIFICATION Spec
CONSTANTS
    p1 = p1  p2 = p2  c1 = c1  c2 = c2  n1 = n1  n2 = n2  o1 = o1  o2 = o2
    BatchIds <- FourBatches
    Clock <- FourClocks
    Payloads = {o1, o2}
    Names = {n1, n2}
    MaxDay = 4
    DaysToIngest = 1
    Week = 4
    Repeats = FALSE
SYMMETRY Symmetric
CHECK_DEADLOCK FALSE
INVARIANTS TypeOK UniqueKey NothingMissed JoinedUnlessRenamed
PROPERTIES StartSettles
