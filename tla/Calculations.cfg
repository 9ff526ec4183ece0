SPECIFICATION CalculationsSpec
CONSTANTS
    Total = 10
    Ranks = {1, 2, 3, 4}
    Heaviest = 7
    Names = {n1, n2, n3}
    Commands = {c1, c2}
    Whole = 3
    MaxInitial = 1
    MaxChanges = 1
    Offered <- MCOffered
    MaxMetrics = 3
INVARIANTS FairRounding ShareInEffect OwnAnnotations AnyOrder
PROPERTIES Idempotent OthersKeepProportions
CHECK_DEADLOCK FALSE
