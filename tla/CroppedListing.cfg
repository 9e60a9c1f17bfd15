CONSTANT NetworkCounts = {0, 1, 2, 3}
SPECIFICATION Spec
INVARIANTS RaisesOnSmallLossOnly ListedIsReal
CHECK_DEADLOCK FALSE
