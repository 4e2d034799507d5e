\* Three settings requests, and a check, over one position.
SPECIFICATION PauseSpec
CONSTANTS
    p = p
    s1 = s1
    s2 = s2
    s3 = s3
    Position = {p}
    Whole = Whole
    Saver <- MCSaver
    Body <- AnyBody
    PolicyBody = {}
    Checker = {c1}
INVARIANT PauseHolds
PROPERTY PauseNeedsPermission
SYMMETRY PauseSymmetry
CHECK_DEADLOCK FALSE
