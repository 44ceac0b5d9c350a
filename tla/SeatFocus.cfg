SPECIFICATION Spec
CONSTANTS
    Views = {v1, v2}
    LayerSurfaces = {l1, l2}
    Outputs = {o1}
    Keyboards = {k1, k2}
    KeyboardsStay = FALSE
    NULL = NULL
SYMMETRY Symmetry
CHECK_DEADLOCK FALSE
INVARIANT TypeOK
PROPERTIES
    FocusGivenUp
    KeyboardFollowsActive
    LayerKeyboardRecorded
    ExclusiveKeeps
