SPECIFICATION Spec
CONSTANTS
    Views = {v1, v2}
    LayerSurfaces = {l1, l2}
    Outputs = {o1}
    Keyboards = {k1}
    KeyboardsStay = FALSE
    NULL = NULL
CHECK_DEADLOCK FALSE
INVARIANT FocusedLayerLives
