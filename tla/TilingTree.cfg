SPECIFICATION Spec
CONSTANTS
    Views = {v1, v2, v3, v4}
    None = None
    Whole <- MCWhole
    Minimum <- MCMinimum
    Targets <- MCTargets
    Areas <- MCAreas
SYMMETRY Symmetric
INVARIANTS
    TypeOK
    SharesKept
    TilesFit
    ShownInUsable
PROPERTIES
    OneBoundaryMoves
    SwapKeepsPlaces
