SPECIFICATION Spec
CONSTANTS
    Users <- MCUsers
    Deltas <- MCDeltas
    Places <- MCPlaces
    OwnSizes <- MCOwnSizes
    MinSize <- MCMinSize
    MaxSize <- MCMaxSize
    Coordinates <- MCCoordinates
    MaxConfigures = 2
INVARIANTS
    TypeOK
    FloatingInStep
    InPlaceFromTheRight
PROPERTY OppositeEdgeStays
