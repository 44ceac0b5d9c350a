--------------------------- MODULE MCViewGeometry ---------------------------
(***************************************************************************)
(* An instance of ViewGeometry for TLC.                                    *)
(***************************************************************************)
EXTENDS ViewGeometry

BoxAt(x, y, width, height) ==
    [at |-> [x |-> x, y |-> y], size |-> [x |-> width, y |-> height]]

MCUsers == {{"right"}, {"left", "bottom"}}
MCDeltas == {[x |-> 1, y |-> -1]}
MCPlaces == {BoxAt(1, 0, 1, 2), BoxAt(0, 1, 2, 0)}
MCOwnSizes == {[x |-> 1, y |-> 1]}
MCMinSize == [x |-> 0, y |-> 0]
MCMaxSize == [x |-> 2, y |-> 0]
MCCoordinates == 0..2
=============================================================================
