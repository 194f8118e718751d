CONSTANTS
    Request = {r1, r2}
    NBlock = 17
    NLayer = 4
    Geom <- MCGeom
    FeatureNum <- MCFeatureNum
    Named <- MCNamed
    PartNum = 2
    Width = 2
    Compressed = TRUE
    Fits <- MCFits
    Null = Null
    Stale = Stale
SPECIFICATION Spec
INVARIANT ReadsItsLayer
