CONSTANTS
    Request = {r1, r2}
    NBlock = 9
    NLayer = 1
    Geom <- MCRoad
    FeatureNum <- MCOneFeature
    Named <- MCOneNamed
    PartNum = 2
    Width = 2
    Compressed = FALSE
    Fits <- MCFewParts
    Null = Null
    Stale = Stale
SPECIFICATION Spec
INVARIANT NothingDangles
