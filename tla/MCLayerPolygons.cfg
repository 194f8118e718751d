CONSTANTS
    Request = {r1}
    NBlock = 9
    NLayer = 1
    Geom <- MCPolygon
    FeatureNum <- MCOneFeature
    Named <- MCOneNamed
    PartNum = 2
    Width = 2
    Compressed = FALSE
    Fits <- MCOnePart
    Null = Null
    Stale = Stale
SPECIFICATION Spec
PROPERTY LoadEnds
