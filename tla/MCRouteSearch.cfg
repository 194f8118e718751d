CONSTANTS
    Vertex = {1, 2, 3, 4, 5, 6, 7, 8, 9, 10}
    Road = {1, 2, 3, 4, 5, 6, 7, 8}
    Sheet = {"A", "B", "C"}
    Ends <- MCEnds
    RutList <- MCRutList
    SheetOf <- MCSheetOf
    Abut <- MCAbut
    Cost <- MCCost
    Place <- MCPlace
    MaxDis = 3
    MaxSheets = 1
    Maps <- MCMaps
    WayPoints = {1, 6, 8}
    LegsLoaded = 2
    Legs = 3
SPECIFICATION Spec
INVARIANTS TypeOK OpenIndexed NodesKept ParentsLead FoundIsADrive DisconnectIsReal
PROPERTIES SearchEnds
CHECK_DEADLOCK FALSE
