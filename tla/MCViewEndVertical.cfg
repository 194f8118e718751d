CONSTANTS
    TileW = 2
    TileH = 2
    PixW = 75
    PixH = 50
    ScaleNum = 2
    Unit <- MCUnit
    Turn = {0}
    Window <- MCWindow
    Moves <- MCVertical
    Place <- MCPlace
    Lossy = FALSE
    Blank = Blank
SPECIFICATION Spec
INVARIANT RenderShows
