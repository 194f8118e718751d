CONSTANTS
    NSet = 2
    NBucket = 3
    SetOf <- MCSetOf
    BlockSize <- MCBlockSize
    BlockNum <- MCBlockNum
    IdMod = 4
    IdxMod = 4
    ByteBits = 2
    Obj = {o1, o2, o3, o4, o5, o6}
    Size = {1, 2, 3}
    NotHeld = NotHeld
    NullPtr = NullPtr
SPECIFICATION Spec
SYMMETRY Symmetry
INVARIANTS TypeOK BooksBalance MarkedIffHeld
PROPERTIES BestFit PoolSpec
