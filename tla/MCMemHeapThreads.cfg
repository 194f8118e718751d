CONSTANTS
    NSet = 2
    NBucket = 2
    SetOf <- MCSetOf
    BlockSize <- MCBlockSize
    BlockNum <- MCBlockNum
    IdMod = 4
    IdxMod = 4
    ByteBits = 2
    CountMod = 8
    Obj = {o1, o2, o3, o4, o5}
    Size = {1, 2, 3}
    Thread = {t1}
    Idle = Idle
    NotHeld = NotHeld
    NullPtr = NullPtr
SPECIFICATION ThreadSpec
SYMMETRY Symmetry
PROPERTY CallsAreAtomic
