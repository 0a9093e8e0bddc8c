SPECIFICATION Spec
CONSTANTS
    Threads = {t1, t2}
    Sizes = {0, 5, 40, 200}
    RT_ALIGN_SIZE = 8
    SIZEOF_STRUCT_MEM = 16
    MIN_SIZE_ALIGNED = 16
    mem_size_aligned = 112
    MaxHeld = 2
INVARIANTS
    BlocksTile
    NoTwoHoles
    Owned
    RefusedRightly
    LoopsFindThem
PROPERTY
    IsHeap
