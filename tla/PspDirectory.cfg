CONSTANTS
    b1 = b1
    b2 = b2
    t1 = t1
    t2 = t2
    DirBases <- MC_DirBases
    EntryTypes <- MC_EntryTypes
    MaxEntries = 2

SPECIFICATION Spec

INVARIANT TypeOK
INVARIANT DirBaseIsFirstTable
INVARIANT EntryIsFirstOfType
