CONSTANTS
    LineSize <- MC_LineSize
    NLines <- MC_NLines
    Vals <- MC_Vals
SPECIFICATION Spec
INVARIANTS
    FlushedReachesMemory
    FetchSeesCode
    DeviceDataVisible
