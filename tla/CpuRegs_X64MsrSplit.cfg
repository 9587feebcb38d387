CONSTANTS
    Build = "X64"
    RegNums <- MC_RegNums
    Msrs = {m1}
    Vals <- MC_Vals
    TscStart <- MC_TscStart
    TscEnd <- MC_TscEnd
SPECIFICATION Spec
PROPERTY IntrinsicsImplementRegFile
