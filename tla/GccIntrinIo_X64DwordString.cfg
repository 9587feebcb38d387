CONSTANTS
    Build = "X64"
    Width = 4
    Limit <- MC_Limit
    Bytes <- MC_Bytes
    BufLen <- MC_BufLen
    Vals <- MC_Vals
    MaxRx <- MC_MaxRx
    MaxTx <- MC_MaxTx
SPECIFICATION Spec
PROPERTY StringIoMatchesBuffer
