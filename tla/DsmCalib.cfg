CONSTANTS
    Keys <- MC_Keys
    DsmKeys <- MC_DsmKeys
    Chars <- MC_Chars
    MaxLen = 3
    Absent = Absent
    k1 = k1
    k2 = k2
SPECIFICATION Spec
INVARIANT CalibrationFromVpd
