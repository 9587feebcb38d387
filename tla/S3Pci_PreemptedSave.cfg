\* S3PciLib.h, two callers: a save may come after another caller's call.
CONSTANTS
    d1 = d1
    c1 = c1
    c2 = c2
    None = None
    Dwords <- MC_Dwords
    FieldSpecs <- MC_FieldSpecs
    DataMasks <- MC_DataMasks
    Widths <- MC_Widths
    Bytes <- MC_Bytes
    Callers = {c1, c2}
    MaxScript = 2
    S3Fns <- MC_S3Fns
SPECIFICATION Spec
INVARIANT S3ResumeRestores
VIEW MC_View
