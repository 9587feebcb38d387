CONSTANTS
    BarSizes <- MC_BarSizes
    FuseValues <- MC_FuseValues
    SmuScratchAddr <- MC_SmuScratchAddr
    ScratchValues <- MC_ScratchValues
    PmNxtPtrW_MASK <- MC_PmNxtPtrW_MASK
    IndirectWidths <- MC_IndirectWidths32

SPECIFICATION Spec

INVARIANT TypeOK
INVARIANT RedirectMatchesBar
INVARIANT RecoveryFlagFaithful
INVARIANT FuseAnswersFresh
