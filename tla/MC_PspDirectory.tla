--------------------------- MODULE MC_PspDirectory ---------------------------
EXTENDS PspDirectory

CONSTANTS b1, b2, t1, t2

MC_DirBases == {b1, b2}
MC_EntryTypes == {t1, t2}

=============================================================================
