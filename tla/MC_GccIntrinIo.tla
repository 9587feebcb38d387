---------------------------- MODULE MC_GccIntrinIo ----------------------------
EXTENDS GccIntrinIo

\* Four fs bytes: a dword at 0, words at 0..2 overlapping it; on x86_64
\* the dword load at 0 is 8 bytes.  Two byte values tell the byte order
\* apart.
MC_Limit == 4
MC_Bytes == {0, 1}

\* Two buffer elements and two values; the device supplies and accepts up
\* to two values, so Count 1 and 2 both run, and a call leaves a value
\* for the next.
MC_BufLen == 2
MC_Vals == {0, 1}
MC_MaxRx == 2
MC_MaxTx == 2

=============================================================================
