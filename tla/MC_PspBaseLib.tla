---------------------------- MODULE MC_PspBaseLib ----------------------------
(***************************************************************************)
(* PspBaseLib instantiated for TLC.                                        *)
(***************************************************************************)
EXTENDS PspBaseLib

\* BAR1 sizes: below, at and above the 64KB redirection granule.
MC_BarSizes == {W(0, \h1000), W(1, 0), W(\h10, 0)}

\* Fuse register contents: blank part, proto part, secure part, and a
\* secure part with platform secure boot enabled.
MC_FuseValues == {W(0, 0), W(0, 4), W(0, 5), W(0, 21)}

MC_SmuScratchAddr == W(\hC001, \h0004)

\* One value with the PROTO bit set and one without.
MC_ScratchValues == {W(0, 0), W(0, 4)}

MC_PmNxtPtrW_MASK == W(0, \hFF)

\* The 32-bit widths, for which Address + width is the SMU data port.
MC_IndirectWidths32 == {"AccessWidth32", "AccessS3SaveWidth32"}

=============================================================================
