----------------------------- MODULE MC_DsmCalib ----------------------------
(* Constants for checking DsmCalib with TLC. *)
EXTENDS DsmCalib

CONSTANTS k1, k2  \* a "dsm_calib_" key and another key

MC_Keys == {k1, k2}
MC_DsmKeys == {k1}

\* White space, a sign, a zero, a non-zero digit and a non-digit.
MC_Chars == {" ", "-", "0", "7", "x"}
=============================================================================
