------------------------------ MODULE DsmCalib ------------------------------
(***************************************************************************)
(* get_dsm_calibration_from_key (vendorcode/google/chromeos/dsm_calib.c):  *)
(* a speaker-amplifier calibration value read from the read-only VPD.  The *)
(* key must start with "dsm_calib_"; vpd_gets copies the key's value into  *)
(* a static 128-byte buffer; atol parses it; a value <= 0 is rejected;     *)
(* otherwise it is stored through the caller's uint64_t pointer.           *)
(*                                                                         *)
(* A VPD value is a short sequence of characters.  vpd_gets and atol are   *)
(* not in this repository and are modelled from their contracts: vpd_gets *)
(* returns NULL for a missing key and copies at most 127 characters, atol  *)
(* skips white space, takes an optional sign and then decimal digits.      *)
(***************************************************************************)
EXTENDS Integers, Sequences

CONSTANTS
    Keys,      \* VPD keys callers pass
    DsmKeys,   \* the keys whose first 10 characters are "dsm_calib_"
    Chars,     \* characters a VPD value is made of
    MaxLen,    \* longest VPD value
    Absent     \* no entry for the key in RO_VPD

ASSUME DsmKeys \subseteq Keys

DSM_BUF_LEN == 128

Digits == [d \in {"0", "1", "2", "3", "4", "5", "6", "7", "8", "9"} |->
              CASE d = "0" -> 0 [] d = "1" -> 1 [] d = "2" -> 2 [] d = "3" -> 3
                [] d = "4" -> 4 [] d = "5" -> 5 [] d = "6" -> 6 [] d = "7" -> 7
                [] d = "8" -> 8 [] d = "9" -> 9]

Strings == UNION {[1..n -> Chars] : n \in 0..MaxLen}

VARIABLES
    vpd,    \* RO_VPD: each key's value, or Absent
    value,  \* the caller's uint64_t *value
    ret     \* the last call: key and enum cb_err

vars == <<vpd, value, ret>>

-----------------------------------------------------------------------------

\* vpd_gets(key, buf, DSM_BUF_LEN, VPD_RO): NULL, or the value cut to fit.
VpdGets(key) ==
    IF vpd[key] = Absent THEN Absent
    ELSE SubSeq(vpd[key], 1, IF Len(vpd[key]) < DSM_BUF_LEN
                             THEN Len(vpd[key]) ELSE DSM_BUF_LEN - 1)

IsSpace(c) == c \in {" ", "\t", "\n"}
IsDigit(c) == c \in DOMAIN Digits

\* atol: the digit loop, from position i with the value so far.
RECURSIVE AtolDigits(_, _, _)
AtolDigits(s, i, acc) ==
    IF i > Len(s) \/ ~IsDigit(s[i]) THEN acc
    ELSE AtolDigits(s, i + 1, acc * 10 + Digits[s[i]])

\* atol: white space, then a sign, then digits.
RECURSIVE Atol(_, _)
Atol(s, i) ==
    IF i <= Len(s) /\ IsSpace(s[i]) THEN Atol(s, i + 1)
    ELSE IF i <= Len(s) /\ s[i] = "-" THEN -AtolDigits(s, i + 1, 0)
    ELSE IF i <= Len(s) /\ s[i] = "+" THEN AtolDigits(s, i + 1, 0)
    ELSE AtolDigits(s, i, 0)

\* Mutant: the check is value_from_vpd < 0.
AcceptedZero(v) == v >= 0

\* if (value_from_vpd <= 0) return CB_ERR;
Accepted(v) == v > 0

\* The whole function: its result and the caller's *value afterwards.
GetDsmCalibrationOp(key) ==
    LET buf == VpdGets(key)
    IN  IF key \notin DsmKeys \/ buf = Absent \/ ~Accepted(Atol(buf, 1))
        THEN [err |-> "CB_ERR", value |-> value]
        ELSE [err |-> "CB_SUCCESS", value |-> Atol(buf, 1)]

GetDsmCalibrationFromKey ==
    \E key \in Keys :
        LET r == GetDsmCalibrationOp(key)
        IN  /\ value' = r.value
            /\ ret' = [key |-> key, err |-> r.err]
            /\ UNCHANGED vpd

Init ==
    /\ vpd \in [Keys -> Strings \cup {Absent}]
    /\ value = 0
    /\ ret = [key |-> Absent, err |-> "none"]

Next == GetDsmCalibrationFromKey

Spec == Init /\ [][Next]_vars

-----------------------------------------------------------------------------
(* Reference definition and properties                                     *)

\* The number a VPD value begins with: after the leading white space and an
\* optional sign, the longest run of digits, read as a decimal numeral.
LeadingNumber(s) ==
    LET Lead == {i \in 0..Len(s) : \A j \in 1..i : IsSpace(s[j])}
        b == CHOOSE i \in Lead : i + 1 \notin Lead
        sgn == IF b < Len(s) /\ s[b + 1] \in {"-", "+"} THEN 1 ELSE 0
        Run == {n \in 0..(Len(s) - b - sgn) : \A j \in 1..n : IsDigit(s[b + sgn + j])}
        n == CHOOSE m \in Run : m + 1 \notin Run
        mag == LET Dig[k \in 0..n] == IF k = 0 THEN 0
                                      ELSE Dig[k - 1] * 10 + Digits[s[b + sgn + k]]
               IN  Dig[n]
    IN  IF sgn = 1 /\ s[b + 1] = "-" THEN -mag ELSE mag

\* The value a caller gets back is positive, comes from a key with the
\* "dsm_calib_" prefix that RO_VPD holds, and is the number that key's
\* value begins with.
CalibrationFromVpd ==
    ret.err = "CB_SUCCESS" =>
        /\ ret.key \in DsmKeys
        /\ vpd[ret.key] # Absent
        /\ value = LeadingNumber(vpd[ret.key])
        /\ value > 0

=============================================================================
