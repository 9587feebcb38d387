------------------------------- MODULE Word32 -------------------------------
(***************************************************************************)
(* C UINT32 arithmetic for TLC.  TLC integers stop at 2^31 - 1, so a       *)
(* 32-bit value is kept as its two 16-bit halves; every operator below     *)
(* wraps modulo 2^32 exactly as the C operator it is named after.  This    *)
(* module models the C language, not code of the repository.              *)
(***************************************************************************)
EXTENDS Naturals, Bitwise

Half == 2^16

\* The set of all UINT32 values.
Word == [hi : 0..(Half - 1), lo : 0..(Half - 1)]

\* The UINT32 literal 0xHHHHLLLL is written W(\hHHHH, \hLLLL).
W(h, l) == [hi |-> h, lo |-> l]

Zero == W(0, 0)
One  == W(0, 1)
Ones == W(Half - 1, Half - 1)      \* 0xFFFFFFFF

\* a + b (mod 2^32)
Add32(a, b) ==
    LET s == a.lo + b.lo
    IN  W((a.hi + b.hi + s \div Half) % Half, s % Half)

\* ~a
Not32(a) == W(Half - 1 - a.hi, Half - 1 - a.lo)

\* a - b (mod 2^32)
Sub32(a, b) == Add32(a, Add32(Not32(b), One))

\* a & b and a | b
And32(a, b) == W(a.hi & b.hi, a.lo & b.lo)
Or32(a, b)  == W(a.hi | b.hi, a.lo | b.lo)

\* a >> 8 (logical)
Shr8(a) == W(a.hi \div 256, (a.hi % 256) * 256 + a.lo \div 256)

\* a >> n and a << n (logical), 0 <= n <= 32
ShrN(a, n) ==
    IF n >= 32 THEN Zero
    ELSE IF n >= 16 THEN W(0, a.hi \div 2^(n - 16))
    ELSE W(a.hi \div 2^n, (a.hi % 2^n) * 2^(16 - n) + a.lo \div 2^n)
ShlN(a, n) ==
    IF n >= 32 THEN Zero
    ELSE IF n >= 16 THEN W((a.lo * 2^(n - 16)) % Half, 0)
    ELSE W((a.hi * 2^n + a.lo \div 2^(16 - n)) % Half, (a.lo * 2^n) % Half)

\* The low w bits set, 0 <= w <= 32
LowBits(w) ==
    IF w >= 16 THEN W(2^(w - 16) - 1, Half - 1) ELSE W(0, 2^w - 1)

\* a <= b as unsigned values
Le32(a, b) == a.hi < b.hi \/ (a.hi = b.hi /\ a.lo <= b.lo)

\* a lies in the closed range [lo, hi]
InRange32(a, lo, hi) == Le32(lo, a) /\ Le32(a, hi)

=============================================================================
