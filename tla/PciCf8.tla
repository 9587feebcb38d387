------------------------------- MODULE PciCf8 -------------------------------
(***************************************************************************)
(* The PCI configuration library contract of EDK2's PciCf8Lib.h: 8-, 16-   *)
(* and 32-bit reads, writes, read-modify-writes and bit-field operations   *)
(* on configuration registers, and buffer transfers, each serialised with  *)
(* every other PCI access, so each call is one atomic step here.           *)
(*                                                                         *)
(* Configuration space is a set of dword registers of one function; an     *)
(* access names a dword, a byte offset in it and a width.  Only calls that *)
(* satisfy the header's ASSERTs (alignment, bit ranges, data within the    *)
(* field) are made.  A value is the set of its 1 bits, so that &, | and ~  *)
(* are intersection, union and complement and a shift moves every bit.    *)
(***************************************************************************)
EXTENDS Naturals, Sequences

CONSTANTS
    Dwords,      \* dword registers of the function
    FieldSpecs,  \* <<StartBit, EndBit>> pairs callers pass
    DataMasks,   \* AND/OR data and field values, before cutting to width
    Widths,      \* register widths callers use: of 8, 16 and 32
    Bytes        \* byte offsets in the dword that callers access

ASSUME Widths \subseteq {8, 16, 32} /\ Bytes \subseteq 0..3

\* UINT32 values: sets of bit positions.
Bits32 == 0..31
Word == SUBSET Bits32
Zero == {}

\* The bits below w: the mask of a w-bit type.
LowBits(w) == 0..(w - 1)

\* x << n and x >> n on UINT32.
ShlN(x, n) == {b + n : b \in x} \cap Bits32
ShrN(x, n) == {b - n : b \in {c \in x : c >= n}}

Not32(x) == Bits32 \ x
AndB(x, y) == x \cap y
OrB(x, y) == x \cup y

\* The bit-field ASSERTs: StartBit <= EndBit < w.
Fields(w) == {f \in FieldSpecs : f[1] <= f[2] /\ f[2] < w}

\* A value of the access width (UINT8, UINT16, UINT32 arguments).
Data(w) == {AndB(d, LowBits(w)) : d \in DataMasks}

\* Bits StartBit..EndBit.
FieldMask(s, e) == ShlN(LowBits(e - s + 1), s)

\* A bit-field value that fits the field: the ASSERT on Value/AndData/OrData.
FieldData(s, e) == {AndB(d, LowBits(e - s + 1)) : d \in DataMasks}

VARIABLES
    cfg,  \* the value of each dword register
    ret   \* the last call: function, width and returned value

pciVars == <<cfg, ret>>

-----------------------------------------------------------------------------
(* Register access and the value each operation writes                     *)

\* The w-bit register at byte offset off of a dword value.
RegRead(v, off, w) == AndB(ShrN(v, 8 * off), LowBits(w))

\* A dword value with its w-bit register at offset off replaced by x.
RegWrite(v, off, w, x) ==
    OrB(AndB(v, Not32(ShlN(LowBits(w), 8 * off))), ShlN(x, 8 * off))

OrOp(v, d) == OrB(v, d)
AndOp(v, d) == AndB(v, d)
AndThenOrOp(v, a, o) == OrB(AndB(v, a), o)

\* Mutant: the register is shifted without masking the field.
BitFieldReadNoMask(v, s, e) == ShrN(v, s)

BitFieldReadOp(v, s, e) == ShrN(AndB(v, FieldMask(s, e)), s)

BitFieldWriteOp(v, s, e, x) ==
    OrB(AndB(v, Not32(FieldMask(s, e))), ShlN(x, s))
\* "Extra left bits in OrData (AndData) are stripped."
FieldBits(s, e, x) == AndB(x, LowBits(e - s + 1))
BitFieldOrOp(v, s, e, x) == OrB(v, ShlN(FieldBits(s, e, x), s))
BitFieldAndOp(v, s, e, x) ==
    AndB(v, OrB(ShlN(FieldBits(s, e, x), s), Not32(FieldMask(s, e))))
BitFieldAndThenOrOp(v, s, e, a, o) ==
    BitFieldOrOp(BitFieldAndOp(v, s, e, a), s, e, o)

\* The (width, byte offset) pairs a register access may use: "If Address
\* is not aligned on a 16-bit (32-bit) boundary, then ASSERT()".
Accesses == {a \in Widths \X Bytes :
                a[2] % (a[1] \div 8) = 0 /\ a[2] + a[1] \div 8 - 1 \in Bytes}

\* The (offset, Size) pairs of a buffer transfer within those bytes.
Spans == {b \in Bytes \X (1..4) : b[1] + b[2] - 1 \in Bytes}

\* A call that writes one register: its function, the register's width and
\* offset, the bit field it names (the whole register when it names none)
\* and the value the register receives given its old value x.
Call(fn, w, o, f, new) ==
    [fn |-> fn, dw |-> CHOOSE r \in Dwords : TRUE, w |-> w, off |-> o, field |-> f, val |-> new]

\* PciCf8Write, Or, And and AndThenOr at (w, o).
RegisterUpdates(x, w, o) ==
    LET f == <<0, w - 1>>
    IN  {Call("Write", w, o, f, d) : d \in Data(w)}
        \cup {Call("Or", w, o, f, OrOp(x, d)) : d \in Data(w)}
        \cup {Call("And", w, o, f, AndOp(x, d)) : d \in Data(w)}
        \cup {Call("AndThenOr", w, o, f, AndThenOrOp(x, a, d)) : a, d \in Data(w)}

\* PciCf8BitFieldWrite, Or, And and AndThenOr at (w, o) on field f.
FieldUpdates(x, w, o, f) ==
    LET s == f[1]  e == f[2]
    IN  {Call("BitFieldWrite", w, o, f, BitFieldWriteOp(x, s, e, d)) : d \in FieldData(s, e)}
        \cup {Call("BitFieldOr", w, o, f, BitFieldOrOp(x, s, e, d)) : d \in FieldData(s, e)}
        \cup {Call("BitFieldAnd", w, o, f, BitFieldAndOp(x, s, e, d)) : d \in FieldData(s, e)}
        \cup {Call("BitFieldAndThenOr", w, o, f, BitFieldAndThenOrOp(x, s, e, a, d))
                : a, d \in FieldData(s, e)}

\* Every write-type call on a dword whose value is v.  PciCf8WriteBuffer is
\* modelled within one dword: Size bytes from StartAddress.
Updates(v) ==
    UNION {RegisterUpdates(RegRead(v, a[2], a[1]), a[1], a[2])
             \cup UNION {FieldUpdates(RegRead(v, a[2], a[1]), a[1], a[2], f) : f \in Fields(a[1])}
           : a \in Accesses}
    \cup UNION {{Call("WriteBuffer", 8 * n, o, <<0, 8 * n - 1>>, AndB(d, LowBits(8 * n)))
                   : d \in DataMasks} : <<o, n>> \in Spans}

\* Every read-type call on a dword whose value is v: PciCf8Read,
\* BitFieldRead and ReadBuffer (whose Buffer receives the bytes).
Reads(v) ==
    UNION {{Call("Read", a[1], a[2], <<0, a[1] - 1>>, RegRead(v, a[2], a[1]))}
             \cup {Call("BitFieldRead", a[1], a[2], f,
                        BitFieldReadOp(RegRead(v, a[2], a[1]), f[1], f[2])) : f \in Fields(a[1])}
           : a \in Accesses}
    \cup {Call("ReadBuffer", 8 * b[2], b[1], <<0, 8 * b[2] - 1>>, RegRead(v, b[1], 8 * b[2]))
            : b \in Spans}

-----------------------------------------------------------------------------

\* PciCf8Write/Or/And/AndThenOr/BitFieldWrite/.../WriteBuffer: the register
\* receives the new value; the value written back is returned.
PciCf8WriteCall ==
    \E r \in Dwords :
        \E u \in Updates(cfg[r]) :
            /\ cfg' = [cfg EXCEPT ![r] = RegWrite(@, u.off, u.w, u.val)]
            /\ ret' = [u EXCEPT !.dw = r]

\* PciCf8Read/BitFieldRead/ReadBuffer.
PciCf8ReadCall ==
    \E r \in Dwords :
        \E u \in Reads(cfg[r]) :
            /\ ret' = [u EXCEPT !.dw = r]
            /\ UNCHANGED cfg

PciInit ==
    /\ cfg \in [Dwords -> {Zero}]
    /\ ret = Call("None", 32, 0, <<0, 31>>, Zero)

PciNext == PciCf8WriteCall \/ PciCf8ReadCall

PciSpec == PciInit /\ [][PciNext]_pciVars
-----------------------------------------------------------------------------
(* Call classes                                                            *)

\* The bits of a dword that a call at (off, w) on bit field f may change.
CallMask(c) == ShlN(FieldMask(c.field[1], c.field[2]), 8 * c.off)

WriteFns == {"Write", "Or", "And", "AndThenOr", "BitFieldWrite", "BitFieldOr",
             "BitFieldAnd", "BitFieldAndThenOr", "WriteBuffer"}

=============================================================================
