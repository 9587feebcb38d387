-------------------------------- MODULE FsSeg --------------------------------
(***************************************************************************)
(* The fs-relative intrinsics of AMD's gcc-intrin.h: __writefsbyte, word   *)
(* and dword store Data at fs:Offset with a mov of the operand's width;    *)
(* __readfsbyte, word and dword load it back.  __readfsdword's value is an *)
(* unsigned long, so its mov is as wide as a long: 4 bytes on IA32, 8 on   *)
(* x86_64, of which the uint32_t return keeps the low 4.                   *)
(*                                                                         *)
(* The fs segment is a region of Limit mapped bytes; a load or store that  *)
(* touches a byte past it faults, and firmware stops there.  A value is    *)
(* its bytes in little-endian order, as mov moves them.  The region       *)
(* starts zeroed: writes of every width reach any contents from there.    *)
(***************************************************************************)
EXTENDS Naturals, Sequences

CONSTANTS
    Build,  \* "IA32" or "X64"
    Limit,  \* bytes mapped at fs:0
    Bytes   \* byte values

ASSUME Build \in {"IA32", "X64"} /\ Limit \in Nat \ {0} /\ 0 \in Bytes

Addrs == 0..(Limit - 1)

\* uint8_t, uint16_t and uint32_t: their width in bytes.
Widths == {1, 2, 4}

\* A value of w bytes, least significant first.
Data(w) == [0..(w - 1) -> Bytes]

\* The calls callers make: every byte of the access lies in the region.
Calls == {c \in Widths \X Addrs : c[2] + c[1] <= Limit}

VARIABLES
    mem,    \* the bytes at fs:0 .. fs:Limit-1
    ret,    \* the last call: op, width, offset, value, fault
    fault   \* a load or store touched an unmapped byte

vars == <<mem, ret, fault>>

-----------------------------------------------------------------------------

\* The bytes a mov of n bytes at offset o touches, and whether it faults.
Touches(o, n) == o..(o + n - 1)
Faults(o, n) == ~(Touches(o, n) \subseteq Addrs)

\* The width of the mov in __readfs*: "=q" (value) of unsigned char and
\* unsigned short; "=r" (value) of unsigned long for the dword.
LoadWidth(w) == IF w = 4 /\ Build = "X64" THEN 8 ELSE w

\* movb/movw/movl %[Data], %%fs:%a[Offset]
StoreOp(m, o, w, d) == [a \in Addrs |-> IF a \in Touches(o, w) THEN d[a - o] ELSE m[a]]

\* __writefsbyte, __writefsword, __writefsdword
WriteFs ==
    \E c \in Calls :
        \E d \in Data(c[1]) :
            /\ ~fault
            /\ mem' = StoreOp(mem, c[2], c[1], d)
            /\ ret' = [op |-> "write", w |-> c[1], off |-> c[2], val |-> d]
            /\ UNCHANGED fault

\* __readfsbyte, __readfsword, __readfsdword: the mov loads LoadWidth bytes
\* and the return type keeps the low w of them.
ReadFs ==
    \E c \in Calls :
        LET w == c[1]  o == c[2]  n == LoadWidth(w)
        IN  /\ ~fault
            /\ fault' = Faults(o, n)
            /\ ret' = [op |-> "read", w |-> w, off |-> o,
                       val |-> IF Faults(o, n) THEN [i \in 0..(w - 1) |-> CHOOSE b \in Bytes : TRUE]
                               ELSE [i \in 0..(w - 1) |-> mem[o + i]]]
            /\ UNCHANGED mem

Init ==
    /\ mem = [a \in Addrs |-> 0]
    /\ ret = [op |-> "none", w |-> 1, off |-> 0, val |-> [i \in {0} |-> CHOOSE b \in Bytes : TRUE]]
    /\ fault = FALSE

Next == WriteFs \/ ReadFs

Spec == Init /\ [][Next]_vars

=============================================================================
