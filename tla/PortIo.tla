------------------------------- MODULE PortIo --------------------------------
(***************************************************************************)
(* The port I/O intrinsics of AMD's gcc-intrin.h.  __inbyte/word/dword and *)
(* __outbyte/word/dword move one value through a port with in and out.     *)
(* The string forms run "rep ; ins" or "rep ; outs": Count transfers       *)
(* between the port and consecutive elements of Buffer, ascending (the ABI *)
(* keeps the direction flag clear).  Their asm names Buffer and Count as   *)
(* register operands only: no memory operand and no "memory" clobber.     *)
(*                                                                         *)
(* The device on the port is a data FIFO: rx holds what it will supply,    *)
(* tx what it has received.  The caller's buffer has BufLen elements of    *)
(* the C type the intrinsic takes: uint8_t, uint16_t, or for the dword     *)
(* forms unsigned long, which on x86_64 is two dwords, low first.  mem is  *)
(* the buffer as dwords (or bytes, words).  Values are below 2^32.  The     *)
(* caller's own stores to the buffer are the step Store.                   *)
(***************************************************************************)
EXTENDS Naturals, Sequences

CONSTANTS
    Build,   \* "IA32" or "X64"
    Width,   \* bytes per transfer: 1 (byte forms), 2 (word), 4 (dword)
    BufLen,  \* elements in the caller's buffer
    Vals,    \* values the caller and the device move
    MaxRx,   \* values the device supplies in a run
    MaxTx    \* values the device accepts in a run (a bound of the model)

ASSUME Build \in {"IA32", "X64"} /\ Width \in {1, 2, 4} /\ 0 \in Vals

\* Transfer units per buffer element: an unsigned long is two dwords on
\* x86_64; uint8_t and uint16_t match their instruction.
Units == IF Width = 4 /\ Build = "X64" THEN 2 ELSE 1
Slots == 0..(BufLen * Units - 1)
Elems == 0..(BufLen - 1)

\* The caller's element i as <<low unit, high unit>>.
Elem(m, i) == <<m[i * Units], IF Units = 2 THEN m[i * Units + 1] ELSE 0>>

VARIABLES
    mem,     \* the buffer's transfer units
    rx,      \* values the device will supply, in order
    tx,      \* values the device has received, in order
    ret      \* the last step: op, count and value

vars == <<mem, rx, tx, ret>>

-----------------------------------------------------------------------------
(* The intrinsics                                                          *)

\* rep ; insb/insw/insl: n transfers into consecutive units of Buffer.
InsOp(m, s, n) == [u \in Slots |-> IF u < n THEN s[u + 1] ELSE m[u]]

\* rep ; outsb/outsw/outsl: the first n units of Buffer, in order.
OutsOp(m, n) == [u \in 1..n |-> m[u - 1]]

\* __inbytestring, __inwordstring, __indwordstring (Port, Buffer, Count)
InString ==
    \E n \in 1..BufLen :
        /\ n <= Len(rx)
        /\ mem' = InsOp(mem, rx, n)
        /\ rx' = SubSeq(rx, n + 1, Len(rx))
        /\ ret' = [op |-> "ins", n |-> n, val |-> 0]
        /\ UNCHANGED tx

\* __outbytestring, __outwordstring, __outdwordstring (Port, Buffer, Count)
OutString ==
    \E n \in 1..BufLen :
        /\ Len(tx) + n <= MaxTx
        /\ tx' = tx \o OutsOp(mem, n)
        /\ ret' = [op |-> "outs", n |-> n, val |-> 0]
        /\ UNCHANGED <<mem, rx>>

\* __inbyte, __inword, __indword: "in %1, %0" into the return value.
In ==
    /\ rx # <<>>
    /\ rx' = Tail(rx)
    /\ ret' = [op |-> "in", n |-> 1, val |-> Head(rx)]
    /\ UNCHANGED <<mem, tx>>

\* __outbyte, __outword, __outdword: "out %0, %1".
Out ==
    \E v \in Vals :
        /\ Len(tx) < MaxTx
        /\ tx' = Append(tx, v)
        /\ ret' = [op |-> "out", n |-> 1, val |-> v]
        /\ UNCHANGED <<mem, rx>>

-----------------------------------------------------------------------------
(* The caller                                                              *)

\* Buffer[i] = v: the element's units in memory.
Store ==
    \E i \in Elems, v \in Vals :
        /\ mem' = [u \in Slots |-> CASE u = i * Units -> v
                                     [] u = i * Units + 1 -> 0
                                     [] OTHER -> mem[u]]
        /\ ret' = [op |-> "store", n |-> i, val |-> v]
        /\ UNCHANGED <<rx, tx>>

Init ==
    /\ mem = [u \in Slots |-> 0]
    /\ rx \in UNION {[1..k -> Vals] : k \in 0..MaxRx}
    /\ tx = <<>>
    /\ ret = [op |-> "none", n |-> 0, val |-> 0]

Next == InString \/ OutString \/ In \/ Out \/ Store

Spec == Init /\ [][Next]_vars

-----------------------------------------------------------------------------
(* Properties                                                              *)

\* A string transfer moves Buffer[0..Count-1] as the caller declared it:
\* rep ins leaves element i holding the i-th value the device supplied and
\* the other elements as they were; rep outs sends element i as the i-th
\* value.
StringIoMatchesBuffer ==
    [][UNCHANGED vars \/
       /\ ret'.op = "ins" =>
              \A i \in Elems : Elem(mem', i) = IF i < ret'.n THEN <<rx[i + 1], 0>> ELSE Elem(mem, i)
       /\ ret'.op = "outs" =>
              tx' = tx \o [k \in 1..ret'.n |-> Elem(mem, k - 1)[1]]]_vars

=============================================================================
