----------------------------- MODULE GccIntrinIo ------------------------------
(***************************************************************************)
(* The I/O intrinsics of AMD's gcc-intrin.h as one header compiled for one *)
(* build: the fs-relative accessors (FsSeg) and the port and string I/O    *)
(* intrinsics (PortIo).  A caller interleaves calls of both families; they *)
(* share the build and nothing else.                                       *)
(***************************************************************************)
EXTENDS Naturals

CONSTANTS
    Build,   \* "IA32" or "X64", for the whole header
    Limit,   \* bytes mapped at fs:0
    Bytes,   \* byte values of the fs region
    Width,   \* bytes per port transfer
    BufLen,  \* elements of the caller's string I/O buffer
    Vals,    \* values moved through the port
    MaxRx,   \* values the device supplies in a run
    MaxTx    \* values the device accepts in a run

VARIABLES
    fsMem, fsRet, fault,    \* FsSeg's mem, ret and fault
    ioMem, rx, tx, ioRet    \* PortIo's mem, rx, tx and ret

fsVars == <<fsMem, fsRet, fault>>
ioVars == <<ioMem, rx, tx, ioRet>>
vars == <<fsVars, ioVars>>

Fs == INSTANCE FsSeg WITH mem <- fsMem, ret <- fsRet
Io == INSTANCE PortIo WITH mem <- ioMem, ret <- ioRet

Init == Fs!Init /\ Io!Init

Next ==
    \/ Fs!Next /\ UNCHANGED ioVars
    \/ Io!Next /\ UNCHANGED fsVars

Spec == Init /\ [][Next]_vars

-----------------------------------------------------------------------------
(* Properties: the port family's, checked while fs calls come between.   *)

\* rep ins and rep outs move exactly Buffer[0..Count-1], element by element
\* of the C type the prototype declares.
StringIoMatchesBuffer == Io!StringIoMatchesBuffer

=============================================================================
