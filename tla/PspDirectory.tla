---------------------------- MODULE PspDirectory ----------------------------
(***************************************************************************)
(* Locating the PSP directory and an entry in it (GetPspDirBase and        *)
(* PSPEntryInfo of PspBaseLib.c).  The SPI ROM is mapped below 4GB; the    *)
(* firmware entry table sits at a fixed offset whose address depends on    *)
(* the ROM size, so the code probes six addresses, smallest ROM first, for *)
(* the signature 0x55AA55AA, takes PspDirBase from the first table found,  *)
(* and scans that directory's TotalEntries entries for the wanted type.    *)
(*                                                                         *)
(* The ROM contents are chosen in Init and never change; each call is an   *)
(* action recording its result.  The loops are RECURSIVE operators and the *)
(* invariants compare them with set-based reference definitions.          *)
(***************************************************************************)
EXTENDS Naturals, Sequences, SequencesExt

CONSTANTS
    DirBases,    \* addresses a firmware entry table may name as PspDirBase
    EntryTypes,  \* PSP_DIRECTORY_ENTRY_TYPE values
    MaxEntries   \* largest TotalEntries a directory header holds

\* RomSigAddrTable: 512KB, 1MB, 2MB, 4MB, 8MB and 16MB ROM bases.
RomSigAddrTable == <<"FFFA0000", "FFF20000", "FFE20000",
                     "FFC20000", "FF820000", "FF020000">>
NumSlots == Len(RomSigAddrTable)

\* A PSP directory: its header's TotalEntries and the type of each entry
\* stored (an entry's location and size are returned with it and need no
\* separate value: the index names the entry).
Directory == [total : 0..MaxEntries, entry : [1..MaxEntries -> EntryTypes]]

\* A firmware entry table candidate at each probed address.
Rom == [sig : [1..NumSlots -> BOOLEAN], pspDirBase : [1..NumSlots -> DirBases]]

VARIABLES
    rom,   \* the firmware entry table candidates, fixed at Init
    dir,   \* the directory stored at each DirBase, fixed at Init
    ret    \* the last call and its outputs

vars == <<rom, dir, ret>>

NoResult == [fn |-> "None", ok |-> FALSE, base |-> CHOOSE b \in DirBases : TRUE,
             type |-> CHOOSE t \in EntryTypes : TRUE, index |-> 0]

-----------------------------------------------------------------------------
(* The code's loops                                                        *)

\* Mutant: the probe loop stops one address early (i < 5).
RECURSIVE ScanRomShort(_)
ScanRomShort(i) ==
    IF i >= NumSlots THEN 0
    ELSE IF rom.sig[i] THEN i ELSE ScanRomShort(i + 1)

\* for (i = 0; i < 6; i++) if (Signature == 0x55AA55AA) return slot i.
RECURSIVE ScanRom(_)
ScanRom(i) ==
    IF i > NumSlots THEN 0
    ELSE IF rom.sig[i] THEN i ELSE ScanRom(i + 1)

\* Mutants: the entry loop skips the last entry; it returns the loop
\* counter instead of "not found" when it runs out.
RECURSIVE ScanDirShort(_, _, _)
ScanDirShort(d, t, i) ==
    IF i >= d.total THEN 0
    ELSE IF d.entry[i] = t THEN i ELSE ScanDirShort(d, t, i + 1)
RECURSIVE ScanDirCounter(_, _, _)
ScanDirCounter(d, t, i) ==
    IF i > d.total THEN i
    ELSE IF d.entry[i] = t THEN i ELSE ScanDirCounter(d, t, i + 1)

\* for (i = 0; i < TotalEntries; i++) if (Type == EntryType) return i.
RECURSIVE ScanDir(_, _, _)
ScanDir(d, t, i) ==
    IF i > d.total THEN 0
    ELSE IF d.entry[i] = t THEN i ELSE ScanDir(d, t, i + 1)

GetPspDirBaseOp ==
    LET i == ScanRom(1)
    IN  [ok |-> i # 0, base |-> IF i # 0 THEN rom.pspDirBase[i] ELSE NoResult.base]

PSPEntryInfoOp(t) ==
    LET g == GetPspDirBaseOp
        i == IF g.ok THEN ScanDir(dir[g.base], t, 1) ELSE 0
    IN  [ok |-> i # 0, base |-> g.base, index |-> i]

-----------------------------------------------------------------------------

GetPspDirBase ==
    /\ ret' = [NoResult EXCEPT !.fn = "GetPspDirBase",
                               !.ok = GetPspDirBaseOp.ok,
                               !.base = GetPspDirBaseOp.base]
    /\ UNCHANGED <<rom, dir>>

PSPEntryInfo ==
    \E t \in EntryTypes :
        LET r == PSPEntryInfoOp(t)
        IN  /\ ret' = [fn |-> "PSPEntryInfo", ok |-> r.ok, base |-> r.base,
                       type |-> t, index |-> r.index]
            /\ UNCHANGED <<rom, dir>>

Init ==
    /\ rom \in Rom
    /\ dir \in [DirBases -> Directory]
    /\ ret = NoResult

Next == GetPspDirBase \/ PSPEntryInfo

Spec == Init /\ [][Next]_vars

-----------------------------------------------------------------------------
(* Reference definitions and properties                                    *)

\* The table the platform uses: the one at the lowest probed address.
RefSlot == SelectInSeq([i \in 1..NumSlots |-> rom.sig[i]], LAMBDA b : b)

\* The first entry of type t among the header's TotalEntries.
RefIndex(d, t) ==
    LET I == {i \in 1..d.total : d.entry[i] = t}
    IN  IF I = {} THEN 0 ELSE CHOOSE i \in I : \A j \in I : i <= j

TypeOK ==
    /\ rom \in Rom
    /\ dir \in [DirBases -> Directory]
    /\ ret \in [fn : {"None", "GetPspDirBase", "PSPEntryInfo"}, ok : BOOLEAN,
                base : DirBases, type : EntryTypes, index : 0..MaxEntries]

\* GetPspDirBase succeeds exactly when some probed address holds the
\* signature, and then returns the PspDirBase of the smallest-ROM table.
DirBaseIsFirstTable ==
    ret.fn = "GetPspDirBase" =>
        /\ ret.ok = (RefSlot # 0)
        /\ ret.ok => ret.base = rom.pspDirBase[RefSlot]

\* PSPEntryInfo reports the first entry of the wanted type within the
\* header's count, from the directory of the first table, and fails only
\* when there is no such entry.
EntryIsFirstOfType ==
    ret.fn = "PSPEntryInfo" =>
        /\ ret.ok = (RefSlot # 0 /\ RefIndex(dir[rom.pspDirBase[RefSlot]], ret.type) # 0)
        /\ ret.ok => /\ ret.base = rom.pspDirBase[RefSlot]
                     /\ ret.index = RefIndex(dir[ret.base], ret.type)

=============================================================================
