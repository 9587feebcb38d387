------------------------------ MODULE CacheMaint -----------------------------
(***************************************************************************)
(* The contract of EDK2's CacheMaintenanceLib.h: write back and invalidate *)
(* the data cache, invalidate the instruction cache, for the whole cache   *)
(* or for the lines an Address/Length range touches.  A range that is not  *)
(* line-aligned takes the whole lines at its ends; a range call "may       *)
(* choose" the entire cache instead; WriteBackDataCache(Range) "may also   *)
(* invalidate" what it writes back; InvalidateDataCache(Range) on a CPU    *)
(* that cannot invalidate without writing back does both.                  *)
(*                                                                         *)
(* Around the library, the hardware and the other agents: the CPU stores   *)
(* into a write-back data cache (allocating the line from memory), the     *)
(* cache fills and evicts lines when it likes, the instruction cache fills *)
(* from memory, and a DMA device reads and writes memory directly.         *)
(*                                                                         *)
(* AMD's gcc-intrin.h adds the instructions firmware issues directly:      *)
(* __wbinvd, __invd, and with SSE3 _mm_clflush_fs, the fences and the      *)
(* non-temporal _mm_stream_si128_fs, whose 16 bytes (one line here) bypass *)
(* the cache: the line is evicted and the data waits in a write-combining  *)
(* buffer until the buffer drains, which only a fence forces.             *)
(***************************************************************************)
EXTENDS Naturals, FiniteSets

CONSTANTS
    LineSize,  \* bytes per cache line
    NLines,    \* lines of memory
    Vals       \* byte values

ASSUME LineSize \in Nat \ {0} /\ NLines \in Nat \ {0} /\ 0 \in Vals

Addrs == 0..(LineSize * NLines - 1)
Lines == 0..(NLines - 1)
Offs == 0..(LineSize - 1)
LineOf(a) == a \div LineSize
AddrsOf(S) == {a \in Addrs : LineOf(a) \in S}

\* The Address/Length pairs callers pass: "If Length is greater than
\* (MAX_ADDRESS - Address + 1), then ASSERT()".
Ranges == {r \in Addrs \X (0..Cardinality(Addrs)) : r[1] + r[2] <= Cardinality(Addrs)}
Range(A, L) == A..(A + L - 1)

\* An invalid line; its data is irrelevant and kept at 0.
NoLine == [valid |-> FALSE, dirty |-> FALSE, data |-> [o \in Offs |-> 0]]
MemLine(m, l) == [o \in Offs |-> m[l * LineSize + o]]
NoWc == [valid |-> FALSE, data |-> [o \in Offs |-> 0]]

VARIABLES
    mem,        \* system memory
    dc,         \* the data cache: per line valid, dirty and data
    ic,         \* the instruction cache: per line valid and data
    flushed,    \* addresses written back since the CPU last stored them
    codeReady,  \* flushed addresses then invalidated in the instruction cache
    stale,      \* addresses the device wrote while their line was cached
    dmaPending, \* device-written addresses whose line the CPU has not dirtied
    dmaReady,   \* of those, the ones a data-cache invalidate has since covered
    wc,         \* the write-combining buffer: per line valid and data
    ntStored    \* addresses stored non-temporally and not yet fenced

vars == <<mem, dc, ic, flushed, codeReady, stale, dmaPending, dmaReady, wc, ntStored>>
dmaVars == <<dmaPending, dmaReady>>
ntVars == <<wc, ntStored>>

\* What a CPU load of a, and an instruction fetch of a, returns.
\* The CPU sees its own non-temporal stores before they drain.
CpuView(a) == CASE wc[LineOf(a)].valid -> wc[LineOf(a)].data[a % LineSize]
                [] dc[LineOf(a)].valid -> dc[LineOf(a)].data[a % LineSize]
                [] OTHER -> mem[a]
FetchView(a) == IF ic[LineOf(a)].valid THEN ic[LineOf(a)].data[a % LineSize] ELSE mem[a]

-----------------------------------------------------------------------------
(* The lines a range names, and the three things done to them              *)

\* Mutant: the line holding Address + Length - 1 is left out when the end is
\* not aligned.
RangeLinesShort(A, L) == IF L = 0 THEN {} ELSE LineOf(A)..((A + L) \div LineSize - 1)

\* "If Address is not aligned on a cache line boundary, then entire ...
\* cache line containing Address ...  If Address + Length is not aligned
\* ..., then the entire ... cache line containing Address + Length - 1 ...
\* If Length is 0, then no ... cache lines are ..."
RangeLines(A, L) == IF L = 0 THEN {} ELSE LineOf(A)..LineOf(A + L - 1)

\* The lines a range call acts on: its lines, or "the entire ... cache if
\* that is more efficient".
RangeOrAll(A, L) == {RangeLines(A, L), Lines}

WriteBack(m, c, S) ==
    [a \in Addrs |-> IF LineOf(a) \in S /\ c[LineOf(a)].dirty
                     THEN c[LineOf(a)].data[a % LineSize] ELSE m[a]]
Clean(c, S) == [l \in Lines |-> IF l \in S THEN [c[l] EXCEPT !.dirty = FALSE] ELSE c[l]]
Drop(c, S) == [l \in Lines |-> IF l \in S THEN NoLine ELSE c[l]]

\* A device write is stale in the data cache until its line is dropped.
KeepStale == stale' = {a \in stale : dc'[LineOf(a)].valid}

\* Addresses whose non-temporal data is still in the write-combining
\* buffer: a cache write-back does not reach them.
WcAddrs == AddrsOf({l \in Lines : wc[l].valid})

\* A call that invalidates the data cache over the addresses C: device data
\* there is now what the caller may read.
DmaCovered(C) ==
    /\ dmaReady' = dmaReady \cup (dmaPending \cap C)
    /\ dmaPending' = dmaPending \ C

-----------------------------------------------------------------------------
(* The library                                                             *)

\* Mutant: the instruction cache is taken to be coherent and left alone.
InvalidateInstructionCacheNop ==
    /\ UNCHANGED ic
    /\ codeReady' = flushed
    /\ UNCHANGED <<mem, dc, flushed, stale, dmaVars, ntVars>>

InvalidateInstructionCache ==
    /\ ic' = Drop(ic, Lines)
    /\ codeReady' = flushed
    /\ UNCHANGED <<mem, dc, flushed, stale, dmaVars, ntVars>>

InvalidateInstructionCacheRange ==
    \E r \in Ranges : \E S \in RangeOrAll(r[1], r[2]) :
        /\ ic' = Drop(ic, S)
        /\ codeReady' = codeReady \cup (flushed \cap Range(r[1], r[2]))
        /\ UNCHANGED <<mem, dc, flushed, stale, dmaVars, ntVars>>

WriteBackInvalidateDataCache ==
    /\ mem' = WriteBack(mem, dc, Lines)
    /\ dc' = Drop(dc, Lines)
    /\ KeepStale
    /\ flushed' = Addrs \ (stale' \cup WcAddrs)
    /\ DmaCovered(Addrs)
    /\ UNCHANGED <<ic, codeReady, ntVars>>

WriteBackInvalidateDataCacheRange ==
    \E r \in Ranges : \E S \in RangeOrAll(r[1], r[2]) :
        /\ mem' = WriteBack(mem, dc, S)
        /\ dc' = Drop(dc, S)
        /\ KeepStale
        /\ flushed' = flushed \cup (Range(r[1], r[2]) \ (stale' \cup WcAddrs))
        /\ DmaCovered(Range(r[1], r[2]))
        /\ UNCHANGED <<ic, codeReady, ntVars>>

\* "This function may also invalidate all the data cache lines".
WriteBackDataCache ==
    \E inval \in BOOLEAN :
        /\ mem' = WriteBack(mem, dc, Lines)
        /\ dc' = IF inval THEN Drop(dc, Lines) ELSE Clean(dc, Lines)
        /\ KeepStale
        /\ flushed' = Addrs \ (stale' \cup WcAddrs)
        /\ UNCHANGED <<ic, codeReady, dmaVars, ntVars>>

WriteBackDataCacheRange ==
    \E r \in Ranges : \E S \in RangeOrAll(r[1], r[2]), inval \in BOOLEAN :
        /\ mem' = WriteBack(mem, dc, S)
        /\ dc' = IF inval THEN Drop(dc, S) ELSE Clean(dc, S)
        /\ KeepStale
        /\ flushed' = flushed \cup (Range(r[1], r[2]) \ (stale' \cup WcAddrs))
        /\ UNCHANGED <<ic, codeReady, dmaVars, ntVars>>

\* Dirty lines are dropped; a CPU that cannot do that writes them back.
InvalidateDataCache ==
    \E wb \in BOOLEAN :
        /\ mem' = IF wb THEN WriteBack(mem, dc, Lines) ELSE mem
        /\ dc' = Drop(dc, Lines)
        /\ KeepStale
        /\ DmaCovered(Addrs)
        /\ UNCHANGED <<ic, flushed, codeReady, ntVars>>

\* Mutant: the range is written back and cleaned but left in the cache.
InvalidateDataCacheRangeClean ==
    \E r \in Ranges :
        LET S == RangeLines(r[1], r[2])
        IN  /\ mem' = WriteBack(mem, dc, S)
            /\ dc' = Clean(dc, S)
            /\ KeepStale
            /\ DmaCovered(Range(r[1], r[2]))
            /\ UNCHANGED <<ic, flushed, codeReady, ntVars>>

\* "This function must never invalidate any cache lines outside the
\* specified range."
InvalidateDataCacheRange ==
    \E r \in Ranges, wb \in BOOLEAN :
        LET S == RangeLines(r[1], r[2])
        IN  /\ mem' = IF wb THEN WriteBack(mem, dc, S) ELSE mem
            /\ dc' = Drop(dc, S)
            /\ KeepStale
            /\ DmaCovered(Range(r[1], r[2]))
            /\ UNCHANGED <<ic, flushed, codeReady, ntVars>>

-----------------------------------------------------------------------------
(* The cache instructions of AMD's gcc-intrin.h                            *)

\* __wbinvd: write back the modified lines, invalidate every cache.
Wbinvd ==
    /\ mem' = WriteBack(mem, dc, Lines)
    /\ dc' = Drop(dc, Lines)
    /\ ic' = Drop(ic, Lines)
    /\ KeepStale
    /\ flushed' = Addrs \ (stale' \cup WcAddrs)
    /\ codeReady' = flushed'
    /\ DmaCovered(Addrs)
    /\ UNCHANGED ntVars

\* __invd: invalidate every cache without writing anything back.
Invd ==
    /\ dc' = Drop(dc, Lines)
    /\ ic' = Drop(ic, Lines)
    /\ KeepStale
    /\ codeReady' = flushed
    /\ DmaCovered(Addrs)
    /\ UNCHANGED <<mem, flushed, ntVars>>

\* _mm_stream_si128_fs (A, B): lddqu loads 16 bytes from B (d, from
\* outside the modelled memory) and movntdq with an fs prefix stores them
\* to fs:A.  A cached copy of the line is written back and evicted first.
StreamFs ==
    \E l \in Lines, d \in [Offs -> Vals] :
        /\ mem' = WriteBack(mem, dc, {l})
        /\ dc' = Drop(dc, {l})
        /\ KeepStale
        /\ wc' = [wc EXCEPT ![l] = [valid |-> TRUE, data |-> d]]
        /\ ntStored' = ntStored \cup AddrsOf({l})
        /\ flushed' = flushed \ AddrsOf({l})
        /\ codeReady' = codeReady \ AddrsOf({l})
        /\ dmaPending' = dmaPending \ AddrsOf({l})
        /\ dmaReady' = dmaReady \ AddrsOf({l})
        /\ UNCHANGED ic

\* _mm_clflush_fs (A): the line holding fs:A is written back if modified
\* and invalidated in every cache.
ClflushFs ==
    \E l \in Lines :
        /\ mem' = WriteBack(mem, dc, {l})
        /\ dc' = Drop(dc, {l})
        /\ ic' = Drop(ic, {l})
        /\ KeepStale
        /\ flushed' = flushed \cup (AddrsOf({l}) \ (stale' \cup WcAddrs))
        /\ DmaCovered(AddrsOf({l}))
        /\ UNCHANGED <<codeReady, ntVars>>

\* _mm_sfence: the write-combining buffer drains before any later store;
\* non-temporal data is in memory from here on.
Sfence ==
    /\ mem' = [a \in Addrs |-> IF wc[LineOf(a)].valid
                               THEN wc[LineOf(a)].data[a % LineSize] ELSE mem[a]]
    /\ wc' = [l \in Lines |-> NoWc]
    /\ flushed' = flushed \cup (ntStored \ stale)
    /\ ntStored' = {}
    /\ UNCHANGED <<dc, ic, codeReady, stale, dmaVars>>

\* _mm_mfence: as _mm_sfence for stores (it also orders loads).
Mfence == Sfence

-----------------------------------------------------------------------------
(* The CPU, the caches and the DMA device                                  *)

\* The write-combining buffer drains on its own, in any order.
WcDrain ==
    \E l \in Lines :
        /\ wc[l].valid
        /\ mem' = [a \in Addrs |-> IF LineOf(a) = l THEN wc[l].data[a % LineSize] ELSE mem[a]]
        /\ wc' = [wc EXCEPT ![l] = NoWc]
        /\ UNCHANGED <<dc, ic, flushed, codeReady, stale, dmaVars, ntStored>>

\* A CPU store: the line is allocated from memory if absent, and dirtied.
\* The processor keeps one copy of a line: the write-combining buffer of
\* the line drains before the line is cached again.
Store ==
    \E a \in Addrs, v \in Vals :
        LET l == LineOf(a)
            old == IF dc[l].valid THEN dc[l].data ELSE MemLine(mem, l)
        IN  /\ ~wc[l].valid
            /\ dc' = [dc EXCEPT ![l] = [valid |-> TRUE, dirty |-> TRUE,
                                        data |-> [old EXCEPT ![a % LineSize] = v]]]
            /\ flushed' = flushed \ {a}
            /\ codeReady' = codeReady \ {a}
            /\ stale' = stale \ {a}
            /\ dmaPending' = dmaPending \ AddrsOf({l})
            /\ dmaReady' = dmaReady \ AddrsOf({l})
            /\ ntStored' = ntStored \ {a}
            /\ UNCHANGED <<mem, ic, wc>>

\* A load or prefetch fills an absent line from memory.
Fill ==
    \E l \in Lines :
        /\ ~dc[l].valid
        /\ ~wc[l].valid
        /\ dc' = [dc EXCEPT ![l] = [valid |-> TRUE, dirty |-> FALSE, data |-> MemLine(mem, l)]]
        /\ KeepStale
        /\ UNCHANGED <<mem, ic, flushed, codeReady, dmaVars, ntVars>>

\* The cache replaces a line, writing it back if dirty.
Evict ==
    \E l \in Lines :
        /\ dc[l].valid
        /\ mem' = WriteBack(mem, dc, {l})
        /\ dc' = Drop(dc, {l})
        /\ KeepStale
        /\ UNCHANGED <<ic, flushed, codeReady, dmaVars, ntVars>>

\* An instruction fetch fills an absent instruction-cache line from memory.
FetchFill ==
    \E l \in Lines :
        /\ ~ic[l].valid
        /\ ic' = [ic EXCEPT ![l] = [valid |-> TRUE, dirty |-> FALSE, data |-> MemLine(mem, l)]]
        /\ UNCHANGED <<mem, dc, flushed, codeReady, stale, dmaVars, ntVars>>

\* The device writes memory, bypassing the caches.
DmaWrite ==
    \E a \in Addrs, v \in Vals :
        /\ mem' = [mem EXCEPT ![a] = v]
        /\ flushed' = flushed \ {a}
        /\ codeReady' = codeReady \ {a}
        /\ stale' = IF dc[LineOf(a)].valid THEN stale \cup {a} ELSE stale
        /\ dmaPending' = IF dc[LineOf(a)].dirty \/ wc[LineOf(a)].valid
                          THEN dmaPending \ {a} ELSE dmaPending \cup {a}
        /\ dmaReady' = dmaReady \ {a}
        /\ ntStored' = ntStored \ {a}
        /\ UNCHANGED <<dc, ic, wc>>

Init ==
    /\ mem = [a \in Addrs |-> 0]
    /\ dc = [l \in Lines |-> NoLine]
    /\ ic = [l \in Lines |-> NoLine]
    /\ flushed = Addrs
    /\ codeReady = Addrs
    /\ stale = {}
    /\ dmaPending = {}
    /\ dmaReady = {}
    /\ wc = [l \in Lines |-> NoWc]
    /\ ntStored = {}

Next ==
    \/ InvalidateInstructionCache \/ InvalidateInstructionCacheRange
    \/ WriteBackInvalidateDataCache \/ WriteBackInvalidateDataCacheRange
    \/ WriteBackDataCache \/ WriteBackDataCacheRange
    \/ InvalidateDataCache \/ InvalidateDataCacheRange
    \/ Wbinvd \/ Invd \/ StreamFs \/ ClflushFs \/ Sfence \/ Mfence
    \/ Store \/ Fill \/ Evict \/ FetchFill \/ DmaWrite \/ WcDrain

Spec == Init /\ [][Next]_vars

-----------------------------------------------------------------------------
(* Properties                                                              *)

\* Every address written back by a WriteBack* call (whole cache or range),
\* __wbinvd or _mm_clflush_fs, or stored non-temporally and then fenced,
\* since the CPU last stored it holds in memory what the CPU sees, so a
\* device reading it gets the CPU's data: whatever lines a call picks, the
\* partial lines at a range's ends are written back.
FlushedReachesMemory == \A a \in flushed : mem[a] = CpuView(a)

\* Code the CPU stored, wrote back and then invalidated in the instruction
\* cache is what an instruction fetch returns: the sequence
\* WriteBackDataCacheRange; InvalidateInstructionCacheRange makes stored
\* code executable.
FetchSeesCode == \A a \in codeReady : FetchView(a) = CpuView(a)

\* The DMA-in discipline works: data a device wrote to a buffer the CPU
\* had not dirtied, once a data-cache invalidate (InvalidateDataCache*,
\* WriteBackInvalidateDataCache*, __wbinvd, __invd) covered its range, is
\* what the CPU loads, although the cache may have filled the line with the
\* old data while the device was writing.
DeviceDataVisible == \A a \in dmaReady : CpuView(a) = mem[a]

=============================================================================
