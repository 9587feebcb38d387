----------------------------- MODULE PspBaseLib -----------------------------
(***************************************************************************)
(* The AGESA PSP base library (vendorcode/amd/pi/00660F01/Proc/Psp/        *)
(* PspBaseLib/PspBaseLib.c): it finds out whether the Platform Security    *)
(* Processor is fused in, gives the PSP PCI device (D8F0) a temporary      *)
(* BAR1, routes that range to it through the northbridge (D18F1xB8/xBC),   *)
(* and locates the PSP mailbox status word inside BAR1.                    *)
(*                                                                         *)
(* The state is the hardware registers the library reads and writes:      *)
(* the PSP's configuration registers, the GNB redirection window, and the  *)
(* GNB SMU index/data pair (D0F0xB8/xBC) through which the fuses are read. *)
(* What the silicon is (device visible, BAR size, fuses, mailbox recovery  *)
(* bit) is chosen in Init and never changes.  Every public function is one *)
(* action; functions that call others compose the callees' operators in    *)
(* the order the code calls them.                                          *)
(***************************************************************************)
EXTENDS Word32

CONSTANTS
    BarSizes,        \* possible sizes of the PSP BAR1 window (powers of two)
    FuseValues,      \* possible contents of the SMU PSP fuse status register
    SmuScratchAddr,  \* an SMU register other than the fuse status register
    ScratchValues,   \* values a caller may write through the SMU pair
    PmNxtPtrW_MASK,  \* D8F0x44_PmNxtPtrW_MASK (PspBaseLib.h, not in the repo)
    IndirectWidths   \* ACCESS_WIDTH values callers pass to PspLibPciIndirect*

ASSUME BarSizes \subseteq Word /\ BarSizes # {}
ASSUME FuseValues \subseteq Word /\ ScratchValues \subseteq Word

-----------------------------------------------------------------------------
(* Constants of PspBaseLib.c                                               *)

PSP_BAR1_TMP_BASE        == W(\hFEA0, \h0000)
SMU_CC_PSP_FUSES_STATUS  == W(\hC001, \h8000)
SMU_CC_PSP_FUSES_PROTO   == W(0, 4)     \* BIT2
PLATFORM_SECURE_BOOT_EN  == W(0, 16)    \* BIT4
PCI_CONFIG_SMU_INDIRECT_INDEX == \hB8
PCI_CONFIG_SMU_INDIRECT_DATA  == \hBC

\* PSP_MAILBOX_BASE + PSP_MAILBOX_STATUS_OFFSET: "offset 28*4 = 0x70".
MboxStatusOffset == W(0, \h70)

\* The PSP configuration registers the library touches.
PspRegs == {"DEVID", "CMD", "BAR1", "BAR3", "MIRRORCTRL1", "EXTRAPCIHDR"}

\* AMD vendor id and a PSP device id: anything but 0xFFFFFFFF.
PspDevId == W(\h1537, \h1022)

AccessWidths == {"AccessWidth8", "AccessWidth16", "AccessWidth32",
                 "AccessWidth64", "AccessS3SaveWidth8", "AccessS3SaveWidth16",
                 "AccessS3SaveWidth32", "AccessS3SaveWidth64"}

Fns == {"None", "PspBarInitEarly", "CheckPspDevicePresent",
        "CheckPspPlatformSecureEnable", "GetPspBar1Addr", "GetPspBar3Addr",
        "GetPspMboxStatus", "CheckPspRecoveryFlag",
        "PspLibPciIndirectRead", "PspLibPciIndirectWrite"}

VARIABLES
    hw,    \* the silicon: [visible, size, fuses, recovery], fixed at Init
    psp,   \* PSP (D8F0) configuration registers, as the device stores them
    gnb,   \* GNB redirection registers D18F1xB8 (base) and D18F1xBC (limit)
    smu,   \* SMU index register D0F0xB8 and the scratch SMU register
    ret    \* outputs of the last library call

vars == <<hw, psp, gnb, smu, ret>>

-----------------------------------------------------------------------------
(* The hardware the library drives                                         *)

\* A hidden PSP (device disabled) answers every read with all ones and
\* ignores writes; a BAR keeps only the address bits above its size.
PspCfgRead(p, reg) == IF hw.visible THEN p[reg] ELSE Ones

BarMask == Not32(Sub32(hw.size, One))

PspCfgWrite(p, reg, v) ==
    IF ~hw.visible \/ reg = "DEVID" THEN p
    ELSE [p EXCEPT ![reg] = IF reg \in {"BAR1", "BAR3"} THEN And32(v, BarMask)
                                                      ELSE v]

\* The SMU data port returns the SMU register the index register selects;
\* SMU registers outside the model read as zero.
SmuRead(s) ==
    CASE s.index = SMU_CC_PSP_FUSES_STATUS -> hw.fuses
      [] s.index = SmuScratchAddr          -> s.scratch
      [] OTHER                             -> Zero

\* The redirection registers hold address bits [31:16] in register bits
\* [23:8] (the code writes address >> 8 and clears the low byte of the
\* limit); bits 0 and 1 of the base enable reads and writes.
RedirectEnabled(g) == And32(g.base, W(0, 3)) = W(0, 3)
WinLo(g) == W(Shr8(g.base).lo, 0)
WinHi(g) == W(Shr8(g.limit).lo, \hFFFF)

\* Bits 0x34 of EXTRAPCIHDR are MsixBarEn, Bar1En and Bar3En.
Decoded(s, addr) ==
    /\ hw.visible
    /\ And32(s.psp["CMD"], W(0, 2)) # Zero
    /\ And32(s.psp["EXTRAPCIHDR"], W(0, \h34)) = W(0, \h34)
    /\ InRange32(addr, s.psp["BAR1"], Add32(s.psp["BAR1"], Sub32(hw.size, One)))
    /\ RedirectEnabled(s.gnb)
    /\ InRange32(addr, WinLo(s.gnb), WinHi(s.gnb))

\* A read of the mailbox status: the PSP's recovery bit when the address
\* reaches the PSP, anything when it does not.
MboxRecovery(s, addr) == IF Decoded(s, addr) THEN {hw.recovery} ELSE BOOLEAN

-----------------------------------------------------------------------------
(* The library.  Each operator takes the register state s and returns     *)
(* [st |-> new state, ok |-> BOOLEAN result, val |-> output parameter].   *)

Result(s, ok, val) == [st |-> s, ok |-> ok, val |-> val]

\* Width in bytes of an access; 0 for an unknown width.
PspLibAccessWidth(w) ==
    CASE w \in {"AccessWidth8", "AccessS3SaveWidth8"}   -> 1
      [] w \in {"AccessWidth16", "AccessS3SaveWidth16"} -> 2
      [] w \in {"AccessWidth32", "AccessS3SaveWidth32"} -> 4
      [] w \in {"AccessWidth64", "AccessS3SaveWidth64"} -> 8
      [] OTHER                                          -> 0

\* Mutant: reads the data port without first selecting the fuse register.
FuseBitSetStaleIndex(s, bit) ==
    Result(s, And32(SmuRead(s.smu), bit) # Zero, Zero)

\* Write the fuse status index, read the data port, test one bit.
FuseBitSet(s, bit) ==
    LET s1 == [s EXCEPT !.smu.index = SMU_CC_PSP_FUSES_STATUS]
    IN  Result(s1, And32(SmuRead(s1.smu), bit) # Zero, Zero)

CheckPspDevicePresentOp(s) == FuseBitSet(s, SMU_CC_PSP_FUSES_PROTO)

CheckPspPlatformSecureEnableOp(s) == FuseBitSet(s, PLATFORM_SECURE_BOOT_EN)

\* GetPspBar1Addr and GetPspBar3Addr: only 0xFFFFFFFF counts as no BAR.
GetPspBarAddrOp(s, bar) ==
    LET c    == CheckPspDevicePresentOp(s)
        mmio == PspCfgRead(c.st.psp, bar)
    IN  IF ~c.ok THEN Result(c.st, FALSE, Zero)
                 ELSE Result(c.st, mmio # Ones, mmio)

GetPspMboxStatusOp(s) ==
    LET b == GetPspBarAddrOp(s, "BAR1")
    IN  IF ~b.ok THEN Result(b.st, FALSE, Zero)
                 ELSE Result(b.st, TRUE, Add32(b.val, MboxStatusOffset))

\* Mutants: the limit without "- 1", and without "& ~0xFF".
GnbRedirectNoMinusOne(size) ==
    [limit |-> And32(Shr8(Add32(PSP_BAR1_TMP_BASE, size)), Not32(W(0, \hFF))),
     base  |-> Or32(Shr8(PSP_BAR1_TMP_BASE), W(0, 3))]
GnbRedirectNoMask(size) ==
    [limit |-> Shr8(Sub32(Add32(PSP_BAR1_TMP_BASE, size), One)),
     base  |-> Or32(Shr8(PSP_BAR1_TMP_BASE), W(0, 3))]

\* The GNB redirection window D18F1xBC (limit) and D18F1xB8 (base, with
\* the read and write enables) over [PSP_BAR1_TMP_BASE, + size - 1].
GnbRedirect(size) ==
    [limit |-> And32(Shr8(Sub32(Add32(PSP_BAR1_TMP_BASE, size), One)),
                     Not32(W(0, \hFF))),
     base  |-> Or32(Shr8(PSP_BAR1_TMP_BASE), W(0, 3))]

\* Size BAR1, place it at the temporary base, enable decoding, open the
\* GNB redirection window over it, enable the BARs and fix the capability
\* chain; all only when BAR1 is still unassigned.
PspBarInitEarlyOp(s) ==
    IF PspCfgRead(s.psp, "DEVID") = Ones THEN Result(s, FALSE, Zero)
    ELSE IF PspCfgRead(s.psp, "BAR1") # Zero THEN Result(s, TRUE, Zero)
    ELSE
      LET p1   == PspCfgWrite(s.psp, "BAR1", Ones)
          size == Add32(Not32(PspCfgRead(p1, "BAR1")), One)
          p2   == PspCfgWrite(PspCfgWrite(p1, "BAR1", PSP_BAR1_TMP_BASE),
                              "CMD", W(0, 6))
          p3   == PspCfgWrite(p2, "EXTRAPCIHDR", W(0, \h34))
          v    == Or32(And32(PspCfgRead(p3, "MIRRORCTRL1"), Not32(PmNxtPtrW_MASK)),
                       W(0, \hA4))
      IN  Result([psp |-> PspCfgWrite(p3, "MIRRORCTRL1", v), gnb |-> GnbRedirect(size),
                  smu |-> s.smu], TRUE, Zero)

\* The SMU register the index selects takes a write; the fuse status
\* register is read-only.
SmuWrite(s, v) == IF s.smu.index = SmuScratchAddr THEN [s EXCEPT !.smu.scratch = v] ELSE s

\* LibAmdPciWrite (Width, Address, &IndirectAddress): the first n bytes of
\* the UINT32 IndirectAddress go to D0F0xB8 onward.  An 8-byte access also
\* sends the 4 bytes that follow it on the stack, any value junk, to the
\* data port D0F0xBC, which writes the register just selected.
IndexWrite(s, ia, n, junk) ==
    CASE n = 1 -> [s EXCEPT !.smu.index = W(@.hi, (@.lo \div 256) * 256 + (ia.lo % 256))]
      [] n = 2 -> [s EXCEPT !.smu.index = W(@.hi, ia.lo)]
      [] n = 4 -> [s EXCEPT !.smu.index = ia]
      [] n = 8 -> SmuWrite([s EXCEPT !.smu.index = ia], junk)

\* The n-byte access at Address + n: D0F0xB9 is byte 1 of the index,
\* D0F0xBA its bits 31:16, D0F0xBC the data port, and D0F0xC0..C7 are
\* registers outside the model (read as zero, writes dropped).
DataPortRead(s, n) ==
    CASE n = 1 -> W(0, s.smu.index.lo \div 256)
      [] n = 2 -> W(0, s.smu.index.hi)
      [] n = 4 -> SmuRead(s.smu)
      [] n = 8 -> Zero

DataPortWrite(s, n, v) ==
    CASE n = 1 -> [s EXCEPT !.smu.index = W(@.hi, (v.lo % 256) * 256 + (@.lo % 256))]
      [] n = 2 -> [s EXCEPT !.smu.index = W(v.lo, @.lo)]
      [] n = 4 -> SmuWrite(s, v)
      [] n = 8 -> s

\* Write the index at Address, then read Address + PspLibAccessWidth.
PspLibPciIndirectReadOp(s, ia, w, junk) ==
    LET n  == PspLibAccessWidth(w)
        s1 == IndexWrite(s, ia, n, junk)
    IN  Result(s1, TRUE, DataPortRead(s1, n))

\* Write the index at Address, then write Value at Address + width; the
\* value written is returned as val.
PspLibPciIndirectWriteOp(s, ia, w, junk, v) ==
    LET n == PspLibAccessWidth(w)
    IN  Result(DataPortWrite(IndexWrite(s, ia, n, junk), n, v), TRUE, v)

\* The stack bytes an 8-byte index write carries along.
Junk(w) == IF PspLibAccessWidth(w) = 8 THEN ScratchValues ELSE {Zero}

-----------------------------------------------------------------------------
(* Actions                                                                 *)

St == [psp |-> psp, gnb |-> gnb, smu |-> smu]

\* arg is the IndirectAddress of an indirect access, Zero otherwise.
CommitArg(res, fn, flag, arg) ==
    /\ psp' = res.st.psp
    /\ gnb' = res.st.gnb
    /\ smu' = res.st.smu
    /\ ret' = [fn |-> fn, ok |-> res.ok, val |-> res.val, flag |-> flag, arg |-> arg]
    /\ UNCHANGED hw

Commit(res, fn, flag) == CommitArg(res, fn, flag, Zero)

PspBarInitEarly == Commit(PspBarInitEarlyOp(St), "PspBarInitEarly", FALSE)

CheckPspDevicePresent ==
    Commit(CheckPspDevicePresentOp(St), "CheckPspDevicePresent", FALSE)

CheckPspPlatformSecureEnable ==
    Commit(CheckPspPlatformSecureEnableOp(St), "CheckPspPlatformSecureEnable", FALSE)

GetPspBar1Addr == Commit(GetPspBarAddrOp(St, "BAR1"), "GetPspBar1Addr", FALSE)

GetPspBar3Addr == Commit(GetPspBarAddrOp(St, "BAR3"), "GetPspBar3Addr", FALSE)

GetPspMboxStatus == Commit(GetPspMboxStatusOp(St), "GetPspMboxStatus", FALSE)

\* Mutant: locates the mailbox without initialising the BAR first.
CheckPspRecoveryFlagNoInit ==
    LET m == GetPspMboxStatusOp(St)
    IN  \E flag \in IF m.ok THEN MboxRecovery(m.st, m.val) ELSE BOOLEAN :
            Commit(m, "CheckPspRecoveryFlag", flag)

\* Initialise the BAR, locate the mailbox, read its Recovery bit.  The
\* results of both calls are ignored: when GetPspMboxStatus fails the
\* MboxStatus pointer is uninitialised and the bit read is any value.
CheckPspRecoveryFlag ==
    LET i == PspBarInitEarlyOp(St)
        m == GetPspMboxStatusOp(i.st)
    IN  \E flag \in IF m.ok THEN MboxRecovery(m.st, m.val) ELSE BOOLEAN :
            Commit(m, "CheckPspRecoveryFlag", flag)

PspLibPciIndirectRead ==
    \E ia \in {SMU_CC_PSP_FUSES_STATUS, SmuScratchAddr}, w \in IndirectWidths :
        \E junk \in Junk(w) :
            CommitArg(PspLibPciIndirectReadOp(St, ia, w, junk), "PspLibPciIndirectRead", FALSE, ia)

PspLibPciIndirectWrite ==
    \E ia \in {SMU_CC_PSP_FUSES_STATUS, SmuScratchAddr}, v \in ScratchValues,
       w \in IndirectWidths :
        \E junk \in Junk(w) :
            CommitArg(PspLibPciIndirectWriteOp(St, ia, w, junk, v), "PspLibPciIndirectWrite", FALSE, ia)

-----------------------------------------------------------------------------

\* Power-on: BARs unassigned, decoding and redirection off.
Init ==
    /\ hw \in [visible : BOOLEAN, size : BarSizes, fuses : FuseValues,
               recovery : BOOLEAN]
    /\ psp = [r \in PspRegs |-> IF r = "DEVID" THEN PspDevId ELSE Zero]
    /\ gnb = [base |-> Zero, limit |-> Zero]
    /\ smu = [index |-> Zero, scratch |-> Zero]
    /\ ret = [fn |-> "None", ok |-> FALSE, val |-> Zero, flag |-> FALSE, arg |-> Zero]

Next ==
    \/ PspBarInitEarly
    \/ CheckPspDevicePresent
    \/ CheckPspPlatformSecureEnable
    \/ GetPspBar1Addr
    \/ GetPspBar3Addr
    \/ GetPspMboxStatus
    \/ CheckPspRecoveryFlag
    \/ PspLibPciIndirectRead
    \/ PspLibPciIndirectWrite

Spec == Init /\ [][Next]_vars

-----------------------------------------------------------------------------
(* Properties                                                              *)

PspFused  == And32(hw.fuses, SMU_CC_PSP_FUSES_PROTO) # Zero
PspUsable == PspFused /\ hw.visible

\* Every register holds a 32-bit value, and the limit register's low byte
\* is zero as PspBarInitEarly's "& ~0xFF" leaves it.
TypeOK ==
    /\ psp \in [PspRegs -> Word]
    /\ gnb \in [base : Word, limit : Word]
    /\ gnb.limit.lo % 256 = 0
    /\ smu \in [index : Word, scratch : Word]
    /\ ret \in [fn : Fns, ok : BOOLEAN, val : Word, flag : BOOLEAN, arg : Word]

\* PspBarInitEarly's redirection window starts at BAR1 and ends at the
\* last 64KB granule of BAR1's range: it covers the PSP's MMIO and claims
\* nothing beyond it (the IOAPIC sits at 0xFEC00000).  Needs the BAR size
\* to have been read back before BAR1 was moved to the temporary base.
RedirectMatchesBar ==
    RedirectEnabled(gnb) =>
        /\ WinLo(gnb) = psp["BAR1"]
        /\ WinHi(gnb) = W(Add32(psp["BAR1"], Sub32(hw.size, One)).hi, \hFFFF)

\* On a fused, visible PSP, CheckPspRecoveryFlag returns the Recovery bit
\* the PSP put in its mailbox, whatever calls came before it: the BAR,
\* memory decode, BAR enables and redirection must all be in place.
RecoveryFlagFaithful ==
    ret.fn = "CheckPspRecoveryFlag" /\ PspUsable => ret.flag = hw.recovery

\* CheckPspDevicePresent and CheckPspPlatformSecureEnable answer from the
\* fuse register even after other users moved the shared SMU index.
FuseAnswersFresh ==
    /\ ret.fn = "CheckPspDevicePresent" => ret.ok = PspFused
    /\ ret.fn = "CheckPspPlatformSecureEnable" =>
           ret.ok = (And32(hw.fuses, PLATFORM_SECURE_BOOT_EN) # Zero)

\* On a part without a PSP (PROTO fuse clear) the doc comment's "0:
\* Recovery Flag is cleared" is the only sensible answer of
\* CheckPspRecoveryFlag.
RecoveryFlagClearWithoutPsp ==
    ret.fn = "CheckPspRecoveryFlag" /\ ~PspFused => ~ret.flag

=============================================================================
