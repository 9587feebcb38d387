------------------------------ MODULE CpuRegs -------------------------------
(***************************************************************************)
(* The privileged-register intrinsics of AMD's gcc-intrin.h: __readdr and  *)
(* __writedr dispatch a debug-register number to one mov per register,     *)
(* __readcr and __writecr do the same for control registers, __readmsr and *)
(* __writemsr move a UINT64 through rdmsr/wrmsr with the "A" (edx:eax)     *)
(* constraint, __rdtsc reads the time-stamp counter with "=A" too (gcc     *)
(* builds only), and _disable/_enable clear and set the interrupt flag.    *)
(* The TSC counts up on its own; the model runs it from TscStart to TscEnd.*)
(*                                                                         *)
(* Every register starts at zero: any contents earlier firmware leaves are *)
(* reached from there by writes, so the reachable register states are all  *)
(* of them.  A UINT64 is its two UINT32 halves, as edx:eax holds it.       *)
(* What "A" binds a 64-bit operand to is up to the compiler on x86_64:    *)
(* one of rax and rdx, the other register's value being whatever it held; *)
(* those choices are nondeterministic here.                                *)
(***************************************************************************)
EXTENDS Word32, TLC

CONSTANTS
    Build,    \* "IA32" or "X64": the mode the header is compiled for
    RegNums,  \* register numbers callers pass to the dispatchers
    Msrs,     \* MSR indices
    Vals,     \* UINT32 values a register half may hold
    TscStart, \* the TSC's value on entry, as edx:eax
    TscEnd    \* the TSC value after which the model stops the counter

ASSUME Build \in {"IA32", "X64"}

\* The cases of the switch statements.
DrCases == {0, 1, 2, 3, 7}
CrCases == {0, 2, 3, 4, 8}

\* UINT64 as edx:eax.
MsrVals == [edx : Vals, eax : Vals]

VARIABLES
    dr,    \* DR0-3 and DR7
    cr,    \* CR0, CR2-4 and CR8
    msr,   \* the MSRs
    intr,  \* RFLAGS.IF
    ret,   \* the last access: kind, register identifier and value
    tsc,   \* the time-stamp counter, as edx:eax
    tscRead \* the value the last __rdtsc returned

vars == <<dr, cr, msr, intr, ret, tsc, tscRead>>

-----------------------------------------------------------------------------
(* The dispatchers and the rdmsr/wrmsr operand binding                     *)

\* Mutant: the switch has no default and writes any register number.
WriteDrAny(reg, v) == dr @@ (reg :> v)

\* __writedr: case 0..3, 7 -> __writedrN (Data); default: ;
WriteDrOp(reg, v) == IF reg \in DrCases THEN [dr EXCEPT ![reg] = v] ELSE dr

\* __readdr: case 0..3, 7 -> __readdrN (); default: return -1.
ReadDrOp(reg) == IF reg \in DrCases THEN dr[reg] ELSE Ones

\* __readcr: case 0, 2, 3, 4, 8 -> __readcrN (); default: return -1.
ReadCrOp(reg) == IF reg \in CrCases THEN cr[reg] ELSE Ones

\* __writecr: case 0, 2, 3, 4, 8 -> __writecrN (Data); default: ;
WriteCrOp(reg, v) == IF reg \in CrCases THEN [cr EXCEPT ![reg] = v] ELSE cr

\* rdmsr loads edx:eax, zero-extending each half into rdx/rax.  "=A" takes
\* both halves on IA32; on x86_64 it names the one register holding retval.
RdmsrOutcomes(m) ==
    IF Build = "IA32" THEN {msr[m]}
    ELSE {[edx |-> Zero, eax |-> msr[m].eax], [edx |-> Zero, eax |-> msr[m].edx]}

\* wrmsr stores edx:eax.  "A" (Value) fills both on IA32; on x86_64 Value
\* sits in one of rax and rdx, the other half being what that register held.
WrmsrOutcomes(v) ==
    IF Build = "IA32" THEN {v}
    ELSE {[edx |-> x, eax |-> v.eax] : x \in Vals} \cup
         {[edx |-> v.eax, eax |-> x] : x \in Vals}

\* rdtsc loads edx:eax like rdmsr; "=A" (retval) takes both halves on IA32
\* and on x86_64 the one of rax and rdx the compiler picked.
RdtscOutcomes ==
    IF Build = "IA32" THEN {tsc}
    ELSE {[edx |-> Zero, eax |-> tsc.eax], [edx |-> Zero, eax |-> tsc.edx]}

\* UINT64 increment on edx:eax.
Inc64(t) == IF t.eax = Ones THEN [edx |-> Add32(t.edx, One), eax |-> Zero]
            ELSE [t EXCEPT !.eax = Add32(@, One)]

-----------------------------------------------------------------------------

ReadDr ==
    \E reg \in RegNums :
        /\ ret' = [op |-> "read", id |-> <<"dr", reg>>, val |-> ReadDrOp(reg)]
        /\ UNCHANGED <<dr, cr, msr, intr, tsc, tscRead>>

WriteDr ==
    \E reg \in RegNums, v \in Vals :
        /\ dr' = WriteDrOp(reg, v)
        /\ ret' = [op |-> "write", id |-> <<"dr", reg>>, val |-> v]
        /\ UNCHANGED <<cr, msr, intr, tsc, tscRead>>

ReadCr ==
    \E reg \in RegNums :
        /\ ret' = [op |-> "read", id |-> <<"cr", reg>>, val |-> ReadCrOp(reg)]
        /\ UNCHANGED <<dr, cr, msr, intr, tsc, tscRead>>

WriteCr ==
    \E reg \in RegNums, v \in Vals :
        /\ cr' = WriteCrOp(reg, v)
        /\ ret' = [op |-> "write", id |-> <<"cr", reg>>, val |-> v]
        /\ UNCHANGED <<dr, msr, intr, tsc, tscRead>>

ReadMsr ==
    \E m \in Msrs :
        \E r \in RdmsrOutcomes(m) :
            /\ ret' = [op |-> "read", id |-> <<"msr", m>>, val |-> r]
            /\ UNCHANGED <<dr, cr, msr, intr, tsc, tscRead>>

WriteMsr ==
    \E m \in Msrs, v \in MsrVals :
        \E stored \in WrmsrOutcomes(v) :
            /\ msr' = [msr EXCEPT ![m] = stored]
            /\ ret' = [op |-> "write", id |-> <<"msr", m>>, val |-> v]
            /\ UNCHANGED <<dr, cr, intr, tsc, tscRead>>

\* _disable: cli.  _enable: sti.
Disable == intr' = FALSE /\ UNCHANGED <<dr, cr, msr, ret, tsc, tscRead>>
Enable  == intr' = TRUE  /\ UNCHANGED <<dr, cr, msr, ret, tsc, tscRead>>

\* __rdtsc
Rdtsc ==
    \E r \in RdtscOutcomes :
        /\ tscRead' = r
        /\ UNCHANGED <<dr, cr, msr, intr, ret, tsc>>

\* The processor advances the TSC.
Tick ==
    /\ tsc # TscEnd
    /\ tsc' = Inc64(tsc)
    /\ UNCHANGED <<dr, cr, msr, intr, ret, tscRead>>

Init ==
    /\ dr = [n \in DrCases |-> Zero]
    /\ cr = [n \in CrCases |-> Zero]
    /\ msr = [m \in Msrs |-> [edx |-> Zero, eax |-> Zero]]
    /\ intr \in BOOLEAN
    /\ ret = [op |-> "none", id |-> <<"dr", 0>>, val |-> Zero]
    /\ tsc = TscStart
    /\ tscRead = [edx |-> Zero, eax |-> Zero]

Next ==
    \/ ReadDr \/ WriteDr \/ ReadCr \/ WriteCr
    \/ ReadMsr \/ WriteMsr \/ Disable \/ Enable
    \/ Rdtsc \/ Tick

Spec == Init /\ [][Next]_vars

-----------------------------------------------------------------------------
(* Properties                                                              *)

Ids == {<<"dr", n>> : n \in DrCases} \cup {<<"cr", n>> : n \in CrCases}
           \cup {<<"msr", m>> : m \in Msrs}
Unmapped == {<<"dr", n>> : n \in RegNums \ DrCases}
                \cup {<<"cr", n>> : n \in RegNums \ CrCases}

\* The refinement mapping: each implemented identifier names its register.
RegOf == [i \in Ids |-> CASE i[1] = "dr" -> dr[i[2]]
                          [] i[1] = "cr" -> cr[i[2]]
                          [] OTHER       -> msr[i[2]]]

Abstract == INSTANCE RegFile WITH regs <- RegOf, out <- ret,
                                  Vals <- Vals \cup MsrVals, AllOnes <- Ones

\* Registers hold values of their width, and the dispatchers never create a
\* register their switch has no case for.
TypeOK ==
    /\ dr \in [DrCases -> Vals]
    /\ cr \in [CrCases -> Vals]
    /\ msr \in [Msrs -> MsrVals]
    /\ intr \in BOOLEAN

\* The intrinsics implement a register file: every read through __readdr,
\* __readcr or __readmsr returns the value last written through the
\* matching write intrinsic (or the register's value on entry), a number
\* without a case reads as (unsigned long)-1, and its write changes nothing.
IntrinsicsImplementRegFile == Abstract!Spec

=============================================================================
