----------------------------- MODULE MC_CpuRegs -----------------------------
(* Constants for checking CpuRegs with TLC. *)
EXTENDS CpuRegs

\* DR1, DR3, CR3 and CR4 have cases; 4 has none in __readdr/__writedr and
\* 1 none in __readcr/__writecr.
MC_RegNums == {1, 3, 4}

\* Two UINT32 values, so that edx and eax can differ.
MC_Vals == {Zero, One}

\* The TSC two counts below the carry into edx, run one count past it.
MC_TscStart == [edx |-> Zero, eax |-> Sub32(Ones, One)]
MC_TscEnd == [edx |-> One, eax |-> Zero]
=============================================================================
