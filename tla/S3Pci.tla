------------------------------- MODULE S3Pci --------------------------------
(***************************************************************************)
(* The S3 PCI library contract of EDK2's S3PciLib.h: every S3Pci* call     *)
(* does what the PCI library call of its name does and "saves the value in *)
(* the S3 script to be replayed on S3 resume".  On S3 suspend the          *)
(* configuration registers lose their contents; on resume the boot script  *)
(* is replayed from the start, restoring what the S3 calls set.            *)
(*                                                                         *)
(* The contract makes a call's PCI access serialised with every other PCI  *)
(* access, and says nothing of the save: a call is its access, then its    *)
(* save, two steps another caller (a notification running at a higher     *)
(* TPL) may come between.  Plain PCI calls (the PciCf8 actions) change     *)
(* registers without a script entry.  A saved entry is a register write:   *)
(* width, offset and the value saved.                                      *)
(***************************************************************************)
EXTENDS PciCf8

LOCAL INSTANCE SequencesExt

CONSTANTS
    Callers,            \* code that calls the S3 library
    MaxScript,          \* boot script entries the model allows
    S3Fns,              \* the PciCf8 functions whose S3Pci* form callers use
    None                \* no call between its access and its save

\* The power-on value of every register.
PowerOn == [r \in Dwords |-> Zero]

VARIABLES
    script,   \* the S3 boot script: register writes in the order saved
    pending,  \* each caller's entry between its access and its save
    phase,    \* "boot", "asleep" or "resumed"
    snap,     \* the registers when the system went to sleep
    owned     \* bits whose last change was an S3 call: <<dword, bit>> pairs

s3Vars == <<script, pending, phase, snap, owned>>
vars == <<pciVars, s3Vars>>

\* The bits of dword r that call c may change, as <<dword, bit>> pairs.
Touched(c) == {<<c.dw, b>> : b \in CallMask(c)}

-----------------------------------------------------------------------------

\* What an S3 call saves: "the value" it returns, the value written back
\* or the value read, saved as a write of the call's register.
SavedValue(c) == c.val

\* Mutant: the script is replayed last entry first.
ReplayReversed(regs, s) ==
    FoldRight(LAMBDA e, c : [c EXCEPT ![e.dw] = RegWrite(@, e.off, e.w, e.val)], s, regs)

\* S3 resume: the boot script's writes in the order they were saved.
Replay(regs, s) ==
    FoldLeft(LAMBDA c, e : [c EXCEPT ![e.dw] = RegWrite(@, e.off, e.w, e.val)], regs, s)

\* Any S3Pci* call, first step: the serialised PCI access.
S3PciAccess ==
    \E k \in Callers, r \in Dwords :
        \E u \in Updates(cfg[r]) \cup Reads(cfg[r]) :
            LET c == [u EXCEPT !.dw = r]
            IN  /\ phase = "boot"
                /\ u.fn \in S3Fns
                /\ pending[k] = None
                /\ Len(script) + Cardinality({j \in Callers : pending[j] # None}) < MaxScript
                /\ cfg' = IF u.fn \in WriteFns
                          THEN [cfg EXCEPT ![r] = RegWrite(@, u.off, u.w, u.val)] ELSE cfg
                /\ ret' = c
                /\ pending' = [pending EXCEPT ![k] =
                                 [dw |-> r, off |-> c.off, w |-> c.w, val |-> SavedValue(c)]]
                /\ owned' = owned \cup Touched(c)
                /\ UNCHANGED <<script, phase, snap>>

\* Second step: the value is appended to the S3 boot script.
S3PciSave(k) ==
    /\ pending[k] # None
    /\ script' = Append(script, pending[k])
    /\ pending' = [pending EXCEPT ![k] = None]
    /\ UNCHANGED <<cfg, ret, phase, snap, owned>>

\* A PciCf8 write call: the bits it changes are no longer the script's.
PlainWrite ==
    /\ phase = "boot"
    /\ PciCf8WriteCall
    /\ owned' = owned \ Touched(ret')
    /\ UNCHANGED <<script, pending, phase, snap>>

PlainRead ==
    /\ phase = "boot"
    /\ PciCf8ReadCall
    /\ UNCHANGED s3Vars

\* S3 suspend once no call is half done: the registers lose power.
Suspend ==
    /\ phase \in {"boot", "resumed"}
    /\ \A k \in Callers : pending[k] = None
    /\ snap' = cfg
    /\ cfg' = PowerOn
    /\ phase' = "asleep"
    /\ UNCHANGED <<ret, script, pending, owned>>

\* S3 resume: the boot script is replayed on the power-on registers.
Resume ==
    /\ phase = "asleep"
    /\ cfg' = Replay(cfg, script)
    /\ phase' = "resumed"
    /\ UNCHANGED <<ret, script, pending, snap, owned>>

Init ==
    /\ PciInit
    /\ script = <<>>
    /\ pending = [k \in Callers |-> None]
    /\ phase = "boot"
    /\ snap = PowerOn
    /\ owned = {}

Next ==
    \/ S3PciAccess \/ \E k \in Callers : S3PciSave(k)
    \/ PlainWrite \/ PlainRead
    \/ Suspend \/ Resume

Spec == Init /\ [][Next]_vars

-----------------------------------------------------------------------------
(* Properties                                                              *)

\* After S3 resume every bit whose last change before sleep came from an
\* S3Pci* call holds the value it had when the system went to sleep: the
\* replayed script restores what the S3 calls set.
S3ResumeRestores ==
    phase = "resumed" =>
        \A <<r, b>> \in owned : (b \in cfg[r]) = (b \in snap[r])

=============================================================================
