------------------------------ MODULE RegFile -------------------------------
(***************************************************************************)
(* What the register-access intrinsics promise their callers: a file of    *)
(* registers addressed by an identifier, where a read returns the value    *)
(* last written to that register, and an identifier the interface does not *)
(* implement reads as all ones and ignores writes.                         *)
(***************************************************************************)
CONSTANTS
    Ids,       \* identifiers of implemented registers
    Unmapped,  \* identifiers accepted by the interface but not implemented
    Vals,      \* values a register may hold
    AllOnes    \* the value an unimplemented register reads as

VARIABLES
    regs,  \* the value held by each implemented register
    out    \* the last access: its kind, the identifier and the value

Init ==
    /\ regs \in [Ids -> Vals]
    /\ out \in [op : {"none"}, id : Ids \cup Unmapped, val : Vals \cup {AllOnes}]

Read(i) ==
    /\ out' = [op |-> "read", id |-> i,
               val |-> IF i \in Ids THEN regs[i] ELSE AllOnes]
    /\ UNCHANGED regs

Write(i, v) ==
    /\ regs' = IF i \in Ids THEN [regs EXCEPT ![i] = v] ELSE regs
    /\ out' = [op |-> "write", id |-> i, val |-> v]

Next == \E i \in Ids \cup Unmapped : Read(i) \/ \E v \in Vals : Write(i, v)

Spec == Init /\ [][Next]_<<regs, out>>

=============================================================================
