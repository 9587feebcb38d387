------------------------------- MODULE MC_S3Pci -------------------------------
EXTENDS S3Pci

CONSTANTS d1, c1, c2

\* The low 16-bit register of one dword and its two bytes, one bit field
\* spanning the bytes, data all zeros or all ones: enough for an S3 call
\* and a later call to the same or an overlapping register to disagree on
\* a nibble.
MC_Dwords == {d1}
MC_FieldSpecs == {<<4, 11>>}
MC_DataMasks == {Zero, Bits32}
MC_Widths == {8, 16}
MC_Bytes == {0, 1}

\* Every PciCf8 function has an S3Pci* form.  Callers that restore their
\* registers through the script use the write forms and the plain reads;
\* MC_AllS3Fns adds S3PciBitFieldRead.
MC_AllS3Fns == {"Read", "Write", "Or", "And", "AndThenOr", "BitFieldRead",
                "BitFieldWrite", "BitFieldOr", "BitFieldAnd",
                "BitFieldAndThenOr", "ReadBuffer", "WriteBuffer"}
MC_S3Fns == MC_AllS3Fns \ {"BitFieldRead"}

\* The state without the last call's return value: no action reads ret, so
\* states that differ only in it have the same futures.
MC_View == <<cfg, s3Vars>>

=============================================================================
