----------------------------- MODULE MC_AcpiGpio ----------------------------
(* Constants for checking AcpiGpio with TLC. *)
EXTENDS AcpiGpio

CONSTANTS d1  \* a controller name

\* One physical GPIO, whose ACPI pin differs from its number.
MC_GpioNums == {5}
MC_AcpiPin == 5 :> 37
MC_Devices == {d1}
=============================================================================
