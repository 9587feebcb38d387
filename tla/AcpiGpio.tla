------------------------------ MODULE AcpiGpio ------------------------------
(***************************************************************************)
(* chromeos_acpi_gpio_generate (vendorcode/google/chromeos/acpi.c): the    *)
(* OIPG package that tells the OS which GPIOs carry recovery, write        *)
(* protect and phase enforcement.  The function emits                      *)
(*                                                                         *)
(*   Scope (\) { Name (OIPG, Package (num) {                               *)
(*       Package (4) { type, polarity, pin, device }, ... }) }             *)
(*                                                                         *)
(* through acpigen, a writer with a stack of open lengths: scope and       *)
(* package open one (a package also fixes its element count), pop_len      *)
(* closes the innermost.  acpigen is not in this repository; its calls are *)
(* modelled as the tokens they emit.  The AML is then decoded back into    *)
(* packages to state what the OS reads.                                    *)
(***************************************************************************)
EXTENDS Integers, Sequences, SequencesExt, FiniteSets, Word32

CONSTANTS
    GenericGpioLib,  \* CONFIG(GENERIC_GPIO_LIB)
    GpioNums,        \* physical GPIO numbers a board passes
    AcpiPin,         \* gpio_acpi_pin: the ACPI pin of each GPIO number
    Devices,         \* controller device names
    MaxGpios         \* largest num a board passes

\* The enum of chromeos.h.
CROS_GPIO_REC == 1
CROS_GPIO_DEPRECATED_DEV == 2
CROS_GPIO_WP == 3
CROS_GPIO_PE == 4
CROS_GPIO_ACTIVE_LOW == 0
CROS_GPIO_ACTIVE_HIGH == 1
CROS_GPIO_VIRTUAL == -1

\* struct cros_gpio.
CrosGpio == [type : {CROS_GPIO_REC, CROS_GPIO_DEPRECATED_DEV, CROS_GPIO_WP, CROS_GPIO_PE},
             polarity : {CROS_GPIO_ACTIVE_LOW, CROS_GPIO_ACTIVE_HIGH},
             gpio_num : GpioNums \cup {CROS_GPIO_VIRTUAL},
             device : Devices]

\* acpigen_write_integer takes a uint64_t: an int is sign-extended to 64
\* bits, kept as two UINT32 halves because TLC integers are narrower.
U64(x) ==
    IF x >= 0 THEN [hi |-> Zero, lo |-> W(x \div Half, x % Half)]
    ELSE [hi |-> Ones, lo |-> Sub32(Zero, W(0, -x))]

\* The acpigen calls, as the AML tokens they emit.
Scope(n)   == [k |-> "scope", v |-> n]
NameOp(n)  == [k |-> "name", v |-> n]
Package(n) == [k |-> "pkg", v |-> n]
Integer(x) == [k |-> "int", v |-> U64(x)]
String(s)  == [k |-> "str", v |-> s]
PopLen     == [k |-> "pop", v |-> 0]

VARIABLES
    gpios,  \* the board's cros_gpio array
    aml     \* the AML emitted, <<>> before the call

vars == <<gpios, aml>>

-----------------------------------------------------------------------------

\* Mutant: the GPIO library lookup is skipped.
GpioPinRaw(g) == g.gpio_num

\* gpio_num, or its ACPI pin when the GPIO library is built in and the
\* GPIO is not virtual.
GpioPin(g) ==
    IF GenericGpioLib /\ g.gpio_num # CROS_GPIO_VIRTUAL
    THEN AcpiPin[g.gpio_num] ELSE g.gpio_num

\* Mutant: the inner acpigen_pop_len is missing.
GpioEntryNoPop(g) ==
    <<Package(4), Integer(g.type), Integer(g.polarity),
      Integer(GpioPin(g)), String(g.device)>>

\* One iteration of the loop.
GpioEntry(g) ==
    <<Package(4), Integer(g.type), Integer(g.polarity),
      Integer(GpioPin(g)), String(g.device), PopLen>>

\* chromeos_acpi_gpio_generate(gpios, num).
Generate(gs) ==
    <<Scope("\\"), NameOp("OIPG"), Package(Len(gs))>>
    \o FlattenSeq([i \in 1..Len(gs) |-> GpioEntry(gs[i])])
    \o <<PopLen, PopLen>>

ChromeosAcpiGpioGenerate ==
    /\ aml = <<>>
    /\ aml' = Generate(gpios)
    /\ UNCHANGED gpios

Init ==
    /\ gpios \in UNION {[1..n -> CrosGpio] : n \in 0..MaxGpios}
    /\ aml = <<>>

Next == ChromeosAcpiGpioGenerate

Spec == Init /\ [][Next]_vars

-----------------------------------------------------------------------------
(* Decoding the AML                                                        *)

OpenKinds == {"scope", "pkg"}
ElementKinds == {"pkg", "int", "str"}

\* Lengths open before token j.
Depth(s, j) ==
    Cardinality({i \in 1..(j - 1) : s[i].k \in OpenKinds})
    - Cardinality({i \in 1..(j - 1) : s[i].k = "pop"})

\* The pop_len closing the length opened at token k (0 if none does).
Close(s, k) ==
    LET C == {j \in (k + 1)..Len(s) : s[j].k = "pop" /\ Depth(s, j) = Depth(s, k) + 1}
    IN  IF C = {} THEN 0 ELSE CHOOSE j \in C : \A c \in C : j <= c

\* A finite set of token positions in increasing order.
Ascending(S) ==
    [i \in 1..Cardinality(S) |-> CHOOSE x \in S : Cardinality({y \in S : y < x}) = i - 1]

\* The elements of the package opened at token k, in order.
Elements(s, k) ==
    Ascending({j \in (k + 1)..(Close(s, k) - 1) :
                  Depth(s, j) = Depth(s, k) + 1 /\ s[j].k \in ElementKinds})

\* What the OS reads from a package of integers and strings.
Values(s, k) == [i \in 1..Len(Elements(s, k)) |-> s[Elements(s, k)[i]].v]

\* The four values an OIPG entry is meant to hold for a GPIO.
Expected(g) ==
    <<U64(g.type), U64(g.polarity),
      U64(IF GenericGpioLib /\ g.gpio_num # CROS_GPIO_VIRTUAL
          THEN AcpiPin[g.gpio_num] ELSE g.gpio_num),
      g.device>>

-----------------------------------------------------------------------------
(* Properties                                                              *)

\* The AML emitted is well formed: every pop_len closes a length the
\* function opened, every scope and package is closed, and every package
\* holds exactly the number of elements acpigen_write_package declared.
AmlWellFormed ==
    aml # <<>> =>
        /\ \A j \in 1..(Len(aml) + 1) : Depth(aml, j) >= 0
        /\ Depth(aml, Len(aml) + 1) = 0
        /\ \A k \in 1..Len(aml) :
               aml[k].k = "pkg" =>
                   /\ Close(aml, k) # 0
                   /\ Len(Elements(aml, k)) = aml[k].v

\* The OS finds, under \OIPG, one package per board GPIO in array order,
\* each holding type, polarity, ACPI pin (all ones for a virtual GPIO) and
\* controller name.
OIPGDescribesGpios ==
    aml # <<>> =>
        /\ aml[1] = Scope("\\") /\ aml[2] = NameOp("OIPG")
        /\ Len(Elements(aml, 3)) = Len(gpios)
        /\ \A i \in 1..Len(gpios) :
               Values(aml, Elements(aml, 3)[i]) = Expected(gpios[i])

=============================================================================
