CONSTANTS
    GenericGpioLib = TRUE
    GpioNums <- MC_GpioNums
    AcpiPin <- MC_AcpiPin
    Devices <- MC_Devices
    MaxGpios = 2
    d1 = d1
SPECIFICATION Spec
\* chromeos_acpi_gpio_generate runs once per boot, from the DSDT generator;
\* the model stops after it.
CHECK_DEADLOCK FALSE
INVARIANT AmlWellFormed
INVARIANT OIPGDescribesGpios
