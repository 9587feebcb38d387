# TLA+ models of oreboot's vendor code

This directory holds TLA+ models of the C code under `src/`: modules, TLC
configurations, and `PROJECT.json`. `PROJECT.json` lists the components, the runs,
the mutants, the line map, the findings and the hazards.

## The system

The C code of this repository is vendor code that oreboot carries:

| Part | Source | State and operations |
|---|---|---|
| AMD PSP library | `vendorcode/amd/pi/00660F01/Proc/Psp/PspBaseLib/PspBaseLib.c` | See below. |
| x86 intrinsics | `vendorcode/amd/pi/00670F00/gcc-intrin.h` | Port and string I/O, fs-relative loads and stores, MSR, TSC, CPUID, cache instructions (`wbinvd`, `invd`, `clflush`), non-temporal SSE stores and fences, and a switch over DR0-7 / CR0-8 for `__readdr`, `__writedr`, `__readcr` and `__writecr`. |
| ChromeOS ACPI GPIO | `vendorcode/google/chromeos/acpi.c`, `chromeos.h` | Emits a nested AML package per GPIO. |
| DSM calibration | `vendorcode/google/chromeos/dsm_calib.c` | Validates a VPD key, reads it, and parses it as a positive number. |
| EDK2 CacheMaintenanceLib | `vendorcode/intel/edk2/.../Library/CacheMaintenanceLib.h` | Declarations and contracts only: write back and invalidate the data cache, invalidate the instruction cache, whole or by range. Modelled from the contract by `CacheMaint`. |
| EDK2 PciCf8Lib / S3PciLib | `vendorcode/intel/edk2/.../Library/*.h` | Declarations and contracts only: CF8/CFC configuration access, and an S3 boot script that replays writes on resume. Modelled from the contracts by `PciCf8` and `S3Pci`. |
| Headers | The rest | Constants, structure layouts and protocol declarations; nothing that changes state. |

The AMD PSP library has three kinds of state:
- **PSP PCI function (D8F0) configuration registers:** DEVID, CMD, BAR1, BAR3, MIRRORCTRL1 and EXTRAPCIHDR.
- **GNB redirection registers** D18F1xB8/xBC.
- **SMU index/data pair** D0F0xB8/xBC, through which the fuse register is read.

Its operations are:
- `PspBarInitEarly`: size BAR1, place it at 0xFEA00000, open the GNB window, and enable decode.
- `CheckPspDevicePresent` and `CheckPspPlatformSecureEnable`: fuse bits.
- `GetPspBar1Addr` and `GetPspBar3Addr`.
- `GetPspMboxStatus`: BAR1 + 0x70.
- `CheckPspRecoveryFlag`: init, then read the mailbox.
- `PspLibPciIndirectRead` and `PspLibPciIndirectWrite`: index/data access.
- `GetPspDirBase` and `PSPEntryInfo`: ROM probing and the directory scan.

The only interaction is through shared hardware. The fuse checks and the indirect calls share the SMU index register. The BAR checks depend on whether `PspBarInitEarly` has run. `CheckPspRecoveryFlag` composes init with the mailbox lookup. Boot code runs on one core with no concurrency. The hard behaviours are therefore:
- call order;
- partial failure;
- values left behind in shared index registers;
- 32-bit arithmetic at the top of the address space.

## Modules

- **`Word32`** provides C `UINT32` arithmetic: 16-bit halves, with `+`, `-`, `~`, `&`, `|` and `>> 8` wrapping mod 2^32. TLC's integers are 31-bit, so this is needed.
- **`PspBaseLib`** models the PSP bring-up. Its state is as follows:
  - `hw` holds the silicon: PSP visible, BAR1 size, fuse value, mailbox recovery bit. It is chosen in `Init` and fixed after that.
  - `psp` holds the D8F0 registers. `gnb` holds the redirect registers. `smu` holds the SMU index and scratch registers.
  - `ret` holds the last call's function, result and output.

  Each C function is an operator on the state that returns `[st, ok, val]`. Each exported function is one action that runs its callees in code order and commits the final state, so `CheckPspRecoveryFlag` includes the whole `PspBarInitEarly`.

  Configuration space is modelled this way:
  - A hidden PSP reads all ones and ignores writes.
  - A BAR write keeps only the bits of the BAR's address mask.

  `PspLibPciIndirectRead`/`Write` write the SMU index at `Address` and move the data at `Address + width`, byte-wise for the 8- and 16-bit widths (`IndexWrite`, `DataPortRead`, `DataPortWrite`). The constant `IndirectWidths` gives the widths callers pass; a 64-bit access also writes a nondeterministic upper dword (`Junk`) into the port after the index.

  The mailbox read is undefined behaviour when the pointer was never set, or when the address is not decoded. In those cases its result is a nondeterministic `BOOLEAN`.
- **`PspDirectory`** models `GetPspDirBase` and `PSPEntryInfo` over a ROM fixed in `Init`. It covers every signature pattern at the six probe addresses and every directory of up to `MaxEntries` entries. Both loops are `RECURSIVE` operators. They are checked against set-based reference definitions (`SelectInSeq`, and a set minimum).
- **`RegFile`** is the abstract specification of the register intrinsics. It models a file of registers keyed by identifier. A read returns the last value written. An identifier the interface accepts but does not implement reads as all ones and ignores writes.
- **`CpuRegs`** models the `gcc-intrin.h` register intrinsics:
  - `__readdr`, `__writedr`, `__readcr` and `__writecr` are a case set and a default, over the registers `dr` and `cr`.
  - `__readmsr` and `__writemsr` move `msr` values as edx:eax halves.
  - `_disable` and `_enable` set `intr`.
  - `__rdtsc` (`Rdtsc`) reads the time-stamp counter `tsc` into `tscRead`; `Tick` is the counter advancing, from `TscStart` to `TscEnd`. A 64-bit value is an edx:eax record of `Word32` halves, so the carry into edx is explicit.

  A constant `Build` selects the operand binding of the `"A"` constraint. On IA32 it is edx:eax. On x86_64 it is one of rax and rdx, with the other half stale; this choice is nondeterministic. For `__rdtsc` on x86_64, `retval` receives rax or rdx, each holding one 32-bit half of the counter. `IntrinsicsImplementRegFile` is `RegFile`'s `Spec`, instantiated with the refinement mapping `RegOf`.
- **`AcpiGpio`** models `chromeos_acpi_gpio_generate`. It is one action that turns the board's `cros_gpio` array (`gpios`, chosen in `Init`) into `aml`, the token stream of the acpigen calls it makes. Each `acpigen_write_*` and `acpigen_pop_len` is modelled as the token it emits; acpigen itself is outside the repository. `Depth`, `Close` and `Elements` decode the stream the way an AML reader nests it.
- **`DsmCalib`** models `get_dsm_calibration_from_key` over an RO_VPD (`vpd`) fixed in `Init`. `vpd_gets` and `atol` are modelled from their contracts; `atol` is a `RECURSIVE` operator, checked against the set-based `LeadingNumber`. `value` is the caller's `*value`.
- **`PciCf8`** models the `PciCf8Lib.h` contracts (only the declarations are in the repository). `cfg` maps each dword register of one function to its value, a set of bit positions, so `&`, `|`, `~` and shifts are set operations. `RegRead`/`RegWrite` access a register of width 8, 16 or 32 at a byte offset. One operator per operation family (`OrOp`, `BitFieldAndOp`, ...) gives the value written. `PciCf8WriteCall` and `PciCf8ReadCall` perform any call whose arguments satisfy the header's ASSERTs: alignment, `StartBit <= EndBit < width`, and data within the field. Each call is atomic, because the header requires every PCI access to be serialised. `ret` records the call, its register, its field and the value it returned.
- **`S3Pci`** extends `PciCf8` with the `S3PciLib.h` contract. An S3 call is two steps:
  - `S3PciAccess` is the PCI access.
  - `S3PciSave` appends the saved value to `script`.

  Between the two steps the call waits in `pending`; `S3PciSave(k)` is caller `k`'s save. Plain PCI calls (`PlainWrite`, `PlainRead`) change registers without a script entry. `Suspend` powers the registers off, keeping `snap`. `Resume` replays the script with `FoldLeft`. `owned` is the set of bits whose last change came from an S3 call. Every S3 call saves the value it returns (`SavedValue`) as a write of its register, as the header says ("saves the value in the S3 script"). The constant `S3Fns` names the `PciCf8` functions whose S3 form callers use.
- **`FsSeg`** models `__writefsbyte/word/dword` and `__readfsbyte/word/dword` over a region of `Limit` bytes at fs:0, byte by byte in little-endian order. `WriteFs` and `ReadFs` take any call whose bytes lie in the region. `LoadWidth` is the width of the load's `mov`: for `__readfsdword` it is `unsigned long`, 8 bytes on x86_64. A load that touches a byte past the region sets `fault`.
- **`PortIo`** models the port intrinsics against a FIFO device: `rx` is what the port will supply, `tx` what it has received. `In`/`Out` move one value; `InString`/`OutString` are `rep ins`/`rep outs` of Count units into or out of `mem`, the caller's buffer as transfer units. On x86_64 an element of the dword forms is an `unsigned long`, two dword units (`Units`, `Elem`). `Store` is the caller writing an element.
- **`GccIntrinIo`** composes `FsSeg` and `PortIo` by `INSTANCE ... WITH`, as one header compiled for one `Build`: each step is a step of one family with the other's variables unchanged. Its run checks the string I/O of an x86_64 build while fs calls interleave.
- **`CacheMaint`** models the `CacheMaintenanceLib.h` contract over `NLines` lines of `LineSize` bytes: `mem`, a write-back data cache `dc` and an instruction cache `ic`. Each of the eight library calls is an action. A range call acts on `RangeLines`, the lines its range touches, or on the whole cache (`RangeOrAll`). `WriteBackDataCache(Range)` may also invalidate, and `InvalidateDataCache(Range)` may also write back (both chosen with `\E`). The environment is also actions: CPU stores (`Store`), cache fills and evictions, instruction fetch fills, and DMA writes to memory. The ghost sets `flushed`, `codeReady` and `stale` record what a caller may rely on: addresses written back since the CPU last stored them; of those, the ones since invalidated in the instruction cache; and addresses a device wrote while their line stayed cached.

  The `gcc-intrin.h` cache instructions are actions of the same module: `Wbinvd` (`__wbinvd`: write back, then drop every line of both caches), `Invd` (`__invd`: drop every line without writing it back), and `ClflushFs` (`_mm_clflush_fs`: write back and drop one line). `StreamFs` is `_mm_stream_si128_fs`/`_fs2`: `movntdq` evicts the line and puts its 16 bytes in the write-combining buffer `wc`, which the CPU reads first. `Sfence` and `Mfence` drain every buffered line into memory; `WcDrain` is the hardware draining one line at another time. `ntStored` holds the streamed addresses not yet fenced. The DMA ghosts `dmaPending` and `dmaReady` follow the DMA-in discipline: an address a device wrote while the CPU had not dirtied its line is pending, and becomes ready when an invalidate covers it.
- **`MC_PspBaseLib`, `MC_PspDirectory`, `MC_CpuRegs`, `MC_AcpiGpio`, `MC_DsmCalib`, `MC_S3Pci`, `MC_GccIntrinIo` and `MC_CacheMaint`** give the constants. For `PspBaseLib`:
  - BAR sizes are 4KB, 64KB and 1MB.
  - The fuse values are: nothing set; PROTO; PROTO plus bit 0; and PROTO plus secure boot plus bit 0.
  - There is one SMU scratch register with two values.
  - Indirect accesses use the 32-bit widths (`AccessWidth32`, `AccessS3SaveWidth32`).

  For `PspDirectory`: two directory bases, two entry types, and `MaxEntries = 2`.

  For `AcpiGpio`:
  - One physical GPIO, whose ACPI pin (37) differs from its number (5).
  - The virtual GPIO, every type and every polarity.
  - Arrays of 0 to 2 entries.

  For `DsmCalib`:
  - A `dsm_calib_` key and another key.
  - Values of up to three characters from space, `-`, `0`, `7` and `x`.

  For `S3Pci` (and the `PciCf8` calls in it):
  - One dword; the low 16-bit register and its two bytes, and the field <4,11> across them.
  - Data all zeros or all ones, cut to width or field.
  - Up to two script entries (`MaxScript`), with any number of plain calls.
  - One caller, or two in the preemption run.
  - Callers use every S3 function but `S3PciBitFieldRead`; the bit-field-read run adds it.
  - `MC_View` leaves out `ret`, which no action reads.

  For `GccIntrinIo`:
  - A 4-byte fs region with bytes {0, 1}.
  - The dword port forms; a buffer of two elements, values {0, 1}, and a device that supplies and accepts up to two values.

  For `CacheMaint`:
  - One line of two bytes, values {0, 1}. A range that starts or ends inside the line leaves the line's other byte outside it.

  For `CpuRegs`:
  - Register numbers are {1, 3, 4}. These give cased and default numbers for both switches.
  - Values are {0, 1}, so that edx and eax can differ.
  - There is one MSR.
  - Registers start at zero. Every register content is reachable from there by writes.
  - The TSC starts two counts below the carry into edx (`0x0:0xFFFFFFFE`) and runs one count past it (`0x1:0x0`).

## Runs

| Run | Expect | What it shows |
|---|---|---|
| `psp_bringup` | pass (1,884 states) | Three things hold after any call sequence, indirect SMU calls included, on any of the 48 silicon variants. **RedirectMatchesBar:** once decode is enabled, the GNB window is exactly BAR1's range. **FuseAnswersFresh:** fuse checks answer from the fuse register, even after an indirect call left another index. **RecoveryFlagFaithful:** on a usable PSP, `CheckPspRecoveryFlag` returns the true recovery bit. |
| `psp_recovery_without_psp` | violation | On a part without the PROTO fuse, or with the PSP hidden, `CheckPspRecoveryFlag` dereferences an uninitialised pointer and can report recovery. Finding: code bug at line 257. |
| `psp_directory` | pass (2.36M states) | Both lookups agree with their reference definitions for every ROM and directory within the bounds. |
| `cpu_regs` | pass (18,450 states) | Compiled for IA32, every register intrinsic, `__rdtsc` across the carry into edx, and `_disable`/`_enable` in any order. **TypeOK:** the dispatchers never create a register their switch has no case for. It is the run that fires the actions the x86_64 run below reuses. |
| `cpu_regs_x64_msr` | violation | Compiled for x86_64, `__writemsr(m, 0)` may store a stale eax (the trace writes 0 and the MSR receives eax = 1), because `"A"` does not name edx:eax for a 64-bit operand there. Finding: code bug at line 466. |
| `acpi_gpio` | pass (546 states) | **AmlWellFormed:** the OIPG AML is balanced, and every package holds the element count it declared. **OIPGDescribesGpios:** the i-th OIPG entry is <type, polarity, ACPI pin (all ones when virtual), device> of the i-th GPIO. Deadlock is not checked, because the generator runs once per boot. |
| `dsm_calib` | pass (81,169 states) | **CalibrationFromVpd:** a success returns the positive number the VPD value begins with, for a `dsm_calib_` key. |
| `s3_pci` | pass (78,906 states) | **S3ResumeRestores:** after any number of suspend/resume cycles, every bit last set by an S3 call holds its value from before sleep. One caller uses every S3 function but `S3PciBitFieldRead`, interleaved with plain PCI calls. |
| `s3_pci_preempted_save` | violation | With two callers, one preempted between its access and its save, the script order differs from the write order, and resume restores the older value. Finding: spec gap at `S3PciLib.h:92`. The header serialises PCI accesses, not the access together with its save. |
| `s3_pci_bitfield_read_saved` | violation | A caller that also uses `S3PciBitFieldRead`: on a register holding 0x00FF the call returns its field <4,11> as 0x0F and saves that; replay writes 0x0F to the whole register, so it resumes as 0x000F and bits 4-7, which the call owns, are lost. Finding: spec gap at `S3PciLib.h:169`. The header does not say what a read saves or how it is replayed. |
| `gcc_intrin_io_x64_dword_string` | violation | On x86_64, `__indwordstring` of Count 2 fills both dword halves of element 0 of the `unsigned long` buffer instead of elements 0 and 1. Finding: code bug at `gcc-intrin.h:118`. |
| `cache_maint` | pass (6,692 states) | Against any interleaving of CPU stores, streaming stores, fills, evictions, write-combining drains and DMA writes: **FlushedReachesMemory:** every address written back (by a library call, `__wbinvd` or `_mm_clflush_fs`) or streamed and fenced since its last store holds the CPU's value in memory, whichever lines a range call picks. **FetchSeesCode:** code stored, written back and then invalidated in the instruction cache is what a fetch returns, whatever `__invd`, `__wbinvd` and the range calls do in between. **DeviceDataVisible:** data a device wrote into a buffer the CPU had not dirtied is what the CPU loads once a data-cache invalidate covered it, even if the cache filled the line with old data during the transfer. |

Each property of a passing run has a mutant, listed in `PROJECT.json`: a plausible bug in the mapped code, such as a dropped `-1`, a dropped mask, or an off-by-one in a loop. TLC finds each mutant violating its property.

**Bounds.** The bounds cover these cases:
- The BAR sizes include one smaller than the 64KB window granule, one equal to it, and one larger.
- The fuses separate PROTO from secure boot.
- Six probe slots with arbitrary signatures cover every "first table" position.
- With two entries and two types, there are cases where the type is first, second, absent, or beyond `TotalEntries`.

- For PCI, a field across the two bytes of a 16-bit register covers the shifts and masks of byte and word accesses. Two script entries are the fewest in which order matters.
- For the caches, one two-byte line is the smallest memory in which a range can split a line, and DMA, eviction and a store can all hit the same line.

- For the TSC, starting two counts below the carry makes the reads before, at and after `0xFFFFFFFF -> 0x1:0x0` all reachable.

**Fairness.** None is assumed, and only safety is stated. The modules are sequential boot code with no waiting; further calls, suspend and resume happen only when some code makes them.

## Results found while modelling, not kept as runs

Each of these was a TLC counterexample under a configuration since retired; the hazard it belongs to in `PROJECT.json` says so.
- `GetPspMboxStatus` before `PspBarInitEarly`: BAR1 is 0, which passes the 0xFFFFFFFF check, so it returns TRUE with a mailbox at 0x70 (`PspBaseLib.c:338`).
- With a BAR1 of 4MB, the BAR's address mask places it at 0xFE800000 while the GNB window is computed from 0xFEA00000, so the window no longer matches BAR1 (`PspBaseLib.c:302`). A 2MB BAR still fits: 0xFEA00000 is 2MB-aligned.
- `PspLibPciIndirectRead`/`Write` with the 8-, 16- and 64-bit widths put the data port at `Address + 1`, `+ 2` or `+ 8`, not at the data register (`PspBaseLib.c:433`).
- On x86_64, `__readfsdword` loads 8 bytes and faults on a dword at the region's end (`gcc-intrin.h:579`).
- `InvalidateDataCacheRange` on an unaligned range drops the CPU's stores to the bytes of its end lines outside the range (`CacheMaintenanceLib.h:186`).
- On x86_64, two successive `__rdtsc` calls can return 0xFFFFFFFE and then 0: `"=A"` binds `retval` to rax alone, so the upper half is lost (`gcc-intrin.h:478`).

## Not modelled, and why

- The remaining intrinsics are not modelled: `__cpuid`, `__halt`, `__debugbreak` and `__lidt`. `cpuid` reads fixed processor data. `hlt` and `int3` transfer control to interrupt handlers outside the repository. No code here reads IDTR after `lidt`. Its `"m"(*(short*)Source)` operand declares two bytes of a 6- or 10-byte descriptor, so the compiler may drop the caller's store of the base. That depends on the caller, and this repository has none (hazard at `gcc-intrin.h:528`).
- The SSE fences order loads as well as stores. `CacheMaint` has no load buffer, so it models only the draining of the write-combining buffer.
- The string I/O asm names Buffer only as a register, without a memory operand or clobber: a compiler may keep a buffer value in a register across `rep ins`. That is code generation, outside a model of the instructions.
- Header constants and structures have no behaviour.
- The EDK2, FSP and Cavium headers declare interfaces whose implementations are not in this repository. `FspCommonLib.h`, `FspPlatformLib.h` and `hob_memmap.h` are prototypes and structure layouts whose comments say what each function returns, with no sequencing between calls. `Hash2.h` (the hash protocol) and `PiPcd.h` (the PCD PPI) do state sequencing contracts: HashInit, HashUpdate and HashFinal; and SetSku, size-checked sets, callbacks on set and token enumeration. They could be modelled the way `CacheMaint` models `CacheMaintenanceLib.h`. Nothing in this repository implements or calls them, so the runs go to the code oreboot executes. Read literally, the Hash2 contract has a stuck state: `Hash()` terminates a digest in progress, but `HashInit` returns `EFI_ALREADY_STARTED` until a `HashFinal` ends the earlier `HashInit`. It is listed as a hazard at `Hash2.h:130`.
- `vpd_gets` silently cuts a VPD value at 127 characters, so a calibration written with more than 127 leading zeros or spaces is parsed from its prefix. `DsmCalib` models the cut, but values that long are beyond TLC (hazard at `dsm_calib.c:24`).
- `PciCf8RegisterForRuntimeAccess` changes no state that the other calls observe. The address macros `PCI_CF8_LIB_ADDRESS` and `S3_PCI_LIB_ADDRESS` are fixed bit layouts. The PCI models work on the registers of one function.

## Plan for later work

1. `PciCf8RegisterForRuntimeAccess` and transfers that cross dwords. The latter needs a byte-addressed configuration space.
2. An abstract cache specification (memory as the CPU sees it) with `CacheMaint` shown to refine it.
3. A `Hash2` module for the digest sequence of `Hash2.h`, checking that an instance can always start a new digest.
4. Two cache lines of two bytes each, so that a range can split one line and miss the other. This is beyond the time a run has, with the streaming and DMA ghosts.
