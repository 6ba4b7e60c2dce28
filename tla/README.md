# Formal model of the Atari ST toolkit

The repository holds a headless Atari ST emulator in Go (`src/internal/st`,
`src/internal/m68k`), the session server that drives it (`src/protocol`), and
the notes and traces its behaviour was built from (`src/docs`). The emulator
is *fail-closed*: it accepts an access to a device only when one of its
scripts, which follow the boot of EmuTOS 1.3, waits for it. Any other access
is a bus fault that must change nothing. The program is sequential, but the
machine it describes is not: a script is interleaved with interrupts, with
deadlines of several devices, with events of the front end and with resets.
That is what the modules here describe.

Contents: 1 the inventory, 2 the modules, 3 the runs, 4 the proofs, 5
disagreements found, 6 what is left out, 7 the plan.

## 1. Inventory

Each component, its state, its operations, what makes it hard and what makes
it correct. `PROJECT.json` has the same list with the status of each, and the
hazards with their lines.

| component | code | state | operations |
|---|---|---|---|
| Machine scheduler | `st/machine.go` | `Clocks`, next VBL, deadlines of Timers C and D, FDC, IKBD (bit, reset, response, uplink), `vblPending` | `Step`, `StepAt`, `advanceClockedDevices`, `Reset`, the queueing calls |
| MFP controller, timers | `st/memory.go` | IERB, IPRB, ISRB, IMRB, VR, timer and USART registers, four boot stage counters | register reads and writes, acknowledge, `raiseMFPB...` |
| IKBD ACIA link | `st/memory.go`, `ikbd_mouse.go`, `ikbd_keyboard.go` | control, TDR, shift register, RDR, response streams, command assembler, mouse mode | read and write of `$FFFC00/02`, bit tick, delivery, queueing |
| IKBD uplink ring | same | six bytes, head, count | offer a packet, take a byte, clear |
| Floppy scripts | `st/memory.go`, `floppy_media.go` | PSG port A, DMA mode, FDC, ACSI scan, `flopvbl()` pass, media check | register accesses, completion of restore and seek |
| Media receipts | `st/floppy_media.go` | a ring of eight receipts | `append`, `attempt`, `reset` |
| Address space | `st/memory.go` | RAM, MMU configuration, probe state | read, write, validate, translate, fault |
| MIDI ACIA | `st/memory.go` | control, configured | two control writes |
| Video | `st/memory.go`, `st/video.go`, `st/machine.go` | programmed and active base, sync, resolution, palette | register writes, reload of the base on VBL, frame decode |
| MC68000 | `m68k/cpu.go`, `m68k/memory.go` | registers, SR, stopped, halted | `Step`, exceptions, interrupt acceptance, flags |
| Session, protocol | `src/protocol/` | the machine, or none | boot, reset, run_instructions, key, mouse, framebuffer, quit |
| Raw floppy image | `st/floppy_image.go` | image bytes, geometry | open, sector read |

How they interact. `Step` first lets a stopped processor idle to the next
deadline, then accepts an interrupt (MFP level 6 before VBL level 4) or runs
one instruction, whose accesses `Memory` answers at once, and then calls
`advanceClockedDevices`: each device whose deadline has passed catches up, and
may put a byte in RDR, set a pending bit or complete an FDC command. The front
end calls `QueueKey` and `QueueMouseMotion` between steps. The RESET
instruction cold-resets `Memory` but not the fields of `Machine`.

The hard behaviours, by component:

- **Scheduler**: deadlines compared with an unsigned clock; an error in the
  middle of the device advance leaves out everything behind it; a STOP whose
  wake-up depends on the mask, the VBL and the uplink; an interrupt that cannot
  be entered, found out when the idling is done; deadlines that outlive a
  RESET. *Correct when* a stopped processor with an open mask wakes unless its
  interrupt cannot be entered or the uplink is in overrun, a
  stopped timer stays silent, no deadline is in the past unnoticed.
- **MFP**: four stage counters decide which register write is legal while
  interrupts may become pending between any two writes. *Correct when* service
  nests by priority and counters, enables and timers tell one story.
- **ACIA link**: five streams share one receive register; the read handler
  never sees who sent the byte and infers it from counters; protocols are
  recognised by bytes that may also be parameters of commands; three responses
  share one deadline. *Correct when* each byte is credited to its sender,
  responses arrive whole, polls do not overlap and requests are answered.
- **Uplink ring**: a packet of three bytes straddles the end of the array, or
  finds too little room. *Correct when* it is a FIFO queue of whole packets.
- **Floppy**: `flopvbl()`, run from the VBL, and the media check share port A,
  the DMA mode and the FDC interrupt; a later check begins as a pass and takes
  it over; a completion is attributed by the phase at the time it completes.
  *Correct when* the drive of a check stays selected, a pass restores the
  port, the FDC's interrupt, line and status agree, no script is stranded and
  the bus scan is complete.
- **Receipts**: a slot computed from three counters. *Correct when* the lookup
  finds exactly the last receipts.
- **Address space**: banks configured larger or smaller than their chips
  alias; the DMA address is written in three bytes each of which may carry into
  the next; two readers find the screen by different ways; a user address may reach system memory. *Correct when* RAM keeps what was
  written to it, the aliases are those the ROM sizes the memory by, and user
  writes leave system memory alone.
- **Video**: the base in use is that of the last vertical blank; two readers
  of the screen, one with the rights of the processor and one from the chips.
  *Correct when* the two show the same picture.
- **MC68000**: every saved and relative address is reckoned from the program
  counter and two prefetched words, and an instruction may fail or trap
  half-way; an exception writes a frame and fetches a handler before it
  commits; an interrupt may come between any two instructions. *Correct when*
  the pipeline stays in step, interrupts are invisible, a user program stays
  one, and a failed entry leaves no trace.
- **Session**: requests in any order; a run that an error ends half-way keeps
  the machine, and the failed step is tried again. *Correct when* the last
  answer is true of the machine, and a guest comes to its end however its runs
  are sliced.
- **Raw floppy image**: a track, side and sector become an offset in two
  steps of mixed radix. *Correct when* sectors are disjoint and cover the
  image.


(Paths without `src/` are below `src/internal/`.)

## 2. The modules

| module | models | state and actions against the code |
|---|---|---|
| `Mfp` | registers and boot stages of the MFP B bank, Timers C and D, USART | a register file is a record; `WriteIERB`, `WriteTCDCR`, ... are the cases of `WriteByteFC`, as functions from register file to register file. `Written(m)` is what one instruction may make of `m` |
| `Machine` | `Machine.Step` | extends `Mfp`. `AcceptMFP`, `AcceptVBL`, `AcceptFails` (the entry of the interrupt fails, and `Step` returns its error after the idling), `StayStopped` are the ways through the first half of `Step`; `Write`, `ReadData`, `SetMask`, `Stop`, `ResetDevices` are instructions by the effect the scheduler can see. Each contains the whole of `advanceClockedDevices` (operator `Advance`) and `raiseDueVBL` |
| `IkbdAcia` | the serial link | `WriteControl`, `WriteData`, `ReadData`, `ReadStale` are the accesses of the program; `BitTick` is `advanceIKBDACIAClock` with what `advanceDueACIAClocks` schedules; `DeliverResponse`, `DeliverUplink`, `DeliverReset` are the deliveries; `QueueKey`, `QueueMouseMotion` are the front end; `M68KReset` the RESET instruction |
| `IkbdUplinkRing` | the uplink buffer | implements `ByteQueue`, a bounded FIFO queue of whole packets, which is the view `IkbdAcia` takes of it |
| `FloppyMediaReceipts` | the receipt ring and its lookup | implements `RecentLog`, a log that keeps the most recent entries under their numbers |
| `Floppy` | PSG port A, DMA mode, FDC, ACSI scan, `flopvbl()` pass, media check | one action per accepted access, dispatched by which script waits for it, in the code's order; `CompleteRestore` and `CompleteSeek` are the completions; `Reset` the cold reset |
| `AddressSpace` | MMU, access rights, RAM, ROM and cartridge windows, video, palette and DMA address registers, both readers of the screen | `WriteByteFC` and `WriteWord` dispatch an address to `StoreByte`, `LoadMmu`, ... in the code's order; `ReloadVideoBaseOnVBL` and `TakeSyncTransition` are what `Machine.Step` does to it; `M68KReset` the cold reset; byte reads are operators |
| `Alu` | the arithmetic of the processor on values of a width: sums, differences, products, quotients, bits, shifts, and the flags each leaves | operators only; a value is a number below `ByteSize`, `WordSize` or `LongSize`, a set of flags a record |
| `CpuCore` | the processor's state, its bus, its pipeline of two prefetched words, exceptions, effective addresses and operand reads | an instruction is a function from processor records to processor records, put together from the steps of the Go method in its order |
| `CpuArithmetic` | the instructions that compute, on words and longs: `ADD`, `SUB`, `CMP`, `AND`, `OR`, `EOR`, with their immediate, quick, address and extended forms, `NEG`, `NOT`, `CLR`, `TST`, `CMPM`, `EXG`, `Scc`, bits of registers, shifts and rotations, `MULU/S`, `DIVU/S` | as above |
| `CpuBytes` | the same on bytes, `MOVE.B`, `Scc` and bits in memory, `TAS` | as above; the bus of `CpuCore` has words, so a byte is the upper half of its word at an even address and the lower half at an odd one |
| `Cpu` | control flow, `MOVE`, `MOVEQ`, `MOVEM`, `SWAP`, `EXT`, `LEA`, `PEA`, `LINK`, supervisor instructions, reset | `Execute` runs the instruction in the pipeline (`Executed` is the dispatch of `StepAt`); `Interrupt` accepts an interrupt; `StayStopped` is the error of a processor nothing wakes |
| `Session` | `Session`, `Decode`, `Handle`, `serve` | extends `Cpu`. One action per operation of the contract; `RunInstructions` begins the loop over `Step`, `RunStep` is one turn of it |
| `RawFloppy` | `RawFloppy` | which images are accepted, and the offset of a sector: operators only |
| `MC...` | instances for TLC | values of the constants |
| `..._proof` | theorems | section 4; `Cpu_proof` holds the lemmas on single instructions, `Session_proof` extends it; the raw image's are with those of the media receipts |

Composition. `Machine` uses `Mfp` as its register file. `IkbdAcia` and
`Machine` meet at RDR and the uplink deadline: `Machine` knows the link by the
number of queued bytes, the deadline and RDRF, and takes from `IkbdAcia` only
that another response byte may arrive, the last one clearing the uplink
deadline. `IkbdAcia` takes from `Floppy` that the probe and the first pass
have finished, and `Floppy` from `IkbdAcia` that the clock has been read back.
`Session` extends `Cpu`: the loop of `run_instructions` steps the processor,
and the host sees how the last step ended. `Cpu` takes its bus from the guest:
words of ROM and cells of RAM, everything else faulting; what the rest of the
address space answers is `AddressSpace`'s, which in turn needs no processor,
only the function code of an access.

Abstractions all modules share. An access that the code refuses changes
nothing here and is left out, or is the identity: `validateAccess` and
`locateRAM` come before any store. (Where the code refuses half of an access,
section 5 says so.) In `Cpu` a refused access is part of the model: it is what
makes an instruction fail or trap half-way. Clocks are
distances: `Machine` keeps each deadline as what is left until it, so a
behaviour has no last clock; `IkbdAcia` and `Floppy` only know whether a
deadline is armed, and an armed one may fall due at any moment. Bytes are
named by who sent them, DMA modes by what they select. The program is free:
any accepted access may come next, in any order and with interrupts anywhere.
Only `Floppy` says more of it: the ROM's driver does nothing else within a
pass or a check (guard `Alone`), masks interrupts while it reads and writes
port A, and its `flopvbl()` returns at once during a media check, unless the
constant `Overlap` is TRUE.

## 3. The runs

States are distinct states; the runs take from a second to two minutes.

| run | states | what it shows |
|---|---:|---|
| `receipts` | 175 | the ring keeps, numbers and finds exactly the last receipts, and implements the log |
| `uplink_ring` | 7179 | the ring is a FIFO queue of whole packets |
| `acia` | 89756 | with key bytes in between: bytes are credited to the sender (`ReadsGoToTheSender`), responses arrive whole, polls do not overlap, one response at a time, every request is answered |
| `mouse` | 213912 | mouse packets, commands and a RESET at any moment: bytes are credited to the sender, and the queue drains when no clock response is in the way |
| `machine` | 391770 | a stopped processor with an open mask wakes unless the uplink is in overrun or the interrupt cannot be entered; an overdue uplink byte is waiting for RDRF, which keeps the unsigned subtraction of the idle time from wrapping; service nests by priority |
| `timers` | 239622 | the whole MFP boot, any write at any moment: stages, enables and timers agree, a stopped timer does not become pending, Timer D is quiet after its stop sequence |
| `floppy` | 2306 | the boot scripts, passes and first and later checks: the drive of a check stays selected, the port is restored, the FDC agrees with its line, no script is stranded, the scan is complete |
| `memory` | 13167 | four guest programs: sizing the RAM, moving and drawing the screen, loading the DMA address, frame rate and palette, with vertical blanks and resets in between: RAM keeps its bytes, the aliases are those of the chips, three bytes load the DMA address whatever carries, both readers of the screen agree, user writes leave system memory alone |
| `session` | 26326 | eight guest programs under a host that slices, retries and resets as it likes, with interrupts at any instruction: the pipeline is coherent, interrupts are invisible, user mode is left only by exceptions, failed entries leave no trace, guests finish with the result they have alone. Two guests, `sums` and `bytes`, compute: their results, worked out by hand, depend on every instruction they run and on the flags each leaves |
| `stuck_uplink`, `lost_button`, `timer_c_after_reset` | | violated: section 5 |

Bounds, and why they are enough.

- `receipts`: three slots and eight appends between resets, so the ring wraps
  twice and the lookup is asked at every fill level. The theorems hold for
  every capacity.
- `uplink_ring`: the capacity of the code, six; packets of three and of one
  byte start at every slot.
- `acia`: responses and the set-clock packet are two bytes long (seven in the
  code): a first and a last byte, which is what the handlers tell apart. A
  byte takes one serial tick instead of ten; the ticks in between change
  nothing. One queued key, two polls (one after another), no RESET. The
  alphabet has every byte a guard names, and the command `$07` whose parameter
  may be any of them.
- `mouse`: the bytes that switch the mouse on, two motions (one with a button,
  one at rest), a queue of one packet, one RESET. Without `$80` and `$1C` no
  response is ever requested, so that `UplinkNeverStalls` asks about the queue
  alone; `stuck_uplink` asks it with responses.
- `machine`: a frame of 3, a byte time and periods of 2 clocks, instructions
  of 1 clock: deadlines coincide, precede and follow one another in every
  order. Two queued bytes; masks 3 (lets the VBL through) and 7. A STOP may be
  one under which every interrupt can be entered, or the VBL cannot, or the
  ACIA's cannot (`FailingSets`): the one of each kind `Step` accepts. `Late` cuts
  off behaviours in which errors delay a deadline by more than two clocks.
- `timers`: all three channels and all values of TCDCR, mask 7 only, no
  keyboard, one RESET; it is the register writes that are exhausted here.
- `floppy`: three targets (a first, a middle and a last one); everything else
  at its real size.
- `memory`: 1 MiB, that is two banks, at the real addresses; cells are those
  the program can reach. The first program sets both banks to 128 KiB, to
  512 KiB or to 2 MiB, or the second alone to 2 MiB, and stores three times, at
  addresses 512, 1024 and 2048 apart and in the second bank; the second sets
  the base to every address its bytes allow and looks at the first and the
  last group of sixteen pixels; the third makes two loads of three bytes with
  bytes just below and above a carry. The theorems hold for every program.
- `session`: `LongSize` is 2^30 for 2^32 (TLC's integers), which no guest's
  address comes near and which keeps sign and wrap; a host asks for 0 or 3
  instructions, so a run is cut after any; the limit of 100 million is 3. One
  interrupt of level 2 or 6 while a guest runs, two for the one that stops.
  The guests: `tour` boots, drops to user mode, calls, loops, traps and faults
  in each way its handlers repair; `stops` stops under a mask that lets
  interrupts through and under one that does not; `wedged` and `vectorless`
  take an exception without a stack and without a handler; `off` runs off
  its ROM; `odd` has an odd reset vector; `sums` runs the arithmetic
  instructions on operands at the edges of their widths, branches on their
  flags into a loop when one is wrong, and meets the faults of their operands;
  `bytes` does the same with bytes in both halves of words, through every way
  to address an operand, moves the stack pointer by a byte, and tests one
  where nothing answers.
- `ShiftsAreArithmetic` of `MCSession` is an assumption TLC evaluates: shifts
  and rotations bit by bit, as the code does them, against multiplication,
  division and remainders of powers of two, for all values of four bits and
  counts from 0 to 9, which takes a rotation more than twice around.

Fairness. `IkbdAcia` assumes weak fairness of the bit clock, the reset
response and the host's read, and strong fairness of the two deliveries. Each
step of the processor advances the clock that the deadlines are compared with,
so an armed deadline falls due; a delivery that finds RDRF set is tried again
at each later step, so one that is possible again and again happens; the
program reads RDR because each byte interrupts. `Machine` assumes that the
session calls `Step` again while the processor is stopped (`StoppedStep`, a
failed entry included): nothing is said of what instructions do. `Session` assumes that the loop of a run goes on by itself
(`TurnOfTheLoop`: Go runs it to its count or its first error); nothing makes
the host ask, and `GuestsFinish` says what follows if it asks again and again
and does not reset. `Floppy` and `AddressSpace` have no fairness and no
liveness property. Deadlock is checked in every run but those of `IkbdAcia`,
whose alphabets and bounds let the system come to rest, and `session`, which
stops after quit.

The mutants in `PROJECT.json` are plausible slips in the code (a dropped
guard, a bound off by one, a missing wrap, a late reset); each of them breaks
the property it is listed under.

## 4. The proofs

All from the modules as they stand, for every value of the constants that
their ASSUMEs allow.

**Receipt ring** (`FloppyMediaReceipts_proof`). `RingIsNumbered`: the
inductive invariant `IInv`, that `count` is the smaller of `total` and the
capacity and that the slot computed for each number in the window carries that
number. `LookupCorrect` and `RingImplementsLog` follow. Without the numbering,
nothing relates the entries to `total`, and the lookup's final comparison
could fail. The difficulty is the modulo: `WrapOneTurn` reduces it to one
turn, the lemmas after it say which slot is which number back, before and
after an append.

**Uplink ring** (`IkbdUplinkRing_proof`). `RingInvariant` and
`RingImplementsQueue`, along the same lines: slots ahead of the tail are
distinct from those in use, so an offer changes none of the bytes waiting
(`OfferSlots`, `OfferRefines`), and a take moves every index by one
(`TakeRefines`).

**Floppy scripts** (`Floppy_proof`). `TypeCorrect` and `ScanIsComplete` hold
whatever the driver overlaps. `TypeCorrect` needs `BytesCounted`, since the
address counter is bounded only by the phase it is counted in;
`ScanIsComplete` needs `ScanCounts`: the set of attempts is exactly the
targets up to the present one at every stage, and the last stage is reached at
`LastTarget`. The three others assume `Overlap = FALSE`: `FdcConsistent`,
`DriveStaysSelected` and `PortRestored`. Their inductive invariant `IInv`
joins them with

- `PassesComeLast`: passes and checks begin when the boot probes are over, so
  a pending command has exactly one script waiting for it;
- `ChecksAreAlone`: no pass is in progress in a check;
- `PortRemembered`: a pass holds the port it found, in port A until the drive
  is selected and in `entry` until it is put back.

`BootGoesForward` again needs no assumption on `Overlap`: the stage of the
FDC's boot goes up by one, back to the first only for the second probe, or to
a cold reset, because `PendingOwned` gives a pending command one owner, whose
stage its completion moves on. `PassesGoOn` is `PassesCanGoOn`: in each phase
of a pass or a check the access the driver makes next is one `Next` allows.
The invariant alone does not say it; it takes two more parts, of which TLC
checked that they are invariants first:

- `PassWaits`: at each stage a pass has the register selected, the value in
  port A, the DMA mode and the drive that the next access asks for;
- `CheckWaits`: the same for the phases of a media check, up to the number of
  address bytes written and to which of the FDC's registers can be read.

With `Overlap = TRUE` `FdcIsConsistent` is not an invariant: a pass that is
accepted in the middle of a check reads its status over the busy status of
the check's pending seek (section 5).

**IKBD link** (`IkbdAcia_proof`). `CreditedToTheSender`, `ResponsesWhole`,
`OneAtATime`, `PollsInTurn` and `TypeCorrect`, for every alphabet, length of a
response, number of polls and number of resets. The inductive invariant joins

- `OneHolder`: a set RDRF puts RDR in the hands of exactly the source that
  sent the byte, a clear one in nobody's. The read handler infers the sender
  from counters, so this is what makes its guess right;
- `Streams`, `QueueIsUplink`: what was read of each response is its beginning,
  up to the byte in RDR; what waits in the queue is the uplink's;
- `Stages`, `Counted`, `Scheduled`, `PollsDoNotOverlap`: the rounds come one
  after another, an armed response was asked for and has bytes left, and the
  next poll has not begun.

**Scheduler and MFP** (`Machine_proof`), for every length of a frame, a byte
time, a period and an instruction. `TypeCorrect`; `NoWrap`, that the unsigned
subtraction in `Step` does not wrap; `StagesAgree`, `StaysQuiet`,
`NestsUpwards` and `PendOnlyWhileOn`. The inductive invariant joins the
register file's (`Good`: what each boot stage implies for enables, masks,
pending and in-service bits) with `Clocks` and `Uplink`, which bound each
distance: the VBL is at most a frame away except when a stopped processor has
idled past it (its mask keeps the VBL out, or the interrupt cannot be entered:
`Blocked`), and an uplink deadline is in the past only behind RDRF.
`Advance`, the whole device catch-up with its early error exit, is taken
apart stage by stage, each preserving its part.

**Address space** (`AddressSpace_proof`), for every guest program, ROM and
both sizes of RAM, under the named assumptions of the module (of which
`CellsAssumption` says that the cells of a program are all those its accesses
reach; TLC evaluates it for the four programs). `Remembers` is the heart, with
the parts `Mapping` and `Remembered` of the invariant: without 2 MiB banks
`Translate512KBank` is injective on each bank, so a store reaches the bytes
last written through other addresses only if it
is the same address. `SizingWorks` and `SystemSafe` are the other direction:
which addresses share chips in a 2 MiB bank. `LoadsInOrder` follows the carry
of the counter for all bytes, with the part `LoadTracksCounter`: after each
byte the counter is what the bytes so far make of it.

`HostSees` compares the two readers of the screen, of which one asks with the
rights of a processor and the other reads chips. They answer for the same
bases because a frame, of at most 32000 bytes (`FrameSizeAssumption`), cannot
begin in RAM and end in the cartridge or the ROM (`OnlyRamAnswers`), so that
its last byte, which the assumption `FrameAssumption` has the model look at,
decides for all of it (`FrameAddresses`). `BaseLatched` is the part of the
invariant it needs: a programmed base is one the program has the bytes for,
which keeps it above the vectors. Then bit by bit: a pixel index is put
together from one bit of each of four words (`PixelBits`), and `HighBits` and
`LowBits` say which bit of which byte that is.

**Processor and session** (`Cpu_proof`, `Session_proof`). `SessionTypes`,
`UserIsConfined` and `FailuresLeaveNoTrace` rest on one invariant, `CpuInv`,
with what the session adds to it (`SessionTyped`). Its core is a lemma about
all instructions, `ExecutedSound`. It follows one instruction as the Go method
runs, step by step, from the state `u` it began in to the state `c` it has
reached. While it runs or after it failed it is `Calm`: registers, status and
memory have their widths and, if `u` was in user mode, so is `c`, with the
supervisor stack pointer of `u` and the upper byte of its status. Or it has
trapped and is `Handled`: at the first word of a handler, over a frame of six
or fourteen bytes below that stack pointer. `Sound` is one or the other, and
each step of the pipeline, each addressing mode and each kind of instruction
keeps it. The parts where this takes more than the steps of the method are
`MOVEM`, whose listed registers take their words of memory one by one
(`PlacesTaken`: each place has its register), the instructions that write the
status from memory, and the values of `Alu`: `ShiftFits` and `LogicFits`. The
last needs `And`, a recursive function over bits, which `AndBySize` bounds by
induction on the width of its operands.

Two hypotheses. `InstructionAssumption` of `CpuCore` says what an opcode
guarantees of the fields of a decoded instruction: a register number has three
bits, a quick value lies from 1 to 8, a bit instruction is one of four. TLC
evaluates it for the eight guests. `Width` gives `LongSize` its value in the
program, 2^32, where the run has 2^30 because of TLC's integers; without it
they are false, since `BCHG` of bit 31 leaves a value no narrower long holds.

`UserStaysUser` says where a user program may become supervisor: the first
word of a handler whose vector can be read, one frame further down the
supervisor stack, modulo the width of the stack pointer.

`Coherent`: after every instruction, exception, interrupt and failure, of every guest, the prefetched
words are those below the program counter; instruction by instruction, from
the fact that each step either shifts the pipeline by one fetched word, fills
it anew, or leaves it. `AnswersAreTrue`: the last answer tells whether there
is a machine; it needs `RunsOnAMachine`, that a run under way has one.

The arithmetic, for every width and value. The code computes flags by
inspecting signs before and after; the theorems say what they mean.
`SumsAreWhole` and `DifferencesAreWhole`: result and carry are the whole
unsigned sum or difference, and overflow is set exactly when the signed one
does not fit. `ConditionsCompare`: after a comparison, the conditions of a
branch are the orders of the signed and of the unsigned operands.
`PlainIsExtended`: a plain sum or difference, whose carry the code finds in
another way, is the extended one after the extend bit was cleared and zero
set. `ChainedSumsAreWide`: the extended additions of the low and then of the
high halves are one addition of twice the width, zero flag included.
`DivisionsAreExact`: a quotient that is not refused is the truncated one, and
the remainder has the sign of the dividend. `ShiftsRightDivide` and
`ShiftsLeftMultiply`: a shift, done place by place, divides towards minus
infinity or multiplies by a power of two; its carry is the last bit lost, and
overflow of `ASL`, gathered place by place, says exactly that the signed
product does not fit (`DoubledOnceMore`: what once left the range stays out).
`RotationsUndo`: rotations left and right by the same count undo each other.

**Raw floppy image** (second half of `FloppyMediaReceipts_proof`). `SectorsAreInside`,
`SectorsAreApart`, `SectorsCover`: the sectors of an accepted image are
exactly its 512-byte blocks, each at one address, at offsets that 32 bits
hold. Both digits of the mixed radix are unique (`DigitsAreUnique`).

**Induction.** The provers have no rule with an operator as parameter, so an
induction over numbers is stated on sets: a set that has 0 and with each
number the next has them all (`Induction` of `Cpu_proof`, from the least
number that is missing, which `WFMin` of the library gives). A recursive
function is defined on a finite domain, so that it has a table, and the set is
that of the sizes up to which the table is right.

**Model-checked only.** Liveness (`RequestsAreAnswered`, `UplinkNeverStalls`,
`StopWakes`, `GuestsFinish`): this prover has no rules for fairness and
ENABLED. `InterruptsAreInvisible` of `Session`: it holds only of guests whose
handlers save the registers they use and leave the stack as they found it,
which is a property of their programs, not of the processor. The carries of
rotations, and that a rotation of as many places as the width is none
(`ShiftsAreArithmetic` has both for four bits). That the guests of `session`
compute their results.

## 5. Disagreements found

Each is a run that TLC finds violated, with the quoted text in `PROJECT.json`.

- `stuck_uplink` (`machine.go:278`): the last byte of a clock response clears
  the deadline of the uplink queue too. Bytes queued at that moment wait until
  the next key or mouse event, or for ever. Spec 142 says the queue is sent
  byte by byte.
- `lost_button` (`ikbd_mouse.go:31`): a mouse event that is refused (range or
  full queue) has already stored its buttons; the change is never sent. Spec
  143 says each change sends a packet.
- `timer_c_after_reset` (`machine.go:237`): the RESET instruction stops Timer
  C in `Memory`, but `Machine` goes on raising its channel. Specs 069 and 099
  say a reset stops the timer and clears its deadline.

Others were met while modelling and have no run; the modules do what the code
does:

- In a processor stopped with the VBL masked, `Step` latches the VBL and moves
  its deadline without `Clocks` having reached it (`machine.go:101`, `112`,
  `154`); specs 072:53 and 076:36 say the VBL is latched when its clock is
  reached. `Machine` has it: `Clocks` of its proof says how far.
- A `flopvbl()` pass is accepted in the middle of a media check and takes away
  the interrupt the check waits for (`memory.go:692`); spec 121:36-39 says that
  overlaps fail closed. The ROM's driver does not do this; the emulator does
  not refuse it. `Floppy` has it behind `Overlap`.
- A word read of a byte-wide device is two byte reads: the first takes effect
  before the second faults (`memory.go:732`). No boot script does it.
- A MOVEM load reads one word behind its list, so a list that ends with the
  RAM fails (`cpu.go:1805`). `Cpu` has it.
- RTE commits stack pointer and status before it fetches at the return
  address; when the fetch fails, a second try pops what lies above the frame
  (`cpu.go:4735`). `Cpu` has it.
- A `MOVE.W` store that does not answer is an error of the host, a load a bus
  error exception of the guest (`cpu.go:3807`). `Cpu` has it.

## 6. What is left out

- *Processor in `Machine`*: seen only through mask, STOP, acceptance and
  RESET; its instructions are any effect on the devices. `Cpu` has the
  instructions, but not the devices. Which interrupts cannot be entered is any
  choice of `FailingSets`, made by the STOP, because until the processor wakes
  nothing moves its stack or the handlers; while it runs nothing is idled, and
  a failed entry changes nothing here. That the writes of a frame that fails
  half way may reach a device is left out; `Cpu` has them as writes to memory.
- *Opcodes*: a guest's ROM holds instructions as records with their fields;
  which sixteen bits encode them is left out.
- *The opcode in a frame*: the special status word of an access error holds the
  access alone, without the bits of the opcode; no guest reads them.
- *Operands that do not exist* (mode 7, registers 5 to 7) are an error in
  `ReadSource` as in the program; no guest has one.
- *Word reads of the address space*: a program of `AddressSpace` reads bytes; a
  word read is two of them, or that of a palette register.
- *Clocks of instructions*: the clocks a step returns and its list of bus
  transactions. The control flow of `CPU` does not depend on them.
- *Instructions the program does not have* (among them `MOVEP`, `CHK`, the
  decimal ones, rotations through X) are errors of `StepAt`; no guest has one,
  and an instruction that is none of `Executed` is an error here too.
- *Clocks of single accesses* (`busSlotWait`, the E-clock): pure functions of
  the clock; no module knows the clock of an access.
- *FDC deadlines*: a pending command completes at any moment, so also at the
  stale deadlines that `Machine` keeps over a RESET; how late it may complete
  is not stated.
- *Bit clock and response deadline in `Machine`*: in `IkbdAcia`, without their
  lengths. The one-time switch to 50 Hz is left out of the frame length.
- *MFP A bank*: accepts only reset values and never requests.
- *MIDI ACIA*: only that it was configured, one write in `Mfp`; its data
  register always faults.
- *Receipts' contents*: the recorded clocks and addresses are history for the
  tests; no step of the emulator reads them.
- *Documents, traces and fixtures*: reference, not state.

## 7. The plan

Done, in the order of importance: receipts and ring, the link, the MFP and the
scheduler, the floppy scripts, the address space with both readers of the
screen, the processor with its arithmetic and the session on top of it, the
raw floppy image; and the proofs of section 4. To come:

| module | content | to check and prove |
|---|---|---|
| in `Machine` | deadlines of the FDC and the one-time switch to 50 Hz | a completion is at most one step late; a reset leaves no armed deadline (spec 105 says so) |
| `Session_proof` | a handler that saves its registers and leaves the stack as it found it, as an assumption on guests | `InterruptsAreInvisible` from it, for one interrupt at a time |
| `Alu` | the logical operations bit by bit | each bit of a result of `AND`, `OR`, `EOR` is that of its operands |
