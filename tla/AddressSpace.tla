---------------------------- MODULE AddressSpace ----------------------------
(***************************************************************************)
(* The 24-bit address space of internal/st/memory.go: who may reach an     *)
(* address, the RAM behind the memory management unit, the ROM, cartridge  *)
(* and void windows, the video and palette registers, the address counter  *)
(* of the DMA chip, and the two readers of the screen: Machine.Framebuffer *)
(* (what the host is shown) and Memory.LowResolutionFrame (what the        *)
(* Shifter scans).                                                         *)
(*                                                                         *)
(* The registers of MFP, PSG, FDC and ACIA are modules of their own.       *)
(*                                                                         *)
(* A behaviour of the model is one guest program, an entry of Programs:    *)
(* the addresses it touches, the bytes it writes to registers and to RAM,  *)
(* the words it writes, the cells of RAM its accesses can reach, and a     *)
(* bound on its stores to RAM and to the DMA counter.                      *)
(***************************************************************************)
EXTENDS Integers, FiniteSets, Sequences

CONSTANTS RamSize,      \* RAM512K or RAM1M
          Rom,          \* the TOS ROM, a function on the offsets in use
          Programs,     \* the guest programs by name, see above
          FrameBytes,   \* lowResolutionFrameBytes, 32000 in the code
          FrameOffsets  \* the bytes of a frame that are looked at

RAM512K == 524288
RAM1M   == 1048576
K       == 1024

MaxWord == 65535
Byte    == 0 .. 255
Word    == 0 .. MaxWord

ASSUME RamSizeAssumption == RamSize \in {RAM512K, RAM1M}
ASSUME RomAssumption     == \A n \in DOMAIN Rom : n \in Nat /\ Rom[n] \in Byte

(* The last byte of a frame is looked at, and a frame is far shorter than  *)
(* the gap between RAM and the cartridge.                                  *)
ASSUME FrameSizeAssumption == FrameBytes \in Nat /\ FrameBytes > 0 /\ FrameBytes <= 32000
ASSUME FrameAssumption ==
  \A o \in FrameOffsets \cup {FrameBytes - 1} :
    o \in FrameOffsets /\ o \in Nat /\ o < FrameBytes

AddressLimit       == 16777216
VoidTop            == 4194304      \* 0x400000, the end of the RAM area
TOSROMBase         == 16515072     \* 0xfc0000
TOSROMEnd          == 16711679
CartridgeBase      == 16384000     \* 0xfa0000
CartridgeEnd       == 16515071
IOBase             == 16711680     \* 0xff0000
MMUConfig          == IOBase + 32769
VideoBaseHigh      == IOBase + 33281
VideoBaseMiddle    == IOBase + 33283
VideoSyncMode      == IOBase + 33290
ShifterPaletteBase == IOBase + 33344
ShifterPaletteEnd  == IOBase + 33374
ShifterResolution  == IOBase + 33376
STDMAAddressHigh   == IOBase + 34313
STDMAAddressMiddle == IOBase + 34315
STDMAAddressLow    == IOBase + 34317
STVoidDMAByte      == IOBase + 34319
STVoidRTCBase      == IOBase + 64545
STVoidRTCEnd       == IOBase + 64575

ASSUME ProgramsAssumption ==
  \A p \in DOMAIN Programs :
    /\ Programs[p].touches \subseteq 0 .. (AddressLimit - 1)
    /\ Programs[p].registers \subseteq Byte /\ Programs[p].bytes \subseteq Byte
    /\ Programs[p].words \subseteq Word
    /\ Programs[p].cells \subseteq 0 .. (RamSize - 1)
    /\ Programs[p].stores \in Nat

VARIABLES
  program,         \* the name of the one that runs
  mmuConfig,       \* Memory.mmuConfig
  ram,             \* Memory.ram
  baseHigh,        \* Memory.videoBaseHigh
  baseMiddle,      \* Memory.videoBaseMiddle
  activeBase,      \* Memory.activeVideoBase
  syncMode,        \* Memory.videoSyncMode
  syncTransition,  \* Memory.videoSync50Transition
  palette,         \* Memory.shifterPalette
  dmaAddress,      \* Memory.dmaAddress, while no media check is under way
  stores,          \* stores so far, bounded by Program.stores
  written,         \* history: the byte last written through an address
  dmaLoad          \* history: the bytes written low, middle, high in order

screen  == <<baseHigh, baseMiddle, activeBase, syncMode, syncTransition, palette>>
history == <<written, dmaLoad>>
vars    == <<program, mmuConfig, ram, screen, dmaAddress, stores, history>>

-----------------------------------------------------------------------------
Program == Programs[program]

(* Access rights. *)

FunctionCodes == {1, 2, 5, 6}

User(fc) == fc \in {1, 2}

(* Mutant of MayAccess: only the first kilobyte is the supervisor's. *)
FirstKilobyteOnly(a, fc) ==
  /\ fc \in FunctionCodes
  /\ User(fc) => a \in 1024 .. (IOBase - 1)

(* The codes the validation of an access lets through. *)
MayAccess(a, fc) ==
  /\ fc \in FunctionCodes
  /\ User(fc) => a \in 2048 .. (IOBase - 1)

-----------------------------------------------------------------------------
(* The memory management unit: two logical banks over one or two physical  *)
(* banks of 512 KiB.                                                        *)

NotMapped == -1

MmuBankSize(code) ==
  CASE code = 0 -> 128 * K
    [] code = 1 -> 512 * K
    [] code = 2 -> 2048 * K
    [] OTHER    -> 0

(* Mutant of Translate512KBank: address line 10 is kept in a 2 MiB bank. *)
TranslateKeepingLine10(a, logicalBankSize) ==
  IF logicalBankSize = 128 * K
  THEN ((((a % (256 * K)) \div 512) * K) + (a % 512) + (((a % K) \div 512) * 512)) % RAM512K
  ELSE a % RAM512K

(* The row and column lines of a 512 KiB bank that an address of a logical *)
(* bank of another size drives: a 2 MiB bank has one column line more, a   *)
(* 128 KiB bank one less (its line 9 then also drives the first row line). *)
Translate512KBank(a, logicalBankSize) ==
  CASE logicalBankSize = 2048 * K ->
         ((((a % (1024 * K)) \div 2048) * K) + (a % K)) % RAM512K
    [] logicalBankSize = 128 * K ->
         ((((a % (256 * K)) \div 512) * K) + (a % K)) % RAM512K
    [] OTHER -> a % RAM512K

LogicalBank0(config) == MmuBankSize((config \div 4) % 4)
LogicalBank1(config) == MmuBankSize(config % 4)

(* The cell of RAM behind an address; a bank that has no chips is open. *)
RamAddress(config, a) ==
  LET bank0 == LogicalBank0(config)
      bank1 == LogicalBank1(config)
  IN CASE a < bank0 -> Translate512KBank(a, bank0)
       [] a >= bank0 /\ a < bank0 + bank1 /\ RamSize > RAM512K ->
            RAM512K + Translate512KBank(a, bank1)
       [] OTHER -> NotMapped

(* The cells of a program are those behind its addresses, however it maps  *)
(* them.                                                                   *)
ASSUME CellsAssumption ==
  \A p \in DOMAIN Programs :
    \A config \in Programs[p].registers \cup {0}, a \in Programs[p].touches, o \in {0, 1} :
      RamAddress(config, a + o) \in Programs[p].cells \cup {NotMapped}

BaseOf(high, middle) == (high * 65536) + (middle * 256)

(* What a program can leave in a latch. *)
Latched(p, a) == IF a \in Programs[p].touches THEN Programs[p].registers \cup {0} ELSE {0}

(* Those behind a screen it can set up are cells of a program, too.        *)
ASSUME ScreenCellsAssumption ==
  \A p \in DOMAIN Programs :
    \A config \in Programs[p].registers \cup {0}, o \in FrameOffsets,
       high \in Latched(p, VideoBaseHigh), middle \in Latched(p, VideoBaseMiddle) :
      RamAddress(config, BaseOf(high % 64, middle) + o) \in Programs[p].cells \cup {NotMapped}

Cell(a) == RamAddress(mmuConfig, a)

IsRam(a) == a >= 8 /\ a < VoidTop /\ Cell(a) # NotMapped

IsReadOnly(a) ==
  \/ a < 8
  \/ a \in CartridgeBase .. CartridgeEnd
  \/ a \in TOSROMBase .. TOSROMEnd

IsVoid(a) == a = STVoidDMAByte \/ a \in STVoidRTCBase .. STVoidRTCEnd

IsPalette(a) == a \in ShifterPaletteBase .. ShifterPaletteEnd

Registers ==
  {MMUConfig, VideoBaseHigh, VideoBaseMiddle, VideoSyncMode, ShifterResolution,
   STDMAAddressHigh, STDMAAddressMiddle, STDMAAddressLow}

-----------------------------------------------------------------------------
(* Reads.  No byte modelled here has a read with an effect, so a read is   *)
(* its result: whether the address answers, and with what.                 *)

Answers(a) == a \in Registers \/ IsVoid(a) \/ IsReadOnly(a) \/ IsRam(a)

Readable(a, fc) == MayAccess(a, fc) /\ Answers(a)

(* A latch that has only its two low lines reads as ones above them. *)
ReadByteFC(a) ==
  CASE a = MMUConfig          -> mmuConfig
    [] a = VideoBaseHigh      -> baseHigh
    [] a = VideoBaseMiddle    -> baseMiddle
    [] a = VideoSyncMode      -> 252 + syncMode
    [] a = ShifterResolution  -> 252
    [] a = STDMAAddressHigh   -> dmaAddress \div 65536
    [] a = STDMAAddressMiddle -> (dmaAddress \div 256) % 256
    [] a = STDMAAddressLow    -> dmaAddress % 256
    [] a < 8                  -> Rom[a]
    [] IsRam(a)               -> ram[Cell(a)]
    [] a \in TOSROMBase .. TOSROMEnd -> Rom[a - TOSROMBase]
    [] OTHER                  -> 255

-----------------------------------------------------------------------------
(* Start and reset.  A reset does not clear the RAM. *)

Unknown == -1

PaletteInUse == {a \in Program.touches : IsPalette(a) /\ a % 2 = 0}

Forgotten == [a \in Program.touches |-> Unknown]

ResetLatches ==
  /\ mmuConfig' = 0
  /\ baseHigh' = 0 /\ baseMiddle' = 0 /\ activeBase' = 0
  /\ syncMode' = 0 /\ syncTransition' = FALSE
  /\ palette' = [a \in PaletteInUse |-> 0]
  /\ dmaAddress' = 0
  /\ written' = Forgotten /\ dmaLoad' = << >>

Init ==
  /\ program \in DOMAIN Programs
  /\ mmuConfig = 0
  /\ ram = [c \in Program.cells |-> 0]
  /\ baseHigh = 0 /\ baseMiddle = 0 /\ activeBase = 0
  /\ syncMode = 0 /\ syncTransition = FALSE
  /\ palette = [a \in PaletteInUse |-> 0]
  /\ dmaAddress = 0 /\ stores = 0
  /\ written = Forgotten /\ dmaLoad = << >>

(* The RESET instruction and the cold reset of the machine. *)
M68KReset == ResetLatches /\ UNCHANGED <<program, ram, stores>>

-----------------------------------------------------------------------------
(* The address counter of the DMA chip: three bytes, written one by one.   *)

DmaRegisters == <<STDMAAddressLow, STDMAAddressMiddle, STDMAAddressHigh>>

ReplaceDmaByte(old, a, v) ==
  CASE a = STDMAAddressHigh   -> (old % 65536) + (v * 65536)
    [] a = STDMAAddressMiddle -> ((old \div 65536) * 65536) + (v * 256) + (old % 256)
    [] a = STDMAAddressLow    -> ((old \div 256) * 256) + v

(* Mutant of RippleCarry: a byte with its top bit set carries when it is   *)
(* left alone, too.                                                        *)
CarryOfSetBit(old, new) ==
  IF (old \div 128) % 2 = 1 THEN 256
  ELSE IF (old \div 32768) % 2 = 1 THEN 65536 ELSE 0

(* The counter ripples: a byte whose top bit falls carries into the next.  *)
RippleCarry(old, new) ==
  LET Falls(bit) == (old \div bit) % 2 = 1 /\ (new \div bit) % 2 = 0
  IN CASE Falls(128)   -> 256
       [] ~ Falls(128) /\ Falls(32768) -> 65536
       [] OTHER        -> 0

(* Mutant of LoadDmaByte: the carry leaves the highest line. *)
LoadDmaByteUnmasked(a, v) ==
  LET candidate == ReplaceDmaByte(dmaAddress, a, v)
  IN ((candidate + RippleCarry(dmaAddress, candidate)) \div 2) * 2

(* Twenty-two lines, the lowest of them always zero. *)
LoadDmaByte(a, v) ==
  LET candidate == ReplaceDmaByte(dmaAddress, a, v)
      next == candidate + RippleCarry(dmaAddress, candidate)
  IN ((next \div 2) * 2) % VoidTop

(* The bytes of a load in order: a low byte starts one, any byte out of    *)
(* turn ends it.                                                           *)
RecordDmaByte(a, v) ==
  IF a = STDMAAddressLow THEN <<v>>
  ELSE IF Len(dmaLoad) \in 1 .. 2 /\ a = DmaRegisters[Len(dmaLoad) + 1]
       THEN Append(dmaLoad, v)
       ELSE << >>

-----------------------------------------------------------------------------
(* Writes.  A refused write changes nothing and is no step of the model.   *)

CountStore == stores < Program.stores /\ stores' = stores + 1

WriteMmu(v) ==
  /\ mmuConfig' = v
  /\ written' = Forgotten
  /\ UNCHANGED <<ram, screen, dmaAddress, stores, dmaLoad>>

WriteVideoBase(a, v) ==
  /\ IF a = VideoBaseHigh
     THEN baseHigh' = v % 64 /\ UNCHANGED baseMiddle
     ELSE baseMiddle' = v /\ UNCHANGED baseHigh
  /\ UNCHANGED <<mmuConfig, ram, activeBase, syncMode, syncTransition, palette,
                 dmaAddress, stores, history>>

(* Fifty hertz can be selected, and not be left again. *)
WriteSyncMode(v) ==
  /\ v = 2 /\ syncMode = 0
  /\ syncMode' = 2 /\ syncTransition' = TRUE
  /\ UNCHANGED <<mmuConfig, ram, baseHigh, baseMiddle, activeBase, palette,
                 dmaAddress, stores, history>>

WriteDmaAddress(a, v) ==
  /\ CountStore
  /\ dmaAddress' = LoadDmaByte(a, v)
  /\ dmaLoad' = RecordDmaByte(a, v)
  /\ UNCHANGED <<mmuConfig, ram, screen, written>>

WriteRegister(a, v) ==
  \/ a = MMUConfig /\ WriteMmu(v)
  \/ a \in {VideoBaseHigh, VideoBaseMiddle} /\ WriteVideoBase(a, v)
  \/ a = VideoSyncMode /\ WriteSyncMode(v)
  \/ \E i \in DOMAIN DmaRegisters : a = DmaRegisters[i] /\ WriteDmaAddress(a, v)

StoreByte(a, v) ==
  /\ IsRam(a)
  /\ CountStore
  /\ ram' = [ram EXCEPT ![Cell(a)] = v]
  /\ written' = [written EXCEPT ![a] = v]
  /\ UNCHANGED <<mmuConfig, screen, dmaAddress, dmaLoad>>

WriteByteFC(a, fc) ==
  /\ a \in Program.touches /\ MayAccess(a, fc)
  /\ \/ \E v \in Program.registers : WriteRegister(a, v)
     \/ \E v \in Program.bytes : StoreByte(a, v)
  /\ UNCHANGED program

RecordWord(a, w) ==
  [b \in Program.touches |->
     IF b = a THEN w \div 256 ELSE IF b = a + 1 THEN w % 256 ELSE written[b]]

(* Mutant of StoreWord: the two bytes are swapped in memory. *)
StoreWordSwapped(a, w, fc) ==
  /\ IsRam(a) /\ IsRam(a + 1) /\ MayAccess(a + 1, fc)
  /\ CountStore
  /\ ram' = [ram EXCEPT ![Cell(a)] = w % 256, ![Cell(a + 1)] = w \div 256]
  /\ written' = RecordWord(a, w)
  /\ UNCHANGED <<mmuConfig, screen, dmaAddress, dmaLoad>>

(* Both bytes are located before either is stored. *)
StoreWord(a, w, fc) ==
  /\ IsRam(a) /\ IsRam(a + 1) /\ MayAccess(a + 1, fc)
  /\ CountStore
  /\ ram' = [ram EXCEPT ![Cell(a)] = w \div 256, ![Cell(a + 1)] = w % 256]
  /\ written' = RecordWord(a, w)
  /\ UNCHANGED <<mmuConfig, screen, dmaAddress, dmaLoad>>

ColourMask(w) == (((w \div 256) % 8) * 256) + (((w \div 16) % 8) * 16) + (w % 8)

StoreColour(a, w) ==
  /\ a \in PaletteInUse
  /\ palette' = [palette EXCEPT ![a] = ColourMask(w)]
  /\ UNCHANGED <<mmuConfig, ram, baseHigh, baseMiddle, activeBase, syncMode,
                 syncTransition, dmaAddress, stores, history>>

WriteWord(a, fc) ==
  /\ a \in Program.touches /\ a % 2 = 0 /\ MayAccess(a, fc)
  /\ \E w \in Program.words : StoreWord(a, w, fc) \/ StoreColour(a, w)
  /\ UNCHANGED program

-----------------------------------------------------------------------------
(* The screen. *)

ProgrammedVideoBase == BaseOf(baseHigh, baseMiddle)

(* The vertical blank is where the Shifter takes over the programmed base. *)
ReloadVideoBaseOnVBL ==
  /\ activeBase' = ProgrammedVideoBase
  /\ UNCHANGED <<program, mmuConfig, ram, baseHigh, baseMiddle, syncMode,
                 syncTransition, palette, dmaAddress, stores, history>>

(* Machine.Step turns a pending change of the frame rate into deadlines. *)
TakeSyncTransition ==
  /\ syncTransition
  /\ syncTransition' = FALSE
  /\ UNCHANGED <<program, mmuConfig, ram, baseHigh, baseMiddle, activeBase,
                 syncMode, palette, dmaAddress, stores, history>>

(* The two readers give either no frame or the bytes of one.  The host's   *)
(* reads the programmed base as a program in supervisor mode would.        *)
Framebuffer ==
  LET At(o) == ProgrammedVideoBase + o
  IN [shown |-> \A o \in FrameOffsets : Readable(At(o), 5),
      bytes |-> [o \in FrameOffsets |-> IF Readable(At(o), 5) THEN ReadByteFC(At(o)) ELSE 0]]

(* The Shifter's reads the active base and sees the RAM alone. *)
ScannedWindow == activeBase + FrameBytes <= VoidTop

LowResolutionFrame ==
  LET At(o) == activeBase + o
      OnChips(o) == Cell(At(o)) # NotMapped
  IN [shown |-> ScannedWindow /\ \A o \in FrameOffsets : OnChips(o),
      bytes |-> [o \in FrameOffsets |-> IF OnChips(o) THEN ram[Cell(At(o))] ELSE 0]]

(* A group of sixteen pixels is four words, one for each plane. *)
Groups == {o \in FrameOffsets : o % 8 = 0 /\ \A i \in 0 .. 7 : o + i \in FrameOffsets}

PlaneWord(bytes, group, plane) ==
  (256 * bytes[group + (2 * plane)]) + bytes[group + (2 * plane) + 1]

Bit(w, n) == (w \div (2 ^ n)) % 2

(* Mutant of PixelIndex: the first plane is the heaviest. *)
PixelIndexReversed(bytes, group, x) ==
  LET Plane(p) == Bit(PlaneWord(bytes, group, p), 15 - x)
  IN Plane(3) + (2 * Plane(2)) + (4 * Plane(1)) + (8 * Plane(0))

PixelIndex(bytes, group, x) ==
  LET Plane(p) == Bit(PlaneWord(bytes, group, p), 15 - x)
  IN Plane(0) + (2 * Plane(1)) + (4 * Plane(2)) + (8 * Plane(3))

Next ==
  \/ \E a \in Program.touches, fc \in FunctionCodes : WriteByteFC(a, fc) \/ WriteWord(a, fc)
  \/ ReloadVideoBaseOnVBL
  \/ TakeSyncTransition
  \/ M68KReset

Spec == Init /\ [][Next]_vars

-----------------------------------------------------------------------------
(* The values of the variables. *)
TypeOK ==
  /\ program \in DOMAIN Programs
  /\ mmuConfig \in Byte
  /\ ram \in [Program.cells -> Byte]
  /\ baseHigh \in 0 .. 63 /\ baseMiddle \in Byte
  /\ activeBase \in 0 .. (VoidTop - 1)
  /\ syncMode \in {0, 2} /\ syncTransition \in BOOLEAN
  /\ palette \in [PaletteInUse -> Word]
  /\ dmaAddress \in 0 .. (VoidTop - 2)
  /\ stores \in 0 .. Program.stores
  /\ written \in [Program.touches -> Byte \cup {Unknown}]
  /\ dmaLoad \in Seq(Byte) /\ Len(dmaLoad) <= 3

(* The bank an address belongs to holds as many bytes as it answers for. *)
InWideBank(a) ==
  \/ a < LogicalBank0(mmuConfig) /\ LogicalBank0(mmuConfig) = 2048 * K
  \/ a >= LogicalBank0(mmuConfig) /\ LogicalBank1(mmuConfig) = 2048 * K

(* A byte of RAM keeps what was written to it through its address as long  *)
(* as the mapping stands, whatever is written through other addresses,     *)
(* with two banks of any sizes over one or two of 512 KiB.  (In a 2 MiB    *)
(* bank addresses share chips; that is how the ROM finds the size.)        *)
MemoryRemembers ==
  \A a \in Program.touches :
    written[a] # Unknown /\ ~ InWideBank(a) => Readable(a, 5) /\ ReadByteFC(a) = written[a]

(* With a bank set to 2 MiB the ROM can tell chips of 512 KiB from other   *)
(* sizes: address line 10 is not connected, line 9 is.                     *)
SizingFindsTheChips ==
  \A a \in Program.touches :
    /\ IsRam(a) /\ InWideBank(a) /\ (a \div 512) % 4 = 0
    /\ a + 512 \in Program.touches /\ a + 1024 \in Program.touches
    => /\ ReadByteFC(a) = ReadByteFC(a + 1024)
       /\ Cell(a) # Cell(a + 512)

(* The three bytes of a DMA address written low, middle, high load exactly *)
(* that address, whatever the counter held before and although every one   *)
(* of them may carry into the next.                                        *)
DmaLoadsInOrder ==
  Len(dmaLoad) = 3 =>
    dmaAddress = ((((dmaLoad[3] * 65536) + (dmaLoad[2] * 256) + dmaLoad[1]) \div 2) * 2) % VoidTop

(* What the host is shown is what the Shifter scans, whenever the program  *)
(* has not moved the base since the last vertical blank: the same frames   *)
(* are refused, and every bit of the host's bytes is the bit of its plane  *)
(* in the pixel it belongs to.  At base 0 the host would see the vectors   *)
(* of the ROM.                                                             *)
HostSeesTheScreen ==
  activeBase = ProgrammedVideoBase /\ activeBase # 0 =>
    LET host == Framebuffer
        scan == LowResolutionFrame
    IN /\ host.shown = scan.shown
       /\ host.shown =>
            \A g \in Groups, p \in 0 .. 3, x \in 0 .. 15 :
              Bit(host.bytes[g + (2 * p) + (x \div 8)], 7 - (x % 8))
                = Bit(PixelIndex(scan.bytes, g, x), p)

(* A program in user mode does not change the two kilobytes of vectors and *)
(* system variables, through no address, unless the memory is mapped as    *)
(* 2 MiB, where the kilobyte above them is the same chips.                 *)
UserWrites == \E a \in Program.touches, fc \in {1, 2} : WriteByteFC(a, fc) \/ WriteWord(a, fc)

SystemRamIsSafe ==
  [][(\E c \in DOMAIN ram : c < 2048 /\ ram'[c] # ram[c]) =>
       (~ UserWrites \/ LogicalBank0(mmuConfig) = 2048 * K)]_vars

=============================================================================
