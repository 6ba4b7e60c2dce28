-------------------------- MODULE AddressSpace_proof --------------------------
(***************************************************************************)
(* Proofs about AddressSpace, for every ROM, both sizes of memory and      *)
(* every guest program.                                                    *)
(***************************************************************************)
EXTENDS AddressSpace, SequenceTheorems, TLAPS

-----------------------------------------------------------------------------
(* The counter of the DMA chip: twenty-two lines, of which the lowest is    *)
(* zero; a carry on line 8 or line 16 or none.                             *)

Carries == {0, 256, 65536}

Even(n)    == (n \div 2) * 2
Lines(n)   == Even(n) % VoidTop
LowByte(n) == n % 256
LowWord(n) == n % 65536

(* A word of a low byte and a middle one, and all three bytes. *)
Pair(middle, low)         == (middle * 256) + Even(low)
Triple(high, middle, low) == Even((high * 65536) + (middle * 256) + low) % VoidTop

IsByte(v) == v \in Int /\ 0 <= v /\ v < 256

LEMMA ByteIsByte ==
  ASSUME NEW v \in Byte
  PROVE  IsByte(v)
  BY SMT DEF Byte, IsByte

LEMMA VoidTopIsAnInteger == VoidTop \in Int
  BY SMT DEF VoidTop

LEMMA LinesInRange ==
  ASSUME NEW n \in Int
  PROVE  Lines(n) \in 0 .. (VoidTop - 2)
<1>1. Lines(n) \in Int /\ 0 <= Lines(n) /\ Lines(n) <= VoidTop - 2
  BY SMT DEF Lines, Even, VoidTop
<1> QED BY SMT, <1>1, VoidTopIsAnInteger

LEMMA Replaced ==
  ASSUME NEW d, NEW v
  PROVE  /\ ReplaceDmaByte(d, STDMAAddressLow, v) = ((d \div 256) * 256) + v
         /\ ReplaceDmaByte(d, STDMAAddressMiddle, v)
              = ((d \div 65536) * 65536) + (v * 256) + (d % 256)
         /\ ReplaceDmaByte(d, STDMAAddressHigh, v) = (d % 65536) + (v * 65536)
  BY SMT DEF ReplaceDmaByte, STDMAAddressHigh, STDMAAddressMiddle, STDMAAddressLow, IOBase

LEMMA CarryIsOneLine ==
  ASSUME NEW old, NEW new
  PROVE  RippleCarry(old, new) \in Carries
  BY SMT DEF RippleCarry, Carries

(* A low byte may carry, and shows in the lowest eight lines. *)
LEMMA LowLines ==
  ASSUME NEW d \in Int, NEW v, IsByte(v), NEW c \in Carries
  PROVE  LowByte(Lines(ReplaceDmaByte(d, STDMAAddressLow, v) + c)) = Even(v)
<1>1. ReplaceDmaByte(d, STDMAAddressLow, v) = ((d \div 256) * 256) + v
  BY SMT DEF ReplaceDmaByte, STDMAAddressHigh, STDMAAddressMiddle, STDMAAddressLow, IOBase
<1> QED BY SMT, <1>1 DEF Lines, Even, LowByte, VoidTop, Carries, IsByte

(* A middle byte does not touch line 7, and carries at most from line 15. *)
LEMMA MiddleCarry ==
  ASSUME NEW d \in Int, NEW v, IsByte(v)
  PROVE  RippleCarry(d, ReplaceDmaByte(d, STDMAAddressMiddle, v)) \in {0, 65536}
<1> DEFINE new == ((d \div 65536) * 65536) + (v * 256) + (d % 256)
<1>1. ReplaceDmaByte(d, STDMAAddressMiddle, v) = new
  BY SMT DEF ReplaceDmaByte, STDMAAddressHigh, STDMAAddressMiddle, STDMAAddressLow, IOBase
<1>2. (new \div 128) % 2 = (d \div 128) % 2
  BY SMT DEF IsByte
<1> QED BY SMT, <1>1, <1>2 DEF RippleCarry

LEMMA MiddleLines ==
  ASSUME NEW d \in Int, NEW v, IsByte(v), NEW c \in {0, 65536}, NEW low \in Int,
         LowByte(d) = Even(low)
  PROVE  LowWord(Lines(ReplaceDmaByte(d, STDMAAddressMiddle, v) + c)) = Pair(v, low)
<1>1. ReplaceDmaByte(d, STDMAAddressMiddle, v) = ((d \div 65536) * 65536) + (v * 256) + (d % 256)
  BY SMT DEF ReplaceDmaByte, STDMAAddressHigh, STDMAAddressMiddle, STDMAAddressLow, IOBase
<1> QED BY SMT, <1>1 DEF Lines, Even, LowByte, LowWord, Pair, VoidTop, IsByte

(* A high byte touches neither of the lines that carry. *)
LEMMA HighCarry ==
  ASSUME NEW d \in Int, NEW v, IsByte(v)
  PROVE  RippleCarry(d, ReplaceDmaByte(d, STDMAAddressHigh, v)) = 0
<1> DEFINE new == (d % 65536) + (v * 65536)
<1>1. ReplaceDmaByte(d, STDMAAddressHigh, v) = new
  BY SMT DEF ReplaceDmaByte, STDMAAddressHigh, STDMAAddressMiddle, STDMAAddressLow, IOBase
<1>2. /\ (new \div 128) % 2 = (d \div 128) % 2
      /\ (new \div 32768) % 2 = (d \div 32768) % 2
  BY SMT DEF IsByte
<1> QED BY SMT, <1>1, <1>2 DEF RippleCarry

LEMMA HighLines ==
  ASSUME NEW d \in Int, NEW v, IsByte(v), NEW middle \in Int, NEW low \in Int,
         LowWord(d) = Pair(middle, low)
  PROVE  Lines(ReplaceDmaByte(d, STDMAAddressHigh, v) + 0) = Triple(v, middle, low)
<1>1. ReplaceDmaByte(d, STDMAAddressHigh, v) = (d % 65536) + (v * 65536)
  BY SMT DEF ReplaceDmaByte, STDMAAddressHigh, STDMAAddressMiddle, STDMAAddressLow, IOBase
<1>2. Even(ReplaceDmaByte(d, STDMAAddressHigh, v) + 0)
        = Even((v * 65536) + (middle * 256) + low)
  BY SMT, <1>1 DEF Even, LowWord, Pair, IsByte
<1> QED BY SMT, <1>2 DEF Lines, Triple

-----------------------------------------------------------------------------
(* What one byte leaves in the counter. *)

LEMMA Loaded ==
  ASSUME NEW a, NEW v
  PROVE  LoadDmaByte(a, v)
           = Lines(ReplaceDmaByte(dmaAddress, a, v)
                     + RippleCarry(dmaAddress, ReplaceDmaByte(dmaAddress, a, v)))
  BY Zenon DEF LoadDmaByte, Lines, Even

LEMMA LoadedCounter ==
  ASSUME dmaAddress \in Int, NEW i \in DOMAIN DmaRegisters, NEW v \in Int
  PROVE  LoadDmaByte(DmaRegisters[i], v) \in 0 .. (VoidTop - 2)
<1> DEFINE new   == ReplaceDmaByte(dmaAddress, DmaRegisters[i], v)
           carry == RippleCarry(dmaAddress, new)
<1>1. DmaRegisters[i] \in {STDMAAddressHigh, STDMAAddressMiddle, STDMAAddressLow}
  BY SMT DEF DmaRegisters
<1>2. new \in Int
  BY SMT, <1>1, Replaced
<1>3. carry \in Int
  BY SMT, CarryIsOneLine DEF Carries
<1>4. LoadDmaByte(DmaRegisters[i], v) = Lines(new + carry)
  BY Zenon, Loaded
<1> HIDE DEF new, carry
<1>5. new + carry \in Int
  BY SMT, <1>2, <1>3
<1> QED BY Zenon, <1>4, <1>5, LinesInRange

LEMMA LowByteLoads ==
  ASSUME dmaAddress \in Int, NEW v \in Byte
  PROVE  LowByte(LoadDmaByte(STDMAAddressLow, v)) = Even(v)
  BY Zenon, ByteIsByte, Loaded, CarryIsOneLine, LowLines

LEMMA MiddleByteLoads ==
  ASSUME dmaAddress \in Int, NEW v \in Byte, NEW low \in Int, LowByte(dmaAddress) = Even(low)
  PROVE  LowWord(LoadDmaByte(STDMAAddressMiddle, v)) = Pair(v, low)
<1>1. IsByte(v)
  BY ByteIsByte
<1> QED BY SMT, <1>1, Loaded, MiddleCarry, MiddleLines

LEMMA HighByteLoads ==
  ASSUME dmaAddress \in Int, NEW v \in Byte, NEW middle \in Int, NEW low \in Int,
         LowWord(dmaAddress) = Pair(middle, low)
  PROVE  LoadDmaByte(STDMAAddressHigh, v) = Triple(v, middle, low)
<1>1. IsByte(v)
  BY ByteIsByte
<1> QED BY SMT, <1>1, Loaded, HighCarry, HighLines

-----------------------------------------------------------------------------
(* The guest that runs never changes, and what it writes are bytes. *)

LEMMA ProgramWrites ==
  ASSUME program \in DOMAIN Programs
  PROVE  /\ Program.registers \subseteq Byte
         /\ Program.bytes \subseteq Byte
         /\ Program.words \subseteq Word
         /\ Program.stores \in Nat
  BY SMT, ProgramsAssumption DEF Program

LEMMA WordBounds ==
  ASSUME NEW w \in Word
  PROVE  w \in Int /\ 0 <= w /\ w <= 65535
<1>1. MaxWord \in Nat
  BY SMT DEF MaxWord
<1>2. ASSUME NEW n \in Nat, w \in 0 .. n PROVE w \in Int /\ 0 <= w /\ w <= n
  BY SMT, <1>2
<1>3. w \in Int /\ 0 <= w /\ w <= MaxWord
  BY Zenon, <1>1, <1>2 DEF Word
<1> QED BY SMT, <1>3 DEF MaxWord

LEMMA InWord ==
  ASSUME NEW w \in Int, 0 <= w, w <= 65535
  PROVE  w \in Word
<1>1. MaxWord \in Int /\ w <= MaxWord
  BY SMT DEF MaxWord
<1> QED BY SMT, <1>1 DEF Word

LEMMA HalvesOfAWord ==
  ASSUME NEW w \in Word
  PROVE  w \div 256 \in Byte /\ w % 256 \in Byte
<1>1. w \in Int /\ 0 <= w /\ w <= 65535
  BY WordBounds
<1>2. /\ w \div 256 \in Int /\ 0 <= w \div 256 /\ w \div 256 <= 255
      /\ w % 256 \in Int /\ 0 <= w % 256 /\ w % 256 <= 255
  BY SMT, <1>1
<1> QED BY SMT, <1>2 DEF Byte

LEMMA ColoursAreWords ==
  ASSUME NEW w \in Word
  PROVE  ColourMask(w) \in Word
<1>1. w \in Int /\ 0 <= w /\ w <= 65535
  BY WordBounds
<1>2. ColourMask(w) \in Int /\ 0 <= ColourMask(w) /\ ColourMask(w) <= 65535
  BY SMT, <1>1 DEF ColourMask
<1> QED BY <1>2, InWord

LEMMA BaseInMemory ==
  ASSUME baseHigh \in 0 .. 63, baseMiddle \in Byte
  PROVE  ProgrammedVideoBase \in 0 .. (VoidTop - 1)
<1>1. /\ ProgrammedVideoBase \in Int /\ 0 <= ProgrammedVideoBase
      /\ ProgrammedVideoBase <= VoidTop - 1
  BY SMT DEF ProgrammedVideoBase, BaseOf, Byte, VoidTop
<1> QED BY SMT, <1>1, VoidTopIsAnInteger

(* The parts of TypeOK. *)
ScreenType ==
  /\ baseHigh \in 0 .. 63 /\ baseMiddle \in Byte
  /\ activeBase \in 0 .. (VoidTop - 1)
  /\ syncMode \in {0, 2} /\ syncTransition \in BOOLEAN
  /\ palette \in [PaletteInUse -> Word]

MemoryType ==
  /\ mmuConfig \in Byte
  /\ ram \in [Program.cells -> Byte]
  /\ stores \in 0 .. Program.stores
  /\ written \in [Program.touches -> Byte \cup {Unknown}]

CounterType ==
  /\ dmaAddress \in 0 .. (VoidTop - 2)
  /\ dmaLoad \in Seq(Byte) /\ Len(dmaLoad) <= 3

LEMMA TypeParts == TypeOK <=> program \in DOMAIN Programs /\ ScreenType /\ MemoryType /\ CounterType
  BY Zenon DEF TypeOK, ScreenType, MemoryType, CounterType

LEMMA SameProgram ==
  ASSUME UNCHANGED program
  PROVE  Program' = Program /\ PaletteInUse' = PaletteInUse
  BY Zenon DEF Program, PaletteInUse

LEMMA CounterUnchanged == CounterType /\ UNCHANGED <<dmaAddress, dmaLoad>> => CounterType'
  BY Zenon DEF CounterType

LEMMA ScreenUnchanged ==
  ScreenType /\ UNCHANGED <<program, screen>> => ScreenType'
  BY SMT, SameProgram DEF ScreenType, screen

LEMMA MemoryUnchanged ==
  MemoryType /\ UNCHANGED <<program, mmuConfig, ram, stores, written>> => MemoryType'
  BY SMT, SameProgram DEF MemoryType

-----------------------------------------------------------------------------
(* The history of a DMA load agrees with the counter, byte by byte. *)

LoadTracksCounter ==
  /\ Len(dmaLoad) = 1 => LowByte(dmaAddress) = Even(dmaLoad[1])
  /\ Len(dmaLoad) = 2 => LowWord(dmaAddress) = Pair(dmaLoad[2], dmaLoad[1])
  /\ Len(dmaLoad) = 3 => dmaAddress = Triple(dmaLoad[3], dmaLoad[2], dmaLoad[1])

LEMMA RegistersDiffer ==
  /\ DmaRegisters[1] = STDMAAddressLow
  /\ DmaRegisters[2] = STDMAAddressMiddle
  /\ DmaRegisters[3] = STDMAAddressHigh
  /\ STDMAAddressMiddle # STDMAAddressLow /\ STDMAAddressHigh # STDMAAddressLow
  BY SMT DEF DmaRegisters, STDMAAddressLow, STDMAAddressMiddle, STDMAAddressHigh, IOBase

LEMMA CounterRange ==
  ASSUME dmaAddress \in 0 .. (VoidTop - 2)
  PROVE  dmaAddress \in Int
  BY SMT, VoidTopIsAnInteger

LEMMA LoadLonger ==
  ASSUME NEW s \in Seq(Byte), NEW v \in Byte
  PROVE  /\ Append(s, v) \in Seq(Byte) /\ Len(Append(s, v)) = Len(s) + 1
         /\ Append(s, v)[Len(s) + 1] = v
         /\ \A k \in 1 .. Len(s) : s[k] \in Int /\ Append(s, v)[k] = s[k]
<1>1. \A k \in 1 .. Len(s) : s[k] \in Byte
  BY ElementOfSeq
<1>2. Byte \subseteq Int
  BY SMT DEF Byte
<1>3. /\ Append(s, v) \in Seq(Byte) /\ Len(Append(s, v)) = Len(s) + 1
      /\ Append(s, v)[Len(s) + 1] = v
      /\ \A k \in 1 .. Len(s) : Append(s, v)[k] = s[k]
  BY SMT, AppendProperties
<1> QED BY Zenon, <1>1, <1>2, <1>3

(* A byte in its turn, or the first of another load, or one out of turn. *)
LEMMA RecordedByte ==
  ASSUME CounterType, LoadTracksCounter,
         NEW i \in DOMAIN DmaRegisters, NEW v \in Byte, WriteDmaAddress(DmaRegisters[i], v)
  PROVE  CounterType' /\ LoadTracksCounter'
<1>1. dmaAddress \in Int
  BY CounterRange DEF CounterType
<1>2. v \in Int
  BY SMT DEF Byte
<1>3. /\ dmaAddress' = LoadDmaByte(DmaRegisters[i], v)
      /\ dmaLoad' = RecordDmaByte(DmaRegisters[i], v)
  BY Zenon DEF WriteDmaAddress
<1>4. dmaAddress' \in 0 .. (VoidTop - 2)
  BY <1>1, <1>2, <1>3, LoadedCounter
<1>5. dmaLoad \in Seq(Byte) /\ Len(dmaLoad) <= 3
  BY DEF CounterType
<1>6. CASE DmaRegisters[i] = STDMAAddressLow
  <2>1. dmaLoad' = <<v>>
    BY SMT, <1>3, <1>6 DEF RecordDmaByte
  <2>2. LowByte(dmaAddress') = Even(v)
    BY <1>1, <1>3, <1>6, LowByteLoads
  <2> QED BY SMT, <1>4, <2>1, <2>2 DEF CounterType, LoadTracksCounter
<1>7. CASE /\ DmaRegisters[i] # STDMAAddressLow
           /\ Len(dmaLoad) \in 1 .. 2 /\ DmaRegisters[i] = DmaRegisters[Len(dmaLoad) + 1]
  <2>1. dmaLoad' = Append(dmaLoad, v)
    BY SMT, <1>3, <1>7 DEF RecordDmaByte
  <2>2. dmaLoad' \in Seq(Byte) /\ Len(dmaLoad') = Len(dmaLoad) + 1
    BY SMT, <1>5, <2>1
  <2>3. CASE Len(dmaLoad) = 1
    <3>1. DmaRegisters[i] = STDMAAddressMiddle
      BY SMT, <1>7, <2>3, RegistersDiffer
    <3>2. dmaLoad[1] \in Int /\ dmaLoad'[1] = dmaLoad[1] /\ dmaLoad'[2] = v
      BY SMT, <1>5, <2>1, <2>3, LoadLonger
    <3>3. LowWord(dmaAddress') = Pair(v, dmaLoad[1])
      BY <1>1, <1>3, <2>3, <3>1, <3>2, MiddleByteLoads DEF LoadTracksCounter
    <3> QED BY SMT, <1>4, <2>2, <2>3, <3>2, <3>3 DEF CounterType, LoadTracksCounter
  <2>4. CASE Len(dmaLoad) = 2
    <3>1. DmaRegisters[i] = STDMAAddressHigh
      BY SMT, <1>7, <2>4, RegistersDiffer
    <3>2. /\ dmaLoad[1] \in Int /\ dmaLoad[2] \in Int
          /\ dmaLoad'[1] = dmaLoad[1] /\ dmaLoad'[2] = dmaLoad[2] /\ dmaLoad'[3] = v
      BY SMT, <1>5, <2>1, <2>4, LoadLonger
    <3>3. dmaAddress' = Triple(v, dmaLoad[2], dmaLoad[1])
      BY <1>1, <1>3, <2>4, <3>1, <3>2, HighByteLoads DEF LoadTracksCounter
    <3> QED BY SMT, <1>4, <2>2, <2>4, <3>2, <3>3 DEF CounterType, LoadTracksCounter
  <2> QED BY SMT, <1>7, <2>3, <2>4
<1>8. CASE ~ \/ DmaRegisters[i] = STDMAAddressLow
             \/ Len(dmaLoad) \in 1 .. 2 /\ DmaRegisters[i] = DmaRegisters[Len(dmaLoad) + 1]
  <2>1. dmaLoad' = << >>
    BY SMT, <1>3, <1>8 DEF RecordDmaByte
  <2> QED BY SMT, <1>4, <2>1 DEF CounterType, LoadTracksCounter
<1> QED BY Zenon, <1>6, <1>7, <1>8

LEMMA LoadUnchanged ==
  LoadTracksCounter /\ UNCHANGED <<dmaAddress, dmaLoad>> => LoadTracksCounter'
  BY Zenon DEF LoadTracksCounter

-----------------------------------------------------------------------------
(* The memory management unit. *)

BankSizes == {0, 128 * K, 512 * K, 2048 * K}

LEMMA BanksHaveSizes ==
  ASSUME NEW config
  PROVE  LogicalBank0(config) \in BankSizes /\ LogicalBank1(config) \in BankSizes
  BY SMT DEF LogicalBank0, LogicalBank1, MmuBankSize, BankSizes

LEMMA CellsOfABank ==
  ASSUME NEW a \in Int, NEW size \in BankSizes
  PROVE  /\ Translate512KBank(a, size) \in Int
         /\ 0 <= Translate512KBank(a, size) /\ Translate512KBank(a, size) < RAM512K
  BY SMT DEF Translate512KBank, BankSizes, K, RAM512K

(* In a bank of 128 KiB and one of 512 KiB every address has a cell of its *)
(* own.                                                                    *)
LEMMA SmallBankIsApart ==
  ASSUME NEW a \in Int, NEW b \in Int, a - b < 128 * K, b - a < 128 * K,
         Translate512KBank(a, 128 * K) = Translate512KBank(b, 128 * K)
  PROVE  a = b
<1> DEFINE r == a % 262144
           s == b % 262144
<1>1. /\ Translate512KBank(a, 128 * K) = (((r \div 512) * 1024) + (a % 1024)) % 524288
      /\ Translate512KBank(b, 128 * K) = (((s \div 512) * 1024) + (b % 1024)) % 524288
  BY SMT DEF Translate512KBank, K, RAM512K
<1>2. a % 1024 = r % 1024 /\ b % 1024 = s % 1024
  BY SMT
<1>3. r \in Int /\ 0 <= r /\ r < 262144 /\ s \in Int /\ 0 <= s /\ s < 262144
  BY SMT
<1>4. /\ (((r \div 512) * 1024) + (r % 1024)) % 524288 = ((r \div 512) * 1024) + (r % 1024)
      /\ (((s \div 512) * 1024) + (s % 1024)) % 524288 = ((s \div 512) * 1024) + (s % 1024)
  BY SMT, <1>3
<1>5. ((r \div 512) * 1024) + (r % 1024) = ((s \div 512) * 1024) + (s % 1024)
  BY SMT, <1>1, <1>2, <1>4
<1> HIDE DEF r, s
<1>6. r \div 512 = s \div 512 /\ r % 1024 = s % 1024
  BY SMT, <1>3, <1>5
<1>7. r = s
  BY SMT, <1>3, <1>6
<1> QED BY SMT, <1>7 DEF r, s, K

LEMMA WholeBankIsApart ==
  ASSUME NEW a \in Int, NEW b \in Int, a - b < 512 * K, b - a < 512 * K,
         Translate512KBank(a, 512 * K) = Translate512KBank(b, 512 * K)
  PROVE  a = b
<1>1. /\ Translate512KBank(a, 512 * K) = a % 524288
      /\ Translate512KBank(b, 512 * K) = b % 524288
  BY SMT DEF Translate512KBank, K, RAM512K
<1> QED BY SMT, <1>1 DEF K

(* A bank of 2 MiB does not connect address line 10, and connects line 9.  *)
LEMMA WideBankAliases ==
  ASSUME NEW a \in Int, 0 <= a, (a \div 512) % 4 = 0
  PROVE  /\ Translate512KBank(a + 1024, 2048 * K) = Translate512KBank(a, 2048 * K)
         /\ Translate512KBank(a + 512, 2048 * K) # Translate512KBank(a, 2048 * K)
<1> DEFINE t(x) == ((((x % 1048576) \div 2048) * 1024) + (x % 1024)) % 524288
<1>1. /\ Translate512KBank(a, 2048 * K) = t(a)
      /\ Translate512KBank(a + 512, 2048 * K) = t(a + 512)
      /\ Translate512KBank(a + 1024, 2048 * K) = t(a + 1024)
  BY SMT DEF Translate512KBank, K, RAM512K
<1>2. /\ ((a + 1024) % 1048576) \div 2048 = (a % 1048576) \div 2048
      /\ ((a + 512) % 1048576) \div 2048 = (a % 1048576) \div 2048
  BY SMT
<1>3. (a + 1024) % 1024 = a % 1024 /\ (a + 512) % 1024 = (a % 1024) + 512
  BY SMT
<1>4. t(a + 1024) = t(a)
  BY SMT, <1>2, <1>3
<1>5. t(a + 512) # t(a)
  BY SMT, <1>2, <1>3
<1> HIDE DEF t
<1> QED BY SMT, <1>1, <1>4, <1>5

(* A cell of one bank is not a cell of the other. *)
LEMMA Mapped ==
  ASSUME NEW config, NEW a \in Int, 0 <= a, RamAddress(config, a) # NotMapped
  PROVE  \/ /\ a < LogicalBank0(config)
            /\ RamAddress(config, a) = Translate512KBank(a, LogicalBank0(config))
            /\ 0 <= RamAddress(config, a) /\ RamAddress(config, a) < RAM512K
         \/ /\ LogicalBank0(config) <= a /\ a < LogicalBank0(config) + LogicalBank1(config)
            /\ RamAddress(config, a) = RAM512K + Translate512KBank(a, LogicalBank1(config))
            /\ RAM512K <= RamAddress(config, a) /\ RamSize > RAM512K
<1> DEFINE bank0 == LogicalBank0(config)
           bank1 == LogicalBank1(config)
<1>1. bank0 \in BankSizes /\ bank1 \in BankSizes
  BY BanksHaveSizes
<1>2. bank0 \in Int /\ bank1 \in Int /\ RAM512K \in Int /\ RamSize \in Int
  BY SMT, <1>1, RamSizeAssumption DEF BankSizes, K, RAM512K, RAM1M
<1>3. /\ Translate512KBank(a, bank0) \in Int /\ 0 <= Translate512KBank(a, bank0)
      /\ Translate512KBank(a, bank0) < RAM512K
      /\ Translate512KBank(a, bank1) \in Int /\ 0 <= Translate512KBank(a, bank1)
  BY Zenon, <1>1, CellsOfABank
<1>4. RamAddress(config, a) =
        CASE a < bank0 -> Translate512KBank(a, bank0)
          [] a >= bank0 /\ a < bank0 + bank1 /\ RamSize > RAM512K ->
               RAM512K + Translate512KBank(a, bank1)
          [] OTHER -> NotMapped
  BY Zenon DEF RamAddress
<1> HIDE DEF bank0, bank1
<1> QED BY SMT, <1>2, <1>3, <1>4 DEF bank0, bank1

Wide(config, a) ==
  \/ a < LogicalBank0(config) /\ LogicalBank0(config) = 2048 * K
  \/ a >= LogicalBank0(config) /\ LogicalBank1(config) = 2048 * K

LEMMA BankIsApart ==
  ASSUME NEW a \in Int, NEW b \in Int, NEW size \in {128 * K, 512 * K},
         a - b < size, b - a < size,
         Translate512KBank(a, size) = Translate512KBank(b, size)
  PROVE  a = b
<1>1. CASE size = 128 * K
  BY SMT, <1>1, SmallBankIsApart
<1>2. CASE size = 512 * K
  BY SMT, <1>2, WholeBankIsApart
<1> QED BY <1>1, <1>2

(* Outside a wide bank no two addresses share a cell. *)
LEMMA AddressesApart ==
  ASSUME NEW config, NEW a \in Int, 0 <= a, NEW b \in Int, 0 <= b, a # b,
         RamAddress(config, a) # NotMapped, ~ Wide(config, a)
  PROVE  RamAddress(config, b) # RamAddress(config, a)
<1> SUFFICES ASSUME RamAddress(config, b) = RamAddress(config, a)
             PROVE  FALSE
  OBVIOUS
<1> DEFINE bank0 == LogicalBank0(config)
           bank1 == LogicalBank1(config)
           In0(x) == /\ x < bank0 /\ RamAddress(config, x) = Translate512KBank(x, bank0)
                     /\ 0 <= RamAddress(config, x) /\ RamAddress(config, x) < RAM512K
           In1(x) == /\ bank0 <= x /\ x < bank0 + bank1
                     /\ RamAddress(config, x) = RAM512K + Translate512KBank(x, bank1)
                     /\ RAM512K <= RamAddress(config, x) /\ RamSize > RAM512K
<1>1. bank0 \in BankSizes /\ bank1 \in BankSizes
  BY BanksHaveSizes
<1>2. bank0 \in Int /\ bank1 \in Int /\ RAM512K \in Int
  BY SMT, <1>1 DEF BankSizes, K, RAM512K
<1>3. (In0(a) \/ In1(a)) /\ (In0(b) \/ In1(b))
  BY Zenon, Mapped
<1>4. /\ Translate512KBank(a, bank0) \in Int /\ Translate512KBank(b, bank0) \in Int
      /\ Translate512KBank(a, bank1) \in Int /\ Translate512KBank(b, bank1) \in Int
  BY Zenon, <1>1, CellsOfABank
<1>5. ~ (a < bank0 /\ bank0 = 2048 * K) /\ ~ (a >= bank0 /\ bank1 = 2048 * K)
  BY SMT DEF Wide
<1> HIDE DEF bank0, bank1
<1>6. CASE In0(a)
  <2>1. bank0 \in {128 * K, 512 * K}
    BY SMT, <1>1, <1>5, <1>6 DEF BankSizes, K
  <2>2. In0(b)
    BY SMT, <1>2, <1>3, <1>4, <1>6
  <2>3. a - b < bank0 /\ b - a < bank0
    BY SMT, <1>2, <1>6, <2>2
  <2>4. Translate512KBank(a, bank0) = Translate512KBank(b, bank0)
    BY SMT, <1>6, <2>2
  <2> QED BY ZenonT(60), <2>1, <2>3, <2>4, BankIsApart
<1>7. CASE In1(a)
  <2>1. In1(b)
    BY SMT, <1>2, <1>3, <1>4, <1>7
  <2>2. bank1 \in {128 * K, 512 * K}
    BY SMT, <1>1, <1>2, <1>5, <1>7 DEF BankSizes, K
  <2>3. Translate512KBank(a, bank1) = Translate512KBank(b, bank1)
    BY SMT, <1>2, <1>4, <1>7, <2>1
  <2>4. a - b < bank1 /\ b - a < bank1
    BY SMT, <1>2, <1>7, <2>1
  <2> QED BY ZenonT(60), <2>2, <2>3, <2>4, BankIsApart
<1> QED BY <1>3, <1>6, <1>7

LEMMA InBank0 ==
  ASSUME NEW config, NEW a \in Int, a < LogicalBank0(config)
  PROVE  RamAddress(config, a) = Translate512KBank(a, LogicalBank0(config))
<1> DEFINE bank0 == LogicalBank0(config)
<1>1. bank0 \in Int
  BY SMT, BanksHaveSizes DEF BankSizes, K
<1>2. ~ a >= bank0
  BY SMT, <1>1
<1> QED BY Zenon, <1>2 DEF RamAddress

LEMMA InBank1 ==
  ASSUME NEW config, NEW a, ~ a < LogicalBank0(config), a >= LogicalBank0(config),
         a < LogicalBank0(config) + LogicalBank1(config), RamSize > RAM512K
  PROVE  RamAddress(config, a) = RAM512K + Translate512KBank(a, LogicalBank1(config))
  BY Zenon DEF RamAddress

(* In a wide bank the address a kilobyte further is the same cell.        *)
LEMMA WideBankWraps ==
  ASSUME NEW config, NEW a \in Int, 0 <= a, (a \div 512) % 4 = 0,
         RamAddress(config, a) # NotMapped, Wide(config, a)
  PROVE  /\ RamAddress(config, a + 1024) = RamAddress(config, a)
         /\ RamAddress(config, a + 512) # RamAddress(config, a)
<1> DEFINE bank0 == LogicalBank0(config)
           bank1 == LogicalBank1(config)
           size  == 2048 * K
           next  == a + 1024
           half  == a + 512
<1>1. bank0 \in BankSizes /\ bank1 \in BankSizes /\ size \in BankSizes
  BY BanksHaveSizes DEF BankSizes
<1>2. /\ bank0 \in Int /\ bank1 \in Int /\ RAM512K \in Int /\ next \in Int /\ half \in Int
  BY SMT, <1>1 DEF BankSizes, K, RAM512K
<1>3. /\ Translate512KBank(next, size) = Translate512KBank(a, size)
      /\ Translate512KBank(half, size) # Translate512KBank(a, size)
  BY WideBankAliases
<1>4. a < bank0 /\ bank0 = size => next < bank0 /\ half < bank0
  BY SMT DEF K
<1>5. bank1 = size /\ bank0 <= a /\ a < bank0 + bank1
        => next >= bank0 /\ next < bank0 + bank1 /\ half >= bank0 /\ half < bank0 + bank1
  BY SMT, <1>1 DEF BankSizes, K
<1>6. \/ a < bank0
      \/ ~ a < bank0 /\ bank0 <= a /\ a < bank0 + bank1 /\ RamSize > RAM512K
  BY SMT, <1>2, Mapped
<1>7. (a < bank0 /\ bank0 = size) \/ (a >= bank0 /\ bank1 = size)
  BY Zenon DEF Wide
<1> HIDE DEF bank0, bank1, size, next, half
<1>8. /\ Translate512KBank(a, size) \in Int
      /\ Translate512KBank(half, size) \in Int
  BY Zenon, <1>1, <1>2, CellsOfABank
<1>9. CASE a < bank0
  <2>1. bank0 = size /\ next < bank0 /\ half < bank0
    BY SMT, <1>2, <1>4, <1>7, <1>9
  <2>2. /\ RamAddress(config, a) = Translate512KBank(a, bank0)
        /\ RamAddress(config, next) = Translate512KBank(next, bank0)
        /\ RamAddress(config, half) = Translate512KBank(half, bank0)
    BY Zenon, <1>2, <1>9, <2>1, InBank0 DEF bank0
  <2>3. RamAddress(config, next) = RamAddress(config, a) /\ RamAddress(config, half) # RamAddress(config, a)
    BY Zenon, <1>3, <2>1, <2>2
  <2> QED BY ZenonT(60), <2>3 DEF next, half
<1>10. CASE ~ a < bank0
  <2>1. bank1 = size /\ bank0 <= a /\ a < bank0 + bank1 /\ RamSize > RAM512K
    BY SMT, <1>2, <1>6, <1>7, <1>10
  <2>2. /\ ~ a < bank0 /\ a >= bank0 /\ a < bank0 + bank1
        /\ ~ next < bank0 /\ next >= bank0 /\ next < bank0 + bank1
        /\ ~ half < bank0 /\ half >= bank0 /\ half < bank0 + bank1
    BY SMT, <1>2, <1>5, <1>10, <2>1
  <2>3. /\ RamAddress(config, a) = RAM512K + Translate512KBank(a, bank1)
        /\ RamAddress(config, next) = RAM512K + Translate512KBank(next, bank1)
        /\ RamAddress(config, half) = RAM512K + Translate512KBank(half, bank1)
    BY Zenon, <2>1, <2>2, InBank1 DEF bank0, bank1
  <2>4. /\ Translate512KBank(next, bank1) = Translate512KBank(a, bank1)
        /\ Translate512KBank(half, bank1) # Translate512KBank(a, bank1)
        /\ Translate512KBank(a, bank1) \in Int /\ Translate512KBank(half, bank1) \in Int
    BY Zenon, <1>3, <1>8, <2>1
  <2>5. RamAddress(config, next) = RamAddress(config, a) /\ RamAddress(config, half) # RamAddress(config, a)
    BY SMT, <1>2, <2>3, <2>4
  <2> QED BY ZenonT(60), <2>5 DEF next, half
<1> QED BY <1>9, <1>10

LEMMA CellIsANumber ==
  ASSUME NEW config, NEW a \in Int
  PROVE  RamAddress(config, a) \in Int
<1> DEFINE bank0 == LogicalBank0(config)
           bank1 == LogicalBank1(config)
<1>1. bank0 \in BankSizes /\ bank1 \in BankSizes
  BY BanksHaveSizes
<1>2. Translate512KBank(a, bank0) \in Int /\ Translate512KBank(a, bank1) \in Int
  BY Zenon, <1>1, CellsOfABank
<1>3. RAM512K \in Int
  BY SMT DEF RAM512K
<1> HIDE DEF bank0, bank1
<1> QED BY SMT, <1>2, <1>3 DEF RamAddress, bank0, bank1, NotMapped

(* A bank that is not wide maps no address above the system's two          *)
(* kilobytes to their cells.                                               *)
SystemTop == 2048

Folded(config) == LogicalBank0(config) = 2048 * K

LEMMA SystemCells ==
  ASSUME NEW config, NEW a \in Int, SystemTop <= a, RamAddress(config, a) # NotMapped,
         RamAddress(config, a) < SystemTop
  PROVE  Folded(config)
<1> DEFINE bank0 == LogicalBank0(config)
<1>1. bank0 \in BankSizes
  BY BanksHaveSizes
<1>2. bank0 \in Int
  BY SMT, <1>1 DEF BankSizes, K
<1>3. a < bank0 /\ Translate512KBank(a, bank0) < SystemTop
  <2>1. \/ a < bank0 /\ RamAddress(config, a) = Translate512KBank(a, bank0)
        \/ RAM512K <= RamAddress(config, a)
    <3>1. 0 <= a
      BY SMT DEF SystemTop
    <3> QED BY Zenon, <3>1, Mapped DEF bank0
  <2>2. ~ RAM512K <= RamAddress(config, a)
    <3>1. RamAddress(config, a) \in Int
      BY Zenon, CellIsANumber
    <3> QED BY SMT, <3>1 DEF RAM512K, SystemTop
  <2> QED BY Zenon, <2>1, <2>2
<1>4. ~ Translate512KBank(a, 128 * K) < SystemTop \/ ~ a < 128 * K
  BY SMT DEF Translate512KBank, K, RAM512K, SystemTop
<1>5. ~ Translate512KBank(a, 512 * K) < SystemTop \/ ~ a < 512 * K
  BY SMT DEF Translate512KBank, K, RAM512K, SystemTop
<1>6. bank0 # 0
  BY SMT, <1>2, <1>3 DEF SystemTop
<1>7. bank0 # 128 * K
  <2> HIDE DEF bank0
  <2> QED BY Zenon, <1>3, <1>4
<1>8. bank0 # 512 * K
  <2> HIDE DEF bank0
  <2> QED BY ZenonT(60), <1>3, <1>5
<1> QED BY SMT, <1>1, <1>6, <1>7, <1>8 DEF BankSizes, Folded

(* The cell is the byte that is read. *)
LEMMA RamIsRead ==
  ASSUME NEW a \in Int, IsRam(a)
  PROVE  Readable(a, 5) /\ ReadByteFC(a) = ram[Cell(a)]
<1>1. a >= 8 /\ ~ a < 8 /\ a < VoidTop
  BY SMT DEF IsRam
<1>2. /\ a # MMUConfig /\ a # VideoBaseHigh /\ a # VideoBaseMiddle /\ a # VideoSyncMode
      /\ a # ShifterResolution /\ a # STDMAAddressHigh /\ a # STDMAAddressMiddle
      /\ a # STDMAAddressLow
  BY SMT, <1>1 DEF VoidTop, IOBase, MMUConfig, VideoBaseHigh, VideoBaseMiddle, VideoSyncMode,
     ShifterResolution, STDMAAddressHigh, STDMAAddressMiddle, STDMAAddressLow
<1>3. ~ TOSROMBase <= a
  BY SMT, <1>1 DEF VoidTop, TOSROMBase
<1>4. ~ a \in TOSROMBase .. TOSROMEnd
  <2>1. TOSROMBase \in Int /\ TOSROMEnd \in Int
    BY SMT DEF TOSROMBase, TOSROMEnd
  <2> QED BY SMT, <1>3, <2>1
<1>5. ReadByteFC(a) = ram[Cell(a)]
  BY SMT, <1>1, <1>2, <1>4 DEF ReadByteFC
<1>6. Readable(a, 5)
  BY SMT DEF Readable, MayAccess, FunctionCodes, User, Answers
<1> QED BY <1>5, <1>6

LEMMA MappedBelowTop ==
  ASSUME NEW config, NEW a \in Int, 0 <= a, RamAddress(config, a) # NotMapped
  PROVE  a < VoidTop
<1> DEFINE bank0 == LogicalBank0(config)
           bank1 == LogicalBank1(config)
<1>1. bank0 \in BankSizes /\ bank1 \in BankSizes
  BY BanksHaveSizes
<1>2. a < bank0 \/ a < bank0 + bank1
  BY Zenon, Mapped
<1> HIDE DEF bank0, bank1
<1> QED BY SMT, <1>1, <1>2 DEF BankSizes, K, VoidTop

-----------------------------------------------------------------------------
(* What RAM remembers, with the mapping that must stand for it.            *)

Remembered ==
  \A a \in Program.touches :
    written[a] # Unknown => IsRam(a) /\ (InWideBank(a) \/ ram[Cell(a)] = written[a])

Mapping == mmuConfig \in Program.registers \cup {0}

(* The programmed base is one the program can set up. *)
BaseLatched ==
  /\ \E high \in Latched(program, VideoBaseHigh) : baseHigh = high % 64
  /\ baseMiddle \in Latched(program, VideoBaseMiddle)

IInv ==
  /\ program \in DOMAIN Programs
  /\ ScreenType /\ MemoryType /\ CounterType
  /\ LoadTracksCounter
  /\ Mapping /\ Remembered /\ BaseLatched

LEMMA WideIsWide ==
  ASSUME NEW a
  PROVE  InWideBank(a) <=> Wide(mmuConfig, a)
  BY Zenon DEF InWideBank, Wide

LEMMA TouchesAreAddresses ==
  ASSUME program \in DOMAIN Programs, NEW a \in Program.touches
  PROVE  a \in Int /\ 0 <= a /\ a + 1 \in Int /\ 0 <= a + 1 /\ a + 1 # a
<1>1. a \in 0 .. (AddressLimit - 1)
  BY Zenon, ProgramsAssumption DEF Program
<1>2. AddressLimit \in Int
  BY SMT DEF AddressLimit
<1> QED BY SMT, <1>1, <1>2

LEMMA CellsAreInUse ==
  ASSUME program \in DOMAIN Programs, Mapping, NEW a \in Program.touches
  PROVE  /\ Cell(a) # NotMapped => Cell(a) \in Program.cells
         /\ Cell(a + 1) # NotMapped => Cell(a + 1) \in Program.cells
<1>1. a + 0 = a
  BY SMT, TouchesAreAddresses
<1>2. /\ RamAddress(mmuConfig, a + 0) \in Program.cells \cup {NotMapped}
      /\ RamAddress(mmuConfig, a + 1) \in Program.cells \cup {NotMapped}
  BY Zenon, CellsAssumption DEF Mapping, Program
<1> QED BY Zenon, <1>1, <1>2 DEF Cell

(* Outside a wide bank an address has its cell to itself.                  *)
LEMMA OwnCell ==
  ASSUME NEW a \in Int, 0 <= a, NEW b \in Int, 0 <= b, a # b, IsRam(a), ~ InWideBank(a)
  PROVE  Cell(b) # Cell(a)
  BY Zenon, AddressesApart, WideIsWide DEF IsRam, Cell

LEMMA SameMapping ==
  ASSUME UNCHANGED mmuConfig, NEW a
  PROVE  /\ Cell(a)' = Cell(a) /\ (IsRam(a)' <=> IsRam(a))
         /\ (InWideBank(a)' <=> InWideBank(a))
<1>1. Cell(a)' = Cell(a)
  BY Zenon DEF Cell
<1>2. IsRam(a)' <=> IsRam(a)
  BY Zenon, <1>1 DEF IsRam
<1>3. InWideBank(a)' <=> Wide(mmuConfig', a)
  BY Zenon DEF InWideBank, Wide
<1> QED BY Zenon, <1>1, <1>2, <1>3, WideIsWide

LEMMA RememberedUnchanged ==
  Remembered /\ UNCHANGED <<program, mmuConfig, ram, written>> => Remembered'
  BY Zenon, SameMapping, SameProgram DEF Remembered

LEMMA NothingRemembered ==
  ASSUME UNCHANGED program, written' = Forgotten
  PROVE  Remembered' /\ written' \in [Program.touches -> Byte \cup {Unknown}]
  BY SMT, SameProgram DEF Remembered, Forgotten

LEMMA MappingUnchanged == Mapping /\ UNCHANGED <<program, mmuConfig>> => Mapping'
  BY Zenon, SameProgram DEF Mapping

LEMMA Counted ==
  ASSUME program \in DOMAIN Programs, stores \in 0 .. Program.stores, CountStore
  PROVE  stores' \in 0 .. Program.stores
<1>1. Program.stores \in Int
  BY SMT, ProgramWrites
<1> QED BY SMT, <1>1 DEF CountStore

LEMMA StillAFunction ==
  ASSUME NEW S, NEW T, NEW f \in [S -> T], NEW x, NEW y \in T
  PROVE  [f EXCEPT ![x] = y] \in [S -> T]
  BY Zenon

(* A byte stored is remembered, and takes nothing from the others.         *)
LEMMA ByteStored ==
  ASSUME program \in DOMAIN Programs, MemoryType, Mapping, Remembered, UNCHANGED program,
         NEW a \in Program.touches, NEW v \in Byte, StoreByte(a, v)
  PROVE  MemoryType' /\ Remembered'
<1>1. /\ IsRam(a) /\ UNCHANGED mmuConfig
      /\ ram' = [ram EXCEPT ![Cell(a)] = v] /\ written' = [written EXCEPT ![a] = v]
  BY Zenon DEF StoreByte
<1>2. stores' \in 0 .. Program.stores
  BY Zenon, Counted DEF StoreByte, MemoryType
<1>3. ram' \in [Program.cells -> Byte] /\ written' \in [Program.touches -> Byte \cup {Unknown}]
  <2>1. ram \in [Program.cells -> Byte] /\ written \in [Program.touches -> Byte \cup {Unknown}]
    BY Zenon DEF MemoryType
  <2> QED BY Zenon, <1>1, <2>1, StillAFunction
<1>4. MemoryType'
  BY Zenon, <1>1, <1>2, <1>3, SameProgram DEF MemoryType
<1>5. ASSUME NEW b \in Program.touches, written'[b] # Unknown
      PROVE  IsRam(b) /\ (InWideBank(b) \/ ram'[Cell(b)] = written'[b])
  <2>1. Cell(a) \in Program.cells
    BY Zenon, <1>1, CellsAreInUse DEF IsRam
  <2>2. CASE b = a
    BY Zenon, <1>1, <2>1, <2>2 DEF MemoryType
  <2>3. CASE b # a
    <3>1. written'[b] = written[b]
      BY Zenon, <1>1, <2>3 DEF MemoryType
    <3>2. IsRam(b) /\ (InWideBank(b) \/ ram[Cell(b)] = written[b])
      BY Zenon, <1>5, <3>1 DEF Remembered
    <3>3. Cell(b) \in Program.cells
      BY Zenon, <3>2, CellsAreInUse DEF IsRam
    <3>4. InWideBank(b) \/ Cell(a) # Cell(b)
      BY Zenon, <2>3, <3>2, OwnCell, TouchesAreAddresses
    <3> QED BY Zenon, <1>1, <3>1, <3>2, <3>3, <3>4 DEF MemoryType
  <2> QED BY <2>2, <2>3
<1>6. Remembered'
  BY Zenon, <1>1, <1>5, SameMapping, SameProgram DEF Remembered
<1> QED BY <1>4, <1>6

(* Both bytes of a word are located before either is stored.               *)
LEMMA WordStored ==
  ASSUME program \in DOMAIN Programs, MemoryType, Mapping, Remembered, UNCHANGED program,
         NEW a \in Program.touches, NEW w \in Word, NEW fc, StoreWord(a, w, fc)
  PROVE  MemoryType' /\ Remembered'
<1> DEFINE high == w \div 256
           low  == w % 256
<1>1. /\ IsRam(a) /\ IsRam(a + 1) /\ UNCHANGED mmuConfig
      /\ ram' = [ram EXCEPT ![Cell(a)] = high, ![Cell(a + 1)] = low]
      /\ written' = RecordWord(a, w)
  BY Zenon DEF StoreWord
<1>2. stores' \in 0 .. Program.stores
  BY Zenon, Counted DEF StoreWord, MemoryType
<1>3. high \in Byte /\ low \in Byte
  BY HalvesOfAWord
<1>4. a + 1 \in Int /\ a \in Int /\ 0 <= a /\ 0 <= a + 1 /\ a + 1 # a
  BY TouchesAreAddresses
<1>5. \A b \in Program.touches :
        /\ b = a => written'[b] = high
        /\ b # a /\ b = a + 1 => written'[b] = low
        /\ b # a /\ b # a + 1 => written'[b] = written[b]
  <2> SUFFICES ASSUME NEW b \in Program.touches
               PROVE  /\ b = a => written'[b] = high
                      /\ b # a /\ b = a + 1 => written'[b] = low
                      /\ b # a /\ b # a + 1 => written'[b] = written[b]
    OBVIOUS
  <2>1. /\ b = a => RecordWord(a, w)[b] = high
        /\ b # a /\ b = a + 1 => RecordWord(a, w)[b] = low
        /\ b # a /\ b # a + 1 => RecordWord(a, w)[b] = written[b]
    BY Zenon DEF RecordWord
  <2> HIDE DEF high, low
  <2> QED BY Zenon, <1>1, <2>1
<1> HIDE DEF high, low
<1>6. ram' \in [Program.cells -> Byte]
  <2>1. ram \in [Program.cells -> Byte]
    BY Zenon DEF MemoryType
  <2>2. [ram EXCEPT ![Cell(a)] = high] \in [Program.cells -> Byte]
    BY Zenon, <1>3, <2>1, StillAFunction
  <2>3. ram' = [[ram EXCEPT ![Cell(a)] = high] EXCEPT ![Cell(a + 1)] = low]
    BY Zenon, <1>1
  <2> QED BY Zenon, <1>3, <2>2, <2>3, StillAFunction
<1>7. written' \in [Program.touches -> Byte \cup {Unknown}]
  <2> DEFINE e(b) == IF b = a THEN high ELSE IF b = a + 1 THEN low ELSE written[b]
  <2>1. written' = [b \in Program.touches |-> e(b)]
    BY Zenon, <1>1 DEF RecordWord, high, low
  <2>2. \A b \in Program.touches : e(b) \in Byte \cup {Unknown}
    BY Zenon, <1>3 DEF MemoryType
  <2> HIDE DEF e
  <2> QED BY Zenon, <2>1, <2>2
<1>8. MemoryType'
  BY Zenon, <1>1, <1>2, <1>6, <1>7, SameProgram DEF MemoryType
<1>9. Cell(a) \in Program.cells /\ Cell(a + 1) \in Program.cells
  BY Zenon, <1>1, CellsAreInUse DEF IsRam
<1>10. /\ ram'[Cell(a + 1)] = low
       /\ Cell(a + 1) # Cell(a) => ram'[Cell(a)] = high
       /\ \A c \in Program.cells : c # Cell(a) /\ c # Cell(a + 1) => ram'[c] = ram[c]
  BY SMT, <1>1, <1>9 DEF MemoryType
<1>11. ASSUME NEW b \in Program.touches, written'[b] # Unknown
       PROVE  IsRam(b) /\ (InWideBank(b) \/ ram'[Cell(b)] = written'[b])
  <2>1. b \in Int /\ 0 <= b
    BY TouchesAreAddresses
  <2>2. CASE b = a
    BY Zenon, <1>1, <1>4, <1>5, <1>10, <2>2, OwnCell
  <2>3. CASE b # a /\ b = a + 1
    BY Zenon, <1>1, <1>5, <1>10, <2>3
  <2>4. CASE b # a /\ b # a + 1
    <3>1. written'[b] = written[b]
      BY Zenon, <1>5, <2>4
    <3>2. IsRam(b) /\ (InWideBank(b) \/ ram[Cell(b)] = written[b])
      BY Zenon, <1>11, <3>1 DEF Remembered
    <3>3. Cell(b) \in Program.cells
      BY Zenon, <3>2, CellsAreInUse DEF IsRam
    <3>4. InWideBank(b) \/ (Cell(a) # Cell(b) /\ Cell(a + 1) # Cell(b))
      BY Zenon, <1>4, <2>1, <2>4, <3>2, OwnCell
    <3> QED BY Zenon, <1>10, <3>1, <3>2, <3>3, <3>4
  <2> QED BY <2>2, <2>3, <2>4
<1>12. Remembered'
  BY Zenon, <1>1, <1>11, SameMapping, SameProgram DEF Remembered
<1> QED BY <1>8, <1>12

-----------------------------------------------------------------------------
(* Every step keeps the invariant. *)

LEMMA ZeroIsAByte == 0 \in Byte /\ 0 \in 0 .. 63
  BY SMT DEF Byte

LEMMA BaseCleared ==
  ASSUME baseHigh = 0, baseMiddle = 0
  PROVE  BaseLatched
<1>1. 0 % 64 = 0
  BY SMT
<1>2. 0 \in Latched(program, VideoBaseHigh) /\ 0 \in Latched(program, VideoBaseMiddle)
  BY Zenon DEF Latched
<1> QED BY Zenon, <1>1, <1>2 DEF BaseLatched

LEMMA BaseUnchanged == BaseLatched /\ UNCHANGED <<program, baseHigh, baseMiddle>> => BaseLatched'
  BY Zenon DEF BaseLatched, Latched

LEMMA Latches ==
  ASSUME UNCHANGED program, ResetLatches
  PROVE  /\ ScreenType' /\ CounterType' /\ LoadTracksCounter'
         /\ Mapping' /\ Remembered' /\ BaseLatched'
<1>1. /\ mmuConfig' = 0 /\ baseHigh' = 0 /\ baseMiddle' = 0 /\ activeBase' = 0
      /\ syncMode' = 0 /\ syncTransition' = FALSE /\ dmaAddress' = 0
      /\ palette' = [a \in PaletteInUse |-> 0] /\ written' = Forgotten /\ dmaLoad' = << >>
  BY Zenon DEF ResetLatches
<1>2. 0 \in 0 .. (VoidTop - 1) /\ 0 \in 0 .. (VoidTop - 2)
  <2>1. 0 <= VoidTop - 2 /\ 0 <= VoidTop - 1
    BY SMT DEF VoidTop
  <2> QED BY SMT, <2>1, VoidTopIsAnInteger
<1>3. [a \in PaletteInUse |-> 0] \in [PaletteInUse -> Word]
  BY SMT, InWord
<1>4. ScreenType'
  BY Zenon, <1>1, <1>2, <1>3, ZeroIsAByte, SameProgram DEF ScreenType
<1>5. CounterType' /\ LoadTracksCounter'
  BY SMT, <1>1, <1>2 DEF CounterType, LoadTracksCounter
<1>6. Mapping' /\ Remembered'
  BY Zenon, <1>1, SameProgram, NothingRemembered DEF Mapping
<1>7. BaseLatched'
  <2>1. 0 % 64 = 0
    BY SMT
  <2>2. 0 \in Latched(program, VideoBaseHigh) /\ 0 \in Latched(program, VideoBaseMiddle)
    BY Zenon DEF Latched
  <2> QED BY Zenon, <1>1, <2>1, <2>2 DEF BaseLatched, Latched
<1> QED BY <1>4, <1>5, <1>6, <1>7

LEMMA InitInv == Init => IInv
<1> SUFFICES ASSUME Init PROVE IInv
  OBVIOUS
<1>1. /\ program \in DOMAIN Programs /\ mmuConfig = 0
      /\ baseHigh = 0 /\ baseMiddle = 0 /\ activeBase = 0
      /\ syncMode = 0 /\ syncTransition = FALSE /\ dmaAddress = 0 /\ stores = 0
      /\ palette = [a \in PaletteInUse |-> 0] /\ written = Forgotten /\ dmaLoad = << >>
      /\ ram = [c \in Program.cells |-> 0]
  BY Zenon DEF Init
<1>2. 0 \in 0 .. (VoidTop - 1) /\ 0 \in 0 .. (VoidTop - 2)
  <2>1. 0 <= VoidTop - 2 /\ 0 <= VoidTop - 1
    BY SMT DEF VoidTop
  <2> QED BY SMT, <2>1, VoidTopIsAnInteger
<1>3. [a \in PaletteInUse |-> 0] \in [PaletteInUse -> Word]
  BY SMT, InWord
<1>4. ScreenType
  BY Zenon, <1>1, <1>2, <1>3, ZeroIsAByte DEF ScreenType
<1>5. CounterType /\ LoadTracksCounter
  BY SMT, <1>1, <1>2 DEF CounterType, LoadTracksCounter
<1>6. 0 \in 0 .. Program.stores
  BY SMT, <1>1, ProgramWrites
<1>7. 0 \in Byte
  BY ZeroIsAByte
<1>8. MemoryType
  <2>1. written \in [Program.touches -> Byte \cup {Unknown}]
    BY Zenon, <1>1 DEF Forgotten
  <2>2. ram \in [Program.cells -> Byte]
    BY Zenon, <1>1, <1>7
  <2> QED BY Zenon, <1>1, <1>6, <1>7, <2>1, <2>2 DEF MemoryType
<1>9. Mapping /\ Remembered
  BY Zenon, <1>1 DEF Mapping, Remembered, Forgotten
<1>10. BaseLatched
  BY Zenon, <1>1, BaseCleared
<1> QED BY Zenon, <1>1, <1>4, <1>5, <1>8, <1>9, <1>10 DEF IInv

LEMMA ResetInv == IInv /\ M68KReset => IInv'
<1> SUFFICES ASSUME IInv, M68KReset PROVE IInv'
  OBVIOUS
<1>1. UNCHANGED <<program, ram, stores>> /\ ResetLatches /\ mmuConfig' = 0 /\ written' = Forgotten
  BY Zenon DEF M68KReset, ResetLatches
<1>2. /\ ScreenType' /\ CounterType' /\ LoadTracksCounter'
      /\ Mapping' /\ Remembered' /\ BaseLatched'
  BY Zenon, <1>1, Latches
<1>3. mmuConfig' \in Byte
  BY Zenon, <1>1, ZeroIsAByte
<1>4. MemoryType'
  BY Zenon, <1>1, <1>3, SameProgram, NothingRemembered DEF IInv, MemoryType
<1> QED BY Zenon, <1>1, <1>2, <1>4 DEF IInv

LEMMA MmuInv ==
  ASSUME IInv, UNCHANGED program, NEW v \in Program.registers, WriteMmu(v)
  PROVE  IInv'
<1>1. /\ mmuConfig' = v /\ written' = Forgotten
      /\ UNCHANGED <<ram, screen, dmaAddress, stores, dmaLoad>>
  BY Zenon DEF WriteMmu
<1>2. v \in Byte
  BY Zenon, ProgramWrites DEF IInv
<1>3. MemoryType' /\ Remembered'
  BY Zenon, <1>1, <1>2, SameProgram, NothingRemembered DEF IInv, MemoryType
<1>4. Mapping'
  BY Zenon, <1>1, SameProgram DEF Mapping
<1>5. ScreenType' /\ CounterType' /\ LoadTracksCounter'
  BY Zenon, <1>1, ScreenUnchanged, CounterUnchanged, LoadUnchanged DEF IInv
<1>6. BaseLatched'
  BY Zenon, <1>1, BaseUnchanged DEF IInv, screen
<1> QED BY Zenon, <1>3, <1>4, <1>5, <1>6 DEF IInv

(* A write that leaves the memory alone, and one that leaves the rest.     *)
LEMMA OffTheMemory ==
  ASSUME IInv, UNCHANGED <<program, mmuConfig, ram, stores, written>>
  PROVE  /\ MemoryType' /\ Mapping' /\ Remembered'
         /\ program' \in DOMAIN Programs
  BY Zenon, MemoryUnchanged, MappingUnchanged, RememberedUnchanged DEF IInv

LEMMA OffTheCounter ==
  ASSUME IInv, UNCHANGED <<dmaAddress, dmaLoad>>
  PROVE  CounterType' /\ LoadTracksCounter'
  BY Zenon, CounterUnchanged, LoadUnchanged DEF IInv

LEMMA VideoBaseInv ==
  ASSUME IInv, UNCHANGED program, NEW v \in Byte, NEW a \in {VideoBaseHigh, VideoBaseMiddle},
         a \in Program.touches, v \in Program.registers, WriteVideoBase(a, v)
  PROVE  IInv'
<1>1. UNCHANGED <<mmuConfig, ram, activeBase, syncMode, syncTransition, palette,
                  dmaAddress, stores, written, dmaLoad>>
  BY Zenon DEF WriteVideoBase, history
<1>2. baseHigh' \in 0 .. 63 /\ baseMiddle' \in Byte
  BY SMT DEF WriteVideoBase, IInv, ScreenType, Byte
<1>3. ScreenType'
  BY Zenon, <1>1, <1>2, SameProgram DEF IInv, ScreenType
<1>4. v \in Latched(program, a)
  BY Zenon DEF Latched, Program
<1>5. BaseLatched'
  BY Zenon, <1>4 DEF WriteVideoBase, IInv, BaseLatched, Latched
<1> QED BY Zenon, <1>1, <1>3, <1>5, OffTheMemory, OffTheCounter DEF IInv

LEMMA SyncInv ==
  ASSUME IInv, UNCHANGED program, NEW v, WriteSyncMode(v)
  PROVE  IInv'
<1>1. /\ UNCHANGED <<mmuConfig, ram, baseHigh, baseMiddle, activeBase, palette,
                     dmaAddress, stores, written, dmaLoad>>
      /\ syncMode' = 2 /\ syncTransition' = TRUE
  BY Zenon DEF WriteSyncMode, history
<1>2. ScreenType'
  BY Zenon, <1>1, SameProgram DEF IInv, ScreenType
<1> QED BY Zenon, <1>1, <1>2, OffTheMemory, OffTheCounter, BaseUnchanged DEF IInv

LEMMA DmaInv ==
  ASSUME IInv, UNCHANGED program, NEW i \in DOMAIN DmaRegisters, NEW v \in Byte,
         WriteDmaAddress(DmaRegisters[i], v)
  PROVE  IInv'
<1>1. CountStore /\ UNCHANGED <<mmuConfig, ram, screen, written>>
  BY Zenon DEF WriteDmaAddress
<1>2. CounterType' /\ LoadTracksCounter'
  BY Zenon, RecordedByte DEF IInv
<1>3. MemoryType'
  BY Zenon, <1>1, Counted, SameProgram DEF IInv, MemoryType
<1>4. BaseLatched'
  BY Zenon, <1>1, BaseUnchanged DEF IInv, screen
<1> QED BY Zenon, <1>1, <1>2, <1>3, <1>4, ScreenUnchanged, MappingUnchanged, RememberedUnchanged
   DEF IInv

LEMMA ByteInv ==
  ASSUME IInv, UNCHANGED program, NEW a \in Program.touches, NEW v \in Byte, StoreByte(a, v)
  PROVE  IInv'
<1>1. UNCHANGED <<mmuConfig, screen, dmaAddress, dmaLoad>>
  BY Zenon DEF StoreByte
<1>2. MemoryType' /\ Remembered'
  BY Zenon, ByteStored DEF IInv
<1>3. BaseLatched'
  BY Zenon, <1>1, BaseUnchanged DEF IInv, screen
<1> QED BY Zenon, <1>1, <1>2, <1>3, ScreenUnchanged, MappingUnchanged, OffTheCounter DEF IInv

LEMMA WordInv ==
  ASSUME IInv, UNCHANGED program, NEW a \in Program.touches, NEW w \in Word, NEW fc,
         StoreWord(a, w, fc)
  PROVE  IInv'
<1>1. UNCHANGED <<mmuConfig, screen, dmaAddress, dmaLoad>>
  BY Zenon DEF StoreWord
<1>2. MemoryType' /\ Remembered'
  BY Zenon, WordStored DEF IInv
<1>3. BaseLatched'
  BY Zenon, <1>1, BaseUnchanged DEF IInv, screen
<1> QED BY Zenon, <1>1, <1>2, <1>3, ScreenUnchanged, MappingUnchanged, OffTheCounter DEF IInv

LEMMA ColourInv ==
  ASSUME IInv, UNCHANGED program, NEW a, NEW w \in Word, StoreColour(a, w)
  PROVE  IInv'
<1>1. /\ palette' = [palette EXCEPT ![a] = ColourMask(w)]
      /\ UNCHANGED <<mmuConfig, ram, baseHigh, baseMiddle, activeBase, syncMode,
                     syncTransition, dmaAddress, stores, written, dmaLoad>>
  BY Zenon DEF StoreColour, history
<1>2. palette' \in [PaletteInUse -> Word]
  BY Zenon, <1>1, ColoursAreWords, StillAFunction DEF IInv, ScreenType
<1>3. ScreenType'
  BY Zenon, <1>1, <1>2, SameProgram DEF IInv, ScreenType
<1> QED BY Zenon, <1>1, <1>3, OffTheMemory, OffTheCounter, BaseUnchanged DEF IInv

LEMMA VblInv == IInv /\ ReloadVideoBaseOnVBL => IInv'
<1> SUFFICES ASSUME IInv, ReloadVideoBaseOnVBL PROVE IInv'
  OBVIOUS
<1>1. /\ activeBase' = ProgrammedVideoBase
      /\ UNCHANGED <<program, mmuConfig, ram, baseHigh, baseMiddle, syncMode, syncTransition,
                     palette, dmaAddress, stores, written, dmaLoad>>
  BY Zenon DEF ReloadVideoBaseOnVBL, history
<1>2. ProgrammedVideoBase \in 0 .. (VoidTop - 1)
  BY Zenon, BaseInMemory DEF IInv, ScreenType
<1>3. ScreenType'
  BY Zenon, <1>1, <1>2, SameProgram DEF IInv, ScreenType
<1> QED BY Zenon, <1>1, <1>3, OffTheMemory, OffTheCounter, BaseUnchanged DEF IInv

LEMMA TransitionInv == IInv /\ TakeSyncTransition => IInv'
<1> SUFFICES ASSUME IInv, TakeSyncTransition PROVE IInv'
  OBVIOUS
<1>1. /\ syncTransition' = FALSE
      /\ UNCHANGED <<program, mmuConfig, ram, baseHigh, baseMiddle, activeBase, syncMode,
                     palette, dmaAddress, stores, written, dmaLoad>>
  BY Zenon DEF TakeSyncTransition, history
<1>2. ScreenType'
  BY Zenon, <1>1, SameProgram DEF IInv, ScreenType
<1> QED BY Zenon, <1>1, <1>2, OffTheMemory, OffTheCounter, BaseUnchanged DEF IInv

LEMMA StutterInv == IInv /\ UNCHANGED vars => IInv'
<1> SUFFICES ASSUME IInv, UNCHANGED vars PROVE IInv'
  OBVIOUS
<1>1. UNCHANGED <<program, mmuConfig, ram, screen, dmaAddress, stores, written, dmaLoad>>
  BY Zenon DEF vars, history
<1>2. BaseLatched'
  BY Zenon, <1>1, BaseUnchanged DEF IInv, screen
<1> QED BY Zenon, <1>1, <1>2, ScreenUnchanged, OffTheMemory, OffTheCounter DEF IInv

LEMMA NextInv == IInv /\ [Next]_vars => IInv'
<1> SUFFICES ASSUME IInv, [Next]_vars PROVE IInv'
  OBVIOUS
<1>1. program \in DOMAIN Programs
  BY Zenon DEF IInv
<1>2. ASSUME NEW a \in Program.touches, NEW fc \in FunctionCodes, WriteByteFC(a, fc)
      PROVE  IInv'
  <2>1. UNCHANGED program
    BY Zenon, <1>2 DEF WriteByteFC
  <2>2. ASSUME NEW v \in Program.registers, WriteRegister(a, v)
        PROVE  IInv'
    <3>1. v \in Byte
      BY Zenon, <1>1, ProgramWrites
    <3>2. \/ WriteMmu(v) \/ WriteSyncMode(v)
          \/ a \in {VideoBaseHigh, VideoBaseMiddle} /\ WriteVideoBase(a, v)
          \/ \E i \in DOMAIN DmaRegisters : WriteDmaAddress(DmaRegisters[i], v)
      BY Zenon, <2>2 DEF WriteRegister
    <3> QED BY Zenon, <2>1, <3>1, <3>2, MmuInv, VideoBaseInv, SyncInv, DmaInv
  <2>3. ASSUME NEW v \in Program.bytes, StoreByte(a, v)
        PROVE  IInv'
    BY Zenon, <1>1, <2>1, <2>3, ProgramWrites, ByteInv
  <2> QED BY Zenon, <1>2, <2>2, <2>3 DEF WriteByteFC
<1>3. ASSUME NEW a \in Program.touches, NEW fc \in FunctionCodes, WriteWord(a, fc)
      PROVE  IInv'
  <2>1. PICK w \in Program.words : (StoreWord(a, w, fc) \/ StoreColour(a, w)) /\ UNCHANGED program
    BY Zenon, <1>3 DEF WriteWord
  <2>2. w \in Word
    BY Zenon, <1>1, ProgramWrites
  <2> QED BY Zenon, <2>1, <2>2, WordInv, ColourInv
<1>4. CASE ReloadVideoBaseOnVBL
  BY <1>4, VblInv
<1>5. CASE TakeSyncTransition
  BY <1>5, TransitionInv
<1>6. CASE M68KReset
  BY <1>6, ResetInv
<1>7. CASE UNCHANGED vars
  BY <1>7, StutterInv
<1> QED BY Zenon, <1>2, <1>3, <1>4, <1>5, <1>6, <1>7 DEF Next

(* The invariant of every behaviour. *)
THEOREM Invariant == Spec => []IInv
<1>1. Init => IInv
  BY InitInv
<1>2. IInv /\ [Next]_vars => IInv'
  BY NextInv
<1> QED BY <1>1, <1>2, PTL DEF Spec

(* Every register, counter and byte of memory stays within its width.      *)
THEOREM TypeCorrect == Spec => []TypeOK
<1>1. IInv => TypeOK
  BY Zenon, TypeParts DEF IInv
<1> QED BY <1>1, Invariant, PTL

(* The counter of the DMA chip holds the address whose three bytes were    *)
(* loaded in order, whatever it held and whatever carried between them.    *)
THEOREM LoadsInOrder == Spec => []DmaLoadsInOrder
<1>1. IInv => DmaLoadsInOrder
  <2>1. IInv /\ Len(dmaLoad) = 3 => dmaAddress = Triple(dmaLoad[3], dmaLoad[2], dmaLoad[1])
    BY Zenon DEF IInv, LoadTracksCounter
  <2> QED BY SMT, <2>1 DEF Triple, Even, DmaLoadsInOrder
<1> QED BY <1>1, Invariant, PTL

(* Memory remembers, for every pair of bank sizes but the ones that alias. *)
THEOREM Remembers == Spec => []MemoryRemembers
<1>1. IInv => MemoryRemembers
  <2> SUFFICES ASSUME IInv, NEW a \in Program.touches,
                      written[a] # Unknown, ~ InWideBank(a)
               PROVE  Readable(a, 5) /\ ReadByteFC(a) = written[a]
    BY Zenon DEF MemoryRemembers
  <2>1. IsRam(a) /\ ram[Cell(a)] = written[a]
    BY Zenon DEF IInv, Remembered
  <2>2. a \in Int
    BY Zenon, TouchesAreAddresses DEF IInv
  <2> QED BY Zenon, <2>1, <2>2, RamIsRead
<1> QED BY <1>1, Invariant, PTL

(* The alias by which the ROM tells the size of the chips is at the        *)
(* kilobyte, and not at half of it, in every memory set to 2 MiB.          *)
THEOREM SizingWorks == Spec => []SizingFindsTheChips
<1>1. IInv => SizingFindsTheChips
  <2> SUFFICES ASSUME IInv, NEW a \in Program.touches,
                      IsRam(a), InWideBank(a), (a \div 512) % 4 = 0
               PROVE  ReadByteFC(a) = ReadByteFC(a + 1024) /\ Cell(a) # Cell(a + 512)
    BY DEF SizingFindsTheChips
  <2>1. a \in Int /\ 0 <= a
    BY Zenon, TouchesAreAddresses DEF IInv
  <2>2. Cell(a) # NotMapped /\ Wide(mmuConfig, a)
    BY Zenon, WideIsWide DEF IsRam
  <2>3. Cell(a + 1024) = Cell(a) /\ Cell(a + 512) # Cell(a)
    BY <2>1, <2>2, WideBankWraps DEF Cell
  <2>4. a + 1024 \in Int /\ 0 <= a + 1024 /\ a + 1024 >= 8
    BY SMT, <2>1
  <2> DEFINE next == a + 1024
  <2>5. next \in Int /\ 0 <= next /\ next >= 8 /\ Cell(next) = Cell(a)
    BY <2>3, <2>4
  <2> HIDE DEF next
  <2>6. next < VoidTop
    BY <2>2, <2>5, MappedBelowTop DEF Cell
  <2>7. IsRam(next)
    BY <2>2, <2>5, <2>6 DEF IsRam
  <2>8. ReadByteFC(next) = ram[Cell(next)] /\ ReadByteFC(a) = ram[Cell(a)]
    BY <2>1, <2>5, <2>7, RamIsRead
  <2> QED BY <2>3, <2>5, <2>8 DEF next
<1> QED BY <1>1, Invariant, PTL

-----------------------------------------------------------------------------
(* A byte, a plane's word and a pixel, bit by bit.                         *)
LEMMA BitOfAByte ==
  ASSUME NEW w \in Nat, NEW n \in 0 .. 15
  PROVE  Bit(w, n) \in {0, 1}
<1>1. ASSUME NEW d \in Nat \ {0} PROVE (w \div d) % 2 \in {0, 1}
  <2>1. w \div d \in Int
    BY SMT, <1>1
  <2> QED BY SMT, <2>1
<1>2. 2 ^ n \in Nat \ {0}
  <2>1. \/ n = 0 \/ n = 1 \/ n = 2 \/ n = 3 \/ n = 4 \/ n = 5 \/ n = 6 \/ n = 7
        \/ n = 8 \/ n = 9 \/ n = 10 \/ n = 11 \/ n = 12 \/ n = 13 \/ n = 14 \/ n = 15
    BY SMT
  <2>2. /\ 2 ^ 0 \in Nat \ {0} /\ 2 ^ 1 \in Nat \ {0} /\ 2 ^ 2 \in Nat \ {0} /\ 2 ^ 3 \in Nat \ {0}
        /\ 2 ^ 4 \in Nat \ {0} /\ 2 ^ 5 \in Nat \ {0} /\ 2 ^ 6 \in Nat \ {0} /\ 2 ^ 7 \in Nat \ {0}
        /\ 2 ^ 8 \in Nat \ {0} /\ 2 ^ 9 \in Nat \ {0} /\ 2 ^ 10 \in Nat \ {0} /\ 2 ^ 11 \in Nat \ {0}
        /\ 2 ^ 12 \in Nat \ {0} /\ 2 ^ 13 \in Nat \ {0} /\ 2 ^ 14 \in Nat \ {0} /\ 2 ^ 15 \in Nat \ {0}
    BY SMT
  <2> QED BY Zenon, <2>1, <2>2
<1> QED BY Zenon, <1>1, <1>2 DEF Bit

LEMMA HighBits ==
  ASSUME NEW high \in Byte, NEW low \in Byte, NEW x \in 0 .. 7
  PROVE  Bit((256 * high) + low, 15 - x) = Bit(high, 7 - x)
<1>1. x \in {0, 1, 2, 3, 4, 5, 6, 7}
  BY SMT
<1>2. high \in Int /\ low \in Int /\ 0 <= low /\ low < 256
  BY SMT DEF Byte
<1> DEFINE word == (256 * high) + low
<1>3. /\ word \div (2 ^ 15) = high \div (2 ^ 7) /\ word \div (2 ^ 14) = high \div (2 ^ 6)
      /\ word \div (2 ^ 13) = high \div (2 ^ 5) /\ word \div (2 ^ 12) = high \div (2 ^ 4)
      /\ word \div (2 ^ 11) = high \div (2 ^ 3) /\ word \div (2 ^ 10) = high \div (2 ^ 2)
      /\ word \div (2 ^ 9) = high \div (2 ^ 1) /\ word \div (2 ^ 8) = high \div (2 ^ 0)
  BY SMT, <1>2
<1> HIDE DEF word
<1>4. \/ (15 - x = 15 /\ 7 - x = 7) \/ (15 - x = 14 /\ 7 - x = 6)
      \/ (15 - x = 13 /\ 7 - x = 5) \/ (15 - x = 12 /\ 7 - x = 4)
      \/ (15 - x = 11 /\ 7 - x = 3) \/ (15 - x = 10 /\ 7 - x = 2)
      \/ (15 - x = 9 /\ 7 - x = 1) \/ (15 - x = 8 /\ 7 - x = 0)
  BY SMT, <1>1
<1>5. word \div (2 ^ (15 - x)) = high \div (2 ^ (7 - x))
  BY Zenon, <1>3, <1>4
<1> QED BY Zenon, <1>5 DEF Bit, word

LEMMA LowBits ==
  ASSUME NEW high \in Byte, NEW low \in Byte, NEW n \in 0 .. 7
  PROVE  Bit((256 * high) + low, n) = Bit(low, n)
<1>1. n = 0 \/ n = 1 \/ n = 2 \/ n = 3 \/ n = 4 \/ n = 5 \/ n = 6 \/ n = 7
  BY SMT
<1>2. high \in Int /\ low \in Int /\ 0 <= low /\ low < 256
  BY SMT DEF Byte
<1> DEFINE word == (256 * high) + low
<1>3. /\ (word \div (2 ^ 7)) % 2 = (low \div (2 ^ 7)) % 2
      /\ (word \div (2 ^ 6)) % 2 = (low \div (2 ^ 6)) % 2
      /\ (word \div (2 ^ 5)) % 2 = (low \div (2 ^ 5)) % 2
      /\ (word \div (2 ^ 4)) % 2 = (low \div (2 ^ 4)) % 2
      /\ (word \div (2 ^ 3)) % 2 = (low \div (2 ^ 3)) % 2
      /\ (word \div (2 ^ 2)) % 2 = (low \div (2 ^ 2)) % 2
      /\ (word \div (2 ^ 1)) % 2 = (low \div (2 ^ 1)) % 2
      /\ (word \div (2 ^ 0)) % 2 = (low \div (2 ^ 0)) % 2
  BY SMT, <1>2
<1> HIDE DEF word
<1>4. (word \div (2 ^ n)) % 2 = (low \div (2 ^ n)) % 2
  BY Zenon, <1>1, <1>3
<1> QED BY Zenon, <1>4 DEF Bit, word

LEMMA IndexBits ==
  ASSUME NEW b0 \in {0, 1}, NEW b1 \in {0, 1}, NEW b2 \in {0, 1}, NEW b3 \in {0, 1}
  PROVE  /\ Bit(b0 + (2 * b1) + (4 * b2) + (8 * b3), 0) = b0
         /\ Bit(b0 + (2 * b1) + (4 * b2) + (8 * b3), 1) = b1
         /\ Bit(b0 + (2 * b1) + (4 * b2) + (8 * b3), 2) = b2
         /\ Bit(b0 + (2 * b1) + (4 * b2) + (8 * b3), 3) = b3
  BY SMT DEF Bit

(* The last byte of a frame is one of those that are looked at. *)
LEMMA FrameIsFinite ==
  /\ FrameBytes \in Int /\ FrameBytes - 1 \in FrameOffsets
  /\ \A o \in FrameOffsets : o \in Int /\ 0 <= o /\ o < 32000
<1>1. FrameBytes \in Int /\ FrameBytes <= 32000
  BY SMT, FrameSizeAssumption
<1>2. /\ FrameBytes - 1 \in FrameOffsets
      /\ \A o \in FrameOffsets : o \in Nat /\ o < FrameBytes
  BY Zenon, FrameAssumption
<1> QED BY SMT, <1>1, <1>2

(* The bytes of a frame above the vectors, as both readers find them.      *)
LEMMA FrameAddresses ==
  ASSUME IInv, ProgrammedVideoBase # 0, NEW o \in FrameOffsets
  PROVE  /\ ProgrammedVideoBase + o \in Int /\ 0 <= ProgrammedVideoBase + o
         /\ 256 <= ProgrammedVideoBase + o /\ ProgrammedVideoBase + o < CartridgeBase
<1>1. o \in Int /\ 0 <= o /\ o < 32000
  BY SMT, FrameIsFinite
<1>2. baseHigh \in 0 .. 63 /\ baseMiddle \in 0 .. 255
  BY Zenon DEF IInv, ScreenType, Byte
<1>3. ProgrammedVideoBase = (baseHigh * 65536) + (baseMiddle * 256)
  BY SMT DEF ProgrammedVideoBase, BaseOf
<1>4. /\ ProgrammedVideoBase \in Int /\ 256 <= ProgrammedVideoBase
      /\ ProgrammedVideoBase <= 4194048
  BY SMT, <1>2, <1>3
<1>5. CartridgeBase = 16384000
  BY SMT DEF CartridgeBase
<1> QED BY SMT, <1>1, <1>4, <1>5

(* Between the vectors and the cartridge only RAM answers. *)
LEMMA OnlyRamAnswers ==
  ASSUME NEW a \in Int, 256 <= a, a < CartridgeBase, Readable(a, 5)
  PROVE  IsRam(a)
<1>1. a \notin Registers
  BY SMT DEF Registers, CartridgeBase, IOBase, MMUConfig, VideoBaseHigh, VideoBaseMiddle,
     VideoSyncMode, ShifterResolution, STDMAAddressHigh, STDMAAddressMiddle, STDMAAddressLow
<1>2. ~ IsVoid(a)
  <2>1. a # STVoidDMAByte /\ a < STVoidRTCBase /\ STVoidRTCBase \in Int /\ STVoidRTCEnd \in Int
    BY SMT DEF CartridgeBase, IOBase, STVoidDMAByte, STVoidRTCBase, STVoidRTCEnd
  <2> QED BY SMT, <2>1 DEF IsVoid
<1>3. ~ IsReadOnly(a)
  <2>1. /\ ~ a < 8 /\ a < TOSROMBase /\ TOSROMBase \in Int /\ TOSROMEnd \in Int
        /\ CartridgeBase \in Int /\ CartridgeEnd \in Int
    BY SMT DEF CartridgeBase, CartridgeEnd, TOSROMBase, TOSROMEnd
  <2> QED BY SMT, <2>1 DEF IsReadOnly
<1> QED BY Zenon, <1>1, <1>2, <1>3 DEF Readable, Answers

LEMMA ShownByte ==
  ASSUME IInv, ProgrammedVideoBase # 0, NEW o \in FrameOffsets
  PROVE  LET a == ProgrammedVideoBase + o
         IN /\ Readable(a, 5) <=> Cell(a) # NotMapped
            /\ Readable(a, 5) => /\ a < VoidTop /\ ReadByteFC(a) = ram[Cell(a)]
                                 /\ ram[Cell(a)] \in Byte
<1> DEFINE a == ProgrammedVideoBase + o
<1>1. a \in Int /\ 0 <= a /\ 256 <= a /\ a < CartridgeBase
  BY FrameAddresses
<1>2. a >= 8
  BY SMT, <1>1
<1>3. Cell(a) # NotMapped => a < VoidTop
  BY <1>1, MappedBelowTop DEF Cell
<1>4. ram[Cell(a)] \in Byte \/ Cell(a) = NotMapped
  <2>1. PICK high \in Latched(program, VideoBaseHigh) : baseHigh = high % 64
    BY Zenon DEF IInv, BaseLatched
  <2>2. RamAddress(mmuConfig, BaseOf(high % 64, baseMiddle) + o) \in Program.cells \cup {NotMapped}
    BY Zenon, ScreenCellsAssumption DEF IInv, BaseLatched, Mapping, Program
  <2>3. Cell(a) \in Program.cells \cup {NotMapped}
    BY Zenon, <2>1, <2>2 DEF Cell, ProgrammedVideoBase
  <2>4. ram \in [Program.cells -> Byte]
    BY Zenon DEF IInv, MemoryType
  <2> HIDE DEF a
  <2> QED BY Zenon, <2>3, <2>4
<1> HIDE DEF a
<1>5. IsRam(a) <=> Cell(a) # NotMapped
  BY Zenon, <1>2, <1>3 DEF IsRam
<1>6. Readable(a, 5) => IsRam(a)
  BY Zenon, <1>1, OnlyRamAnswers
<1>7. IsRam(a) => Readable(a, 5) /\ ReadByteFC(a) = ram[Cell(a)]
  BY Zenon, <1>1, RamIsRead
<1>8. /\ Readable(a, 5) <=> Cell(a) # NotMapped
      /\ Readable(a, 5) => /\ a < VoidTop /\ ReadByteFC(a) = ram[Cell(a)]
                           /\ ram[Cell(a)] \in Byte
  BY Zenon, <1>3, <1>4, <1>5, <1>6, <1>7
<1> QED BY Zenon, <1>8 DEF a

(* A byte of a plane is eight bits of its group's pixels. *)
LEMMA PixelBits ==
  ASSUME NEW bytes, NEW g \in Int, NEW x \in 0 .. 15, NEW p \in 0 .. 3,
         \A i \in 0 .. 7 : bytes[g + i] \in Byte
  PROVE  Bit(bytes[g + (2 * p) + (x \div 8)], 7 - (x % 8)) = Bit(PixelIndex(bytes, g, x), p)
<1> DEFINE Word16(q) == (256 * bytes[g + (2 * q)]) + bytes[g + (2 * q) + 1]
           Plane(q) == Bit(Word16(q), 15 - x)
<1>1. ASSUME NEW q \in 0 .. 3
      PROVE  /\ Plane(q) \in {0, 1}
             /\ Plane(q) = Bit(bytes[g + (2 * q) + (x \div 8)], 7 - (x % 8))
  <2>1. 2 * q \in 0 .. 7 /\ (2 * q) + 1 \in 0 .. 7 /\ g + (2 * q) + 1 = g + ((2 * q) + 1)
    BY SMT, <1>1
  <2>2. bytes[g + (2 * q)] \in Byte /\ bytes[g + (2 * q) + 1] \in Byte
    BY Zenon, <2>1
  <2>3. Word16(q) \in Nat /\ 15 - x \in 0 .. 15
    <3> DEFINE high == bytes[g + (2 * q)]
               low == bytes[g + (2 * q) + 1]
    <3>1. high \in 0 .. 255 /\ low \in 0 .. 255
      BY <2>2 DEF Byte
    <3> HIDE DEF high, low
    <3>2. (256 * high) + low \in Nat /\ 15 - x \in 0 .. 15
      BY SMT, <3>1
    <3> QED BY Zenon, <3>2 DEF high, low
  <2>4. Plane(q) \in {0, 1}
    <3> HIDE DEF Word16
    <3> QED BY Zenon, <2>3, BitOfAByte
  <2>5. CASE x \in 0 .. 7
    <3>1. x \div 8 = 0 /\ x % 8 = x /\ g + (2 * q) + 0 = g + (2 * q)
      BY SMT, <1>1, <2>5
    <3>2. Plane(q) = Bit(bytes[g + (2 * q)], 7 - x)
      BY ZenonT(60), <2>2, <2>5, HighBits
    <3>3. bytes[g + (2 * q) + (x \div 8)] = bytes[g + (2 * q)]
      BY Zenon, <3>1
    <3> QED BY Zenon, <2>4, <3>1, <3>2, <3>3
  <2>6. CASE x \in 8 .. 15
    <3>1. x \div 8 = 1 /\ 7 - (x % 8) = 15 - x /\ 15 - x \in 0 .. 7
      BY SMT, <2>6
    <3>2. Plane(q) = Bit(bytes[g + (2 * q) + 1], 15 - x)
      BY ZenonT(60), <2>2, <3>1, LowBits
    <3> QED BY Zenon, <2>4, <3>1, <3>2
  <2> QED BY SMT, <2>5, <2>6
<1>2. PixelIndex(bytes, g, x)
        = Plane(0) + (2 * Plane(1)) + (4 * Plane(2)) + (8 * Plane(3))
  BY DEF PixelIndex, PlaneWord
<1>3. Plane(0) \in {0, 1} /\ Plane(1) \in {0, 1} /\ Plane(2) \in {0, 1} /\ Plane(3) \in {0, 1}
  <2>1. 0 \in 0 .. 3 /\ 1 \in 0 .. 3 /\ 2 \in 0 .. 3 /\ 3 \in 0 .. 3
    BY SMT
  <2> HIDE DEF Plane
  <2> QED BY Zenon, <1>1, <2>1
<1> HIDE DEF Plane
<1> DEFINE index == Plane(0) + (2 * Plane(1)) + (4 * Plane(2)) + (8 * Plane(3))
<1>4. /\ Bit(index, 0) = Plane(0) /\ Bit(index, 1) = Plane(1)
      /\ Bit(index, 2) = Plane(2) /\ Bit(index, 3) = Plane(3)
  BY <1>3, IndexBits
<1> HIDE DEF index
<1>5. p = 0 \/ p = 1 \/ p = 2 \/ p = 3
  BY SMT
<1>6. Bit(index, p) = Plane(p)
  BY Zenon, <1>4, <1>5
<1> QED BY Zenon, <1>1, <1>2, <1>6 DEF index

(***************************************************************************)
(* What the host is shown is what the Shifter scans, for every program,    *)
(* every mapping of the memory and every base above the vectors.           *)
(***************************************************************************)
THEOREM HostSees == Spec => []HostSeesTheScreen
<1>1. IInv => HostSeesTheScreen
  <2> SUFFICES ASSUME IInv, activeBase = ProgrammedVideoBase, activeBase # 0
               PROVE  /\ Framebuffer.shown = LowResolutionFrame.shown
                      /\ Framebuffer.shown =>
                           \A g \in Groups, p \in 0 .. 3, x \in 0 .. 15 :
                             Bit(Framebuffer.bytes[g + (2 * p) + (x \div 8)], 7 - (x % 8))
                               = Bit(PixelIndex(LowResolutionFrame.bytes, g, x), p)
    BY Zenon DEF HostSeesTheScreen
  <2> DEFINE At(o) == ProgrammedVideoBase + o
             hostBytes == [o \in FrameOffsets |->
                             IF Readable(At(o), 5) THEN ReadByteFC(At(o)) ELSE 0]
             scanBytes == [o \in FrameOffsets |->
                             IF Cell(At(o)) # NotMapped THEN ram[Cell(At(o))] ELSE 0]
  <2>1. /\ Framebuffer.shown = (\A o \in FrameOffsets : Readable(At(o), 5))
        /\ Framebuffer.bytes = hostBytes
    BY Zenon DEF Framebuffer
  <2>2. /\ LowResolutionFrame.shown
             = (ScannedWindow /\ \A o \in FrameOffsets : Cell(At(o)) # NotMapped)
        /\ LowResolutionFrame.bytes = scanBytes
    BY Zenon DEF LowResolutionFrame
  <2>3. ASSUME NEW o \in FrameOffsets
        PROVE  /\ Readable(At(o), 5) <=> Cell(At(o)) # NotMapped
               /\ Readable(At(o), 5) => /\ At(o) < VoidTop /\ ReadByteFC(At(o)) = ram[Cell(At(o))]
                                        /\ ram[Cell(At(o))] \in Byte
    BY Zenon, ShownByte
  <2>4. (\A o \in FrameOffsets : Readable(At(o), 5)) => ScannedWindow
    <3> SUFFICES ASSUME \A o \in FrameOffsets : Readable(At(o), 5) PROVE ScannedWindow
      OBVIOUS
    <3>1. FrameBytes - 1 \in FrameOffsets /\ FrameBytes \in Int
      BY FrameIsFinite
    <3>2. ProgrammedVideoBase + (FrameBytes - 1) < VoidTop
      BY Zenon, <2>3, <3>1
    <3>3. ProgrammedVideoBase \in Int
      BY SMT, BaseInMemory, VoidTopIsAnInteger DEF IInv, ScreenType
    <3> QED BY SMT, <3>1, <3>2, <3>3, VoidTopIsAnInteger DEF ScannedWindow
  <2> HIDE DEF At
  <2>5. Framebuffer.shown = LowResolutionFrame.shown
    BY Zenon, <2>1, <2>2, <2>3, <2>4
  <2>6. ASSUME Framebuffer.shown, NEW g \in Groups, NEW p \in 0 .. 3, NEW x \in 0 .. 15
        PROVE  Bit(Framebuffer.bytes[g + (2 * p) + (x \div 8)], 7 - (x % 8))
                 = Bit(PixelIndex(LowResolutionFrame.bytes, g, x), p)
    <3>1. hostBytes = scanBytes
      BY Zenon, <2>1, <2>3, <2>6
    <3>2. g \in Int /\ \A i \in 0 .. 7 : g + i \in FrameOffsets
      <4>1. g \in FrameOffsets /\ \A i \in 0 .. 7 : g + i \in FrameOffsets
        BY Zenon DEF Groups
      <4> QED BY SMT, <4>1, FrameIsFinite
    <3>3. \A i \in 0 .. 7 : scanBytes[g + i] \in Byte
      BY Zenon, <2>1, <2>3, <2>6, <3>2
    <3> HIDE DEF hostBytes, scanBytes
    <3>4. Bit(scanBytes[g + (2 * p) + (x \div 8)], 7 - (x % 8)) = Bit(PixelIndex(scanBytes, g, x), p)
      BY Zenon, <3>2, <3>3, PixelBits
    <3> QED BY Zenon, <2>1, <2>2, <3>1, <3>4
  <2> QED BY Zenon, <2>5, <2>6
<1> QED BY <1>1, Invariant, PTL

-----------------------------------------------------------------------------
(* What a program in user mode cannot reach. *)

LEMMA UserStaysAbove ==
  ASSUME NEW a \in Int, NEW fc \in {1, 2}, MayAccess(a, fc)
  PROVE  SystemTop <= a
<1>1. a \in 2048 .. (IOBase - 1)
  BY SMT DEF MayAccess, User
<1>2. IOBase \in Int
  BY SMT DEF IOBase
<1> QED BY SMT, <1>1, <1>2 DEF SystemTop

LEMMA NotTheSystems ==
  ASSUME NEW a \in Int, SystemTop <= a, IsRam(a), ~ Folded(mmuConfig),
         NEW c, c < SystemTop
  PROVE  c # Cell(a)
  BY Zenon, SystemCells DEF IsRam, Cell

LEMMA UserStep ==
  ASSUME IInv, UserWrites, ~ Folded(mmuConfig),
         NEW c \in DOMAIN ram, c < SystemTop
  PROVE  ram'[c] = ram[c]
<1>1. PICK a \in Program.touches, fc \in {1, 2} : WriteByteFC(a, fc) \/ WriteWord(a, fc)
  BY Zenon DEF UserWrites
<1>2. MayAccess(a, fc)
  BY Zenon, <1>1 DEF WriteByteFC, WriteWord
<1>3. a \in Int /\ a + 1 \in Int
  BY Zenon, TouchesAreAddresses DEF IInv
<1>4. SystemTop <= a
  BY <1>2, <1>3, UserStaysAbove
<1>5. ASSUME NEW v, StoreByte(a, v)
      PROVE  ram'[c] = ram[c]
  <2>1. c # Cell(a)
    BY Zenon, <1>3, <1>4, <1>5, NotTheSystems DEF StoreByte
  <2> QED BY Zenon, <1>5, <2>1 DEF StoreByte
<1>6. ASSUME NEW w, StoreWord(a, w, fc)
      PROVE  ram'[c] = ram[c]
  <2>1. SystemTop <= a + 1
    BY <1>3, <1>6, UserStaysAbove DEF StoreWord
  <2>2. c # Cell(a) /\ c # Cell(a + 1)
    BY Zenon, <1>3, <1>4, <1>6, <2>1, NotTheSystems DEF StoreWord
  <2> QED BY SMT, <1>6, <2>2 DEF StoreWord
<1>7. ASSUME NEW v, WriteRegister(a, v)
      PROVE  ram'[c] = ram[c]
  BY Zenon, <1>7 DEF WriteRegister, WriteMmu, WriteVideoBase, WriteSyncMode, WriteDmaAddress
<1>8. ASSUME NEW w, StoreColour(a, w)
      PROVE  ram'[c] = ram[c]
  BY Zenon, <1>8 DEF StoreColour
<1> QED BY Zenon, <1>1, <1>5, <1>6, <1>7, <1>8 DEF WriteByteFC, WriteWord

(* The vectors and system variables are out of reach of user mode through  *)
(* every address, in every mapping that does not fold the memory.          *)
THEOREM SystemSafe == Spec => SystemRamIsSafe
<1> DEFINE Safe == (\E c \in DOMAIN ram : c < 2048 /\ ram'[c] # ram[c]) =>
                      (~ UserWrites \/ LogicalBank0(mmuConfig) = 2048 * K)
<1>1. IInv /\ [Next]_vars => [Safe]_vars
  <2>1. IInv => Safe
    BY UserStep DEF SystemTop, Folded
  <2> QED BY <2>1
<1> QED BY <1>1, Invariant, PTL DEF Spec, SystemRamIsSafe

=============================================================================
