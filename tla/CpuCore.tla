------------------------------- MODULE CpuCore -------------------------------
(***************************************************************************)
(* The MC68000 of internal/m68k/cpu.go, first part: its state, the bus, the*)
(* prefetch pipeline, the two stack pointers, the exceptions, and how an   *)
(* operand is found and read.  The instructions are in CpuArithmetic,      *)
(* CpuBytes and Cpu.                                                       *)
(*                                                                         *)
(* An instruction is a function from processor records to processor        *)
(* records, put together from the steps the Go method makes in its order.  *)
(* A step does nothing unless the instruction is still "running"; a Go     *)
(* error makes it "failed", an exception of the guest "trapped", and both  *)
(* keep what the steps before them committed.                              *)
(*                                                                         *)
(* A word of the program is known by its address: prefetch holds the two   *)
(* addresses the pipeline was filled from, and Words gives the decoded     *)
(* word at each of them.                                                   *)
(***************************************************************************)
EXTENDS Alu, FiniteSets, Sequences

CONSTANTS Guests,     \* the guest programs by name
          LongSize,   \* 2^32 in the program
          Levels      \* the interrupts that arrive: level and vector

(* A guest has words: the ROM, a function on even addresses, each an       *)
(* instruction or [op |-> "word", value |-> ...]; cells: the words of RAM; *)
(* and interrupts, a bound on those that arrive while it runs.             *)
ASSUME CpuAssumption ==
  /\ LongSize \in Nat /\ LongSize % 65536 = 0 /\ LongSize > 65536
  /\ \A l \in Levels : l.level \in 1 .. 6 /\ l.vector \in 2 .. 255
  /\ \A g \in DOMAIN Guests : Guests[g].interrupts \in Nat

(* An instruction has the fields its opcode has, as wide as they are there, *)
(* and one on bytes those of its form.                                     *)
Registers8 == 0 .. 7
WordRange  == 0 .. 65535

OfRegister ==
  {"MOVEQ", "SWAP", "EXT.W", "EXT.L", "DBcc", "LINK", "UNLK", "shift", "Scc", "bit", "EXG", "CMPM",
   "MOVE to USP", "MOVE from USP"}

OfOperand ==
  {"LEA", "PEA", "JMP", "JSR", "MOVE.W", "MOVE.L", "MOVEM", "to register", "from register",
   "immediate", "quick", "one operand", "extended", "to address register", "TST", "multiply",
   "divide", "MOVE to SR", "MOVE to CCR", "MOVE from SR", "move", "TAS"}

OfTwoRegisters ==
  {"LEA", "MOVE.W", "MOVE.L", "to register", "from register", "extended", "to address register",
   "multiply", "divide", "EXG", "CMPM", "move"}

ByteForms ==
  {"move", "to register", "from register", "immediate", "quick", "shift", "extended", "CMPM",
   "TST", "Scc", "TAS", "bit"}

Form(i) == IF i.op = "byte" THEN i.form ELSE i.op

EncodedKind(form, i) ==
  /\ form \in {"to register", "from register", "immediate"} =>
       i.kind \in {"ADD", "SUB", "CMP", "AND", "OR", "EOR"}
  /\ form = "extended" => i.kind \in {"ADDX", "SUBX"}
  /\ form = "bit" => i.kind \in {"BTST", "BCHG", "BCLR", "BSET"} /\ (~ i.immediate => i.dreg \in Registers8)
  /\ form = "logical to status" => i.kind \in {"AND", "OR", "EOR"}

EncodedByte(form, i) ==
  /\ form \in {"MOVEQ", "BSR", "Bcc"} => i.byte \in 0 .. 255
  /\ form = "TRAP"  => i.byte \in 0 .. 15
  /\ form = "quick" => i.byte \in 1 .. 8
  /\ form = "shift" => IF i.counted THEN i.dreg \in Registers8 ELSE i.byte \in 1 .. 8

EncodedOperands(form, i) ==
  /\ form \in OfRegister \cup OfOperand => i.reg \in Registers8
  /\ form \in OfOperand \/ (i.op = "byte" /\ form \in {"Scc", "bit"}) => i.mode \in Registers8
  /\ form \in OfTwoRegisters => i.dreg \in Registers8
  /\ form \in {"MOVE.W", "MOVE.L", "move"} => i.dmode \in Registers8

Encoded(i) ==
  /\ i.op = "word" => i.value \in WordRange
  /\ i.op = "byte" => i.form \in ByteForms
  /\ EncodedKind(Form(i), i) /\ EncodedByte(Form(i), i) /\ EncodedOperands(Form(i), i)

ASSUME InstructionAssumption ==
  \A g \in DOMAIN Guests : \A a \in DOMAIN Guests[g].words : Encoded(Guests[g].words[a])

VARIABLES
  guest,      \* the name of the program in the ROM
  cpu,        \* CPU.State, CPU.stopped, the RAM, and how the last step ended
  frames,     \* history: the exceptions being served, the innermost first
  arrivals    \* interrupts so far, bounded by interrupts

cpuVars == <<guest, cpu, frames, arrivals>>

Words == Guests[guest].words
Cells == Guests[guest].cells

-----------------------------------------------------------------------------
(* Numbers. *)

HighWords == LongSize \div 65536

(* Mutant of Add: the sum does not wrap. *)
AddUnbounded(x, n) == x + n

Add(x, n) == (x + n) % LongSize

SignedByte(b) == Signed(b, 256)
SignedWord(w) == Signed(w, 65536)

High(x) == x \div 65536
Low(x)  == x % 65536
Long(high, low) == ((high % HighWords) * 65536) + low

SetLow(x, w) == (High(x) * 65536) + w
SetLowByte(x, b) == (x - (x % 256)) + b
Bit(w, n) == (w \div (2 ^ n)) % 2

-----------------------------------------------------------------------------
(* The status register: T, S, the interrupt mask and the condition codes.  *)

Supervisor(c) == (c.sr \div 8192) % 2 = 1
Mask(c) == (c.sr \div 256) % 8

InSupervisorMode(sr) ==            \* SR | 0x2000, SR &^ 0x8000
  LET s == sr % 32768 IN IF (s \div 8192) % 2 = 1 THEN s ELSE s + 8192

WithMask(sr, level) == ((sr \div 2048) * 2048) + (level * 256) + (sr % 256)

Implemented(w) ==                  \* w & 0xa71f
  (Bit(w, 15) * 32768) + (Bit(w, 13) * 8192) + (((w \div 256) % 8) * 256) + (w % 32)

ProgramFC(c) == IF Supervisor(c) THEN 6 ELSE 2
DataFC(c)    == IF Supervisor(c) THEN 5 ELSE 1

SetFlags(c, f) == [c EXCEPT !.sr = WithFlags(@, f)]

SetLogicalFlagsWord(c, w) == SetFlags(c, LogicalFlags(w, 65536, Flags(c.sr)))
SetLogicalFlagsLong(c, x) == SetFlags(c, LogicalFlags(x, LongSize, Flags(c.sr)))

-----------------------------------------------------------------------------
(* The bus. *)

BusAddress(a) == a % 16777216      \* addressMask

CanRead(c, a, fc) ==
  /\ BusAddress(a) % 2 = 0
  /\ fc \in {1, 2} => BusAddress(a) >= 2048
  /\ BusAddress(a) \in DOMAIN Words \cup DOMAIN c.ram

CanWrite(c, a, fc) ==
  /\ fc \in {1, 2} => BusAddress(a) >= 2048
  /\ BusAddress(a) \in DOMAIN c.ram

Instruction(a) ==
  IF BusAddress(a) \in DOMAIN Words THEN Words[BusAddress(a)] ELSE [op |-> "word"]

(* The opcode of an instruction is a word no guest looks at: its address.  *)
WordAt(c, a) ==
  LET b == BusAddress(a)
  IN CASE b \in DOMAIN c.ram -> c.ram[b]
       [] b \in DOMAIN Words \ DOMAIN c.ram /\ Words[b].op = "word" -> Words[b].value
       [] OTHER -> Low(b)

LongAt(c, a) == Long(WordAt(c, a), WordAt(c, a + 2))

Extension(c) == WordAt(c, c.prefetch[2])

-----------------------------------------------------------------------------
(* The steps of an instruction. *)

Running(c) == c.at = "running"
Fail(c) == [c EXCEPT !.at = "failed"]

Commit(c, d) == IF Running(c) THEN d ELSE c

Reads(c, fc, addresses) ==
  IF Running(c) /\ \E a \in addresses : ~ CanRead(c, a, fc) THEN Fail(c) ELSE c

Write(c, fc, a, w) ==
  IF ~ Running(c) THEN c
  ELSE IF CanWrite(c, a, fc) THEN [c EXCEPT !.ram = [@ EXCEPT ![BusAddress(a)] = w]]
       ELSE Fail(c)

WriteLong(c, fc, a, x) == Write(Write(c, fc, a, High(x)), fc, a + 2, Low(x))

AddressRegister(c, r) ==
  IF r < 7 THEN c.a[r] ELSE IF Supervisor(c) THEN c.ssp ELSE c.usp

SetAddressRegister(c, r, x) ==
  CASE r < 7 -> [c EXCEPT !.a = [@ EXCEPT ![r] = x]]
    [] r = 7 /\ Supervisor(c) -> [c EXCEPT !.ssp = x]
    [] OTHER -> [c EXCEPT !.usp = x]

SetDataRegister(c, r, x) == [c EXCEPT !.d = [@ EXCEPT ![r] = x]]

Fetch(c, t) == Reads(c, ProgramFC(c), {t})

(* Mutant of ConsumeExtension: the pipeline moves before the fetch is known *)
(* to succeed.                                                             *)
ConsumeBeforeTheFetch(c) ==
  Commit(c, Reads([c EXCEPT !.prefetch = <<c.prefetch[2], c.pc>>], ProgramFC(c), {c.pc}))

Shift(c) == Commit(c, [c EXCEPT !.prefetch = <<c.prefetch[2], c.pc>>, !.pc = Add(c.pc, 2)])

ConsumeExtension(c) == Shift(Fetch(c, c.pc))

Refill(c) == ConsumeExtension(c)

FetchFrom(c, t) == [c EXCEPT !.prefetch = <<t, Add(t, 2)>>, !.pc = Add(Add(t, 2), 2)]

Fill(c, t) == Commit(c, FetchFrom(c, t))

RefillBranch(c, t) == Fill(Reads(c, ProgramFC(c), {t, t + 2}), t)

MoveStack(c, sp) == Commit(c, SetAddressRegister(c, 7, sp))

PushAt(c, sp, x) == MoveStack(WriteLong(c, DataFC(c), sp, x), sp)

PushLong(c, x) == PushAt(c, Add(AddressRegister(c, 7), -4), x)

-----------------------------------------------------------------------------
(* Exceptions: the frame is written and the handler fetched before any     *)
(* register changes.                                                       *)

HandlerReads(c, vectorAddress, handler) ==
  Reads(Reads(c, 5, {vectorAddress, vectorAddress + 2}), 6, {handler, handler + 2})

AtHandler(h, sp, handler) ==
  Commit(h, [FetchFrom(h, handler) EXCEPT
               !.ssp = sp, !.sr = InSupervisorMode(@), !.at = "trapped"])

(* Mutant of EnterHandler: the stack pointer moves before the fetch. *)
EnterHandlerEarly(c, sp, vectorAddress) ==
  AtHandler(HandlerReads(Commit(c, [c EXCEPT !.ssp = sp]), vectorAddress, LongAt(c, vectorAddress)),
            sp, LongAt(c, vectorAddress))

EnterHandler(c, sp, vectorAddress) ==
  AtHandler(HandlerReads(c, vectorAddress, LongAt(c, vectorAddress)), sp, LongAt(c, vectorAddress))

WriteStatus(c, a) == Write(c, 5, a, c.sr)

ShortFrame(c, sp, savedPC) ==
  Write(WriteStatus(Write(c, 5, sp + 4, Low(savedPC)), sp), 5, sp + 2, High(savedPC))

StandardException(c, vector, savedPC) ==
  EnterHandler(ShortFrame(c, Add(c.ssp, -6), savedPC), Add(c.ssp, -6), 4 * vector)

PrivilegeViolation(c) == StandardException(c, 8, Add(c.pc, -4))

BusErrorVector     == 8
AddressErrorVector == 12

StatusWord(fc, read) == fc + (IF read THEN 16 ELSE 0)

OldFrame(c, sp, savedPC) ==
  Write(WriteStatus(Write(c, 5, sp + 12, Low(savedPC)), sp + 8), 5, sp + 10, High(savedPC))

AccessFrame(c, sp, opcode, target, status) ==
  Write(Write(Write(Write(c, 5, sp + 6, Low(opcode)), 5, sp + 4, Low(target)),
              5, sp, status), 5, sp + 2, High(target))

AccessErrorAt(c, sp, opcode, target, savedPC, status, vectorAddress) ==
  EnterHandler(AccessFrame(OldFrame(c, sp, savedPC), sp, opcode, target, status), sp, vectorAddress)

AccessError(c, opcode, target, savedPC, fc, read, vectorAddress) ==
  AccessErrorAt(c, Add(c.ssp, -14), opcode, target, savedPC, StatusWord(fc, read), vectorAddress)

InstructionAddressError(c, target, savedPC) ==
  AccessError(c, c.prefetch[1], target, savedPC, ProgramFC(c), TRUE, AddressErrorVector)

(* To an odd address an address error, to any other a branch. *)
BranchTo(c, target, savedPC) ==
  IF Running(c) /\ target % 2 = 1
  THEN InstructionAddressError(c, target, savedPC)
  ELSE RefillBranch(c, target)

-----------------------------------------------------------------------------
(* Effective addresses.  The extension words of an operand are in the      *)
(* pipeline, those of JMP, JSR, LEA and PEA are not consumed.              *)

IndexRegister(c, e, r) == IF Bit(e, 15) = 1 THEN AddressRegister(c, r) ELSE c.d[r]

IndexValue(e, x) == IF Bit(e, 11) = 1 THEN x ELSE SignedWord(Low(x))

BriefIndex(c, e) == IndexValue(e, IndexRegister(c, e, (e \div 4096) % 8)) + SignedByte(e % 256)

Base(c, mode, reg) ==
  CASE mode < 7 -> AddressRegister(c, reg)
    [] mode = 7 /\ reg = 0 -> 0
    [] mode = 7 /\ reg > 0 -> c.pc - 2

Offset(c, mode, reg, e) ==
  CASE mode \in {2, 3} -> 0
    [] mode = 4 -> -2
    [] mode = 6 \/ (mode = 7 /\ reg = 3) -> BriefIndex(c, e)
    [] OTHER -> SignedWord(e)

EffectiveAddress(c, mode, reg) ==
  IF mode = 7 /\ reg = 1 THEN Long(Extension(c), WordAt(c, c.pc))
  ELSE Add(Base(c, mode, reg), Offset(c, mode, reg, Extension(c)))

ExtensionWords(mode, reg) ==
  CASE mode < 5 -> 0
    [] mode = 7 /\ reg = 1 -> 2
    [] OTHER -> 1

AfterExtensions(c, mode, reg) ==
  CASE ExtensionWords(mode, reg) = 0 -> c
    [] ExtensionWords(mode, reg) = 1 -> ConsumeExtension(c)
    [] OTHER -> ConsumeExtension(ConsumeExtension(c))

PcRelative(mode, reg) == mode = 7 /\ reg \in {2, 3}

IsControlMode(i) == i.mode \in {2, 5, 6} \/ (i.mode = 7 /\ i.reg <= 3)

(* Only an absolute long address needs a word that is not in the pipeline. *)
DecodeControlEA(c, i) ==
  CASE ~ IsControlMode(i) -> Fail(c)
    [] i.mode = 7 /\ i.reg = 1 -> Reads(c, ProgramFC(c), {c.pc})
    [] OTHER -> c

ControlTarget(c, i) == EffectiveAddress(c, i.mode, i.reg)

AfterOperand(c, i) == Add(c.pc, 2 * (ExtensionWords(i.mode, i.reg) - 1))

RefillSequential(c, i) ==
  IF ExtensionWords(i.mode, i.reg) = 0 THEN ConsumeExtension(c)
  ELSE RefillBranch(c, AfterOperand(c, i))

-----------------------------------------------------------------------------
(* Operands of words and longs, read.                                       *)

Size(long)  == IF long THEN LongSize ELSE 65536
Bytes(long) == IF long THEN 4 ELSE 2

Part(long, x) == IF long THEN x ELSE Low(x)

IsRegister(mode) == mode < 2
IsImmediate(mode, reg) == mode = 7 /\ reg = 4
IsNoOperand(mode, reg) == mode = 7 /\ reg > 4
IsMemory(mode, reg) == mode \in 2 .. 6 \/ (mode = 7 /\ reg < 4)

(* MOVE from memory to an absolute long address looks at both words of it   *)
(* in place.                                                               *)
AbsoluteFromMemory(i) == i.dmode = 7 /\ i.dreg = 1 /\ IsMemory(i.mode, i.reg)

(* What an access error in the source operand saves as the program counter. *)
SourceFaultPC(long, pc, mode, reg) ==
  CASE (mode = 4 /\ ~ long) \/ (mode = 7 /\ reg = 0) -> pc
    [] mode = 7 /\ reg = 1 -> Add(pc, 2)
    [] OTHER -> Add(pc, -2)

OperandAddress(c, long, mode, reg) ==
  IF mode = 4 THEN Add(AddressRegister(c, reg), -Bytes(long)) ELSE EffectiveAddress(c, mode, reg)

Moved(c, r, n) == Commit(c, SetAddressRegister(c, r, Add(AddressRegister(c, r), n)))

(* The address register of a source has moved when its access faults, but   *)
(* that of a long that is incremented afterwards has not.                   *)
SourceMoved(c, long, mode, reg) ==
  CASE mode = 3 -> IF long THEN c ELSE Moved(c, reg, 2)
    [] mode = 4 -> Moved(c, reg, -Bytes(long))
    [] OTHER    -> AfterExtensions(c, mode, reg)

(* An odd address is an address error and a word that does not answer a bus *)
(* error, both the guest's to handle; a long that does not answer is a Go   *)
(* error.                                                                   *)
SourceAccess(s, opcode, long, address, savedPC, fc) ==
  CASE ~ Running(s) -> s
    [] Running(s) /\ address % 2 = 1 ->
         AccessError(s, opcode, address, savedPC, fc, TRUE, AddressErrorVector)
    [] Running(s) /\ address % 2 = 0 /\ ~ long /\ ~ CanRead(s, address, fc) ->
         AccessError(s, opcode, address, savedPC, fc, TRUE, BusErrorVector)
    [] OTHER -> Reads(s, fc, IF long THEN {address, address + 2} ELSE {address})

ImmediateConsumed(c, long) ==
  IF long THEN ConsumeExtension(ConsumeExtension(c)) ELSE ConsumeExtension(c)

MemoryRead(s, long, mode, reg) == IF long /\ mode = 3 THEN Moved(s, reg, 4) ELSE s

ReadSource(c, opcode, long, mode, reg) ==
  LET fc == IF PcRelative(mode, reg) THEN ProgramFC(c) ELSE DataFC(c)
  IN CASE IsRegister(mode) -> c
       [] IsImmediate(mode, reg) -> ImmediateConsumed(c, long)
       [] IsNoOperand(mode, reg) -> Commit(c, Fail(c))
       [] OTHER ->
            MemoryRead(SourceAccess(SourceMoved(c, long, mode, reg), opcode, long,
                                    OperandAddress(c, long, mode, reg),
                                    SourceFaultPC(long, c.pc, mode, reg), fc), long, mode, reg)

ValueAt(c, long, a) == IF long THEN LongAt(c, a) ELSE WordAt(c, a)

SourceValue(c, long, mode, reg) ==
  CASE mode = 0 -> Part(long, c.d[reg])
    [] mode = 1 -> Part(long, AddressRegister(c, reg))
    [] IsImmediate(mode, reg) ->
         IF long THEN Long(Extension(c), WordAt(c, c.pc)) ELSE Extension(c)
    [] OTHER -> ValueAt(c, long, OperandAddress(c, long, mode, reg))

=============================================================================
