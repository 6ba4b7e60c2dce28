--------------------------------- MODULE Cpu ---------------------------------
(***************************************************************************)
(* The MC68000 of internal/m68k/cpu.go, fourth part: the instructions that *)
(* move control and registers through memory, those of the supervisor, and *)
(* the processor in the machine: reset, steps, interrupts.                 *)
(***************************************************************************)
EXTENDS CpuBytes

-----------------------------------------------------------------------------
(* Registers and jumps. *)

Moveq(c, i) ==
  LET x == Add(0, SignedByte(i.byte))
  IN Refill(SetLogicalFlagsLong(SetDataRegister(c, i.reg, x), x))

Swap(c, i) ==
  LET x == Long(Low(c.d[i.reg]), High(c.d[i.reg]))
  IN Refill(SetLogicalFlagsLong(SetDataRegister(c, i.reg, x), x))

ExtWord(c, i) ==
  LET w == SignedByte(c.d[i.reg] % 256) % 65536
  IN Refill(SetLogicalFlagsWord(SetDataRegister(c, i.reg, SetLow(c.d[i.reg], w)), w))

ExtLong(c, i) ==
  LET x == Add(0, SignedWord(Low(c.d[i.reg])))
  IN Refill(SetLogicalFlagsLong(SetDataRegister(c, i.reg, x), x))

AddressLoaded(c, i) == Commit(c, SetAddressRegister(c, i.dreg, ControlTarget(c, i)))

Lea(c, i) == RefillSequential(AddressLoaded(DecodeControlEA(c, i), i), i)

(* An absolute address is pushed between the two fetches, another after    *)
(* them; the pipeline changes at the end.                                  *)
PushDecoded(c, i, start, x) ==
  CASE ExtensionWords(i.mode, i.reg) = 0 -> Shift(PushLong(Fetch(c, c.pc), x))
    [] i.mode = 7 /\ i.reg <= 1 -> Fill(Fetch(PushLong(Fetch(c, start), x), start + 2), start)
    [] OTHER -> Fill(PushLong(Fetch(Fetch(c, start), start + 2), x), start)

Pea(c, i) == PushDecoded(DecodeControlEA(c, i), i, AfterOperand(c, i), ControlTarget(c, i))

Jmp(c, i) == BranchTo(DecodeControlEA(c, i), ControlTarget(c, i), Add(c.pc, -2))

(* The first word at the target is read before the push, the second after. *)
Call(c, target, returnPC) ==
  IF Running(c) /\ target % 2 = 1
  THEN InstructionAddressError(c, target, returnPC)
  ELSE Fill(Fetch(PushLong(Fetch(c, target), returnPC), target + 2), target)

Jsr(c, i) == Call(DecodeControlEA(c, i), ControlTarget(c, i), AfterOperand(c, i))

Displacement(c, i) == IF i.byte = 0 THEN SignedWord(Extension(c)) ELSE SignedByte(i.byte)

CallNear(c, target, returnPC) == BranchTo(PushLong(c, returnPC), target, target)

Bsr(c, i) ==
  CallNear(c, Add(c.pc - 2, Displacement(c, i)), IF i.byte = 0 THEN c.pc ELSE Add(c.pc, -2))

Branch(c, i) ==
  CASE Holds(i.cond, c.sr) -> BranchTo(c, Add(c.pc - 2, Displacement(c, i)), Add(c.pc, -2))
    [] ~ Holds(i.cond, c.sr) /\ i.byte # 0 -> ConsumeExtension(c)
    [] ~ Holds(i.cond, c.sr) /\ i.byte = 0 -> RefillBranch(c, c.pc)

Counted(c, i, count) == SetDataRegister(c, i.reg, SetLow(c.d[i.reg], count))

(* Mutant of CountDown: the loop ends when the counter reaches zero. *)
DBccToZero(c, i, count, target) ==
  CASE Holds(i.cond, c.sr) -> RefillBranch(c, c.pc)
    [] ~ Holds(i.cond, c.sr) /\ count = 0 -> RefillBranch(Counted(c, i, count), c.pc)
    [] OTHER -> BranchTo(IF target % 2 = 1 THEN c ELSE Counted(c, i, count), target, c.pc)

(* An odd target is noticed before the counter is stored. *)
CountDown(c, i, count, target) ==
  CASE Holds(i.cond, c.sr) -> RefillBranch(c, c.pc)
    [] ~ Holds(i.cond, c.sr) /\ count = 65535 -> RefillBranch(Counted(c, i, count), c.pc)
    [] OTHER -> BranchTo(IF target % 2 = 1 THEN c ELSE Counted(c, i, count), target, c.pc)

DBcc(c, i) ==
  CountDown(c, i, (Low(c.d[i.reg]) - 1) % 65536, Add(c.pc - 2, SignedWord(Extension(c))))

(* The stack pointer has moved when an odd return address is noticed. *)
Rts(c) ==
  LET sp == AddressRegister(c, 7)
      Pop(s) == Commit(s, SetAddressRegister(s, 7, Add(sp, 4)))
  IN BranchTo(Pop(Reads(c, DataFC(c), {sp, sp + 2})), LongAt(c, sp), Add(c.pc, -2))

(* The old register lies below the frame that begins. *)
Linked(p, i, displacement) ==
  Commit(p, SetAddressRegister(SetAddressRegister(p, i.reg, AddressRegister(p, 7)), 7,
                               Add(AddressRegister(p, 7), displacement)))

Link(c, i) ==
  Refill(Linked(PushLong(ConsumeExtension(c), AddressRegister(c, i.reg)), i,
                SignedWord(Extension(c))))

(* UNLK A7 keeps what it read, any other pops it. *)
Unlinked(r, i, frame, x) ==
  Commit(r, SetAddressRegister(IF i.reg = 7 THEN r ELSE SetAddressRegister(r, 7, Add(frame, 4)),
                               i.reg, x))

Unlink(c, i, frame) ==
  IF frame % 2 = 1
  THEN AccessError(c, c.prefetch[1], frame, c.pc, DataFC(c), TRUE, AddressErrorVector)
  ELSE Refill(Unlinked(Reads(SetAddressRegister(c, 7, frame), DataFC(c), {frame, frame + 2}),
                       i, frame, LongAt(c, frame)))

Unlk(c, i) == Unlink(c, i, AddressRegister(c, i.reg))

-----------------------------------------------------------------------------
(* MOVE.W. *)

WordWriteFault(c, opcode, address, savedPC, w) ==
  Commit(c, AccessError(SetLogicalFlagsWord(c, w), opcode, address, savedPC, DataFC(c),
                        FALSE, AddressErrorVector))

(* A write that faults is a Go error, unlike a read. *)
WriteWord(c, opcode, address, savedPC, w) ==
  IF Running(c) /\ address % 2 = 1
  THEN WordWriteFault(c, opcode, address, savedPC, w)
  ELSE Write(c, DataFC(c), address, w)

(* A predecremented destination is written after the pipeline has moved, an *)
(* absolute one after a source in memory before it moves at all, and any    *)
(* other between its extension words and the refill.                        *)
BeforeWrite(c, i) ==
  CASE i.dmode = 4 ->
         Refill(SetAddressRegister(c, i.dreg, Add(AddressRegister(c, i.dreg), -2)))
    [] AbsoluteFromMemory(i) -> Reads(c, ProgramFC(c), {c.pc})
    [] OTHER -> AfterExtensions(c, i.dmode, i.dreg)

AfterWrite(c, i, pc) ==
  LET PostIncremented ==
        IF i.dmode = 3 THEN SetAddressRegister(c, i.dreg, Add(AddressRegister(c, i.dreg), 2)) ELSE c
  IN CASE i.dmode = 4 -> c
       [] AbsoluteFromMemory(i) -> RefillBranch(c, Add(pc, 2))
       [] OTHER -> Refill(Commit(c, PostIncremented))

WriteWordDestination(c, i, opcode, w) ==
  LET address == EffectiveAddress(c, i.dmode, i.dreg)
      savedPC == IF i.dmode = 7 /\ i.dreg = 1 /\ ~ AbsoluteFromMemory(i)
                 THEN Add(c.pc, 2) ELSE c.pc
      Faulting(b) == IF i.dmode = 4 THEN b.prefetch[1] ELSE opcode
      Written(b) == WriteWord(b, Faulting(b), address, savedPC, w)
  IN IF i.dmode = 0 THEN Refill(SetDataRegister(c, i.dreg, SetLow(c.d[i.dreg], w)))
     ELSE AfterWrite(Written(BeforeWrite(c, i)), i, c.pc)

MoveTo(s, i, opcode, w) ==
  LET Flagged(d) == Commit(d, SetLogicalFlagsWord(d, w))
  IN IF Running(s) THEN Flagged(WriteWordDestination(s, i, opcode, w)) ELSE s

MoveWord(c, i) ==
  IF i.dmode = 1 \/ (i.dmode = 7 /\ i.dreg > 1) THEN Fail(c)
  ELSE MoveTo(ReadSource(c, c.prefetch[1], FALSE, i.mode, i.reg), i, c.prefetch[1],
              SourceValue(c, FALSE, i.mode, i.reg))

-----------------------------------------------------------------------------
(* MOVE.L: a predecremented destination moves after the test of its address *)
(* and is written low word first.                                          *)

(* What the flags are when the address of the destination is odd. *)
LongFaultFlags(c, i, x) ==
  CASE IsMemory(i.mode, i.reg) /\ (i.dmode \in {2, 3} \/ (i.dmode = 7 /\ i.dreg = 1)) ->
         SetLogicalFlagsWord(c, Low(x))
    [] IsImmediate(i.mode, i.reg) /\ i.dmode = 7 /\ i.dreg = 0 -> c
    [] ~ IsMemory(i.mode, i.reg) /\ i.dmode \in {2, 3} -> c
    [] ~ IsMemory(i.mode, i.reg) /\ i.dmode \in {5, 6} ->
         SetFlags(c, [Flags(c.sr) EXCEPT !.z = x = 0, !.n = Negative(x, LongSize)])
    [] OTHER -> SetLogicalFlagsLong(c, x)

BeforeLong(c, i) ==
  CASE i.dmode = 4 -> Refill(c)
    [] AbsoluteFromMemory(i) -> Reads(c, ProgramFC(c), {c.pc})
    [] OTHER -> AfterExtensions(c, i.dmode, i.dreg)

(* The address of a predecremented destination is here that of its low word. *)
LongWritten(b, i, opcode, address, savedPC, x) ==
  CASE ~ Running(b) -> b
    [] Running(b) /\ address % 2 = 1 ->
         AccessError(LongFaultFlags(b, i, x), opcode, address, savedPC, DataFC(b), FALSE,
                     AddressErrorVector)
    [] Running(b) /\ address % 2 = 0 /\ i.dmode = 4 ->
         WriteBack(Moved(b, i.dreg, -4), TRUE, Add(address, -2), x)
    [] OTHER -> WriteLong(b, DataFC(b), address, x)

AfterLong(c, i, pc) ==
  CASE i.dmode = 4 -> c
    [] i.dmode = 3 -> Refill(Moved(c, i.dreg, 4))
    [] AbsoluteFromMemory(i) -> RefillBranch(c, Add(pc, 2))
    [] OTHER -> Refill(c)

WriteLongDestination(c, i, opcode, x) ==
  LET address == EffectiveAddress(c, i.dmode, i.dreg)
      savedPC == IF i.dmode = 7 /\ i.dreg = 1 /\ ~ AbsoluteFromMemory(i)
                 THEN Add(c.pc, 2) ELSE c.pc
  IN IF i.dmode = 0 THEN Refill(SetDataRegister(c, i.dreg, x))
     ELSE AfterLong(LongWritten(BeforeLong(c, i), i, opcode, address, savedPC, x), i, c.pc)

MoveLongTo(s, i, opcode, x) ==
  LET Flagged(d) == Commit(d, SetLogicalFlagsLong(d, x))
  IN IF Running(s) THEN Flagged(WriteLongDestination(s, i, opcode, x)) ELSE s

MoveLong(c, i) ==
  IF i.dmode = 1 \/ (i.dmode = 7 /\ i.dreg > 1) THEN Fail(c)
  ELSE MoveLongTo(ReadSource(c, c.prefetch[1], TRUE, i.mode, i.reg), i, c.prefetch[1],
                  SourceValue(c, TRUE, i.mode, i.reg))

-----------------------------------------------------------------------------
(* MOVEM: the words of the listed registers in the order they move.        *)

MovemRegister(c, n) == IF n < 8 THEN c.d[n] ELSE AddressRegister(c, n - 8)

(* A predecrement store goes down the list and down the memory. *)
Listed(mask, down) == {n \in 0 .. 15 : Bit(mask, IF down THEN 15 - n ELSE n) = 1}

Place(list, n, down) == Cardinality({m \in list : IF down THEN m > n ELSE m < n})

MovemWords(c, i, list, address, down) ==
  LET size == IF i.long THEN 2 ELSE 1
      Nth(k) == CHOOSE n \in list : Place(list, n, down) = k
  IN [k \in 0 .. ((size * Cardinality(list)) - 1) |->
        LET x == MovemRegister(c, Nth(k \div size))
            high == i.long /\ (down <=> k % 2 = 1)
        IN [at   |-> BusAddress(IF down THEN address - (2 * (k + 1)) ELSE address + (2 * k)),
            word |-> IF high THEN High(x) ELSE Low(x)]]

(* The words before the first one that cannot be accessed. *)
Done(words, Can(_)) ==
  {k \in DOMAIN words : \A j \in 0 .. k : Can(words[j].at)}

Whole(i, done) == Cardinality(done) \div (IF i.long THEN 2 ELSE 1)

Finished(c, words, done) == IF done = DOMAIN words THEN c ELSE Fail(c)

Stored(c, words, done) ==
  [c EXCEPT !.ram = [a \in DOMAIN c.ram |->
     IF \E k \in done : words[k].at = a
     THEN words[CHOOSE k \in done : words[k].at = a].word
     ELSE c.ram[a]]]

(* A predecremented register follows the stores. *)
Followed(c, i, address, registers) ==
  IF i.mode = 4
  THEN SetAddressRegister(c, i.reg, Add(address, -((IF i.long THEN 4 ELSE 2) * registers)))
  ELSE c

StoreWords(c, i, address, words, done) ==
  Finished(Followed(Stored(c, words, done), i, address, Whole(i, done)), words, done)

MovemStore(c, i, mask, address) ==
  LET words == MovemWords(c, i, Listed(mask, i.mode = 4), address, i.mode = 4)
      Can(a) == CanWrite(c, a, DataFC(c))
  IN StoreWords(c, i, address, words, Done(words, Can))

(* A register that has been read whole is set, whatever happens to the     *)
(* next; a word is extended to a long.                                     *)
LoadRegisters(c, i, address, list, whole) ==
  LET Loaded(n) == n \in list /\ Place(list, n, FALSE) < whole
      At(n)     == address + ((IF i.long THEN 4 ELSE 2) * Place(list, n, FALSE))
      Value(n)  == IF i.long THEN LongAt(c, At(n)) ELSE Add(0, SignedWord(WordAt(c, At(n))))
      Stack(s)  == IF Loaded(15) THEN SetAddressRegister(s, 7, Value(15)) ELSE s
  IN Stack([c EXCEPT !.d = [n \in 0 .. 7 |-> IF Loaded(n) THEN Value(n) ELSE @[n]],
                     !.a = [n \in 0 .. 6 |-> IF Loaded(n + 8) THEN Value(n + 8) ELSE @[n]]])

MovemLoad(c, i, mask, address, fc) ==
  LET list  == Listed(mask, FALSE)
      words == MovemWords(c, i, list, address, FALSE)
      Can(a) == CanRead(c, a, fc)
      Load(done) == Finished(LoadRegisters(c, i, address, list, Whole(i, done)), words, done)
  IN Load(Done(words, Can))

MovemModeIsValid(i) ==
  IF i.load THEN i.mode \in {2, 3, 5, 6} \/ (i.mode = 7 /\ i.reg <= 3)
  ELSE i.mode \in {2, 4, 5, 6} \/ (i.mode = 7 /\ i.reg <= 1)

(* A load reads one word more than it needs. *)
MovemTransfer(c, i, opcode, mask, address, fc) ==
  LET bytes == (IF i.long THEN 4 ELSE 2) * Cardinality(Listed(mask, FALSE))
      PostIncrement(s) ==
        IF i.mode = 3 THEN Commit(s, SetAddressRegister(s, i.reg, Add(address, bytes))) ELSE s
      faultAddress == IF i.mode = 4 THEN Add(address, -2) ELSE address
  IN CASE ~ Running(c) -> c
       [] Running(c) /\ address % 2 = 1 ->
            AccessError(c, opcode, faultAddress, c.pc, fc, i.load, AddressErrorVector)
       [] Running(c) /\ address % 2 = 0 /\ i.load ->
            Refill(PostIncrement(Reads(MovemLoad(c, i, mask, address, fc), fc, {address + bytes})))
       [] OTHER -> Refill(MovemStore(c, i, mask, address))

Movem(c, i) ==
  LET fc == IF i.load /\ PcRelative(i.mode, i.reg) THEN ProgramFC(c) ELSE DataFC(c)
      Address(m) == IF i.mode = 4 THEN AddressRegister(m, i.reg)
                    ELSE EffectiveAddress(m, i.mode, i.reg)
      Operand(m) == IF MovemModeIsValid(i) THEN AfterExtensions(m, i.mode, i.reg) ELSE Fail(m)
      Transfer(m) == MovemTransfer(Operand(m), i, c.prefetch[1], Extension(c), Address(m), fc)
  IN Transfer(ConsumeExtension(c))

-----------------------------------------------------------------------------
(* The instructions of the supervisor. *)

Privileged(c, d) == IF Supervisor(c) THEN d ELSE PrivilegeViolation(c)

MoveToUsp(c, i)   == Privileged(c, Refill([c EXCEPT !.usp = AddressRegister(c, i.reg)]))
MoveFromUsp(c, i) == Privileged(c, Refill(SetAddressRegister(c, i.reg, c.usp)))

NewStatus(c, op, w) ==
  IF op = "MOVE to SR" THEN Implemented(w) ELSE ((c.sr \div 256) * 256) + (w % 32)

(* The new status decides who fetches: the word after the instruction is    *)
(* fetched again, and then the next.                                       *)
StatusSet(s, sr) ==
  LET Set(b) == Commit(b, [b EXCEPT !.sr = sr])
      Again(b) == Reads(b, ProgramFC(b), {b.pc - 2})
  IN Refill(Again(Set(s)))

MoveToStatus(c, i) ==
  StatusSet(ReadSource(c, c.prefetch[1], FALSE, i.mode, i.reg),
            NewStatus(c, i.op, SourceValue(c, FALSE, i.mode, i.reg)))

(* Mutant of MayMove: the privilege is not looked at. *)
MayAlwaysMove(c, i) == TRUE

MayMove(c, i) == i.op = "MOVE to CCR" \/ Supervisor(c)

MoveStatus(c, i) == IF MayMove(c, i) THEN MoveToStatus(c, i) ELSE PrivilegeViolation(c)

(* ANDI, ORI and EORI to the status register or to the condition codes.    *)
LogicalStatus(c, i) ==
  IF i.whole THEN Implemented(LogicalValue(i.kind, c.sr, Extension(c)))
  ELSE (256 * (c.sr \div 256)) + (LogicalValue(i.kind, c.sr % 256, Extension(c) % 256) % 32)

LogicalToStatus(c, i) ==
  IF i.whole /\ ~ Supervisor(c) THEN PrivilegeViolation(c)
  ELSE StatusSet(ConsumeExtension(c), LogicalStatus(c, i))

StoredStatus(i) == [kind |-> "STORE", long |-> FALSE, mode |-> i.mode, reg |-> i.reg]

MoveFromSR(c, i) ==
  IF i.mode = 0 THEN Refill(SetDataRegister(c, i.reg, SetLow(c.d[i.reg], c.sr)))
  ELSE Modify(c, StoredStatus(i), c.prefetch[1], c.sr)

(* Stack pointer and status change before the return address is looked at. *)
Return(c) ==
  LET frame == c.ssp
      Taken(s) == Commit(s, [s EXCEPT !.ssp = Add(frame, 6), !.sr = Implemented(WordAt(c, frame))])
  IN BranchTo(Taken(Reads(c, 5, {frame, frame + 2, frame + 4})), LongAt(c, frame + 2), Add(c.pc, -2))

Rte(c) == Privileged(c, Return(c))

Stop(c) ==
  Privileged(c, [c EXCEPT !.sr = Implemented(Extension(c)), !.stopped = TRUE])

Trap(c, i) == StandardException(c, 32 + i.byte, Add(c.pc, -2))

LineF(c)     == StandardException(c, 11, Add(c.pc, -4))
IllegalOp(c) == StandardException(c, 4, Add(c.pc, -4))

(* The reset line is pulled; what it does to the devices is theirs. *)
ResetDevices(c) == Privileged(c, Refill(c))

(* CPU.StepAt on the modelled part of the instruction set. *)
Executed(c, i) ==
  CASE i.op = "NOP"   -> Refill(c)
    [] i.op = "MOVEQ" -> Moveq(c, i)
    [] i.op = "SWAP"  -> Swap(c, i)
    [] i.op = "EXT.W" -> ExtWord(c, i)
    [] i.op = "EXT.L" -> ExtLong(c, i)
    [] i.op = "LEA"   -> Lea(c, i)
    [] i.op = "PEA"   -> Pea(c, i)
    [] i.op = "JMP"   -> Jmp(c, i)
    [] i.op = "JSR"   -> Jsr(c, i)
    [] i.op = "BSR"   -> Bsr(c, i)
    [] i.op = "Bcc"   -> Branch(c, i)
    [] i.op = "DBcc"  -> DBcc(c, i)
    [] i.op = "RTS"   -> Rts(c)
    [] i.op = "LINK"  -> Link(c, i)
    [] i.op = "UNLK"  -> Unlk(c, i)
    [] i.op = "MOVE.W" -> MoveWord(c, i)
    [] i.op = "MOVE.L" -> MoveLong(c, i)
    [] i.op = "MOVEM" -> Movem(c, i)
    [] i.op = "to register"   -> ToRegister(c, i)
    [] i.op = "from register" -> FromRegister(c, i)
    [] i.op = "immediate"     -> Immediate(c, i)
    [] i.op = "quick"         -> Quick(c, i)
    [] i.op = "one operand"   -> OneOperand(c, i)
    [] i.op = "shift"         -> ShiftRegister(c, i)
    [] i.op = "extended"      -> Extended(c, i)
    [] i.op = "to address register" -> ToAddressRegister(c, i)
    [] i.op = "CMPM"  -> CompareMemory(c, i)
    [] i.op = "TST"   -> Test(c, i)
    [] i.op = "multiply" -> Multiply(c, i)
    [] i.op = "divide"   -> Divide(c, i)
    [] i.op = "EXG"   -> Exchange(c, i)
    [] i.op = "Scc"   -> SetOnCondition(c, i)
    [] i.op = "bit"   -> BitOperation(c, i)
    [] i.op = "byte"  -> OnByte(c, i)
    [] i.op = "logical to status" -> LogicalToStatus(c, i)
    [] i.op = "MOVE to USP"   -> MoveToUsp(c, i)
    [] i.op = "MOVE from USP" -> MoveFromUsp(c, i)
    [] i.op \in {"MOVE to SR", "MOVE to CCR"} -> MoveStatus(c, i)
    [] i.op = "MOVE from SR"  -> MoveFromSR(c, i)
    [] i.op = "RTE"   -> Rte(c)
    [] i.op = "STOP"  -> Stop(c)
    [] i.op = "TRAP"  -> Trap(c, i)
    [] i.op = "LINE-F" -> LineF(c)
    [] i.op = "MOVEC" -> IllegalOp(c)
    [] i.op = "RESET" -> ResetDevices(c)
    [] OTHER -> Fail(c)

-----------------------------------------------------------------------------
(* The processor in the machine. *)

NewCpu ==
  [d |-> [n \in 0 .. 7 |-> 0], a |-> [n \in 0 .. 6 |-> 0], usp |-> 0, ssp |-> 0, sr |-> 0,
   pc |-> 0, prefetch |-> <<0, 0>>, stopped |-> FALSE, ram |-> [a \in Cells |-> 0], at |-> "off"]

Begin(c) == [c EXCEPT !.at = "running"]
Ended(c) == [c EXCEPT !.at = IF c.at = "failed" THEN "failed" ELSE "ready"]

(* CPU.Reset: nothing changes unless every fetch succeeds. *)
ResetCpu(c) ==
  LET start == LongAt(c, 4)
      Started(s) == Commit(s, [FetchFrom(s, start) EXCEPT
                                 !.ssp = LongAt(c, 0), !.sr = 9984, !.stopped = FALSE])
  IN Started(Reads(Reads(Begin(c), 6, {0, 2, 4, 6}), 6, {start, start + 2}))

(* The registers: what an interrupted program can see of the processor. *)
Registers(c) == [d |-> c.d, a |-> c.a, usp |-> c.usp, ssp |-> c.ssp, sr |-> c.sr, pc |-> c.pc,
                 prefetch |-> c.prefetch, stopped |-> c.stopped]

(* A program that is stopped goes on behind the STOP. *)
Awake(c) == IF c.stopped THEN [FetchFrom(c, c.pc) EXCEPT !.stopped = FALSE] ELSE c

Frame(c, interrupt) == [left |-> Registers(Awake(c)), interrupt |-> interrupt]

On == cpu.at # "off"

Opcode == Instruction(cpu.prefetch[1])

(* RTE has taken a frame off the stack, whatever happens after that. *)
TakesFrame(n) == Opcode.op = "RTE" /\ Supervisor(cpu) /\ n.ssp # cpu.ssp

(* One instruction.  A failed one can be tried again. *)
Execute ==
  /\ On /\ ~ cpu.stopped
  /\ \E c \in {Begin(cpu)}, i \in {Opcode} : \E n \in {Executed(c, i)} :
       LET open == IF TakesFrame(n) /\ frames # << >> THEN Tail(frames) ELSE frames
       IN /\ cpu' = Ended(n)
          /\ frames' = IF n.at = "trapped" THEN <<Frame(cpu, FALSE)>> \o open ELSE open
  /\ UNCHANGED <<guest, arrivals>>

(* A stopped processor that no interrupt wakes is an error: ErrStopped. *)
StayStopped ==
  /\ On /\ cpu.stopped
  /\ cpu' = Ended(Fail(cpu))
  /\ UNCHANGED <<guest, frames, arrivals>>

(* Mutant of AcceptedPC: the word behind the opcode is in the pipeline. *)
PCBehindTheOpcode(c) == IF c.stopped THEN c.pc ELSE Add(c.pc, -2)

AcceptedPC(c) == IF c.stopped THEN c.pc ELSE Add(c.pc, -4)

(* CPU.AcceptVectoredInterruptAt: the mask rises and the processor wakes   *)
(* only when the exception has been entered.                               *)
Accepted(c, level, vector) ==
  LET Wake(e) ==
        IF e.at = "trapped" THEN [e EXCEPT !.sr = WithMask(@, level), !.stopped = FALSE] ELSE e
  IN Wake(StandardException(Begin(c), vector, AcceptedPC(c)))

Interrupt(level, vector) ==
  /\ On /\ arrivals < Guests[guest].interrupts /\ level > Mask(cpu)
  /\ \E n \in {Accepted(cpu, level, vector)} :
       /\ cpu' = Ended(n)
       /\ frames' = IF n.at = "trapped" THEN <<Frame(cpu, TRUE)>> \o frames ELSE frames
  /\ arrivals' = arrivals + 1
  /\ UNCHANGED guest

(* One step of the machine, as far as the processor is concerned. *)
Step ==
  \/ Execute
  \/ \E l \in Levels : Interrupt(l.level, l.vector)
  \/ StayStopped

CpuInit ==
  /\ guest \in DOMAIN Guests
  /\ cpu = NewCpu /\ frames = << >> /\ arrivals = 0

(* A machine is made, or none is. *)
PowerOn ==
  /\ ~ On
  /\ cpu' = LET n == ResetCpu(NewCpu) IN IF n.at = "failed" THEN cpu ELSE Ended(n)
  /\ UNCHANGED <<guest, frames, arrivals>>

PowerOff == cpu' = NewCpu /\ frames' = << >> /\ UNCHANGED <<guest, arrivals>>

CpuNext == Step \/ PowerOn \/ PowerOff

CpuSpec == CpuInit /\ [][CpuNext]_cpuVars

-----------------------------------------------------------------------------
(* Properties. *)

Longs == 0 .. (LongSize - 1)

(* The registers hold values of their width, the status register only bits *)
(* that exist, and every frame a whole set of registers.                   *)
CpuTypeOK ==
  /\ guest \in DOMAIN Guests
  /\ cpu.d \in [0 .. 7 -> Longs] /\ cpu.a \in [0 .. 6 -> Longs]
  /\ {cpu.usp, cpu.ssp, cpu.pc} \subseteq Longs
  /\ cpu.sr = Implemented(cpu.sr)
  /\ DOMAIN cpu.ram = Cells /\ \A a \in Cells : cpu.ram[a] \in WordRange
  /\ cpu.at \in {"off", "ready", "failed"}
  /\ \A n \in DOMAIN frames : frames[n].interrupt \in BOOLEAN
  /\ arrivals \in 0 .. Guests[guest].interrupts

(* The pipeline holds the two words below the program counter, after       *)
(* failures too: every saved and relative address is reckoned from it.     *)
PrefetchCoherent ==
  On => /\ Add(cpu.prefetch[1], 2) = cpu.prefetch[2]
        /\ Add(cpu.prefetch[2], 2) = cpu.pc

(* An RTE gives back the whole frame of the exception it ends, and after   *)
(* an interrupt every register, flag and pipeline word of the program that *)
(* was interrupted, a STOP being over.                                     *)
InterruptsAreInvisible ==
  [][Len(frames') < Len(frames) =>
       \/ ~ On'
       \/ LET left == Head(frames).left
          IN /\ cpu'.at = "ready" => cpu'.ssp = left.ssp
             /\ Head(frames).interrupt /\ cpu'.at = "ready" => Registers(cpu') = left]_cpuVars

(* A program in user mode becomes supervisor only at the first word of a   *)
(* handler, with a frame of six or fourteen bytes below the supervisor      *)
(* stack it had.                                                           *)
UserStaysUser ==
  [][On /\ ~ Supervisor(cpu) /\ On' /\ Supervisor(cpu') =>
       /\ \E v \in 2 .. 255 : CanRead(cpu', 4 * v, 5) /\ cpu'.prefetch[1] = LongAt(cpu', 4 * v)
       /\ cpu'.ssp \in {Add(cpu.ssp, -6), Add(cpu.ssp, -14)}]_cpuVars

(* An exception that cannot be entered, its stack or its handler being out *)
(* of reach, leaves a user program where it was: not the stack pointer nor *)
(* the privilege has changed when the host tries again.                    *)
FailedEntriesLeaveNoTrace ==
  [][On /\ ~ Supervisor(cpu) /\ cpu'.at = "failed" =>
       cpu'.ssp = cpu.ssp /\ cpu'.sr \div 256 = cpu.sr \div 256]_cpuVars

=============================================================================
