------------------------------ MODULE CpuBytes -------------------------------
(***************************************************************************)
(* The MC68000 of internal/m68k/cpu.go, third part: instructions on bytes. *)
(* The bus has words; a byte at an even address is the upper half of one.  *)
(* No address of a byte is an address error, and an access that does not   *)
(* answer is a Go error, except that of TST (An).                          *)
(***************************************************************************)
EXTENDS CpuArithmetic

EvenAddress(a) == a - (a % 2)

ByteAt(c, a) ==
  LET w == WordAt(c, EvenAddress(a)) IN IF a % 2 = 0 THEN w \div 256 ELSE w % 256

WriteByte(c, a, x) ==
  LET b == EvenAddress(a)
      w == WordAt(c, b)
  IN Write(c, DataFC(c), b, IF a % 2 = 0 THEN (256 * x) + (w % 256) ELSE SetLowByte(w, x))

ByteResult(c, r, x, f) == SetFlags(SetDataRegister(c, r, SetLowByte(c.d[r], x)), f)

InByteRegister(c, i, r, s) ==
  LET o == Operate(i.kind, c.d[r] % 256, s, 256, Flags(c.sr))
  IN Refill(Commit(c, ByteResult(c, r, o.value, o.flags)))

FlagsSet(r, f) == Commit(r, SetFlags(r, f))

-----------------------------------------------------------------------------
(* Operands.  The stack pointer moves by two, a decremented register before *)
(* the access and an incremented one after it.                             *)

ByteAddressDelta(reg) == IF reg = 7 THEN 2 ELSE 1

ByteAddress(c, mode, reg) ==
  IF mode = 4 THEN Add(AddressRegister(c, reg), -ByteAddressDelta(reg))
  ELSE EffectiveAddress(c, mode, reg)

ByteLocated(c, mode, reg) ==
  IF mode = 4 THEN Moved(c, reg, -ByteAddressDelta(reg)) ELSE AfterExtensions(c, mode, reg)

ByteIncremented(c, mode, reg) ==
  IF mode = 3 THEN Moved(c, reg, ByteAddressDelta(reg)) ELSE c

ReadLocated(c, fc, mode, reg) ==
  Reads(ByteLocated(c, mode, reg), fc, {EvenAddress(ByteAddress(c, mode, reg))})

ReadByte(c, mode, reg) ==
  CASE mode = 0 -> c
    [] mode = 1 \/ (mode = 7 /\ reg > 4) -> Fail(c)
    [] IsImmediate(mode, reg) -> ConsumeExtension(c)
    [] OTHER ->
         ByteIncremented(ReadLocated(c, IF PcRelative(mode, reg) THEN ProgramFC(c) ELSE DataFC(c),
                                     mode, reg), mode, reg)

ByteValue(c, mode, reg) ==
  CASE mode = 0 -> c.d[reg] % 256
    [] IsImmediate(mode, reg) -> Extension(c) % 256
    [] OTHER -> ByteAt(c, ByteAddress(c, mode, reg))

(* A byte in memory is read, the flags are set, the pipeline moves, and     *)
(* only then is the byte written and the register incremented.             *)
Replaced(c, i, value, f) ==
  LET address == ByteAddress(c, i.mode, i.reg)
      Refilled == Refill(FlagsSet(ReadLocated(c, DataFC(c), i.mode, i.reg), f))
  IN IF ~ Alterable(i) THEN Fail(c)
     ELSE ByteIncremented(WriteByte(Refilled, address, value), i.mode, i.reg)

ModifyByte(c, i, s) ==
  LET o == Operate(i.kind, ByteValue(c, i.mode, i.reg), s, 256, Flags(c.sr))
  IN Replaced(c, i, o.value, o.flags)

-----------------------------------------------------------------------------
(* The forms of the operations of module Alu.                              *)

ByteToRegister(c, i) ==
  InByteRegister(ReadByte(c, i.mode, i.reg), i, i.dreg, ByteValue(c, i.mode, i.reg))

ByteFromRegister(c, i) ==
  IF i.kind = "EOR" /\ i.mode = 0 THEN InByteRegister(c, i, i.reg, c.d[i.dreg] % 256)
  ELSE ModifyByte(c, i, c.d[i.dreg] % 256)

CompareByte(c, mode, reg, s) ==
  LET f == CompareFlags(ByteValue(c, mode, reg), s, 256, Flags(c.sr).x)
  IN Refill(FlagsSet(ReadByte(c, mode, reg), f))

ByteImmediateTo(b, i, s) ==
  CASE i.kind = "CMP" -> CompareByte(b, i.mode, i.reg, s)
    [] i.kind # "CMP" /\ i.mode = 0 -> InByteRegister(b, i, i.reg, s)
    [] OTHER -> ModifyByte(b, i, s)

ByteImmediate(c, i) ==
  IF i.kind \in {"ADD", "SUB", "CMP"} /\ i.mode # 0 /\ ~ Alterable(i) THEN Fail(c)
  ELSE ByteImmediateTo(ConsumeExtension(c), i, Extension(c) % 256)

(* ADDQ, SUBQ, NEG, NOT and CLR; shifts and rotations are of registers.     *)
ByteQuick(c, i) ==
  IF i.mode = 0 THEN InByteRegister(c, i, i.reg, i.byte) ELSE ModifyByte(c, i, i.byte)

ByteShift(c, i) ==
  InByteRegister(c, i, i.reg, IF i.counted THEN c.d[i.dreg] % 64 ELSE i.byte)

ByteExtended(c, i) ==
  IF i.mode = 1 THEN Fail(c) ELSE InByteRegister(c, i, i.dreg, c.d[i.reg] % 256)

CompareBytesInMemory(c, i) ==
  CompareByte(ReadByte(c, 3, i.reg), 3, i.dreg, ByteValue(c, 3, i.reg))

(* An even address that does not answer is a bus error, but only here and   *)
(* only when it is in a register.                                          *)
TestByte(c, i) ==
  LET address == ByteAddress(c, i.mode, i.reg)
      f == LogicalFlags(ByteValue(c, i.mode, i.reg), 256, Flags(c.sr))
  IN CASE i.mode = 1 \/ (i.mode = 7 /\ i.reg > 1) -> Fail(c)
       [] i.mode = 2 /\ address % 2 = 0 /\ ~ CanRead(c, address, DataFC(c)) ->
            AccessError(c, c.prefetch[1], address, Add(c.pc, -2), DataFC(c), TRUE, BusErrorVector)
       [] OTHER -> Refill(FlagsSet(ReadByte(c, i.mode, i.reg), f))

(* Scc reads the byte it overwrites. *)
SetByteOnCondition(c, i) == Replaced(c, i, IF Holds(i.cond, c.sr) THEN 255 ELSE 0, Flags(c.sr))

(* TAS writes before the pipeline moves. *)
TestAndSet(c, i) ==
  LET x == ByteValue(c, i.mode, i.reg)
      set == IF x < 128 THEN x + 128 ELSE x
      f == LogicalFlags(x, 256, Flags(c.sr))
      read == FlagsSet(ReadByte(c, i.mode, i.reg), f)
  IN CASE i.mode = 0 -> Refill(ByteResult(c, i.reg, set, f))
       [] i.mode # 0 /\ ~ Alterable(i) -> Fail(c)
       [] OTHER -> Refill(WriteByte(read, ByteAddress(c, i.mode, i.reg), set))

(* BTST, BCHG, BCLR and BSET in memory, BTST in immediate data, too.        *)
BitInByte(b, i, n) ==
  LET x == ByteValue(b, i.mode, i.reg)
      f == [Flags(b.sr) EXCEPT !.z = ~ BitSet(x, n)]
      tested == Refill(FlagsSet(ReadByte(b, i.mode, i.reg), f))
  IN IF i.kind = "BTST" THEN tested
     ELSE WriteByte(tested, ByteAddress(b, i.mode, i.reg), BitChanged(i.kind, x, n))

ByteBitOperation(c, i) ==
  IF i.mode = 1 \/ (i.mode = 7 /\ i.reg > IF i.kind = "BTST" THEN 4 ELSE 1) THEN Fail(c)
  ELSE IF i.immediate THEN BitInByte(ConsumeExtension(c), i, Extension(c) % 8)
  ELSE BitInByte(c, i, c.d[i.dreg] % 8)

-----------------------------------------------------------------------------
(* MOVE.B: a decremented destination moves and is written after the         *)
(* pipeline, and the flags change when everything else has.                *)

WriteByteDestination(c, i, x) ==
  LET address == ByteAddress(c, i.dmode, i.dreg)
  IN CASE i.dmode = 0 -> Refill(SetDataRegister(c, i.dreg, SetLowByte(c.d[i.dreg], x)))
       [] i.dmode = 4 -> WriteByte(ByteLocated(Refill(c), 4, i.dreg), address, x)
       [] AbsoluteFromMemory(i) ->
            RefillBranch(WriteByte(Reads(c, ProgramFC(c), {c.pc}), address, x), Add(c.pc, 2))
       [] OTHER ->
            Refill(ByteIncremented(WriteByte(AfterExtensions(c, i.dmode, i.dreg), address, x),
                                   i.dmode, i.dreg))

MoveByteTo(s, i, x) ==
  IF Running(s) THEN FlagsSet(WriteByteDestination(s, i, x), LogicalFlags(x, 256, Flags(s.sr)))
  ELSE s

MoveByte(c, i) ==
  IF i.dmode = 1 \/ (i.dmode = 7 /\ i.dreg > 1) THEN Fail(c)
  ELSE MoveByteTo(ReadByte(c, i.mode, i.reg), i, ByteValue(c, i.mode, i.reg))

OnByte(c, i) ==
  CASE i.form = "move"          -> MoveByte(c, i)
    [] i.form = "to register"   -> ByteToRegister(c, i)
    [] i.form = "from register" -> ByteFromRegister(c, i)
    [] i.form = "immediate"     -> ByteImmediate(c, i)
    [] i.form = "quick"         -> ByteQuick(c, i)
    [] i.form = "shift"         -> ByteShift(c, i)
    [] i.form = "extended"      -> ByteExtended(c, i)
    [] i.form = "CMPM" -> CompareBytesInMemory(c, i)
    [] i.form = "TST"  -> TestByte(c, i)
    [] i.form = "Scc"  -> SetByteOnCondition(c, i)
    [] i.form = "TAS"  -> TestAndSet(c, i)
    [] OTHER           -> ByteBitOperation(c, i)

=============================================================================
