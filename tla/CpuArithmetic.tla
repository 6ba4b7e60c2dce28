---------------------------- MODULE CpuArithmetic ----------------------------
(***************************************************************************)
(* The MC68000 of internal/m68k/cpu.go, second part: the instructions that *)
(* compute, on words and longs.  An instruction names its operation of     *)
(* module Alu as its kind.                                                 *)
(***************************************************************************)
EXTENDS CpuCore

SetPart(c, long, r, x) == SetDataRegister(c, r, IF long THEN x ELSE SetLow(c.d[r], x))

Operated(c, i, d, s) == Operate(i.kind, d, s, Size(i.long), Flags(c.sr))

Into(c, i, r, outcome) == SetFlags(SetPart(c, i.long, r, outcome.value), outcome.flags)

(* The flags and the register change before the refill, which may fail. *)
InRegister(c, i, r, s) ==
  Refill(Commit(c, Into(c, i, r, Operated(c, i, Part(i.long, c.d[r]), s))))

-----------------------------------------------------------------------------
(* An operand in memory that is read, changed and written back.             *)

Alterable(i) == i.mode \in 2 .. 6 \/ (i.mode = 7 /\ i.reg <= 1)

(* The low word of a long is written first. *)
WriteBack(c, long, a, x) ==
  IF long THEN Write(Write(c, DataFC(c), a + 2, Low(x)), DataFC(c), a, High(x))
  ELSE Write(c, DataFC(c), a, x)

(* The pipeline moves between the reads and the writes. *)
Modified(c, i, address, s) ==
  LET outcome == Operated(c, i, ValueAt(c, i.long, address), s)
      Flagged(r) == Commit(r, SetFlags(r, outcome.flags))
      Words2 == IF i.long THEN {address, address + 2} ELSE {address}
  IN WriteBack(Refill(Flagged(Reads(c, DataFC(c), Words2))), i.long, address, outcome.value)

ModifyAt(m, i, opcode, address, savedPC, s) ==
  CASE ~ Running(m) -> m
    [] Running(m) /\ address % 2 = 1 ->
         AccessError(m, opcode, address, savedPC, DataFC(m), TRUE, AddressErrorVector)
    [] OTHER -> Modified(MemoryRead(m, i.long, i.mode, i.reg), i, address, s)

Modify(c, i, opcode, s) ==
  IF ~ Alterable(i) THEN Fail(c)
  ELSE ModifyAt(SourceMoved(c, i.long, i.mode, i.reg), i, opcode,
                OperandAddress(c, i.long, i.mode, i.reg),
                SourceFaultPC(i.long, c.pc, i.mode, i.reg), s)

-----------------------------------------------------------------------------
(* The forms of the operations with two operands.                           *)

(* ADD, SUB, AND, OR and CMP to a data register. *)
ToRegister(c, i) ==
  InRegister(ReadSource(c, c.prefetch[1], i.long, i.mode, i.reg), i, i.dreg,
             SourceValue(c, i.long, i.mode, i.reg))

(* ADD, SUB, AND, OR and EOR from a data register. *)
FromRegister(c, i) ==
  LET s == Part(i.long, c.d[i.dreg])
  IN IF i.kind = "EOR" /\ i.mode = 0 THEN InRegister(c, i, i.reg, s)
     ELSE Modify(c, i, c.prefetch[1], s)

CompareWith(b, i, opcode, s) ==
  LET Compared(r) ==
        Commit(r, SetFlags(r, CompareFlags(SourceValue(b, i.long, i.mode, i.reg), s,
                                           Size(i.long), Flags(r.sr).x)))
  IN Refill(Compared(ReadSource(b, opcode, i.long, i.mode, i.reg)))

(* ADDI, SUBI and CMPI look at the destination before they take the         *)
(* immediate words, ANDI, ORI and EORI afterwards.                          *)
ImmediateTo(b, i, opcode, s) ==
  CASE i.kind = "CMP" -> CompareWith(b, i, opcode, s)
    [] i.kind # "CMP" /\ i.mode = 0 -> InRegister(b, i, i.reg, s)
    [] OTHER -> Modify(b, i, opcode, s)

Immediate(c, i) ==
  IF i.kind \in {"ADD", "SUB", "CMP"} /\ i.mode # 0 /\ ~ Alterable(i) THEN Fail(c)
  ELSE ImmediateTo(ImmediateConsumed(c, i.long), i, c.prefetch[1], SourceValue(c, i.long, 7, 4))

(* ADDQ and SUBQ; an address register is changed whole and no flag is.      *)
Quick(c, i) ==
  CASE i.mode = 0 -> InRegister(c, i, i.reg, i.byte)
    [] i.mode = 1 -> Refill(Moved(c, i.reg, IF i.kind = "ADD" THEN i.byte ELSE -i.byte))
    [] OTHER -> Modify(c, i, c.prefetch[1], i.byte)

(* NEG, NOT, CLR, and a shift of a word in memory by one place.             *)
OneOperand(c, i) ==
  IF i.mode = 0 /\ i.kind \in {"NEG", "NOT", "CLR"} THEN InRegister(c, i, i.reg, 1)
  ELSE Modify(c, i, c.prefetch[1], 1)

(* A shift in a register, by a count of the opcode or of a register.        *)
ShiftRegister(c, i) ==
  InRegister(c, i, i.reg, IF i.counted THEN c.d[i.dreg] % 64 ELSE i.byte)

(* ADDX and SUBX; the form between memories is not implemented.             *)
Extended(c, i) ==
  IF i.mode = 1 THEN Fail(c) ELSE InRegister(c, i, i.dreg, Part(i.long, c.d[i.reg]))

(* ADDA, SUBA, CMPA and MOVEA.  CMPA takes its destination before the       *)
(* source moves an address register, the others after.                     *)
AddressOperation(r, i, before, x) ==
  CASE i.kind = "CMP"  -> SetFlags(r, CompareFlags(before, x, LongSize, Flags(r.sr).x))
    [] i.kind = "MOVE" -> SetAddressRegister(r, i.dreg, x)
    [] i.kind = "ADD"  -> SetAddressRegister(r, i.dreg, Add(AddressRegister(r, i.dreg), x))
    [] OTHER           -> SetAddressRegister(r, i.dreg, Add(AddressRegister(r, i.dreg), -x))

ToAddressRegister(c, i) ==
  LET s == SourceValue(c, i.long, i.mode, i.reg)
      x == IF i.long THEN s ELSE Add(0, SignedWord(s))
      Computed(r) == Commit(r, AddressOperation(r, i, AddressRegister(c, i.dreg), x))
  IN Refill(Computed(ReadSource(c, c.prefetch[1], i.long, i.mode, i.reg)))

(* CMPM compares two operands that are incremented; an odd source register  *)
(* is left two bytes further, whatever the size.                           *)
CompareMemory(c, i) ==
  LET opcode == c.prefetch[1]
      source == AddressRegister(c, i.reg)
      Fault(s, target) ==
        AccessError(s, opcode, target, c.pc, DataFC(c), TRUE, AddressErrorVector)
      Second(s) ==
        CASE ~ Running(s) -> s
          [] Running(s) /\ AddressRegister(s, i.dreg) % 2 = 1 ->
               Fault(s, AddressRegister(s, i.dreg))
          [] OTHER -> CompareWith(s, [long |-> i.long, mode |-> 3, reg |-> i.dreg], opcode,
                                  ValueAt(c, i.long, source))
  IN IF source % 2 = 1 THEN Fault(Moved(c, i.reg, 2), source)
     ELSE Second(ReadSource(c, opcode, i.long, 3, i.reg))

Test(c, i) ==
  LET s == SourceValue(c, i.long, i.mode, i.reg)
      Tested(r) == Commit(r, SetFlags(r, LogicalFlags(s, Size(i.long), Flags(r.sr))))
  IN IF i.mode = 1 \/ (i.mode = 7 /\ i.reg > 1) THEN Fail(c)
     ELSE Refill(Tested(ReadSource(c, c.prefetch[1], i.long, i.mode, i.reg)))

-----------------------------------------------------------------------------
(* MULU, MULS, DIVU and DIVS take a word and a data register.               *)

LongResult(r, i, x) ==
  Commit(r, SetFlags(SetDataRegister(r, i.dreg, x), LogicalFlags(x, LongSize, Flags(r.sr))))

Multiply(c, i) ==
  LET x == Product(i.signed, Low(c.d[i.dreg]), SourceValue(c, FALSE, i.mode, i.reg), LongSize)
  IN IF i.mode = 1 THEN Fail(c)
     ELSE Refill(LongResult(ReadSource(c, c.prefetch[1], FALSE, i.mode, i.reg), i, x))

(* By zero an exception; a quotient of more than a word leaves the register. *)
DivideByZero(r) ==
  StandardException(
    SetFlags(r, [x |-> Flags(r.sr).x, n |-> FALSE, z |-> TRUE, v |-> FALSE, c |-> FALSE]),
    5, Add(r.pc, -2))

DivisionOverflow(r) ==
  SetFlags(r, [x |-> Flags(r.sr).x, n |-> TRUE, z |-> FALSE, v |-> TRUE, c |-> FALSE])

DivisionDone(r, i, x) == SetLogicalFlagsWord(SetDataRegister(r, i.dreg, x), Low(x))

DivideBy(r, i, a, b) ==
  CASE ~ Running(r) -> r
    [] Running(r) /\ b = 0 -> DivideByZero(r)
    [] Running(r) /\ b # 0 /\ DivisionOverflows(i.signed, Quotient(a, b)) ->
         Refill(DivisionOverflow(r))
    [] OTHER -> Refill(DivisionDone(r, i, Divided(a, b, LongSize)))

Divide(c, i) ==
  IF i.mode = 1 THEN Fail(c)
  ELSE DivideBy(ReadSource(c, c.prefetch[1], FALSE, i.mode, i.reg), i,
                Dividend(i.signed, c.d[i.dreg], LongSize),
                Divisor(i.signed, SourceValue(c, FALSE, i.mode, i.reg)))

-----------------------------------------------------------------------------
(* Registers.                                                              *)

(* EXG: two data registers, two address registers, or one of each.         *)
Exchange(c, i) ==
  CASE i.form = 0 ->
         Refill(SetDataRegister(SetDataRegister(c, i.dreg, c.d[i.reg]), i.reg, c.d[i.dreg]))
    [] i.form = 1 ->
         Refill(SetAddressRegister(SetAddressRegister(c, i.dreg, AddressRegister(c, i.reg)),
                                   i.reg, AddressRegister(c, i.dreg)))
    [] OTHER ->
         Refill(SetAddressRegister(SetDataRegister(c, i.dreg, AddressRegister(c, i.reg)),
                                   i.reg, c.d[i.dreg]))

(* Scc to a data register: its low byte all ones or all zeros.             *)
SetOnCondition(c, i) ==
  LET byte == IF Holds(i.cond, c.sr) THEN 255 ELSE 0
  IN Refill(SetDataRegister(c, i.reg, SetLowByte(c.d[i.reg], byte)))

(* BTST, BCHG, BCLR and BSET on a data register.                           *)
BitSet(x, n) == (x \div (2 ^ n)) % 2 = 1

BitChanged(kind, x, n) ==
  CASE kind = "BTST" -> x
    [] kind = "BCHG" -> IF BitSet(x, n) THEN x - (2 ^ n) ELSE x + (2 ^ n)
    [] kind = "BCLR" -> IF BitSet(x, n) THEN x - (2 ^ n) ELSE x
    [] kind = "BSET" -> IF BitSet(x, n) THEN x ELSE x + (2 ^ n)

BitOf(b, i, n) ==
  LET f == [Flags(b.sr) EXCEPT !.z = ~ BitSet(b.d[i.reg], n)]
  IN Refill(Commit(b, SetFlags(SetDataRegister(b, i.reg, BitChanged(i.kind, b.d[i.reg], n)), f)))

BitOperation(c, i) ==
  IF i.immediate THEN BitOf(ConsumeExtension(c), i, Extension(c) % 32)
  ELSE BitOf(c, i, c.d[i.dreg] % 32)

=============================================================================
