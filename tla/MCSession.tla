------------------------------ MODULE MCSession ------------------------------
(* Guest programs put together by hand, in sections of words.              *)
EXTENDS Session, TLC

W(value) == [op |-> "word", value |-> value % 65536]

Section(base, words) == [a \in {base + (2 * (k - 1)) : k \in DOMAIN words} |-> words[((a - base) \div 2) + 1]]

Vector(number, handler) == Section(4 * number, <<W(0), W(handler)>>)

Op(op) == [op |-> op]

(* The pipeline reads one word behind the last instruction. *)
Routine(base, words) == Section(base, Append(words, Op("NOP")))
Reg(op, reg) == [op |-> op, reg |-> reg]
Ea(op, mode, reg) == [op |-> op, mode |-> mode, reg |-> reg]
LeaOf(mode, reg, dreg) == [op |-> "LEA", mode |-> mode, reg |-> reg, dreg |-> dreg]
MoveOf(mode, reg, dmode, dreg) ==
  [op |-> "MOVE.W", mode |-> mode, reg |-> reg, dmode |-> dmode, dreg |-> dreg]
MovemOf(load, mode, reg) ==
  [op |-> "MOVEM", load |-> load, long |-> TRUE, mode |-> mode, reg |-> reg]
MoveqOf(byte, reg) == [op |-> "MOVEQ", byte |-> byte, reg |-> reg]
BccOf(cond, byte) == [op |-> "Bcc", cond |-> cond, byte |-> byte]

SystemStack == {976 + (2 * n) : n \in 0 .. 23}
UserRam     == {2048} \cup {2072 + (2 * n) : n \in 0 .. 19}

(* Boot in supervisor mode, then a user program that calls, loops, traps,  *)
(* faults in every way the handlers below repair, and stores its result.   *)
Tour ==
  Routine(4096,
    <<LeaOf(7, 0, 0), W(2110), Reg("MOVE to USP", 0), Op("RESET"),
      Ea("MOVE to SR", 7, 4), W(0),
      MoveOf(7, 4, 0, 0), W(1),
      [op |-> "BSR", byte |-> 0], W(4352 - 4114),
      [op |-> "DBcc", cond |-> 1, reg |-> 0], W(4112 - 4118),
      [op |-> "TRAP", byte |-> 1],
      MoveOf(7, 0, 0, 1), W(512),
      Op("LINE-F"),
      Ea("MOVE to SR", 7, 4), W(9984),
      Op("MOVEC"), W(0),
      LeaOf(7, 0, 1), W(4353), Ea("JMP", 2, 1),
      MovemOf(FALSE, 4, 7), W(57472),
      MoveqOf(255, 2), Reg("SWAP", 2),
      MovemOf(TRUE, 3, 7), W(263),
      Ea("PEA", 7, 0), W(4160), Op("RTS"),
      Ea("JSR", 7, 1), W(0), W(4352),
      MoveOf(0, 3, 7, 0), W(2048),
      BccOf(0, 254)>>)
  @@ Routine(4352,
    <<[op |-> "LINK", reg |-> 5], W(-4), MoveOf(0, 0, 5, 5), W(-2), MoveOf(5, 5, 0, 4), W(-2),
      BccOf(6, 2), MoveqOf(7, 3), Op("NOP"), Reg("UNLK", 5), Op("RTS")>>)

TourEnd == 4170

(* Instructions that compute. *)
SumOf(op, kind, long, mode, reg, dreg) ==
  [op |-> op, kind |-> kind, long |-> long, mode |-> mode, reg |-> reg, dreg |-> dreg]
ToD(kind, long, mode, reg, dreg) == SumOf("to register", kind, long, mode, reg, dreg)
ToA(kind, long, mode, reg, dreg) == SumOf("to address register", kind, long, mode, reg, dreg)
FromD(kind, long, dreg, mode, reg) == SumOf("from register", kind, long, mode, reg, dreg)
ExtendedOf(kind, long, reg, dreg) == SumOf("extended", kind, long, 0, reg, dreg)
CmpmOf(long, reg, dreg) == SumOf("CMPM", "CMP", long, 3, reg, dreg)
ImmOf(kind, long, mode, reg) == SumOf("immediate", kind, long, mode, reg, 0)
OneOf(kind, long, mode, reg) == SumOf("one operand", kind, long, mode, reg, 0)
TstOf(long, mode, reg) == SumOf("TST", "TST", long, mode, reg, 0)
QuickOf(kind, long, mode, reg, byte) ==
  [op |-> "quick", kind |-> kind, long |-> long, mode |-> mode, reg |-> reg, byte |-> byte]
ShiftOf(kind, long, byte, reg) ==
  [op |-> "shift", kind |-> kind, long |-> long, counted |-> FALSE, byte |-> byte, reg |-> reg]
ShiftBy(kind, long, dreg, reg) ==
  [op |-> "shift", kind |-> kind, long |-> long, counted |-> TRUE, dreg |-> dreg, reg |-> reg]
ProductOf(op, signed, mode, reg, dreg) ==
  [op |-> op, signed |-> signed, mode |-> mode, reg |-> reg, dreg |-> dreg]
ExgOf(form, dreg, reg) == [op |-> "EXG", form |-> form, dreg |-> dreg, reg |-> reg]
SccOf(cond, reg) == [op |-> "Scc", cond |-> cond, reg |-> reg]
BitAt(kind, reg) == [op |-> "bit", kind |-> kind, immediate |-> TRUE, reg |-> reg]
BitBy(kind, dreg, reg) == [op |-> "bit", kind |-> kind, immediate |-> FALSE, dreg |-> dreg, reg |-> reg]
StatusOf(kind, whole) == [op |-> "logical to status", kind |-> kind, whole |-> whole]
LongOf(mode, reg, dmode, dreg) ==
  [op |-> "MOVE.L", mode |-> mode, reg |-> reg, dmode |-> dmode, dreg |-> dreg]

(* Goes on for ever where it is unless the condition holds. *)
Unless(cond) == BccOf(IF cond % 2 = 0 THEN cond + 1 ELSE cond - 1, 254)
HI == 2
CS == 5
NE == 6
EQ == 7
VS == 9
PL == 10
MI == 11
GE == 12
LT == 13

(* Every operation, with the carries, borrows, signs and overflows between *)
(* them, on registers and on memory; every fault an operand can have.      *)
SumsInRegisters ==
  <<LeaOf(7, 0, 0), W(2080), LongOf(7, 4, 0, 0), W(1), W(65535), MoveqOf(1, 1),
    ToD("ADD", FALSE, 0, 1, 0), Unless(EQ), Unless(CS),
    MoveqOf(0, 2), MoveqOf(0, 3), ExtendedOf("ADDX", TRUE, 2, 3), Unless(NE),
    ExtendedOf("SUBX", TRUE, 3, 2), Unless(MI), Unless(CS), OneOf("NEG", TRUE, 0, 2),
    QuickOf("ADD", TRUE, 0, 2, 8), QuickOf("SUB", FALSE, 1, 0, 2),
    ToD("CMP", FALSE, 7, 4, 2), W(65534), Unless(CS), Unless(GE),
    ImmOf("SUB", FALSE, 0, 2), W(32776), Unless(VS), Unless(CS), ImmOf("ADD", FALSE, 0, 2), W(32776),
    ProductOf("multiply", FALSE, 7, 4, 2), W(3), ProductOf("divide", FALSE, 7, 4, 2), W(5),
    Reg("SWAP", 2), ImmOf("CMP", FALSE, 0, 2), W(2), Unless(EQ),
    ProductOf("multiply", TRUE, 7, 4, 1), W(-7), ProductOf("divide", TRUE, 7, 4, 1), W(2), Unless(MI),
    Reg("EXT.L", 1), ProductOf("divide", TRUE, 0, 4, 1),
    ExgOf(0, 1, 2), ExgOf(2, 5, 0), ExgOf(1, 1, 0), ExgOf(1, 1, 0), ExgOf(2, 5, 0),
    ShiftOf("ASL", FALSE, 2, 1), ShiftOf("ROL", FALSE, 8, 1), ShiftBy("ASL", FALSE, 3, 1),
    ShiftOf("ASR", TRUE, 4, 2), ShiftOf("LSR", FALSE, 1, 2), ShiftOf("ROR", FALSE, 1, 2),
    ShiftOf("LSL", TRUE, 1, 2), BitAt("BSET", 3), W(36), BitBy("BCHG", 3, 3), BitAt("BCLR", 3), W(4),
    BitAt("BTST", 3), W(1), Unless(EQ), SccOf(EQ, 6), SccOf(NE, 7)>>

SumsInMemory ==
  <<LeaOf(7, 0, 0), W(2080), LeaOf(7, 0, 1), W(2090), LeaOf(7, 0, 2), W(2091),
    LongOf(7, 4, 3, 0), W(0), W(65535), LongOf(4, 0, 0, 0), LongOf(0, 0, 4, 1),
    QuickOf("ADD", TRUE, 2, 0, 1), FromD("SUB", FALSE, 0, 5, 0), W(2), Unless(CS),
    FromD("EOR", TRUE, 0, 3, 1), Unless(EQ), ImmOf("OR", FALSE, 4, 1), W(128),
    ImmOf("AND", TRUE, 2, 0), W(3), W(9), ImmOf("CMP", TRUE, 3, 0), W(1), W(1), Unless(EQ),
    OneOf("NOT", FALSE, 4, 0), OneOf("ASR", FALSE, 2, 0), Unless(MI),
    OneOf("ROL", FALSE, 7, 0), W(2082), OneOf("NEG", TRUE, 7, 1), W(0), W(2080),
    OneOf("CLR", TRUE, 4, 0), TstOf(TRUE, 3, 0), Unless(EQ), CmpmOf(FALSE, 0, 1), Unless(HI),
    MoveOf(7, 4, 2, 1), W(2090), ToA("CMP", FALSE, 3, 1, 1), Unless(EQ),
    ToA("ADD", TRUE, 7, 4, 1), W(0), W(6), ToA("SUB", FALSE, 7, 4, 1), W(4), ToA("MOVE", FALSE, 7, 4, 3), W(-2)>>

(* Odd addresses in A2, whose handler goes on at the saved program counter. *)
SumsThatFault ==
  <<FromD("ADD", FALSE, 0, 2, 2), ImmOf("CMP", FALSE, 2, 2), W(5), QuickOf("ADD", TRUE, 3, 2, 1),
    OneOf("NOT", FALSE, 4, 2), Op("NOP"), ToD("ADD", TRUE, 4, 2, 0),
    CmpmOf(TRUE, 2, 0), Op("NOP"), CmpmOf(FALSE, 0, 2), Op("NOP"),
    LongOf(7, 4, 2, 2), W(0), W(1), Op("NOP"), LongOf(2, 0, 2, 2), Op("NOP"), LongOf(0, 0, 5, 2), W(0),
    LongOf(7, 4, 7, 0), W(0), W(1), W(2089), LongOf(0, 0, 4, 2), Op("NOP"), LongOf(3, 0, 7, 1), W(0), W(2092),
    Ea("MOVE from SR", 2, 0), StatusOf("OR", FALSE), W(16), StatusOf("AND", TRUE), W(57343),
    StatusOf("EOR", TRUE), W(8192), StatusOf("EOR", FALSE), W(31)>>

Computations == SumsInRegisters \o SumsInMemory \o SumsThatFault

Sums == Routine(4096, Append(Computations, BccOf(0, 254)))

SumsEnd == 4096 + 2 * Len(Computations)

(* Instructions on bytes. *)
OnByteOf(form) == [op |-> "byte", form |-> form]
MoveB(mode, reg, dmode, dreg) ==
  [mode |-> mode, reg |-> reg, dmode |-> dmode, dreg |-> dreg] @@ OnByteOf("move")
ByteOf(form, kind, mode, reg, dreg) ==
  [kind |-> kind, mode |-> mode, reg |-> reg, dreg |-> dreg] @@ OnByteOf(form)
QuickB(kind, mode, reg, byte) ==
  [kind |-> kind, mode |-> mode, reg |-> reg, byte |-> byte] @@ OnByteOf("quick")
ShiftB(kind, byte, reg) ==
  [kind |-> kind, counted |-> FALSE, byte |-> byte, reg |-> reg] @@ OnByteOf("shift")
ShiftByB(kind, dreg, reg) ==
  [kind |-> kind, counted |-> TRUE, dreg |-> dreg, reg |-> reg] @@ OnByteOf("shift")
AtB(form, mode, reg) == [mode |-> mode, reg |-> reg] @@ OnByteOf(form)
CmpmB(reg, dreg) == [reg |-> reg, dreg |-> dreg] @@ OnByteOf("CMPM")
SccB(cond, mode, reg) == [cond |-> cond] @@ AtB("Scc", mode, reg)
BitB(kind, mode, reg) == [kind |-> kind, immediate |-> TRUE] @@ AtB("bit", mode, reg)
BitByB(kind, dreg, mode, reg) ==
  [kind |-> kind, immediate |-> FALSE, dreg |-> dreg] @@ AtB("bit", mode, reg)

(* Both halves of words, all ways to an address, the stack pointer moved by *)
(* a byte, a byte that does not answer, and carries out of eight bits.      *)
Bytes8 ==
  <<LeaOf(7, 0, 0), W(2080), LeaOf(7, 0, 1), W(2091),
    MoveB(7, 4, 3, 0), W(129), Unless(MI), MoveB(7, 4, 3, 0), W(1),
    MoveB(4, 0, 0, 3), MoveB(3, 0, 4, 1), MoveqOf(127, 0),
    ByteOf("to register", "ADD", 4, 0, 0), Unless(VS), Unless(MI),
    ByteOf("to register", "SUB", 7, 4, 0), W(129), Unless(CS),
    ByteOf("extended", "ADDX", 0, 3, 0), Unless(CS), ByteOf("extended", "SUBX", 0, 3, 0), Unless(MI),
    ByteOf("to register", "CMP", 2, 0, 0), Unless(HI), Unless(LT),
    ByteOf("from register", "ADD", 2, 0, 0), Unless(EQ),
    ByteOf("from register", "EOR", 0, 3, 0), ByteOf("from register", "OR", 3, 0, 0), Unless(MI),
    ByteOf("immediate", "AND", 4, 0, 0), W(15), ByteOf("immediate", "CMP", 2, 0, 0), W(15), Unless(EQ),
    ByteOf("immediate", "SUB", 5, 0, 0), W(16), W(-1), Unless(VS),
    ByteOf("immediate", "EOR", 0, 3, 0), W(255), QuickB("SUB", 7, 0, 8), W(2080),
    QuickB("ADD", 0, 3, 8), QuickB("NEG", 2, 0, 1), Unless(CS), QuickB("NOT", 0, 3, 1),
    QuickB("CLR", 7, 1, 1), W(0), W(2091), Unless(EQ),
    ShiftB("ASL", 1, 3), Unless(CS), ShiftByB("ROR", 0, 3), CmpmB(0, 1), Unless(CS),
    LeaOf(7, 0, 2), W(512), AtB("TST", 2, 2), Unless(CS), AtB("TST", 3, 1), Unless(EQ),
    SccB(EQ, 4, 1), SccB(NE, 4, 1), AtB("TAS", 2, 0), Unless(EQ), AtB("TAS", 0, 5), Unless(EQ),
    BitB("BSET", 3, 0), W(10), Unless(EQ), BitByB("BCHG", 3, 4, 0), BitB("BCLR", 2, 0), W(7), Unless(NE),
    BitByB("BTST", 3, 7, 4), W(2), Unless(NE),
    MoveB(2, 0, 7, 1), W(0), W(2095), MoveB(0, 0, 7, 1), W(0), W(2094), MoveB(7, 4, 7, 0), W(77), W(2096),
    MoveB(7, 0, 5, 0), W(2095), W(15), MoveB(0, 3, 4, 7), MoveB(3, 7, 0, 4), Unless(MI),
    MoveB(7, 2, 0, 6), W(1), MoveB(6, 0, 0, 7), W(26636)>>

Handlers ==
  Routine(4480, <<Ea("MOVE from SR", 0, 5), Reg("MOVE from USP", 2), Op("RTE")>>)
  @@ Routine(4500, <<LeaOf(5, 7, 7), W(8), Op("RTE")>>)
  @@ Routine(4520, <<MovemOf(TRUE, 5, 7), W(16384), W(2), LeaOf(5, 6, 6), W(2),
                     MovemOf(FALSE, 5, 7), W(16384), W(2), Op("RTE")>>)
  @@ Routine(4540, <<MovemOf(TRUE, 5, 7), W(16384), W(2), LeaOf(5, 6, 6), W(4),
                     MovemOf(FALSE, 5, 7), W(16384), W(2), Op("RTE")>>)
  @@ Routine(4600, <<MovemOf(FALSE, 4, 7), W(49280), MoveqOf(0, 0), Reg("EXT.L", 1),
                     LeaOf(7, 0, 0), W(8), Ea("MOVE to CCR", 0, 0),
                     MovemOf(TRUE, 3, 7), W(259), Op("RTE")>>)
  @@ Routine(4640, <<MoveOf(0, 0, 4, 7), Reg("EXT.W", 0), MoveOf(3, 7, 0, 0), Op("RTE")>>)
  @@ Vector(5, 4480) @@ Vector(2, 4500) @@ Vector(3, 4500) @@ Vector(4, 4540) @@ Vector(8, 4540)
  @@ Vector(11, 4520) @@ Vector(26, 4600) @@ Vector(70, 4640)
  @@ Vector(33, 4480)

Reset0(ssp, pc) == Section(0, <<W(0), W(ssp), W(0), W(pc)>>)

Guest(words, cells, interrupts, end, result, memory) ==
  [words |-> words, cells |-> cells, interrupts |-> interrupts, end |-> end, result |-> result, memory |-> memory]

None == [r \in {} |-> 0]

(* A STOP that every interrupt ends, then one that none does. *)
Stops ==
  Routine(4096, <<Op("STOP"), W(8192), Op("NOP"), Op("STOP"), W(9984), BccOf(0, 254)>>)

(* A user program whose exception has no stack or no handler to go to, and *)
(* one that runs off the end of the ROM.                                   *)
Wedged ==
  Routine(4096, <<Ea("MOVE to SR", 7, 4), W(0), Op("NOP"), [op |-> "TRAP", byte |-> 1]>>)

RunsOff == Routine(4096, <<LeaOf(7, 1, 3), W(0), W(9000), MoveqOf(1, 0), Op("NOP")>>)

MCGuests ==
  LET Standard == Handlers @@ Reset0(1020, 4096)
  IN [tour   |-> Guest(Tour @@ Standard, SystemStack \cup UserRam, 1, TourEnd,
                       (0 :> 65535) @@ (3 :> 7), 2048 :> 7),
      sums   |-> Guest(Sums @@ Standard, SystemStack \cup UserRam, 0, SumsEnd,
                       (0 :> 65535) @@ (1 :> 331776) @@ (3 :> 131073) @@ (6 :> 255) @@ (7 :> 0),
                       (2082 :> 1) @@ (2088 :> 128) @@ (2090 :> 10000) @@ (2094 :> 128)),
      bytes  |-> Guest(Routine(4096, Append(Bytes8, BccOf(0, 254))) @@ Standard,
                       SystemStack \cup UserRam, 0, 4096 + 2 * Len(Bytes8),
                       (0 :> 255) @@ (3 :> 217) @@ (4 :> 217) @@ (5 :> 128) @@ (6 :> 1) @@ (7 :> 6),
                       (2080 :> 27121) @@ (2082 :> 1536) @@ (2090 :> 255) @@ (2094 :> 65286)
                         @@ (2096 :> 19718)),
      stops  |-> Guest(Stops @@ Standard, SystemStack, 2, 0, None, None),
      wedged |-> Guest(Wedged @@ Handlers @@ Reset0(512, 4096), SystemStack, 1, 0, None, None),
      vectorless |-> Guest(Wedged @@ Reset0(1020, 4096), SystemStack, 1, 0, None, None),
      off    |-> Guest(RunsOff @@ Standard, SystemStack, 1, 0, None, None),
      odd    |-> Guest(RunsOff @@ Reset0(1020, 4097), SystemStack, 1, 0, None, None)]

MCLevels == {[level |-> 2, vector |-> 26], [level |-> 6, vector |-> 70]}

-----------------------------------------------------------------------------
(* On every value of four bits, by every count up to nine, shifting one     *)
(* place at a time is what shifts and rotations are in arithmetic.          *)
ShiftReference(kind, v, n) ==
  LET wide  == v * (2 ^ n)
      turn  == v * (2 ^ (n % 4))
      back  == v * (2 ^ ((4 - (n % 4)) % 4))
      Around(w) == (w % 16) + (w \div 16)
  IN CASE kind \in {"LSL", "ASL"} -> [value |-> wide % 16, carry |-> (wide \div 16) % 2 = 1]
       [] kind = "LSR" -> [value |-> v \div (2 ^ n), carry |-> ((2 * v) \div (2 ^ n)) % 2 = 1]
       [] kind = "ASR" -> [value |-> (Signed(v, 16) \div (2 ^ n)) % 16,
                           carry |-> ((2 * Signed(v, 16)) \div (2 ^ n)) % 2 = 1]
       [] kind = "ROL" -> [value |-> Around(turn), carry |-> Around(turn) % 2 = 1]
       [] kind = "ROR" -> [value |-> Around(back), carry |-> Negative(Around(back), 16)]

ASSUME ShiftsAreArithmetic ==
  \A kind \in {"ASL", "ASR", "LSL", "LSR", "ROL", "ROR"}, v \in 0 .. 15, n \in 0 .. 9, sr \in {0, 31} :
    LET o == Shifted(kind, v, n, 16, Flags(sr))
        e == ShiftReference(kind, v, n)
    IN /\ o.value = e.value /\ o.flags.c = (n > 0 /\ e.carry)
       /\ o.flags.v = (kind = "ASL" /\ Signed(v, 16) * (2 ^ n) \notin -8 .. 7)
       /\ o.flags.x = IF n = 0 \/ Rotates(kind) THEN sr = 31 ELSE e.carry

=============================================================================
