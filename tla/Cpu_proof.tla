----------------------------- MODULE Cpu_proof -----------------------------
(***************************************************************************)
(* Proofs about the processor: whatever the instruction, its registers, its*)
(* status and its memory keep their width, and a program in user mode keeps*)
(* its supervisor stack pointer and the upper byte of its status until it  *)
(* is at the first word of a handler.                                      *)
(***************************************************************************)
EXTENDS Cpu, WellFoundedInduction, FiniteSetTheorems, TLAPS

(* Induction over the natural numbers, from the least one that is missing. *)
LEMMA Induction ==
  ASSUME NEW S, 0 \in S, \A n \in Nat : n \in S => n + 1 \in S
  PROVE  Nat \subseteq S
<1> DEFINE T == Nat \ S
           R == OpToRel(<, Nat)
<1> SUFFICES ASSUME T # {} PROVE FALSE
  BY Zenon
<1>1. \A x, y : <<y, x>> \in R <=> (y \in Nat /\ x \in Nat /\ y < x)
  BY SMT DEF OpToRel
<1>2. IsWellFoundedOn(R, Nat)
  BY NatLessThanWellFounded
<1> HIDE DEF R
<1>3. PICK x \in T : \A y \in T : ~ (<<y, x>> \in R)
  BY Zenon, <1>2, WFMin
<1>4. \A y \in Nat : y < x => y \in S
  BY Zenon, <1>1, <1>3
<1>5. x # 0 /\ x \in Nat /\ x \notin S
  BY Zenon, <1>3
<1>6. x - 1 \in Nat /\ x - 1 < x /\ (x - 1) + 1 = x
  BY SMT, <1>5
<1> QED BY Zenon, <1>4, <1>5, <1>6

(* One bit of the conjunction, and the conjunction of the others. *)
OddBit(p) == IF p[1] % 2 = 1 /\ p[2] % 2 = 1 THEN 1 ELSE 0

AndStep(f, p) ==
  IF p[1] = 0 \/ p[2] = 0 THEN 0
  ELSE (2 * f[<<p[1] \div 2, p[2] \div 2>>]) + OddBit(p)

Pairs(x, y) == (0 .. x) \X (0 .. y)

(* The recursion of And has a solution: row by row. *)
LEMMA AndHasATable ==
  ASSUME NEW x \in Nat, NEW y \in Nat
  PROVE  \E f : f = [p \in Pairs(x, y) |-> AndStep(f, p)]
<1> DEFINE Solves(g, n) == /\ g = [p \in Pairs(x, y) |-> g[p]]
                           /\ \A p \in Pairs(x, y) : p[1] <= n => g[p] = AndStep(g, p)
           S == {n \in Nat : \E g : Solves(g, n)}
<1>1. 0 \in S
  <2> DEFINE g == [p \in Pairs(x, y) |-> 0]
  <2>1. \A p \in Pairs(x, y) : p[1] <= 0 => AndStep(g, p) = 0
    BY SMT DEF Pairs, AndStep
  <2>2. Solves(g, 0)
    BY Zenon, <2>1
  <2> HIDE DEF g, Solves
  <2> QED BY Zenon, <2>2
<1>2. ASSUME NEW n \in Nat, n \in S PROVE n + 1 \in S
  <2>1. PICK g : Solves(g, n)
    BY <1>2
  <2> DEFINE h == [p \in Pairs(x, y) |-> IF p[1] <= n THEN g[p] ELSE AndStep(g, p)]
  <2>2. ASSUME NEW p \in Pairs(x, y), p[1] <= n + 1 PROVE AndStep(g, p) = AndStep(h, p)
    <3>1. /\ p[1] # 0 => p[1] \div 2 <= n
          /\ <<p[1] \div 2, p[2] \div 2>> \in Pairs(x, y)
          /\ <<p[1] \div 2, p[2] \div 2>>[1] = p[1] \div 2
      BY SMT, <2>2 DEF Pairs
    <3>2. p[1] # 0 => h[<<p[1] \div 2, p[2] \div 2>>] = g[<<p[1] \div 2, p[2] \div 2>>]
      BY Zenon, <3>1
    <3> HIDE DEF h
    <3> QED BY Zenon, <3>2 DEF AndStep
  <2>3. ASSUME NEW p \in Pairs(x, y), p[1] <= n + 1 PROVE h[p] = AndStep(h, p)
    <3>1. CASE p[1] <= n
      BY Zenon, <2>1, <2>2, <2>3, <3>1
    <3>2. CASE ~ (p[1] <= n)
      BY Zenon, <2>2, <2>3, <3>2
    <3> QED BY <3>1, <3>2
  <2>4. h = [p \in Pairs(x, y) |-> h[p]]
    BY Zenon
  <2> HIDE DEF h
  <2>5. Solves(h, n + 1)
    BY Zenon, <2>3, <2>4
  <2> HIDE DEF Solves
  <2>6. n + 1 \in Nat
    BY SMT
  <2> QED BY Zenon, <2>5, <2>6
<1>3. x \in S
  <2> HIDE DEF S
  <2> QED BY Zenon, <1>1, <1>2, Induction
<1>4. PICK f : Solves(f, x)
  BY <1>3
<1>5. \A p \in Pairs(x, y) : p[1] <= x
  BY SMT DEF Pairs
<1> QED BY Zenon, <1>4, <1>5

AndTable(x, y) == CHOOSE f : f = [p \in Pairs(x, y) |-> AndStep(f, p)]

LEMMA AndLooksUp ==
  ASSUME NEW x \in Nat, NEW y \in Nat
  PROVE  /\ And(x, y) = AndTable(x, y)[<<x, y>>]
         /\ \A p \in Pairs(x, y) : AndTable(x, y)[p] = AndStep(AndTable(x, y), p)
<1>1. And(x, y) = AndTable(x, y)[<<x, y>>]
  BY DEF And, AndTable, AndStep, OddBit, Pairs
<1>2. AndTable(x, y) = [p \in Pairs(x, y) |-> AndStep(AndTable(x, y), p)]
  BY AndHasATable DEF AndTable
<1> HIDE DEF AndTable
<1>3. ASSUME NEW p \in Pairs(x, y) PROVE AndTable(x, y)[p] = AndStep(AndTable(x, y), p)
  BY Zenon, <1>2, <1>3
<1> QED BY <1>1, <1>3

(* A conjunction is no larger than either operand, and a disjunction has no *)
(* more bits than the wider one.                                           *)
AndWithin(x, y, size) ==
  \A p \in Pairs(x, y) : p[1] < size /\ p[2] < size =>
    LET r == AndTable(x, y)[p]
    IN r \in Nat /\ r <= p[1] /\ r <= p[2] /\ (p[1] + p[2]) - r < size

LEMMA AndDoubles ==
  ASSUME NEW x \in Nat, NEW y \in Nat, NEW half \in Nat, half > 0, AndWithin(x, y, half)
  PROVE  AndWithin(x, y, 2 * half)
<1> DEFINE f == AndTable(x, y)
<1> SUFFICES ASSUME NEW p \in Pairs(x, y), p[1] < 2 * half, p[2] < 2 * half
             PROVE  f[p] \in Nat /\ f[p] <= p[1] /\ f[p] <= p[2] /\ (p[1] + p[2]) - f[p] < 2 * half
  BY Zenon DEF AndWithin
<1> DEFINE q == <<p[1] \div 2, p[2] \div 2>>
<1>1. /\ p[1] \in Nat /\ p[2] \in Nat
      /\ q \in Pairs(x, y) /\ q[1] = p[1] \div 2 /\ q[2] = p[2] \div 2
      /\ q[1] < half /\ q[2] < half
  BY SMT DEF Pairs
<1>2. f[q] \in Nat /\ f[q] <= q[1] /\ f[q] <= q[2] /\ (q[1] + q[2]) - f[q] < half
  <2> HIDE DEF q
  <2> QED BY Zenon, <1>1 DEF AndWithin
<1>3. f[p] = IF p[1] = 0 \/ p[2] = 0 THEN 0 ELSE (2 * f[q]) + OddBit(p)
  BY Zenon, AndLooksUp DEF AndStep
<1> HIDE DEF f, q
<1> QED BY SMT, <1>1, <1>2, <1>3 DEF OddBit

LEMMA AndGrows ==
  ASSUME NEW x \in Nat, NEW y \in Nat, NEW n \in Nat, n > 0, AndWithin(x, y, n)
  PROVE  AndWithin(x, y, 16 * n)
<1>1. 2 * n \in Nat /\ 2 * n > 0 /\ 4 * n \in Nat /\ 4 * n > 0 /\ 8 * n \in Nat /\ 8 * n > 0
      /\ 2 * (2 * n) = 4 * n /\ 2 * (4 * n) = 8 * n /\ 2 * (8 * n) = 16 * n
  BY SMT
<1>2. AndWithin(x, y, 2 * n)
  BY AndDoubles
<1>3. AndWithin(x, y, 4 * n)
  BY Zenon, <1>1, <1>2, AndDoubles
<1>4. AndWithin(x, y, 8 * n)
  BY Zenon, <1>1, <1>3, AndDoubles
<1> QED BY Zenon, <1>1, <1>4, AndDoubles

(* The sizes of operands: bytes, words and longs. *)
Width == LongSize = 4294967296

Sizes == {256, 65536, LongSize}

LEMMA AndBySize ==
  ASSUME Width, NEW x \in Nat, NEW y \in Nat, NEW size \in Sizes
  PROVE  AndWithin(x, y, size)
<1>1. AndWithin(x, y, 1)
  <2> SUFFICES ASSUME NEW p \in Pairs(x, y), p[1] < 1, p[2] < 1
               PROVE  LET r == AndTable(x, y)[p]
                      IN r \in Nat /\ r <= p[1] /\ r <= p[2] /\ (p[1] + p[2]) - r < 1
    BY Zenon DEF AndWithin
  <2>1. p[1] = 0 /\ p[2] = 0
    BY SMT DEF Pairs
  <2>2. AndTable(x, y)[p] = 0
    BY Zenon, <2>1, AndLooksUp DEF AndStep
  <2> HIDE DEF AndTable
  <2> QED BY SMT, <2>1, <2>2
<1> HIDE DEF AndWithin
<1>2. AndWithin(x, y, 16)
  BY SMT, <1>1, AndGrows
<1>3. AndWithin(x, y, 256)
  BY SMT, <1>2, AndGrows
<1>4. AndWithin(x, y, 4096)
  BY SMT, <1>3, AndGrows
<1>5. AndWithin(x, y, 65536)
  BY SMT, <1>4, AndGrows
<1>6. AndWithin(x, y, 1048576)
  BY SMT, <1>5, AndGrows
<1>7. AndWithin(x, y, 16777216)
  BY SMT, <1>6, AndGrows
<1>8. AndWithin(x, y, 268435456)
  BY SMT, <1>7, AndGrows
<1>9. AndWithin(x, y, 4294967296)
  BY SMT, <1>8, AndGrows
<1> QED BY SMT, <1>3, <1>5, <1>9 DEF Sizes, Width

(* AND, OR and EOR of two operands fit where the operands do. *)
LEMMA LogicFits ==
  ASSUME Width, NEW size \in Sizes, NEW d \in Nat, NEW s \in Nat, d < size, s < size,
         NEW kind \in {"AND", "OR", "EOR"}
  PROVE  LogicalValue(kind, d, s) \in Nat /\ LogicalValue(kind, d, s) < size
<1> DEFINE r == AndTable(d, s)[<<d, s>>]
<1>1. <<d, s>> \in Pairs(d, s) /\ <<d, s>>[1] = d /\ <<d, s>>[2] = s
  BY SMT DEF Pairs
<1>2. r \in Nat /\ r <= d /\ r <= s /\ (d + s) - r < size
  BY Zenon, <1>1, AndBySize DEF AndWithin
<1>3. And(d, s) = r
  BY Zenon, AndLooksUp
<1> HIDE DEF r
<1>4. size \in Nat
  BY SMT, CpuAssumption DEF Sizes
<1> QED BY SMT, <1>2, <1>3, <1>4 DEF LogicalValue

LEMMA Wrapped ==
  ASSUME NEW size \in Nat \ {0}, NEW n \in Int
  PROVE  /\ n \in 0 .. (size - 1) => n % size = n
         /\ n \in size .. (2 * size) - 1 => n % size = n - size
         /\ n \in (-size) .. -1 => n % size = n + size
  BY SMTT(30)

(* The places a shift goes through: the recursion of Shifted. *)
Start(value) == [value |-> value, carry |-> FALSE, overflow |-> FALSE]

ShiftStep(kind, value, size, f, n) ==
  IF n = 0 THEN Start(value) ELSE ShiftedOnce(kind, f[n - 1], size)

LEMMA ShiftHasATable ==
  ASSUME NEW kind, NEW value, NEW size
  PROVE  \E f : f = [n \in 0 .. 63 |-> ShiftStep(kind, value, size, f, n)]
<1> DEFINE Solves(g, m) == /\ g = [n \in 0 .. 63 |-> g[n]]
                           /\ \A n \in 0 .. 63 : n <= m => g[n] = ShiftStep(kind, value, size, g, n)
           S == {m \in Nat : \E g : Solves(g, m)}
<1>1. 0 \in S
  <2> DEFINE g == [n \in 0 .. 63 |-> Start(value)]
  <2>1. \A n \in 0 .. 63 : n <= 0 => n = 0
    BY SMT
  <2>2. Solves(g, 0)
    BY Zenon, <2>1 DEF ShiftStep
  <2> HIDE DEF g, Solves
  <2> QED BY Zenon, <2>2
<1>2. ASSUME NEW m \in Nat, m \in S PROVE m + 1 \in S
  <2>1. PICK g : Solves(g, m)
    BY <1>2
  <2> DEFINE h == [n \in 0 .. 63 |-> IF n <= m THEN g[n] ELSE ShiftStep(kind, value, size, g, n)]
  <2>2. ASSUME NEW n \in 0 .. 63, n <= m + 1
        PROVE  ShiftStep(kind, value, size, g, n) = ShiftStep(kind, value, size, h, n)
    <3>1. n # 0 => n - 1 \in 0 .. 63 /\ n - 1 <= m
      BY SMT, <2>2
    <3>2. n # 0 => h[n - 1] = g[n - 1]
      BY Zenon, <3>1
    <3> HIDE DEF h
    <3> QED BY Zenon, <3>2 DEF ShiftStep
  <2>3. ASSUME NEW n \in 0 .. 63, n <= m + 1 PROVE h[n] = ShiftStep(kind, value, size, h, n)
    <3>1. CASE n <= m
      BY Zenon, <2>1, <2>2, <2>3, <3>1
    <3>2. CASE ~ (n <= m)
      BY Zenon, <2>2, <2>3, <3>2
    <3> QED BY <3>1, <3>2
  <2>4. h = [n \in 0 .. 63 |-> h[n]]
    BY Zenon
  <2> HIDE DEF h
  <2>5. Solves(h, m + 1)
    BY Zenon, <2>3, <2>4
  <2> HIDE DEF Solves
  <2>6. m + 1 \in Nat
    BY SMT
  <2> QED BY Zenon, <2>5, <2>6
<1>3. 63 \in S
  <2> HIDE DEF S
  <2> QED BY SMT, <1>1, <1>2, Induction
<1>4. PICK f : Solves(f, 63)
  BY <1>3
<1>5. \A n \in 0 .. 63 : n <= 63
  BY SMT
<1> QED BY Zenon, <1>4, <1>5

ShiftTable(kind, value, size) ==
  CHOOSE f : f = [n \in 0 .. 63 |-> ShiftStep(kind, value, size, f, n)]

LEMMA ShiftLooksUp ==
  ASSUME NEW kind, NEW value, NEW count, NEW size, NEW f
  PROVE  Shifted(kind, value, count, size, f).value = ShiftTable(kind, value, size)[count].value
  BY DEF Shifted, Outcome, ShiftTable, ShiftStep, Start

LEMMA ShiftByStep ==
  ASSUME NEW kind, NEW value, NEW size
  PROVE  \A n \in 0 .. 63 : ShiftTable(kind, value, size)[n] =
              ShiftStep(kind, value, size, ShiftTable(kind, value, size), n)
<1>2. ShiftTable(kind, value, size) =
        [n \in 0 .. 63 |-> ShiftStep(kind, value, size, ShiftTable(kind, value, size), n)]
  BY ShiftHasATable DEF ShiftTable
<1> HIDE DEF ShiftTable
<1>3. ASSUME NEW n \in 0 .. 63
      PROVE  ShiftTable(kind, value, size)[n] =
               ShiftStep(kind, value, size, ShiftTable(kind, value, size), n)
  BY Zenon, <1>2, <1>3
<1> QED BY <1>3

LEMMA ShiftedOnceFits ==
  ASSUME NEW half \in Nat \ {0}, NEW kind, NEW p, p.value \in 0 .. (2 * half) - 1
  PROVE  ShiftedOnce(kind, p, 2 * half).value \in 0 .. (2 * half) - 1
<1> DEFINE size == 2 * half
           v == p.value
<1>1. size \div 2 = half /\ size \in Nat \ {0}
  BY SMT
<1>2. ShiftedRight(kind, p, size).value \in 0 .. size - 1
  <2>1. PICK b \in {0, half} : ShiftedRight(kind, p, size).value = (v \div 2) + b
    BY SMT, <1>1 DEF ShiftedRight
  <2> HIDE DEF v
  <2>2. v \in Nat /\ v < size
    BY SMT DEF v
  <2> QED BY SMT, <2>1, <2>2
<1>3. ShiftedLeft(kind, p, size).value \in 0 .. size - 1
  <2>1. PICK b \in {0, 1} : ShiftedLeft(kind, p, size).value = ((2 * v) % size) + b
    BY SMT DEF ShiftedLeft
  <2>2. v \in Nat /\ v < size
    BY SMT
  <2> HIDE DEF v
  <2>3. 2 * v \in Int /\ (v < half => 2 * v \in 0 .. (size - 1))
        /\ (v >= half => 2 * v \in size .. (2 * size) - 1)
    BY SMT, <2>2
  <2>4. (v < half => (2 * v) % size = 2 * v) /\ (v >= half => (2 * v) % size = (2 * v) - size)
    <3> HIDE DEF size
    <3> QED BY Zenon, <1>1, <2>3, Wrapped
  <2> DEFINE m == (2 * v) % size
  <2>5. (v < half => m = 2 * v) /\ (v >= half => m = (2 * v) - size)
    BY <2>4
  <2> HIDE DEF m
  <2>6. m + b \in 0 .. size - 1
    BY SMT, <2>2, <2>5
  <2> QED BY <2>1, <2>6 DEF m
<1> QED BY Zenon, <1>2, <1>3 DEF ShiftedOnce

LEMMA ShiftFits ==
  ASSUME NEW half \in Nat \ {0}, NEW kind, NEW value \in 0 .. (2 * half) - 1,
         NEW count \in 0 .. 63, NEW f
  PROVE  Shifted(kind, value, count, 2 * half, f).value \in 0 .. (2 * half) - 1
<1> DEFINE t == ShiftTable(kind, value, 2 * half)
           S == {n \in Nat : n <= 63 => t[n].value \in 0 .. (2 * half) - 1}
<1>1. \A n \in 0 .. 63 : t[n] = ShiftStep(kind, value, 2 * half, t, n)
  BY Zenon, ShiftByStep
<1>0. Shifted(kind, value, count, 2 * half, f).value = t[count].value
  BY Zenon, ShiftLooksUp
<1> HIDE DEF t
<1>2. 0 \in S
  <2>1. 0 \in Nat /\ 0 \in 0 .. 63
    BY SMT
  <2>2. t[0].value = value
    BY <1>1, <2>1 DEF ShiftStep, Start
  <2> QED BY Zenon, <2>1, <2>2
<1>3. ASSUME NEW n \in Nat, n \in S PROVE n + 1 \in S
  <2>1. n + 1 \in Nat /\ n + 1 # 0 /\ (n + 1) - 1 = n /\ (n + 1 <= 63 => n <= 63 /\ n + 1 \in 0 .. 63)
    BY SMT
  <2>2. n + 1 <= 63 => t[n + 1] = ShiftedOnce(kind, t[n], 2 * half)
    BY Zenon, <1>1, <2>1 DEF ShiftStep
  <2> QED BY Zenon, <1>3, <2>1, <2>2, ShiftedOnceFits
<1>4. count \in S
  <2>1. count \in Nat
    BY SMT
  <2> HIDE DEF S
  <2> QED BY Zenon, <1>2, <1>3, <2>1, Induction
<1>5. count <= 63
  BY SMT
<1> QED BY Zenon, <1>0, <1>4, <1>5

-----------------------------------------------------------------------------
(* Values of their width. *)

ByteValues == {n \in Nat : n < 256}
WordValues == {n \in Nat : n < 65536}
LongValues == {n \in Nat : n < 4294967296}
Operands(long) == IF long THEN Longs ELSE WordValues

LEMMA InRange ==
  ASSUME NEW a \in Int, NEW b \in Int, NEW x \in Int, a <= x, x <= b
  PROVE  x \in a .. b
  BY SMT

LEMMA LongSizeIsNat == LongSize \in Nat
  BY SMT, CpuAssumption

LEMMA LongRange == Width => Longs = LongValues
<1> SUFFICES ASSUME Width PROVE Longs = LongValues
  OBVIOUS
<1>1. ASSUME NEW x \in Longs PROVE x \in LongValues
  <2>1. x \in Nat /\ x < LongSize
    BY SMT, LongSizeIsNat DEF Longs
  <2> QED BY SMT, <2>1 DEF LongValues, Width
<1>2. ASSUME NEW x \in LongValues PROVE x \in Longs
  <2>1. x \in Int /\ 0 <= x /\ x < LongSize
    BY SMT DEF LongValues, Width
  <2>2. x <= LongSize - 1 /\ LongSize - 1 \in Int /\ 0 \in Int
    BY SMT, LongSizeIsNat, <2>1
  <2> QED BY Zenon, <2>1, <2>2, InRange DEF Longs
<1> QED BY Zenon, <1>1, <1>2

LastWord == 65535

LEMMA WordsAreWhole == WordValues = WordRange
<1>1. ASSUME NEW x \in WordValues PROVE x \in 0 .. LastWord
  <2>1. 0 \in Int /\ LastWord \in Int /\ 0 <= x /\ x <= LastWord /\ x \in Int
    BY SMT DEF WordValues, LastWord
  <2> QED BY Zenon, <2>1, InRange
<1>2. ASSUME NEW x \in 0 .. LastWord PROVE x \in WordValues
  BY SMTT(30) DEF WordValues, LastWord
<1>3. WordValues = 0 .. LastWord
  BY Zenon, <1>1, <1>2
<1>4. 0 .. LastWord = WordRange
  BY DEF LastWord, WordRange
<1> QED BY <1>3, <1>4

LEMMA LongsAreIntegers ==
  Longs \subseteq Int /\ WordValues \subseteq Int /\ ByteValues \subseteq Int /\ Registers8 \subseteq Int
<1>1. Longs \subseteq Int
  BY SMT DEF Longs
<1>2. WordValues \subseteq Int
  BY SMT DEF WordValues
<1>3. ByteValues \subseteq Int
  BY SMT DEF ByteValues
<1>4. Registers8 \subseteq Int
  BY SMT DEF Registers8
<1> QED BY <1>1, <1>2, <1>3, <1>4

LEMMA Narrower ==
  ASSUME Width
  PROVE  ByteValues \subseteq WordValues /\ WordValues \subseteq Longs
<1>1. ByteValues \subseteq WordValues
  BY SMT DEF WordValues, ByteValues
<1>2. WordValues \subseteq Longs
  BY SMT, LongRange DEF WordValues, LongValues
<1> QED BY <1>1, <1>2

LEMMA Adds ==
  ASSUME NEW x \in Int, NEW n \in Int
  PROVE  Add(x, n) \in Longs
  BY SMT, CpuAssumption DEF Add, Longs

LEMMA Added ==
  ASSUME NEW x \in Longs
  PROVE  /\ Add(x, 2) \in Longs /\ Add(x, 4) \in Longs /\ Add(x, 6) \in Longs
         /\ Add(x, -1) \in Longs /\ Add(x, -2) \in Longs /\ Add(x, -4) \in Longs
         /\ Add(x, -6) \in Longs /\ Add(x, -14) \in Longs
<1>1. x \in Int
  BY SMT DEF Longs
<1>2. -1 \in Int /\ -2 \in Int /\ -4 \in Int /\ -6 \in Int /\ -14 \in Int /\ 2 \in Int /\ 4 \in Int /\ 6 \in Int
  BY SMT
<1> QED BY Zenon, <1>1, <1>2, Adds

LEMMA Halves ==
  ASSUME Width, NEW x \in Longs
  PROVE  /\ High(x) \in WordValues /\ Low(x) \in WordValues /\ x % 256 \in ByteValues
         /\ x % 64 \in 0 .. 63 /\ x % 32 \in 0 .. 31 /\ x % 8 \in 0 .. 7
<1>1. x \in LongValues
  BY Zenon, LongRange
<1>2. High(x) \in WordValues /\ Low(x) \in WordValues
  BY SMT, <1>1 DEF LongValues, High, Low, WordValues
<1>3. x % 256 \in ByteValues /\ x % 64 \in 0 .. 63
  BY SMT, <1>1 DEF LongValues, ByteValues
<1>4. x % 32 \in 0 .. 31 /\ x % 8 \in 0 .. 7
  BY SMT, <1>1 DEF LongValues
<1> QED BY <1>2, <1>3, <1>4

LEMMA Joined ==
  ASSUME Width, NEW h \in WordValues, NEW w \in WordValues
  PROVE  Long(h, w) \in Longs
<1>1. HighWords = 65536
  BY SMT DEF Width, HighWords
<1>2. h % 65536 = h
  BY SMT DEF WordValues
<1>3. Long(h, w) = (h * 65536) + w
  BY SMT, <1>1, <1>2 DEF Long
<1>4. Long(h, w) \in LongValues
  BY SMT, <1>3 DEF WordValues, LongValues
<1> QED BY Zenon, <1>4, LongRange

LEMMA LowSet ==
  ASSUME Width, NEW x \in Longs, NEW w \in WordValues
  PROVE  SetLow(x, w) \in Longs
<1>1. High(x) \in WordValues
  BY Zenon, Halves
<1>2. SetLow(x, w) \in LongValues
  BY SMT, <1>1 DEF SetLow, WordValues, LongValues
<1> QED BY Zenon, <1>2, LongRange

LEMMA LowByteSet ==
  ASSUME Width, NEW x \in Longs, NEW w \in WordValues, NEW b \in ByteValues
  PROVE  /\ SetLowByte(x, b) \in Longs /\ SetLowByte(w, b) \in WordValues
         /\ (256 * b) + (w % 256) \in WordValues
<1>1. SetLowByte(w, b) \in WordValues
  BY SMT DEF SetLowByte, WordValues, ByteValues
<1>2. (256 * b) + (w % 256) \in WordValues
  BY SMT DEF WordValues, ByteValues
<1>3. x \in LongValues
  BY Zenon, LongRange
<1>4. SetLowByte(x, b) \in LongValues
  BY SMT, <1>3 DEF SetLowByte, ByteValues, LongValues
<1> QED BY Zenon, <1>1, <1>2, <1>4, LongRange

LEMMA SignsAreIntegers ==
  ASSUME NEW n \in Int
  PROVE  SignedByte(n) \in Int /\ SignedWord(n) \in Int /\ -n \in Int /\ n - 2 \in Int /\ n + 2 \in Int
         /\ n + 4 \in Int
  BY SMT DEF SignedByte, SignedWord, Signed, Negative

Fields == {"d", "a", "usp", "ssp", "sr", "pc", "prefetch", "stopped", "ram", "at"}

Shape(c) == Fields \subseteq DOMAIN c

Status(w) == w \in WordValues /\ w = Implemented(w)

TypedRegisters(c) ==
  c.d \in [0 .. 7 -> Longs] /\ c.a \in [0 .. 6 -> Longs] /\ c.usp \in Longs /\ c.ssp \in Longs

TypedPipeline(c) == c.pc \in Longs /\ c.prefetch[1] \in Longs /\ c.prefetch[2] \in Longs

TypedMemory(c) == c.ram \in [Cells -> WordValues]

Context == Width /\ guest \in DOMAIN Guests

Typed(c) ==
  Context /\ Shape(c) /\ TypedRegisters(c) /\ TypedPipeline(c) /\ TypedMemory(c) /\ Status(c.sr)

LEMMA RegisterRead ==
  ASSUME NEW c, Typed(c), NEW r \in Registers8
  PROVE  c.d[r] \in Longs /\ AddressRegister(c, r) \in Longs
  BY SMT DEF Typed, TypedRegisters, Registers8, AddressRegister

LEMMA WordRead ==
  ASSUME NEW c, Typed(c), NEW a \in Int
  PROVE  WordAt(c, a) \in WordValues
<1> DEFINE b == BusAddress(a)
<1>1. b \in Int
  BY SMT DEF BusAddress
<1>2. CASE b \in DOMAIN c.ram
  <2>1. c.ram[b] \in WordValues
    BY SMT, <1>2 DEF Typed, TypedMemory
  <2>2. WordAt(c, a) = c.ram[b]
    BY Zenon, <1>2 DEF WordAt
  <2> QED BY Zenon, <2>1, <2>2
<1>3. ASSUME b \notin DOMAIN c.ram, b \in DOMAIN Words /\ Words[b].op = "word"
      PROVE  WordAt(c, a) \in WordValues
  <2>1. Encoded(Words[b])
    BY Zenon, <1>3, InstructionAssumption DEF Words, Typed, Context
  <2>2. Words[b].value \in WordValues
    BY Zenon, <1>3, <2>1, WordsAreWhole DEF Encoded
  <2>3. WordAt(c, a) = Words[b].value
    BY Zenon, <1>3 DEF WordAt
  <2> QED BY Zenon, <2>2, <2>3
<1>4. CASE b \notin DOMAIN c.ram /\ ~ (b \in DOMAIN Words /\ Words[b].op = "word")
  <2>1. WordAt(c, a) = Low(b)
    BY Zenon, <1>4 DEF WordAt
  <2>2. Low(b) \in WordValues
    <3> HIDE DEF b
    <3> QED BY SMT, <1>1 DEF Low, WordValues
  <2> QED BY Zenon, <2>1, <2>2
<1> QED BY Zenon, <1>2, <1>3, <1>4

LEMMA LongRead ==
  ASSUME NEW c, Typed(c), NEW a \in Int
  PROVE  LongAt(c, a) \in Longs
<1>1. a + 2 \in Int
  BY SMT
<1>2. WordAt(c, a) \in WordValues /\ WordAt(c, a + 2) \in WordValues
  BY Zenon, <1>1, WordRead
<1>3. Width
  BY Zenon DEF Typed, Context
<1> QED BY Zenon, <1>2, <1>3, Joined DEF LongAt

LEMMA ExtensionRead ==
  ASSUME NEW c, Typed(c)
  PROVE  /\ Extension(c) \in WordValues /\ Extension(c) \in Int
         /\ Extension(c) % 256 \in ByteValues
         /\ Extension(c) % 32 \in 0 .. 31 /\ Extension(c) % 8 \in 0 .. 7
<1>1. c.prefetch[2] \in Int
  BY Zenon, LongsAreIntegers DEF Typed, TypedPipeline
<1>2. Extension(c) \in WordValues
  BY Zenon, <1>1, WordRead DEF Extension
<1>3. Extension(c) \in Int /\ Extension(c) \in Longs /\ Width
  BY Zenon, <1>2, LongsAreIntegers, Narrower DEF Typed, Context
<1> QED BY Zenon, <1>2, <1>3, Halves

LEMMA AddressFound ==
  ASSUME NEW c, Typed(c), NEW mode \in Registers8, NEW reg \in Registers8
  PROVE  EffectiveAddress(c, mode, reg) \in Longs
<1> DEFINE e == Extension(c)
<1>1. e \in WordValues /\ e \in Int
  BY Zenon, ExtensionRead
<1>2. c.pc \in Int /\ c.pc - 2 \in Int
  BY Zenon, LongsAreIntegers, SignsAreIntegers DEF Typed, TypedPipeline
<1> HIDE DEF e
<1>3. BriefIndex(c, e) \in Int
  <2> DEFINE r == (e \div 4096) % 8
  <2>1. r \in Registers8 /\ e % 256 \in Int
    BY SMT, <1>1 DEF Registers8
  <2> HIDE DEF r
  <2>2. IndexRegister(c, e, r) \in Longs
    BY Zenon, <2>1, RegisterRead DEF IndexRegister
  <2> DEFINE x == IndexRegister(c, e, r)
  <2>3. x \in Int /\ SignedWord(Low(x)) \in Int
    <3>1. x \in Int
      BY Zenon, <2>2, LongsAreIntegers
    <3> HIDE DEF x
    <3> QED BY SMT, <3>1 DEF Low, SignedWord, Signed, Negative
  <2> HIDE DEF x
  <2>4. IndexValue(e, x) \in Int /\ SignedByte(e % 256) \in Int
    BY Zenon, <2>1, <2>3, SignsAreIntegers DEF IndexValue
  <2> DEFINE v == IndexValue(e, x)
             b == SignedByte(e % 256)
  <2>5. BriefIndex(c, e) = v + b
    BY Zenon DEF BriefIndex, x, r
  <2> HIDE DEF v, b
  <2>6. v \in Int /\ b \in Int
    BY Zenon, <2>4 DEF v, b
  <2> QED BY SMT, <2>5, <2>6
<1>4. Offset(c, mode, reg, e) \in Int
  BY SMT, <1>1, <1>3, SignsAreIntegers DEF Offset
<1>5. Base(c, mode, reg) \in Int
  <2>1. AddressRegister(c, reg) \in Int
    BY Zenon, RegisterRead, LongsAreIntegers
  <2> QED BY SMT, <1>2, <2>1 DEF Base, Registers8
<1>6. Long(e, WordAt(c, c.pc)) \in Longs
  <2>1. WordAt(c, c.pc) \in WordValues
    BY Zenon, <1>2, WordRead
  <2>2. Width
    BY Zenon DEF Typed, Context
  <2> QED BY Zenon, <1>1, <2>1, <2>2, Joined
<1>7. Add(Base(c, mode, reg), Offset(c, mode, reg, e)) \in Longs
  BY Zenon, <1>4, <1>5, Adds
<1> QED BY Zenon, <1>6, <1>7 DEF EffectiveAddress, e

LEMMA PartFits ==
  ASSUME Width, NEW long, NEW x \in Longs
  PROVE  Part(long, x) \in Operands(long)
  BY Zenon, Halves DEF Part, Operands

LEMMA SourceFound ==
  ASSUME NEW c, Typed(c), NEW long, NEW mode \in Registers8, NEW reg \in Registers8
  PROVE  /\ OperandAddress(c, long, mode, reg) \in Longs
         /\ SourceValue(c, long, mode, reg) \in Operands(long)
<1>0. Width
  BY Zenon DEF Typed, Context
<1>1. OperandAddress(c, long, mode, reg) \in Longs
  <2>1. Add(AddressRegister(c, reg), -Bytes(long)) \in Longs
    BY SMT, RegisterRead, Added DEF Bytes
  <2> QED BY Zenon, <2>1, AddressFound DEF OperandAddress
<1>2. ASSUME NEW a \in Longs PROVE ValueAt(c, long, a) \in Operands(long)
  <2>1. a \in Int
    BY Zenon, LongsAreIntegers
  <2> QED BY Zenon, <2>1, WordRead, LongRead DEF ValueAt, Operands
<1>3. (IF long THEN Long(Extension(c), WordAt(c, c.pc)) ELSE Extension(c)) \in Operands(long)
  <2>1. Extension(c) \in WordValues
    BY Zenon, ExtensionRead
  <2>2. c.pc \in Int
    BY Zenon, LongsAreIntegers DEF Typed, TypedPipeline
  <2>3. WordAt(c, c.pc) \in WordValues
    BY Zenon, <2>2, WordRead
  <2> QED BY Zenon, <1>0, <2>1, <2>3, Joined DEF Operands
<1>4. Part(long, c.d[reg]) \in Operands(long) /\ Part(long, AddressRegister(c, reg)) \in Operands(long)
  BY Zenon, <1>0, RegisterRead, PartFits
<1> QED BY Zenon, <1>1, <1>2, <1>3, <1>4 DEF SourceValue

LEMMA ByteFound ==
  ASSUME NEW c, Typed(c), NEW mode \in Registers8, NEW reg \in Registers8
  PROVE  ByteAddress(c, mode, reg) \in Longs /\ ByteValue(c, mode, reg) \in ByteValues
<1>0. Width
  BY Zenon DEF Typed, Context
<1>1. ByteAddress(c, mode, reg) \in Longs
  <2>1. Add(AddressRegister(c, reg), -ByteAddressDelta(reg)) \in Longs
    BY SMT, RegisterRead, Added DEF ByteAddressDelta
  <2> QED BY Zenon, <2>1, AddressFound DEF ByteAddress
<1>2. ASSUME NEW a \in Longs PROVE ByteAt(c, a) \in ByteValues
  <2>1. EvenAddress(a) \in Int
    BY SMT, CpuAssumption DEF EvenAddress, Longs
  <2> DEFINE w == WordAt(c, EvenAddress(a))
  <2>2. w \in WordValues
    BY Zenon, <2>1, WordRead
  <2>3. ByteAt(c, a) = IF a % 2 = 0 THEN w \div 256 ELSE w % 256
    BY Zenon DEF ByteAt
  <2> HIDE DEF w
  <2>4. w \div 256 \in ByteValues /\ w % 256 \in ByteValues
    BY SMT, <2>2 DEF WordValues, ByteValues
  <2> QED BY Zenon, <2>3, <2>4
<1>3. c.d[reg] % 256 \in ByteValues
  BY Zenon, <1>0, RegisterRead, Halves
<1> QED BY Zenon, <1>1, <1>2, <1>3, ExtensionRead DEF ByteValue

-----------------------------------------------------------------------------
(* The status register. *)

StatusOf(t, s, m, l) == (32768 * t) + (8192 * s) + (256 * m) + l
Upper(w) == w \div 256
UpperOf(t, s, m) == (128 * t) + (32 * s) + m

LEMMA StatusParts ==
  ASSUME NEW w, Status(w)
  PROVE  \E t \in {0, 1}, s \in {0, 1}, m \in 0 .. 7, l \in 0 .. 31 : w = StatusOf(t, s, m, l)
<1>1. w \in Nat /\ w = Implemented(w)
  BY SMT DEF Status, WordValues
<1> DEFINE t == Bit(w, 15)
           s == Bit(w, 13)
           m == (w \div 256) % 8
           l == w % 32
<1>2. t \in {0, 1} /\ s \in {0, 1}
  BY SMT, <1>1 DEF Bit
<1>3. m \in 0 .. 7 /\ l \in 0 .. 31
  BY SMT, <1>1
<1>4. Implemented(w) = (t * 32768) + (s * 8192) + (m * 256) + l
  BY DEF Implemented
<1> HIDE DEF t, s, m, l
<1>5. w = StatusOf(t, s, m, l)
  BY SMT, <1>1, <1>2, <1>3, <1>4 DEF StatusOf
<1> QED BY Zenon, <1>2, <1>3, <1>5

LEMMA PartsOfStatus ==
  ASSUME NEW t \in {0, 1}, NEW s \in {0, 1}, NEW m \in 0 .. 7, NEW l \in 0 .. 31
  PROVE  /\ Status(StatusOf(t, s, m, l))
         /\ Upper(StatusOf(t, s, m, l)) = UpperOf(t, s, m)
<1> DEFINE w == StatusOf(t, s, m, l)
<1>1. w = (32768 * t) + (8192 * s) + (256 * m) + l
  BY DEF StatusOf
<1> HIDE DEF w
<1>2. w \div 32768 = t /\ (w \div 8192) % 2 = s
  BY SMT, <1>1
<1>3. w \div 256 = UpperOf(t, s, m)
  BY SMT, <1>1 DEF UpperOf
<1>4. (w \div 256) % 8 = m /\ w % 32 = l
  BY SMT, <1>1, <1>3 DEF UpperOf
<1>5. Bit(w, 15) = t /\ Bit(w, 13) = s
  BY SMT, <1>2 DEF Bit
<1>6. Implemented(w) = (t * 32768) + (s * 8192) + (m * 256) + l
  BY SMT, <1>4, <1>5 DEF Implemented
<1>7. Implemented(w) = w
  BY SMT, <1>1, <1>6
<1>8. w \in WordValues
  BY SMT, <1>1 DEF WordValues
<1>9. Upper(w) = UpperOf(t, s, m)
  BY <1>3 DEF Upper
<1> QED BY Zenon, <1>7, <1>8, <1>9 DEF Status, w

(* What the operations on the status register leave of it. *)
LEMMA StatusKept ==
  ASSUME NEW w, Status(w)
  PROVE  /\ \A f : Status(WithFlags(w, f)) /\ Upper(WithFlags(w, f)) = Upper(w)
         /\ \A x \in Int : LET n == (Upper(w) * 256) + (x % 32)
                           IN Status(n) /\ Upper(n) = Upper(w)
         /\ Status(InSupervisorMode(w))
         /\ \A level \in 0 .. 7 : Status(WithMask(w, level))
<1>1. PICK t \in {0, 1}, s \in {0, 1}, m \in 0 .. 7, l \in 0 .. 31 : w = StatusOf(t, s, m, l)
  BY StatusParts
<1>2. Upper(w) = UpperOf(t, s, m)
  BY Zenon, <1>1, PartsOfStatus
<1>3. w = (32768 * t) + (8192 * s) + (256 * m) + l
  BY <1>1 DEF StatusOf
<1>4. ASSUME NEW f PROVE Status(WithFlags(w, f)) /\ Upper(WithFlags(w, f)) = Upper(w)
  <2> DEFINE At(b, weight) == IF b THEN weight ELSE 0
             k == At(f.x, 16) + At(f.n, 8) + At(f.z, 4) + At(f.v, 2) + At(f.c, 1)
  <2>1. k \in 0 .. 31 /\ WithFlags(w, f) = (32 * (w \div 32)) + At(f.x, 16) + At(f.n, 8) + At(f.z, 4) + At(f.v, 2) + At(f.c, 1)
    BY SMT DEF WithFlags
  <2>2. w \div 32 = (1024 * t) + (256 * s) + (8 * m)
    BY SMT, <1>3
  <2>3. WithFlags(w, f) = StatusOf(t, s, m, k)
    BY SMT, <2>1, <2>2 DEF StatusOf
  <2>4. k \in 0 .. 31
    BY <2>1
  <2> HIDE DEF k, At
  <2>5. Status(StatusOf(t, s, m, k)) /\ Upper(StatusOf(t, s, m, k)) = UpperOf(t, s, m)
    BY Zenon, <2>4, PartsOfStatus
  <2> QED BY Zenon, <1>2, <2>3, <2>5
<1>5. ASSUME NEW x \in Int
      PROVE  LET n == (Upper(w) * 256) + (x % 32) IN Status(n) /\ Upper(n) = Upper(w)
  <2> DEFINE k == x % 32
             n == (Upper(w) * 256) + k
  <2>1. k \in 0 .. 31
    BY SMT
  <2> HIDE DEF k
  <2>2. n = StatusOf(t, s, m, k)
    BY SMT, <1>2, <2>1 DEF StatusOf, UpperOf
  <2> HIDE DEF n
  <2>3. Status(n) /\ Upper(n) = Upper(w)
    BY Zenon, <1>2, <2>1, <2>2, PartsOfStatus
  <2> QED BY <2>3 DEF n, k
<1>6. Status(InSupervisorMode(w))
  <2>1. w % 32768 = (8192 * s) + (256 * m) + l
    BY SMT, <1>3
  <2>2. InSupervisorMode(w) = StatusOf(0, 1, m, l)
    BY SMT, <2>1 DEF InSupervisorMode, StatusOf
  <2> QED BY Zenon, <2>2, PartsOfStatus
<1>7. ASSUME NEW level \in 0 .. 7 PROVE Status(WithMask(w, level))
  <2>1. w \div 2048 = (16 * t) + (4 * s) /\ w % 256 = l
    BY SMT, <1>3
  <2>2. WithMask(w, level) = StatusOf(t, s, level, l)
    BY SMT, <2>1 DEF WithMask, StatusOf
  <2> QED BY Zenon, <2>2, PartsOfStatus
<1> QED BY Zenon, <1>4, <1>5, <1>6, <1>7

LEMMA StatusTaken ==
  ASSUME NEW w \in WordValues
  PROVE  Status(Implemented(w))
<1> DEFINE t == Bit(w, 15)
           s == Bit(w, 13)
           m == (w \div 256) % 8
           l == w % 32
<1>1. t \in {0, 1} /\ s \in {0, 1}
  BY SMT DEF Bit, WordValues
<1>2. m \in 0 .. 7 /\ l \in 0 .. 31
  BY SMT DEF WordValues
<1>3. Implemented(w) = (t * 32768) + (s * 8192) + (m * 256) + l
  BY DEF Implemented
<1> HIDE DEF t, s, m, l
<1>4. Implemented(w) = StatusOf(t, s, m, l)
  BY SMT, <1>1, <1>2, <1>3 DEF StatusOf
<1> QED BY Zenon, <1>1, <1>2, <1>4, PartsOfStatus

LEMMA FirstStatus == Status(0) /\ Status(9984)
<1>1. StatusOf(0, 0, 0, 0) = 0 /\ StatusOf(0, 1, 7, 0) = 9984
  BY SMT DEF StatusOf
<1>2. 0 \in 0 .. 31 /\ 0 \in 0 .. 7 /\ 7 \in 0 .. 7
  BY SMT
<1>3. Status(StatusOf(0, 0, 0, 0)) /\ Status(StatusOf(0, 1, 7, 0))
  BY Zenon, <1>2, PartsOfStatus
<1> QED BY SMT, <1>1, <1>3

(* Who runs depends on the upper byte alone. *)
LEMMA UserByUpperByte ==
  ASSUME NEW b, NEW c, b.sr \in Nat, c.sr \in Nat, Upper(b.sr) = Upper(c.sr)
  PROVE  Supervisor(b) <=> Supervisor(c)
<1>1. b.sr \div 8192 = (b.sr \div 256) \div 32 /\ c.sr \div 8192 = (c.sr \div 256) \div 32
  BY SMT
<1> QED BY SMT, <1>1 DEF Supervisor, Upper

-----------------------------------------------------------------------------
(* Results of their width. *)

LEMMA Remainders ==
  ASSUME NEW size \in Nat \ {0}, NEW n \in Int
  PROVE  n % size \in Nat /\ n % size < size
  BY SMT

LEMMA EvenSizes ==
  ASSUME Width, NEW size \in Sizes
  PROVE  \E half \in Nat \ {0} : size = 2 * half
<1>1. 128 \in Nat \ {0} /\ 32768 \in Nat \ {0} /\ 2147483648 \in Nat \ {0}
  BY SMT
<1>2. CASE size = 256
  BY SMT, <1>1, <1>2
<1>3. CASE size = 65536
  BY SMT, <1>1, <1>3
<1>4. CASE size = LongSize
  BY SMT, <1>1, <1>4 DEF Width
<1> QED BY SMT, <1>2, <1>3, <1>4 DEF Sizes

LEMMA OperateFits ==
  ASSUME Width, NEW size \in Sizes, NEW d \in Nat, d < size, NEW s \in Nat, s < size, NEW f,
         NEW kind, s <= 63 \/ kind \in {"ADD", "SUB", "CMP", "AND", "OR", "EOR", "ADDX", "SUBX", "STORE"}
  PROVE  Operate(kind, d, s, size, f).value \in Nat /\ Operate(kind, d, s, size, f).value < size
<1> DEFINE Fits(v) == v \in Nat /\ v < size
<1>1. PICK half \in Nat \ {0} : size = 2 * half
  BY EvenSizes
<1>2. size \in Nat \ {0}
  BY SMT, <1>1
<1>3. Fits(Sum(d, s, size).value) /\ Fits(Difference(d, s, size).value) /\ Fits(Difference(0, d, size).value)
  <2>1. Fits((d + s) % size) /\ Fits((d - s) % size) /\ Fits((0 - d) % size)
    BY SMT, <1>2
  <2> QED BY SMT, <2>1 DEF Sum, Difference, Outcome
<1>4. Fits(ExtendedSum(d, s, size, f).value) /\ Fits(ExtendedDifference(d, s, size, f).value)
  <2>1. Extend(f) \in {0, 1}
    BY Zenon DEF Extend
  <2>2. Fits((d + s + Extend(f)) % size) /\ Fits((d - s - Extend(f)) % size)
    <3>1. (d + s + Extend(f)) \in Int /\ (d - s - Extend(f)) \in Int
      BY SMT, <2>1
    <3> QED BY Zenon, <1>2, <3>1, Remainders
  <2> HIDE DEF Fits
  <2>3. ExtendedSum(d, s, size, f).value = (d + s + Extend(f)) % size
    BY SMT DEF ExtendedSum, Outcome
  <2>4. ExtendedDifference(d, s, size, f).value = (d - s - Extend(f)) % size
    BY SMT DEF ExtendedDifference, Outcome
  <2> QED BY Zenon, <2>2, <2>3, <2>4
<1>5. Fits(Outcome(d, CompareFlags(d, s, size, f.x)).value) /\ Fits(Outcome(s, f).value)
  BY SMT DEF Outcome
<1>6. Fits(Logical(size - 1 - d, size, f).value) /\ Fits(Logical(0, size, f).value)
  BY SMT, <1>2 DEF Logical, Outcome
<1>7. kind \in {"AND", "OR", "EOR"} => Fits(Logical(LogicalValue(kind, d, s), size, f).value)
  <2>1. kind \in {"AND", "OR", "EOR"} => Fits(LogicalValue(kind, d, s))
    BY Zenon, LogicFits
  <2> QED BY SMT, <2>1 DEF Logical, Outcome
<1>8. s <= 63 => Fits(Shifted(kind, d, s, size, f).value)
  <2>1. d \in 0 .. (2 * half) - 1 /\ (s <= 63 => s \in 0 .. 63)
    BY SMT, <1>1
  <2>2. s <= 63 => Shifted(kind, d, s, 2 * half, f).value \in 0 .. (2 * half) - 1
    BY Zenon, <2>1, ShiftFits
  <2> QED BY SMT, <1>1, <2>2
<1> HIDE DEF Fits
<1>9. Fits(Operate(kind, d, s, size, f).value)
  BY Zenon, <1>3, <1>4, <1>5, <1>6, <1>7, <1>8 DEF Operate
<1> QED BY <1>9 DEF Fits

(* Setting a bit that is clear, and clearing one that is set.               *)
Flips(values, q) ==
  \A x \in values : IF (x \div q) % 2 = 1 THEN x - q \in values ELSE x + q \in values

LEMMA ByteFlips ==
  ASSUME NEW n \in 0 .. 7
  PROVE  Flips(ByteValues, 2 ^ n)
<1>0. Flips(ByteValues, 2 ^ 0)
  BY SMT DEF Flips, ByteValues
<1>1. Flips(ByteValues, 2 ^ 1)
  BY SMT DEF Flips, ByteValues
<1>2. Flips(ByteValues, 2 ^ 2)
  BY SMT DEF Flips, ByteValues
<1>3. Flips(ByteValues, 2 ^ 3)
  BY SMT DEF Flips, ByteValues
<1>4. Flips(ByteValues, 2 ^ 4)
  BY SMT DEF Flips, ByteValues
<1>5. Flips(ByteValues, 2 ^ 5)
  BY SMT DEF Flips, ByteValues
<1>6. Flips(ByteValues, 2 ^ 6)
  BY SMT DEF Flips, ByteValues
<1>7. Flips(ByteValues, 2 ^ 7)
  BY SMT DEF Flips, ByteValues
<1>8. n \in {0, 1, 2, 3, 4, 5, 6, 7}
  BY SMT
<1> QED BY <1>0, <1>1, <1>2, <1>3, <1>4, <1>5, <1>6, <1>7, <1>8

LEMMA LongFlips ==
  ASSUME NEW n \in 0 .. 31
  PROVE  Flips(LongValues, 2 ^ n)
<1>0. Flips(LongValues, 2 ^ 0)
  BY SMT DEF Flips, LongValues
<1>1. Flips(LongValues, 2 ^ 1)
  BY SMT DEF Flips, LongValues
<1>2. Flips(LongValues, 2 ^ 2)
  BY SMT DEF Flips, LongValues
<1>3. Flips(LongValues, 2 ^ 3)
  BY SMT DEF Flips, LongValues
<1>4. Flips(LongValues, 2 ^ 4)
  BY SMT DEF Flips, LongValues
<1>5. Flips(LongValues, 2 ^ 5)
  BY SMT DEF Flips, LongValues
<1>6. Flips(LongValues, 2 ^ 6)
  BY SMT DEF Flips, LongValues
<1>7. Flips(LongValues, 2 ^ 7)
  BY SMT DEF Flips, LongValues
<1>8. Flips(LongValues, 2 ^ 8)
  BY SMT DEF Flips, LongValues
<1>9. Flips(LongValues, 2 ^ 9)
  BY SMT DEF Flips, LongValues
<1>10. Flips(LongValues, 2 ^ 10)
  BY SMT DEF Flips, LongValues
<1>11. Flips(LongValues, 2 ^ 11)
  BY SMT DEF Flips, LongValues
<1>12. Flips(LongValues, 2 ^ 12)
  BY SMT DEF Flips, LongValues
<1>13. Flips(LongValues, 2 ^ 13)
  BY SMT DEF Flips, LongValues
<1>14. Flips(LongValues, 2 ^ 14)
  BY SMT DEF Flips, LongValues
<1>15. Flips(LongValues, 2 ^ 15)
  BY SMT DEF Flips, LongValues
<1>16. Flips(LongValues, 2 ^ 16)
  BY SMT DEF Flips, LongValues
<1>17. Flips(LongValues, 2 ^ 17)
  BY SMT DEF Flips, LongValues
<1>18. Flips(LongValues, 2 ^ 18)
  BY SMT DEF Flips, LongValues
<1>19. Flips(LongValues, 2 ^ 19)
  BY SMT DEF Flips, LongValues
<1>20. Flips(LongValues, 2 ^ 20)
  BY SMT DEF Flips, LongValues
<1>21. Flips(LongValues, 2 ^ 21)
  BY SMT DEF Flips, LongValues
<1>22. Flips(LongValues, 2 ^ 22)
  BY SMT DEF Flips, LongValues
<1>23. Flips(LongValues, 2 ^ 23)
  BY SMT DEF Flips, LongValues
<1>24. Flips(LongValues, 2 ^ 24)
  BY SMT DEF Flips, LongValues
<1>25. Flips(LongValues, 2 ^ 25)
  BY SMT DEF Flips, LongValues
<1>26. Flips(LongValues, 2 ^ 26)
  BY SMT DEF Flips, LongValues
<1>27. Flips(LongValues, 2 ^ 27)
  BY SMT DEF Flips, LongValues
<1>28. Flips(LongValues, 2 ^ 28)
  BY SMT DEF Flips, LongValues
<1>29. Flips(LongValues, 2 ^ 29)
  BY SMT DEF Flips, LongValues
<1>30. Flips(LongValues, 2 ^ 30)
  BY SMT DEF Flips, LongValues
<1>31. Flips(LongValues, 2 ^ 31)
  BY SMT DEF Flips, LongValues
<1>32. n \in {0, 1, 2, 3, 4, 5, 6, 7, 8, 9, 10, 11, 12, 13, 14, 15, 16, 17, 18, 19, 20, 21, 22, 23, 24, 25, 26, 27, 28, 29, 30, 31}
  BY SMT
<1> QED BY <1>0, <1>1, <1>2, <1>3, <1>4, <1>5, <1>6, <1>7, <1>8, <1>9, <1>10, <1>11, <1>12, <1>13, <1>14, <1>15, <1>16, <1>17, <1>18, <1>19, <1>20, <1>21, <1>22, <1>23, <1>24, <1>25, <1>26, <1>27, <1>28, <1>29, <1>30, <1>31, <1>32

LEMMA BitChangeFits ==
  ASSUME NEW values, NEW n, Flips(values, 2 ^ n), NEW x \in values,
         NEW kind \in {"BTST", "BCHG", "BCLR", "BSET"}
  PROVE  BitChanged(kind, x, n) \in values
  BY Zenon DEF Flips, BitChanged, BitSet

LEMMA QuotientIsInteger ==
  ASSUME NEW a \in Int, NEW b \in Int \ {0}
  PROVE  Quotient(a, b) \in Int /\ Remainder(a, b) \in Int
<1>1. Magnitude(a) \in Nat /\ Magnitude(b) \in Nat \ {0}
  BY SMT DEF Magnitude
<1>2. Magnitude(a) \div Magnitude(b) \in Int
  BY SMT, <1>1
<1>3. Quotient(a, b) \in Int
  BY SMT, <1>2 DEF Quotient
<1>4. b * Quotient(a, b) \in Int
  BY SMT, <1>3
<1>5. Remainder(a, b) \in Int
  BY SMT, <1>4 DEF Remainder
<1> QED BY <1>3, <1>5

LEMMA SignedIsInteger ==
  ASSUME NEW n \in Int, NEW size \in Int
  PROVE  Signed(n, size) \in Int
  BY SMT DEF Signed

LEMMA ProductFits ==
  ASSUME Width, NEW signed, NEW d \in WordValues, NEW s \in WordValues
  PROVE  Product(signed, d, s, LongSize) \in Longs
<1>1. d \in Int /\ s \in Int /\ Signed(d, 65536) \in Int /\ Signed(s, 65536) \in Int
  BY SMT DEF WordValues, Signed
<1>2. Signed(d, 65536) * Signed(s, 65536) \in Int /\ d * s \in Int
  BY SMT, <1>1
<1>3. Product(signed, d, s, LongSize) \in Nat /\ Product(signed, d, s, LongSize) < LongSize
  BY SMT, <1>2, CpuAssumption DEF Product
<1> QED BY SMT, <1>3, LongSizeIsNat DEF Longs

LEMMA DividedFits ==
  ASSUME Width, NEW a \in Int, NEW b \in Int \ {0}
  PROVE  Divided(a, b, LongSize) \in Longs
<1> DEFINE q == Quotient(a, b)
           r == Remainder(a, b)
<1>1. q \in Int /\ r \in Int
  BY Zenon, QuotientIsInteger
<1>2. LongSize \div 65536 = 65536
  BY SMT DEF Width
<1>3. Divided(a, b, LongSize) = ((r % 65536) * 65536) + (q % 65536)
  BY SMT, <1>2 DEF Divided
<1> HIDE DEF q, r
<1>4. Divided(a, b, LongSize) \in LongValues
  BY SMT, <1>1, <1>3 DEF LongValues
<1> QED BY Zenon, <1>4, LongRange

-----------------------------------------------------------------------------
(* A processor in the middle of an instruction that began as u: its fields  *)
(* are of their width, and a user program has kept its supervisor stack     *)
(* pointer and the upper byte of its status, or is at the first word of a   *)
(* handler.                                                                *)

Same(u, c) == c.ssp = u.ssp /\ Upper(c.sr) = Upper(u.sr)

Handled(u, c) ==
  /\ \E v \in 2 .. 255 : CanRead(c, 4 * v, 5) /\ c.prefetch[1] = LongAt(c, 4 * v)
  /\ c.ssp \in {Add(u.ssp, -6), Add(u.ssp, -14)}

Calm(u, c) ==
  Status(u.sr) /\ Typed(c) /\ c.at \in {"running", "failed"} /\ (~ Supervisor(u) => Same(u, c))

Sound(u, c) ==
  Calm(u, c) \/ (Typed(c) /\ c.at = "trapped" /\ (~ Supervisor(u) => Handled(u, c)))

LEMMA CalmIsSound == ASSUME NEW u, NEW c, Calm(u, c) PROVE Sound(u, c) /\ Typed(c)
  BY Zenon DEF Calm, Sound

LEMMA SoundIsTyped ==
  ASSUME NEW u, NEW c, Sound(u, c)
  PROVE  Typed(c) /\ (Running(c) => Calm(u, c)) /\ (c.at # "trapped" => Calm(u, c))
  BY SMT DEF Calm, Sound, Running

LEMMA TypedContext ==
  ASSUME NEW c, Typed(c)
  PROVE  /\ Width /\ Shape(c) /\ c.pc \in Longs /\ c.prefetch[1] \in Longs /\ c.prefetch[2] \in Longs
         /\ c.usp \in Longs /\ c.ssp \in Longs /\ c.sr \in WordValues /\ Status(c.sr)
         /\ c.d \in [0 .. 7 -> Longs] /\ c.a \in [0 .. 6 -> Longs] /\ c.ram \in [Cells -> WordValues]
  BY Zenon DEF Typed, Context, TypedRegisters, TypedPipeline, TypedMemory, Status

LEMMA UserStays ==
  ASSUME NEW u, NEW c, Calm(u, c), ~ Supervisor(u)
  PROVE  ~ Supervisor(c)
<1>1. u.sr \in Nat /\ c.sr \in Nat /\ Upper(c.sr) = Upper(u.sr)
  BY SMT DEF Calm, Typed, Status, Same, WordValues
<1> QED BY Zenon, <1>1, UserByUpperByte

LEMMA Overridden ==
  ASSUME NEW S, NEW T, NEW f \in [S -> T], NEW r, NEW x \in T
  PROVE  [f EXCEPT ![r] = x] \in [S -> T]
  BY Zenon

LEMMA RegistersChanged ==
  ASSUME NEW u, NEW c, Calm(u, c)
  PROVE  /\ \A v \in [0 .. 7 -> Longs] : Calm(u, [c EXCEPT !.d = v])
         /\ \A v \in [0 .. 6 -> Longs] : Calm(u, [c EXCEPT !.a = v])
         /\ \A v \in Longs : Calm(u, [c EXCEPT !.usp = v])
<1> USE DEF Calm, Typed, Context, TypedRegisters, TypedPipeline, TypedMemory, Same, Shape, Fields
<1>1. ASSUME NEW v \in [0 .. 7 -> Longs] PROVE Calm(u, [c EXCEPT !.d = v])
  BY SMT, <1>1
<1>2. ASSUME NEW v \in [0 .. 6 -> Longs] PROVE Calm(u, [c EXCEPT !.a = v])
  BY SMT, <1>2
<1>3. ASSUME NEW v \in Longs PROVE Calm(u, [c EXCEPT !.usp = v])
  BY SMT, <1>3
<1> HIDE DEF Calm
<1> QED BY Zenon, <1>1, <1>2, <1>3

LEMMA StateChanged ==
  ASSUME NEW u, NEW c, Calm(u, c)
  PROVE  /\ \A v \in Longs : Supervisor(u) => Calm(u, [c EXCEPT !.ssp = v])
         /\ \A v : Status(v) /\ (Supervisor(u) \/ Upper(v) = Upper(c.sr)) => Calm(u, [c EXCEPT !.sr = v])
         /\ \A v \in [Cells -> WordValues] : Calm(u, [c EXCEPT !.ram = v])
         /\ \A v : Calm(u, [c EXCEPT !.stopped = v])
         /\ Calm(u, [c EXCEPT !.at = "failed"])
<1> USE DEF Calm, Typed, Context, TypedRegisters, TypedPipeline, TypedMemory, Same, Shape, Fields
<1>1. ASSUME NEW v \in Longs, Supervisor(u) PROVE Calm(u, [c EXCEPT !.ssp = v])
  BY SMT, <1>1
<1>2. ASSUME NEW v, Status(v), Supervisor(u) \/ Upper(v) = Upper(c.sr) PROVE Calm(u, [c EXCEPT !.sr = v])
  BY SMT, <1>2
<1>3. ASSUME NEW v \in [Cells -> WordValues] PROVE Calm(u, [c EXCEPT !.ram = v])
  BY SMT, <1>3
<1>4. ASSUME NEW v PROVE Calm(u, [c EXCEPT !.stopped = v])
  BY SMT, <1>4
<1>5. Calm(u, [c EXCEPT !.at = "failed"])
  BY SMT
<1> HIDE DEF Calm
<1> QED BY Zenon, <1>1, <1>2, <1>3, <1>4, <1>5

LEMMA PipelineChanged ==
  ASSUME NEW u, NEW c, Calm(u, c), NEW p \in Longs, NEW q \in Longs, NEW r \in Longs
  PROVE  Calm(u, [c EXCEPT !.prefetch = <<p, q>>, !.pc = r])
  BY SMT DEF Calm, Typed, Context, TypedRegisters, TypedPipeline, TypedMemory, Same, Shape, Fields

LEMMA FlagsChanged ==
  ASSUME NEW u, NEW c, Calm(u, c), NEW f
  PROVE  Calm(u, SetFlags(c, f))
<1> DEFINE w == WithFlags(c.sr, f)
<1>1. Status(w) /\ Upper(w) = Upper(c.sr)
  BY Zenon, CalmIsSound, TypedContext, StatusKept
<1>2. SetFlags(c, f) = [c EXCEPT !.sr = w]
  BY DEF SetFlags
<1> HIDE DEF w
<1>3. Calm(u, [c EXCEPT !.sr = w])
  BY Zenon, <1>1, StateChanged
<1> QED BY <1>2, <1>3

LEMMA LogicalFlagsChanged ==
  ASSUME NEW u, NEW c, Calm(u, c), NEW x
  PROVE  Calm(u, SetLogicalFlagsWord(c, x)) /\ Calm(u, SetLogicalFlagsLong(c, x))
<1>1. \A f : Calm(u, SetFlags(c, f))
  BY Zenon, FlagsChanged
<1> QED BY SMT, <1>1 DEF SetLogicalFlagsWord, SetLogicalFlagsLong

LEMMA RegisterChanged ==
  ASSUME NEW u, NEW c, Calm(u, c), NEW r, NEW x \in Longs
  PROVE  Calm(u, SetDataRegister(c, r, x)) /\ Calm(u, SetAddressRegister(c, r, x))
<1>1. c.d \in [0 .. 7 -> Longs] /\ c.a \in [0 .. 6 -> Longs]
  BY Zenon, CalmIsSound, TypedContext
<1>2. Calm(u, SetDataRegister(c, r, x))
  <2> DEFINE v == [c.d EXCEPT ![r] = x]
  <2>1. v \in [0 .. 7 -> Longs]
    BY Zenon, <1>1, Overridden
  <2>2. SetDataRegister(c, r, x) = [c EXCEPT !.d = v]
    BY DEF SetDataRegister
  <2> HIDE DEF v
  <2>3. Calm(u, [c EXCEPT !.d = v])
    BY Zenon, <2>1, RegistersChanged
  <2> QED BY <2>2, <2>3
<1>3. Calm(u, [c EXCEPT !.a = [@ EXCEPT ![r] = x]])
  <2> DEFINE v == [c.a EXCEPT ![r] = x]
  <2>1. v \in [0 .. 6 -> Longs]
    BY Zenon, <1>1, Overridden
  <2>2. [c EXCEPT !.a = [@ EXCEPT ![r] = x]] = [c EXCEPT !.a = v]
    OBVIOUS
  <2> HIDE DEF v
  <2> QED BY Zenon, <2>1, <2>2, RegistersChanged
<1>4. Supervisor(c) => Supervisor(u)
  BY Zenon, UserStays
<1>5. Supervisor(c) => Calm(u, [c EXCEPT !.ssp = x])
  BY Zenon, <1>4, StateChanged
<1>6. Calm(u, [c EXCEPT !.usp = x])
  BY Zenon, RegistersChanged
<1>7. Calm(u, SetAddressRegister(c, r, x))
  BY Zenon, <1>3, <1>5, <1>6 DEF SetAddressRegister
<1> QED BY <1>2, <1>7

-----------------------------------------------------------------------------
(* The steps of an instruction. *)

LEMMA CommitSound ==
  ASSUME NEW u, NEW c, Sound(u, c), NEW d
  PROVE  /\ (Running(c) => Sound(u, d)) => Sound(u, Commit(c, d))
         /\ Calm(u, c) /\ (Running(c) => Calm(u, d)) => Calm(u, Commit(c, d))
  BY Zenon DEF Commit

LEMMA FailCalm == ASSUME NEW u, NEW c, Calm(u, c) PROVE Calm(u, Fail(c))
  BY Zenon, StateChanged DEF Fail

LEMMA ReadSound ==
  ASSUME NEW u, NEW c, Sound(u, c), NEW fc, NEW addresses
  PROVE  /\ Sound(u, Reads(c, fc, addresses))
         /\ Calm(u, c) => Calm(u, Reads(c, fc, addresses))
<1>1. Running(c) => Calm(u, c)
  BY Zenon, SoundIsTyped
<1> QED BY Zenon, <1>1, FailCalm, CalmIsSound DEF Reads

LEMMA WriteSound ==
  ASSUME NEW u, NEW c, Sound(u, c), NEW fc, NEW a, NEW w \in WordValues
  PROVE  /\ Sound(u, Write(c, fc, a, w))
         /\ Calm(u, c) => Calm(u, Write(c, fc, a, w))
<1>1. Running(c) => Calm(u, c)
  BY Zenon, SoundIsTyped
<1>2. Calm(u, c) => Calm(u, [c EXCEPT !.ram = [@ EXCEPT ![BusAddress(a)] = w]])
  <2> SUFFICES ASSUME Calm(u, c) PROVE Calm(u, [c EXCEPT !.ram = [@ EXCEPT ![BusAddress(a)] = w]])
    OBVIOUS
  <2> DEFINE v == [c.ram EXCEPT ![BusAddress(a)] = w]
  <2>1. c.ram \in [Cells -> WordValues]
    BY Zenon, CalmIsSound, TypedContext
  <2>2. v \in [Cells -> WordValues]
    BY Zenon, <2>1, Overridden
  <2>3. [c EXCEPT !.ram = [@ EXCEPT ![BusAddress(a)] = w]] = [c EXCEPT !.ram = v]
    OBVIOUS
  <2> HIDE DEF v
  <2> QED BY Zenon, <2>2, <2>3, StateChanged
<1> QED BY Zenon, <1>1, <1>2, FailCalm, CalmIsSound DEF Write

LEMMA WriteLongSound ==
  ASSUME NEW u, NEW c, Sound(u, c), NEW fc, NEW a, NEW x \in Longs
  PROVE  /\ Sound(u, WriteLong(c, fc, a, x))
         /\ Calm(u, c) => Calm(u, WriteLong(c, fc, a, x))
<1>1. High(x) \in WordValues /\ Low(x) \in WordValues
  BY Zenon, SoundIsTyped, TypedContext, Halves
<1>2. Sound(u, Write(c, fc, a, High(x))) /\ (Calm(u, c) => Calm(u, Write(c, fc, a, High(x))))
  BY Zenon, <1>1, WriteSound
<1> QED BY Zenon, <1>1, <1>2, WriteSound DEF WriteLong

LEMMA ConsumeSound ==
  ASSUME NEW u, NEW c, Sound(u, c)
  PROVE  /\ Sound(u, Shift(c)) /\ Sound(u, ConsumeExtension(c)) /\ Sound(u, Refill(c))
         /\ \A t : Sound(u, Fetch(c, t))
         /\ Calm(u, c) => /\ Calm(u, Shift(c)) /\ Calm(u, ConsumeExtension(c)) /\ Calm(u, Refill(c))
                          /\ \A t : Calm(u, Fetch(c, t))
<1>1. ASSUME NEW b, Sound(u, b) PROVE Sound(u, Shift(b)) /\ (Calm(u, b) => Calm(u, Shift(b)))
  <2>1. Calm(u, b) => Calm(u, [b EXCEPT !.prefetch = <<b.prefetch[2], b.pc>>, !.pc = Add(b.pc, 2)])
    <3>1. b.prefetch[2] \in Longs /\ b.pc \in Longs /\ Add(b.pc, 2) \in Longs
      BY Zenon, <1>1, SoundIsTyped, TypedContext, Added
    <3> QED BY Zenon, <3>1, PipelineChanged
  <2> QED BY Zenon, <1>1, <2>1, CommitSound, SoundIsTyped, CalmIsSound DEF Shift
<1>2. \A t : Sound(u, Fetch(c, t)) /\ (Calm(u, c) => Calm(u, Fetch(c, t)))
  BY Zenon, ReadSound DEF Fetch
<1>3. Sound(u, ConsumeExtension(c)) /\ (Calm(u, c) => Calm(u, ConsumeExtension(c)))
  BY Zenon, <1>1, <1>2 DEF ConsumeExtension
<1> QED BY Zenon, <1>1, <1>2, <1>3 DEF Refill

LEMMA FillSound ==
  ASSUME NEW u, NEW c, Sound(u, c), NEW t \in Longs
  PROVE  /\ Sound(u, Fill(c, t)) /\ Sound(u, RefillBranch(c, t))
         /\ Calm(u, c) => Calm(u, Fill(c, t)) /\ Calm(u, RefillBranch(c, t))
<1>1. ASSUME NEW b, Sound(u, b) PROVE Sound(u, Fill(b, t)) /\ (Calm(u, b) => Calm(u, Fill(b, t)))
  <2>1. Add(t, 2) \in Longs /\ Add(Add(t, 2), 2) \in Longs
    BY Zenon, Added
  <2>2. Calm(u, b) => Calm(u, FetchFrom(b, t))
    BY Zenon, <2>1, PipelineChanged DEF FetchFrom
  <2> QED BY Zenon, <1>1, <2>2, CommitSound, SoundIsTyped, CalmIsSound DEF Fill
<1>2. \A fc, s : Sound(u, Reads(c, fc, s)) /\ (Calm(u, c) => Calm(u, Reads(c, fc, s)))
  BY Zenon, ReadSound
<1> QED BY Zenon, <1>1, <1>2 DEF RefillBranch

LEMMA PushCalm ==
  ASSUME NEW u, NEW c, Calm(u, c), NEW x \in Longs
  PROVE  Calm(u, PushLong(c, x))
<1> DEFINE sp == Add(AddressRegister(c, 7), -4)
<1>1. 7 \in Registers8
  BY SMT DEF Registers8
<1>2. sp \in Longs
  BY Zenon, <1>1, CalmIsSound, RegisterRead, Added
<1> HIDE DEF sp
<1>3. ASSUME NEW b, Calm(u, b) PROVE Calm(u, MoveStack(b, sp))
  BY Zenon, <1>2, <1>3, RegisterChanged, CommitSound, CalmIsSound DEF MoveStack
<1>4. Calm(u, PushAt(c, sp, x))
  BY Zenon, <1>3, WriteLongSound, CalmIsSound DEF PushAt
<1> QED BY Zenon, <1>4 DEF PushLong, sp

-----------------------------------------------------------------------------
(* Exceptions. *)

Spaces == {1, 2, 5, 6}

LEMMA SpaceOf ==
  ASSUME NEW c
  PROVE  ProgramFC(c) \in Spaces /\ DataFC(c) \in Spaces
  BY Zenon DEF ProgramFC, DataFC, Spaces

LEMMA StatusWordFits ==
  ASSUME NEW fc \in Spaces, NEW read
  PROVE  StatusWord(fc, read) \in WordValues
<1>1. (IF read THEN 16 ELSE 0) \in {0, 16}
  BY Zenon
<1> QED BY SMT, <1>1 DEF StatusWord, WordValues, Spaces

(* What is read depends on the memory alone. *)
LEMMA SameMemory ==
  ASSUME NEW b, NEW c, b.ram = c.ram
  PROVE  /\ \A a : LongAt(b, a) = LongAt(c, a)
         /\ \A a, fc : CanRead(b, a, fc) <=> CanRead(c, a, fc)
<1>1. ASSUME NEW a PROVE WordAt(b, a) = WordAt(c, a)
  BY Zenon DEF WordAt
<1>2. ASSUME NEW a PROVE LongAt(b, a) = LongAt(c, a)
  <2>1. WordAt(b, a) = WordAt(c, a) /\ WordAt(b, a + 2) = WordAt(c, a + 2)
    BY <1>1
  <2> QED BY <2>1 DEF LongAt
<1>3. ASSUME NEW a, NEW fc PROVE CanRead(b, a, fc) <=> CanRead(c, a, fc)
  BY SMT DEF CanRead
<1> QED BY Zenon, <1>2, <1>3

LEMMA NotRunning ==
  ASSUME NEW c, ~ Running(c)
  PROVE  /\ \A d : Commit(c, d) = c
         /\ \A fc, addresses : Reads(c, fc, addresses) = c
         /\ \A fc, a, w : Write(c, fc, a, w) = c
  BY Zenon DEF Commit, Reads, Write

(* The frame lies below the supervisor stack pointer the program had.      *)
Below(u, sp) == sp \in Longs /\ (~ Supervisor(u) => sp \in {Add(u.ssp, -6), Add(u.ssp, -14)})

Vectors == {4 * v : v \in 2 .. 255}

LEMMA CalmRunning ==
  ASSUME NEW u, NEW c, Calm(u, c)
  PROVE  /\ c.at = "running" \/ c.at = "failed"
         /\ Running(c) => c.at = "running"
  BY SMT DEF Calm, Running

LEMMA FirstWord ==
  ASSUME NEW u, NEW c, Calm(u, c), NEW sp, Below(u, sp), NEW va \in Vectors, CanRead(c, va, 5)
  PROVE  Sound(u, [FetchFrom(c, LongAt(c, va)) EXCEPT
                     !.ssp = sp, !.sr = InSupervisorMode(@), !.at = "trapped"])
<1> DEFINE handler == LongAt(c, va)
           g == [FetchFrom(c, LongAt(c, va)) EXCEPT
                   !.ssp = sp, !.sr = InSupervisorMode(@), !.at = "trapped"]
           w == InSupervisorMode(c.sr)
           n == Add(handler, 2)
           p == Add(Add(handler, 2), 2)
<1>1. Typed(c)
  BY Zenon, CalmIsSound
<1>2. va \in Int
  BY SMT DEF Vectors
<1>3. handler \in Longs /\ Status(w)
  BY Zenon, <1>1, <1>2, LongRead, TypedContext, StatusKept
<1>4. n \in Longs /\ p \in Longs
  BY Zenon, <1>3, Added
<1>5. FetchFrom(c, handler) = [c EXCEPT !.prefetch = <<handler, n>>, !.pc = p]
  BY DEF FetchFrom
<1>6. g = [[c EXCEPT !.prefetch = <<handler, n>>, !.pc = p]
             EXCEPT !.ssp = sp, !.sr = InSupervisorMode(@), !.at = "trapped"]
  BY <1>5
<1> HIDE DEF n, p, handler, g
<1>7. /\ Shape(g) /\ g.at = "trapped" /\ g.ssp = sp /\ g.sr = w /\ g.ram = c.ram
      /\ g.prefetch[1] = handler /\ g.prefetch[2] = n /\ g.pc = p
      /\ g.d = c.d /\ g.a = c.a /\ g.usp = c.usp
  <2>1. Shape(c)
    BY Zenon, <1>1, TypedContext
  <2> QED BY SMT, <1>6, <2>1 DEF Shape, Fields
<1> HIDE DEF w
<1>8. sp \in Longs
  BY Zenon DEF Below
<1>9. Typed(g)
  <2>1. Context /\ TypedMemory(c) /\ TypedRegisters(c)
    BY Zenon, <1>1 DEF Typed
  <2>2. TypedMemory(g) /\ TypedRegisters(g) /\ TypedPipeline(g) /\ Status(g.sr)
    BY SMT, <1>3, <1>4, <1>7, <1>8, <2>1 DEF TypedMemory, TypedRegisters, TypedPipeline
  <2> QED BY Zenon, <1>7, <2>1, <2>2 DEF Typed
<1>10. CanRead(g, va, 5) /\ g.prefetch[1] = LongAt(g, va)
  BY Zenon, <1>7, SameMemory DEF handler
<1>11. PICK v \in 2 .. 255 : va = 4 * v
  BY Zenon DEF Vectors
<1>12. \E q \in 2 .. 255 : CanRead(g, 4 * q, 5) /\ g.prefetch[1] = LongAt(g, 4 * q)
  BY Zenon, <1>10, <1>11
<1>13. ~ Supervisor(u) => g.ssp \in {Add(u.ssp, -6), Add(u.ssp, -14)}
  BY Zenon, <1>7 DEF Below
<1>14. ~ Supervisor(u) => Handled(u, g)
  BY Zenon, <1>12, <1>13 DEF Handled
<1>15. Sound(u, g)
  BY Zenon, <1>7, <1>9, <1>14 DEF Sound
<1> QED BY <1>15 DEF g

LEMMA EnteredSound ==
  ASSUME NEW u, NEW c, Sound(u, c), NEW sp, Running(c) => Below(u, sp), NEW va \in Vectors
  PROVE  Sound(u, EnterHandler(c, sp, va))
<1> DEFINE handler == LongAt(c, va)
           r == Reads(c, 5, {va, va + 2})
           h == Reads(r, 6, {handler, handler + 2})
<1>1. EnterHandler(c, sp, va) = AtHandler(h, sp, handler)
  BY Zenon DEF EnterHandler, HandlerReads
<1>2. Sound(u, r)
  BY Zenon, ReadSound
<1> HIDE DEF handler
<1>3. Sound(u, h)
  <2> HIDE DEF r
  <2> QED BY Zenon, <1>2, ReadSound
<1>4. ASSUME Running(h) PROVE h = r
  <2> HIDE DEF r
  <2>1. ~ Running(Fail(r))
    BY SMT DEF Running, Fail
  <2> QED BY Zenon, <1>4, <2>1 DEF Reads
<1>5. ASSUME Running(r) PROVE r = c /\ CanRead(c, va, 5)
  <2>1. ~ Running(Fail(c))
    BY SMT DEF Running, Fail
  <2> QED BY Zenon, <1>5, <2>1 DEF Reads
<1> HIDE DEF h, r
<1>6. CASE Running(h)
  <2>1. h = c /\ CanRead(c, va, 5) /\ Running(c)
    BY Zenon, <1>4, <1>5, <1>6
  <2>2. Calm(u, c) /\ Below(u, sp)
    BY Zenon, <2>1, SoundIsTyped
  <2>3. Sound(u, [FetchFrom(c, handler) EXCEPT !.ssp = sp, !.sr = InSupervisorMode(@), !.at = "trapped"])
    BY Zenon, <2>1, <2>2, FirstWord DEF handler
  <2>4. AtHandler(h, sp, handler)
          = [FetchFrom(c, handler) EXCEPT !.ssp = sp, !.sr = InSupervisorMode(@), !.at = "trapped"]
    BY Zenon, <2>1 DEF AtHandler, Commit
  <2> QED BY <1>1, <2>3, <2>4
<1>7. CASE ~ Running(h)
  <2>1. AtHandler(h, sp, handler) = h
    BY Zenon, <1>7, NotRunning DEF AtHandler
  <2> QED BY Zenon, <1>1, <1>3, <2>1
<1> QED BY <1>6, <1>7

(* The stack pointer the frames are reckoned from. *)
LEMMA FramesBelow ==
  ASSUME NEW u, NEW c, Sound(u, c), Running(c)
  PROVE  Below(u, Add(c.ssp, -6)) /\ Below(u, Add(c.ssp, -14))
<1>1. Calm(u, c) /\ c.ssp \in Longs
  BY Zenon, SoundIsTyped, TypedContext
<1>2. ~ Supervisor(u) => c.ssp = u.ssp
  BY Zenon, <1>1 DEF Calm, Same
<1> QED BY Zenon, <1>1, <1>2, Added DEF Below

LEMMA WordsOf ==
  ASSUME NEW u, NEW c, Sound(u, c), NEW x \in Longs
  PROVE  High(x) \in WordValues /\ Low(x) \in WordValues
  BY Zenon, SoundIsTyped, TypedContext, Halves

LEMMA StatusWritten ==
  ASSUME NEW u, NEW c, Sound(u, c), NEW a
  PROVE  Sound(u, WriteStatus(c, a))
<1>1. c.sr \in WordValues
  BY Zenon, SoundIsTyped, TypedContext
<1> QED BY Zenon, <1>1, WriteSound DEF WriteStatus

LEMMA ExceptionSound ==
  ASSUME NEW u, NEW c, Sound(u, c), NEW vector \in 2 .. 255, NEW savedPC \in Longs
  PROVE  Sound(u, StandardException(c, vector, savedPC))
<1> DEFINE sp == Add(c.ssp, -6)
           va == 4 * vector
           f  == ShortFrame(c, sp, savedPC)
<1>1. va \in Vectors
  BY Zenon DEF Vectors
<1>2. High(savedPC) \in WordValues /\ Low(savedPC) \in WordValues
  BY Zenon, WordsOf
<1>3. Sound(u, f)
  <2> HIDE DEF sp
  <2> QED BY Zenon, <1>2, WriteSound, StatusWritten DEF ShortFrame
<1>4. Running(f) => Below(u, sp)
  <2>1. CASE Running(c)
    BY Zenon, <2>1, FramesBelow
  <2>2. CASE ~ Running(c)
    <3>1. f = c
      <4> HIDE DEF sp
      <4> QED BY SMT, <2>2, NotRunning DEF ShortFrame, WriteStatus
    <3> QED BY Zenon, <2>2, <3>1
  <2> QED BY <2>1, <2>2
<1>5. StandardException(c, vector, savedPC) = EnterHandler(f, sp, va)
  BY Zenon DEF StandardException
<1> HIDE DEF f, sp, va
<1> QED BY Zenon, <1>1, <1>3, <1>4, <1>5, EnteredSound

LEMMA AccessErrorSound ==
  ASSUME NEW u, NEW c, Sound(u, c), NEW opcode \in Longs, NEW target \in Longs, NEW savedPC \in Longs,
         NEW fc \in Spaces, NEW read, NEW va \in Vectors
  PROVE  Sound(u, AccessError(c, opcode, target, savedPC, fc, read, va))
<1> DEFINE sp == Add(c.ssp, -14)
           s  == StatusWord(fc, read)
           o  == OldFrame(c, sp, savedPC)
           f  == AccessFrame(o, sp, opcode, target, s)
<1>1. /\ High(savedPC) \in WordValues /\ Low(savedPC) \in WordValues
      /\ High(target) \in WordValues /\ Low(target) \in WordValues /\ Low(opcode) \in WordValues
  BY Zenon, WordsOf
<1>2. s \in WordValues
  BY Zenon, StatusWordFits
<1> HIDE DEF s
<1>3. Sound(u, o)
  <2> HIDE DEF sp
  <2> QED BY Zenon, <1>1, WriteSound, StatusWritten DEF OldFrame
<1>4. Sound(u, f)
  <2> HIDE DEF sp, o
  <2> QED BY Zenon, <1>1, <1>2, <1>3, WriteSound DEF AccessFrame
<1>5. Running(f) => Below(u, sp)
  <2>1. CASE Running(c)
    BY Zenon, <2>1, FramesBelow
  <2>2. CASE ~ Running(c)
    <3>1. o = c
      <4> HIDE DEF sp
      <4> QED BY SMT, <2>2, NotRunning DEF OldFrame, WriteStatus
    <3>2. f = c
      <4> HIDE DEF sp, o
      <4> QED BY SMT, <2>2, <3>1, NotRunning DEF AccessFrame
    <3> QED BY Zenon, <2>2, <3>2
  <2> QED BY <2>1, <2>2
<1>6. AccessError(c, opcode, target, savedPC, fc, read, va) = EnterHandler(f, sp, va)
  BY Zenon DEF AccessError, AccessErrorAt, s
<1> HIDE DEF f, sp
<1> QED BY Zenon, <1>4, <1>5, <1>6, EnteredSound

LEMMA FaultVectors == AddressErrorVector \in Vectors /\ BusErrorVector \in Vectors
<1>1. 12 = 4 * 3 /\ 8 = 4 * 2 /\ 2 \in 2 .. 255 /\ 3 \in 2 .. 255
  BY SMT
<1> QED BY SMT, <1>1 DEF AddressErrorVector, BusErrorVector, Vectors

(* A privileged instruction of a user, a TRAP, or an opcode that is none.  *)
LEMMA ViolationSound ==
  ASSUME NEW u, NEW c, Sound(u, c)
  PROVE  Sound(u, PrivilegeViolation(c))
<1>1. c.pc \in Longs
  BY Zenon, SoundIsTyped, TypedContext
<1>2. Add(c.pc, -4) \in Longs /\ 8 \in 2 .. 255
  BY SMT, <1>1, Added
<1> QED BY Zenon, <1>2, ExceptionSound DEF PrivilegeViolation

LEMMA AddressErrorSound ==
  ASSUME NEW u, NEW c, Sound(u, c), NEW target \in Longs, NEW savedPC \in Longs
  PROVE  Sound(u, InstructionAddressError(c, target, savedPC))
<1>1. c.prefetch[1] \in Longs
  BY Zenon, SoundIsTyped, TypedContext
<1> QED BY Zenon, <1>1, AccessErrorSound, FaultVectors, SpaceOf DEF InstructionAddressError

LEMMA BranchSound ==
  ASSUME NEW u, NEW c, Sound(u, c), NEW target \in Longs, NEW savedPC \in Longs
  PROVE  Sound(u, BranchTo(c, target, savedPC))
  BY Zenon, AddressErrorSound, FillSound DEF BranchTo

-----------------------------------------------------------------------------
(* Operands. *)

LEMMA ExtensionsSound ==
  ASSUME NEW u, NEW c, Sound(u, c), NEW mode, NEW reg
  PROVE  /\ Sound(u, AfterExtensions(c, mode, reg))
         /\ Calm(u, c) => Calm(u, AfterExtensions(c, mode, reg))
<1>1. /\ Sound(u, ConsumeExtension(c)) /\ (Calm(u, c) => Calm(u, ConsumeExtension(c)))
      /\ Sound(u, ConsumeExtension(ConsumeExtension(c)))
      /\ Calm(u, c) => Calm(u, ConsumeExtension(ConsumeExtension(c)))
  BY Zenon, ConsumeSound
<1> QED BY Zenon, <1>1 DEF AfterExtensions

LEMMA DecodeCalm ==
  ASSUME NEW u, NEW c, Calm(u, c), NEW i
  PROVE  Calm(u, DecodeControlEA(c, i))
  BY Zenon, FailCalm, ReadSound, CalmIsSound DEF DecodeControlEA

LEMMA ImmediateSound ==
  ASSUME NEW u, NEW c, Sound(u, c), NEW long
  PROVE  /\ Sound(u, ImmediateConsumed(c, long))
         /\ Calm(u, c) => Calm(u, ImmediateConsumed(c, long))
<1>1. /\ Sound(u, ConsumeExtension(c)) /\ (Calm(u, c) => Calm(u, ConsumeExtension(c)))
      /\ Sound(u, ConsumeExtension(ConsumeExtension(c)))
      /\ Calm(u, c) => Calm(u, ConsumeExtension(ConsumeExtension(c)))
  BY Zenon, ConsumeSound
<1> QED BY Zenon, <1>1 DEF ImmediateConsumed

LEMMA AddressesReached ==
  ASSUME NEW u, NEW c, Sound(u, c), NEW i
  PROVE  /\ c.pc \in Longs /\ c.prefetch[1] \in Longs
         /\ Add(c.pc, 2) \in Longs /\ Add(c.pc, -2) \in Longs /\ Add(c.pc, -4) \in Longs
         /\ AfterOperand(c, i) \in Longs
<1>1. c.pc \in Longs /\ c.prefetch[1] \in Longs /\ c.pc \in Int
  BY Zenon, SoundIsTyped, TypedContext, LongsAreIntegers
<1>2. 2 * (ExtensionWords(i.mode, i.reg) - 1) \in Int
  <2>1. ExtensionWords(i.mode, i.reg) \in {0, 1, 2}
    BY Zenon DEF ExtensionWords
  <2> QED BY SMT, <2>1
<1> QED BY Zenon, <1>1, <1>2, Adds, Added DEF AfterOperand

LEMMA SequentialCalm ==
  ASSUME NEW u, NEW c, Calm(u, c), NEW i
  PROVE  Calm(u, RefillSequential(c, i))
<1>1. AfterOperand(c, i) \in Longs
  BY Zenon, CalmIsSound, AddressesReached
<1> QED BY Zenon, <1>1, CalmIsSound, ConsumeSound, FillSound DEF RefillSequential

LEMMA MovedSound ==
  ASSUME NEW u, NEW c, Sound(u, c), NEW r \in Registers8, NEW n \in Int
  PROVE  /\ Sound(u, Moved(c, r, n))
         /\ Calm(u, c) => Calm(u, Moved(c, r, n))
<1> DEFINE x == Add(AddressRegister(c, r), n)
<1>1. x \in Longs
  BY Zenon, SoundIsTyped, RegisterRead, LongsAreIntegers, Adds
<1> HIDE DEF x
<1>2. Running(c) => Calm(u, SetAddressRegister(c, r, x))
  BY Zenon, <1>1, SoundIsTyped, RegisterChanged
<1>3. Running(c) => Sound(u, SetAddressRegister(c, r, x))
  BY Zenon, <1>2, CalmIsSound
<1> QED BY Zenon, <1>2, <1>3, CommitSound DEF Moved, x

LEMMA BytesAreIntegers ==
  ASSUME NEW long
  PROVE  Bytes(long) \in Int /\ -Bytes(long) \in Int /\ 2 \in Int /\ 4 \in Int /\ -4 \in Int
  BY SMT DEF Bytes

LEMMA SourceMovedSound ==
  ASSUME NEW u, NEW c, Sound(u, c), NEW long, NEW mode, NEW reg \in Registers8
  PROVE  /\ Sound(u, SourceMoved(c, long, mode, reg)) /\ Sound(u, MemoryRead(c, long, mode, reg))
         /\ Calm(u, c) => Calm(u, SourceMoved(c, long, mode, reg)) /\ Calm(u, MemoryRead(c, long, mode, reg))
<1>1. /\ Sound(u, SourceMoved(c, long, mode, reg))
      /\ Calm(u, c) => Calm(u, SourceMoved(c, long, mode, reg))
  BY Zenon, MovedSound, ExtensionsSound, BytesAreIntegers DEF SourceMoved
<1>2. /\ Sound(u, MemoryRead(c, long, mode, reg))
      /\ Calm(u, c) => Calm(u, MemoryRead(c, long, mode, reg))
  BY Zenon, MovedSound, BytesAreIntegers DEF MemoryRead
<1> QED BY <1>1, <1>2

LEMMA FaultPCReached ==
  ASSUME NEW u, NEW c, Sound(u, c), NEW long, NEW mode, NEW reg
  PROVE  SourceFaultPC(long, c.pc, mode, reg) \in Longs
  BY Zenon, AddressesReached DEF SourceFaultPC

LEMMA SourceSound ==
  ASSUME NEW u, NEW c, Sound(u, c), NEW opcode \in Longs, NEW long,
         NEW mode \in Registers8, NEW reg \in Registers8
  PROVE  Sound(u, ReadSource(c, opcode, long, mode, reg))
<1>1. Sound(u, SourceMoved(c, long, mode, reg)) /\ Sound(u, ImmediateConsumed(c, long))
  BY Zenon, SourceMovedSound, ImmediateSound
<1>7. Sound(u, Commit(c, Fail(c)))
  BY Zenon, SoundIsTyped, FailCalm, CalmIsSound, CommitSound
<1>2. ASSUME NEW b, Sound(u, b), NEW address \in Longs, NEW savedPC \in Longs, NEW fc \in Spaces
      PROVE  Sound(u, SourceAccess(b, opcode, long, address, savedPC, fc))
  BY Zenon, <1>2, AccessErrorSound, FaultVectors, ReadSound DEF SourceAccess
<1>3. ASSUME NEW address \in Longs, NEW savedPC \in Longs, NEW fc \in Spaces
      PROVE  Sound(u, MemoryRead(SourceAccess(SourceMoved(c, long, mode, reg), opcode, long, address,
                                              savedPC, fc), long, mode, reg))
  BY Zenon, <1>1, <1>2, SourceMovedSound
<1>4. OperandAddress(c, long, mode, reg) \in Longs /\ SourceFaultPC(long, c.pc, mode, reg) \in Longs
  BY Zenon, SoundIsTyped, SourceFound, FaultPCReached
<1>5. (IF PcRelative(mode, reg) THEN ProgramFC(c) ELSE DataFC(c)) \in Spaces
  BY Zenon, SpaceOf
<1>6. Sound(u, MemoryRead(SourceAccess(SourceMoved(c, long, mode, reg), opcode, long,
                                       OperandAddress(c, long, mode, reg),
                                       SourceFaultPC(long, c.pc, mode, reg),
                                       IF PcRelative(mode, reg) THEN ProgramFC(c) ELSE DataFC(c)),
                          long, mode, reg))
  BY Zenon, <1>3, <1>4, <1>5
<1> QED BY Zenon, <1>1, <1>6, <1>7 DEF ReadSource

-----------------------------------------------------------------------------
(* The instructions that compute. *)

TwoOperandKinds == {"ADD", "SUB", "CMP", "AND", "OR", "EOR", "ADDX", "SUBX", "STORE"}

(* A second operand the operation is made for: a shift is by 63 places at   *)
(* most.                                                                   *)
Fitting(i, s) == s \in Operands(i.long) /\ (s <= 63 \/ i.kind \in TwoOperandKinds)

LEMMA BelowSize ==
  ASSUME Width, NEW long
  PROVE  /\ Size(long) \in Sizes
         /\ \A x : x \in Operands(long) <=> x \in Nat /\ x < Size(long)
         /\ Operands(long) \subseteq Longs
<1>1. CASE long
  <2>1. Size(long) = LongSize /\ Operands(long) = Longs
    BY SMT, <1>1 DEF Size, Operands
  <2>2. \A x : x \in Longs <=> x \in Nat /\ x < LongSize
    BY SMT, LongSizeIsNat DEF Longs
  <2>3. LongSize \in Sizes
    BY SMT DEF Sizes
  <2> QED BY Zenon, <2>1, <2>2, <2>3
<1>2. CASE ~ long
  <2>1. Size(long) = 65536 /\ Operands(long) = WordValues
    BY SMT, <1>2 DEF Size, Operands
  <2>2. \A x : x \in WordValues <=> x \in Nat /\ x < 65536
    BY SMT DEF WordValues
  <2>3. Size(long) \in Sizes /\ \A x : x \in Operands(long) <=> x \in Nat /\ x < Size(long)
    BY SMT, <2>1, <2>2 DEF Sizes
  <2>4. Operands(long) \subseteq Longs
    <3>1. Operands(long) = WordValues
      BY <2>1
    <3> QED BY Zenon, <3>1, Narrower
  <2> QED BY <2>3, <2>4
<1> QED BY <1>1, <1>2

LEMMA OperatedFits ==
  ASSUME NEW c, Typed(c), NEW i, NEW d \in Operands(i.long), NEW s, Fitting(i, s)
  PROVE  Operated(c, i, d, s).value \in Operands(i.long)
<1> DEFINE size == Size(i.long)
           f == Flags(c.sr)
           kind == i.kind
<1>1. Width
  BY Zenon, TypedContext
<1>2. /\ size \in Sizes /\ d \in Nat /\ d < size /\ s \in Nat /\ s < size
      /\ s <= 63 \/ kind \in TwoOperandKinds
  BY Zenon, <1>1, BelowSize DEF Fitting
<1> HIDE DEF size, f, kind
<1>3. Operate(kind, d, s, size, f).value \in Nat /\ Operate(kind, d, s, size, f).value < size
  BY Zenon, <1>1, <1>2, OperateFits DEF TwoOperandKinds
<1> QED BY Zenon, <1>1, <1>3, BelowSize DEF Operated, size, f, kind

LEMMA PartSet ==
  ASSUME NEW u, NEW c, Calm(u, c), NEW long, NEW r \in Registers8, NEW x \in Operands(long)
  PROVE  Calm(u, SetPart(c, long, r, x)) /\ \A f : Calm(u, SetFlags(SetPart(c, long, r, x), f))
<1>1. Typed(c) /\ Width
  BY Zenon, CalmIsSound, TypedContext
<1>2. c.d[r] \in Longs
  BY Zenon, <1>1, RegisterRead
<1>3. (IF long THEN x ELSE SetLow(c.d[r], x)) \in Longs
  BY Zenon, <1>1, <1>2, LowSet DEF Operands
<1>4. Calm(u, SetPart(c, long, r, x))
  BY Zenon, <1>3, RegisterChanged DEF SetPart
<1> QED BY Zenon, <1>4, FlagsChanged

LEMMA InRegisterSound ==
  ASSUME NEW u, NEW c, Sound(u, c), NEW i, NEW r \in Registers8, NEW s, Fitting(i, s)
  PROVE  /\ Sound(u, InRegister(c, i, r, s))
         /\ Calm(u, c) => Calm(u, InRegister(c, i, r, s))
<1> DEFINE o == Operated(c, i, Part(i.long, c.d[r]), s)
<1>1. Typed(c) /\ Width
  BY Zenon, SoundIsTyped, TypedContext
<1>2. Part(i.long, c.d[r]) \in Operands(i.long)
  BY Zenon, <1>1, RegisterRead, PartFits
<1>3. o.value \in Operands(i.long)
  BY Zenon, <1>1, <1>2, OperatedFits
<1> HIDE DEF o
<1>4. Running(c) => Calm(u, Into(c, i, r, o))
  BY Zenon, <1>3, SoundIsTyped, PartSet DEF Into
<1>5. Running(c) => Sound(u, Into(c, i, r, o))
  BY Zenon, <1>4, CalmIsSound
<1>6. Sound(u, Commit(c, Into(c, i, r, o))) /\ (Calm(u, c) => Calm(u, Commit(c, Into(c, i, r, o))))
  BY Zenon, <1>4, <1>5, CommitSound
<1> QED BY Zenon, <1>6, ConsumeSound DEF InRegister, o

LEMMA WriteBackSound ==
  ASSUME NEW u, NEW c, Sound(u, c), NEW long, NEW a, NEW x \in Operands(long)
  PROVE  /\ Sound(u, WriteBack(c, long, a, x))
         /\ Calm(u, c) => Calm(u, WriteBack(c, long, a, x))
<1>1. CASE long
  <2>1. High(x) \in WordValues /\ Low(x) \in WordValues
    BY Zenon, <1>1, WordsOf DEF Operands
  <2>2. \A fc, b : /\ Sound(u, Write(c, fc, b, Low(x)))
                   /\ Calm(u, c) => Calm(u, Write(c, fc, b, Low(x)))
    BY Zenon, <2>1, WriteSound
  <2> QED BY Zenon, <1>1, <2>1, <2>2, WriteSound DEF WriteBack
<1>2. CASE ~ long
  BY Zenon, <1>2, WriteSound DEF WriteBack, Operands
<1> QED BY <1>1, <1>2

LEMMA FlaggedSound ==
  ASSUME NEW u, NEW c, Sound(u, c), NEW f
  PROVE  /\ Sound(u, Commit(c, SetFlags(c, f))) /\ Sound(u, Refill(Commit(c, SetFlags(c, f))))
         /\ Calm(u, c) => Calm(u, Commit(c, SetFlags(c, f))) /\ Calm(u, Refill(Commit(c, SetFlags(c, f))))
<1>1. Running(c) => Calm(u, SetFlags(c, f))
  BY Zenon, SoundIsTyped, FlagsChanged
<1>2. Running(c) => Sound(u, SetFlags(c, f))
  BY Zenon, <1>1, CalmIsSound
<1>3. Sound(u, Commit(c, SetFlags(c, f))) /\ (Calm(u, c) => Calm(u, Commit(c, SetFlags(c, f))))
  BY Zenon, <1>1, <1>2, CommitSound
<1> QED BY Zenon, <1>3, ConsumeSound

LEMMA ModifySound ==
  ASSUME NEW u, NEW c, Calm(u, c), NEW i, i.mode \in Registers8, i.reg \in Registers8,
         NEW opcode \in Longs, NEW s, Fitting(i, s)
  PROVE  Sound(u, Modify(c, i, opcode, s))
<1>1. ASSUME NEW b, Sound(u, b), NEW address \in Longs PROVE Sound(u, Modified(b, i, address, s))
  <2> DEFINE o == Operated(b, i, ValueAt(b, i.long, address), s)
             w == IF i.long THEN {address, address + 2} ELSE {address}
             r == Reads(b, DataFC(b), w)
  <2>1. Typed(b) /\ address \in Int
    BY Zenon, <1>1, SoundIsTyped, LongsAreIntegers
  <2>2. ValueAt(b, i.long, address) \in Operands(i.long)
    BY Zenon, <2>1, WordRead, LongRead DEF ValueAt, Operands
  <2>3. o.value \in Operands(i.long)
    BY Zenon, <2>1, <2>2, OperatedFits
  <2>4. Sound(u, r)
    BY Zenon, <1>1, ReadSound
  <2>5. Modified(b, i, address, s)
          = WriteBack(Refill(Commit(r, SetFlags(r, o.flags))), i.long, address, o.value)
    BY Zenon DEF Modified
  <2> HIDE DEF o, r
  <2>6. Sound(u, Refill(Commit(r, SetFlags(r, o.flags))))
    BY Zenon, <2>4, FlaggedSound
  <2> QED BY Zenon, <2>3, <2>5, <2>6, WriteBackSound
<1>2. ASSUME NEW m, Sound(u, m), NEW address \in Longs, NEW savedPC \in Longs
      PROVE  Sound(u, ModifyAt(m, i, opcode, address, savedPC, s))
  <2>1. Sound(u, MemoryRead(m, i.long, i.mode, i.reg))
    BY Zenon, <1>2, SourceMovedSound
  <2>2. Sound(u, AccessError(m, opcode, address, savedPC, DataFC(m), TRUE, AddressErrorVector))
    BY Zenon, <1>2, AccessErrorSound, FaultVectors, SpaceOf
  <2> QED BY Zenon, <1>1, <1>2, <2>1, <2>2 DEF ModifyAt
<1>3. OperandAddress(c, i.long, i.mode, i.reg) \in Longs /\ SourceFaultPC(i.long, c.pc, i.mode, i.reg) \in Longs
  BY Zenon, CalmIsSound, SourceFound, FaultPCReached
<1>4. Sound(u, SourceMoved(c, i.long, i.mode, i.reg)) /\ Sound(u, Fail(c))
  BY Zenon, CalmIsSound, SourceMovedSound, FailCalm
<1> QED BY Zenon, <1>2, <1>3, <1>4 DEF Modify

LEMMA SmallFits ==
  ASSUME NEW i, NEW s \in Nat, s <= 63, Width
  PROVE  Fitting(i, s)
<1>1. s \in WordValues /\ s \in Operands(TRUE) /\ s \in Operands(FALSE)
  <2>1. s \in WordValues
    BY SMT DEF WordValues
  <2> QED BY Zenon, <2>1, Narrower DEF Operands
<1>2. s \in Operands(i.long)
  BY Zenon, <1>1, Narrower DEF Operands
<1> QED BY Zenon, <1>2 DEF Fitting

LEMMA CalmContext ==
  ASSUME NEW u, NEW c, Calm(u, c)
  PROVE  Typed(c) /\ Width /\ Sound(u, c) /\ c.prefetch[1] \in Longs /\ c.pc \in Longs
  BY Zenon, CalmIsSound, TypedContext

LEMMA ToRegisterSound ==
  ASSUME NEW u, NEW c, Calm(u, c), NEW i, i.mode \in Registers8, i.reg \in Registers8,
         i.dreg \in Registers8, i.kind \in TwoOperandKinds
  PROVE  Sound(u, ToRegister(c, i)) /\ Sound(u, FromRegister(c, i))
<1>1. Fitting(i, SourceValue(c, i.long, i.mode, i.reg))
  BY Zenon, CalmContext, SourceFound DEF Fitting
<1>2. Sound(u, ReadSource(c, c.prefetch[1], i.long, i.mode, i.reg))
  BY Zenon, CalmContext, SourceSound
<1>3. Sound(u, ToRegister(c, i))
  BY Zenon, <1>1, <1>2, InRegisterSound DEF ToRegister
<1>4. Fitting(i, Part(i.long, c.d[i.dreg]))
  BY Zenon, CalmContext, RegisterRead, PartFits DEF Fitting
<1>5. Sound(u, FromRegister(c, i))
  BY Zenon, <1>4, CalmContext, InRegisterSound, ModifySound DEF FromRegister
<1> QED BY <1>3, <1>5

LEMMA QuickSound ==
  ASSUME NEW u, NEW c, Calm(u, c), NEW i, i.mode \in Registers8, i.reg \in Registers8, i.byte \in 1 .. 8
  PROVE  Sound(u, Quick(c, i))
<1>1. i.byte \in Nat /\ i.byte <= 63 /\ i.byte \in Int /\ -i.byte \in Int
  BY SMT
<1>2. Fitting(i, i.byte)
  BY Zenon, <1>1, CalmContext, SmallFits
<1>3. Sound(u, Moved(c, i.reg, IF i.kind = "ADD" THEN i.byte ELSE -i.byte))
  BY Zenon, <1>1, CalmContext, MovedSound
<1> QED BY Zenon, <1>2, <1>3, CalmContext, InRegisterSound, ModifySound, ConsumeSound DEF Quick

LEMMA OneOperandSound ==
  ASSUME NEW u, NEW c, Calm(u, c), NEW i, i.mode \in Registers8, i.reg \in Registers8
  PROVE  Sound(u, OneOperand(c, i))
<1>1. 1 \in Nat /\ 1 <= 63
  BY SMT
<1>2. Fitting(i, 1)
  BY Zenon, <1>1, CalmContext, SmallFits
<1> QED BY Zenon, <1>2, CalmContext, InRegisterSound, ModifySound DEF OneOperand

LEMMA ShiftSound ==
  ASSUME NEW u, NEW c, Calm(u, c), NEW i, i.reg \in Registers8,
         IF i.counted THEN i.dreg \in Registers8 ELSE i.byte \in 1 .. 8
  PROVE  Sound(u, ShiftRegister(c, i))
<1> DEFINE s == IF i.counted THEN c.d[i.dreg] % 64 ELSE i.byte
<1>1. s \in Nat /\ s <= 63
  <2>1. CASE i.counted
    <3>1. c.d[i.dreg] % 64 \in 0 .. 63
      BY Zenon, <2>1, CalmContext, RegisterRead, Halves
    <3> QED BY SMT, <2>1, <3>1
  <2>2. CASE ~ i.counted
    BY SMT, <2>2
  <2> QED BY <2>1, <2>2
<1>2. Fitting(i, s)
  <2> HIDE DEF s
  <2> QED BY Zenon, <1>1, CalmContext, SmallFits
<1> QED BY Zenon, <1>2, CalmContext, InRegisterSound DEF ShiftRegister

LEMMA ExtendedSound ==
  ASSUME NEW u, NEW c, Calm(u, c), NEW i, i.reg \in Registers8, i.dreg \in Registers8,
         i.kind \in TwoOperandKinds
  PROVE  Sound(u, Extended(c, i))
<1>1. Fitting(i, Part(i.long, c.d[i.reg]))
  BY Zenon, CalmContext, RegisterRead, PartFits DEF Fitting
<1> QED BY Zenon, <1>1, CalmContext, InRegisterSound, FailCalm DEF Extended

LEMMA CompareSound ==
  ASSUME NEW u, NEW c, Sound(u, c), NEW i, i.mode \in Registers8, i.reg \in Registers8,
         NEW opcode \in Longs, NEW s
  PROVE  Sound(u, CompareWith(c, i, opcode, s))
<1>1. Sound(u, ReadSource(c, opcode, i.long, i.mode, i.reg))
  BY Zenon, SourceSound
<1>2. \A f : Sound(u, Refill(Commit(ReadSource(c, opcode, i.long, i.mode, i.reg),
                                    SetFlags(ReadSource(c, opcode, i.long, i.mode, i.reg), f))))
  BY Zenon, <1>1, FlaggedSound
<1> QED BY Zenon, <1>2 DEF CompareWith

LEMMA ImmediateOperationSound ==
  ASSUME NEW u, NEW c, Calm(u, c), NEW i, i.mode \in Registers8, i.reg \in Registers8,
         i.kind \in TwoOperandKinds
  PROVE  Sound(u, Immediate(c, i))
<1> DEFINE s == SourceValue(c, i.long, 7, 4)
           b == ImmediateConsumed(c, i.long)
<1>1. Fitting(i, s)
  <2>1. 7 \in Registers8 /\ 4 \in Registers8
    BY SMT DEF Registers8
  <2> QED BY Zenon, <2>1, CalmContext, SourceFound DEF Fitting
<1>2. Calm(u, b)
  BY Zenon, CalmContext, ImmediateSound
<1>3. Calm(u, Fail(c)) /\ c.prefetch[1] \in Longs
  BY Zenon, FailCalm, CalmContext
<1> HIDE DEF s, b
<1>4. Sound(u, ImmediateTo(b, i, c.prefetch[1], s))
  BY Zenon, <1>1, <1>2, <1>3, CalmContext, CompareSound, InRegisterSound, ModifySound DEF ImmediateTo
<1> QED BY Zenon, <1>3, <1>4, CalmContext DEF Immediate, s, b

LEMMA ToAddressSound ==
  ASSUME NEW u, NEW c, Calm(u, c), NEW i, i.mode \in Registers8, i.reg \in Registers8,
         i.dreg \in Registers8
  PROVE  Sound(u, ToAddressRegister(c, i))
<1> DEFINE s == SourceValue(c, i.long, i.mode, i.reg)
           x == IF i.long THEN s ELSE Add(0, SignedWord(s))
           r == ReadSource(c, c.prefetch[1], i.long, i.mode, i.reg)
           before == AddressRegister(c, i.dreg)
<1>1. Sound(u, r)
  BY Zenon, CalmContext, SourceSound
<1>2. x \in Longs
  <2>1. s \in Operands(i.long)
    BY Zenon, CalmContext, SourceFound
  <2> HIDE DEF s
  <2>2. SignedWord(s) \in Int /\ 0 \in Int
    BY SMT, <2>1 DEF SignedWord, Signed, Operands, Longs, WordValues
  <2> QED BY Zenon, <2>1, <2>2, Adds DEF Operands
<1> HIDE DEF s, r
<1>3. ToAddressRegister(c, i) = Refill(Commit(r, AddressOperation(r, i, before, x)))
  BY Zenon DEF ToAddressRegister, s, r
<1> HIDE DEF x, before
<1>4. Running(r) => Calm(u, AddressOperation(r, i, before, x))
  <2> SUFFICES ASSUME Running(r) PROVE Calm(u, AddressOperation(r, i, before, x))
    OBVIOUS
  <2>1. Calm(u, r)
    BY Zenon, <1>1, SoundIsTyped
  <2>2. AddressRegister(r, i.dreg) \in Int /\ x \in Int
    BY Zenon, <2>1, <1>2, CalmContext, RegisterRead, LongsAreIntegers
  <2>3. -x \in Int
    BY Zenon, <2>2, SignsAreIntegers
  <2>4. Add(AddressRegister(r, i.dreg), x) \in Longs /\ Add(AddressRegister(r, i.dreg), -x) \in Longs
    BY Zenon, <2>2, <2>3, Adds
  <2> QED BY Zenon, <1>2, <2>1, <2>4, RegisterChanged, FlagsChanged DEF AddressOperation
<1>5. Running(r) => Sound(u, AddressOperation(r, i, before, x))
  BY Zenon, <1>4, CalmIsSound
<1> QED BY Zenon, <1>1, <1>3, <1>5, CommitSound, ConsumeSound

LEMMA CompareMemorySound ==
  ASSUME NEW u, NEW c, Calm(u, c), NEW i, i.reg \in Registers8, i.dreg \in Registers8
  PROVE  Sound(u, CompareMemory(c, i))
<1> DEFINE j == [long |-> i.long, mode |-> 3, reg |-> i.dreg]
<1>1. /\ c.prefetch[1] \in Longs /\ c.pc \in Longs /\ AddressRegister(c, i.reg) \in Longs
  BY Zenon, CalmContext, RegisterRead
<1>2. ASSUME NEW s, Sound(u, s), NEW target \in Longs
      PROVE  Sound(u, AccessError(s, c.prefetch[1], target, c.pc, DataFC(c), TRUE, AddressErrorVector))
  BY Zenon, <1>1, <1>2, AccessErrorSound, FaultVectors, SpaceOf
<1>3. Sound(u, Moved(c, i.reg, 2)) /\ Sound(u, ReadSource(c, c.prefetch[1], i.long, 3, i.reg))
  <2>1. 3 \in Registers8
    BY SMT DEF Registers8
  <2> QED BY Zenon, <2>1, <1>1, CalmContext, MovedSound, BytesAreIntegers, SourceSound
<1>4. ASSUME NEW s, Sound(u, s), NEW x
      PROVE  AddressRegister(s, i.dreg) \in Longs /\ Sound(u, CompareWith(s, j, c.prefetch[1], x))
  <2>1. j.mode \in Registers8 /\ j.reg \in Registers8
    BY SMT DEF Registers8
  <2> HIDE DEF j
  <2> QED BY Zenon, <1>1, <1>4, <2>1, CompareSound, SoundIsTyped, RegisterRead
<1> QED BY Zenon, <1>1, <1>2, <1>3, <1>4 DEF CompareMemory

LEMMA TestSound ==
  ASSUME NEW u, NEW c, Calm(u, c), NEW i, i.mode \in Registers8, i.reg \in Registers8
  PROVE  Sound(u, Test(c, i))
<1> DEFINE r == ReadSource(c, c.prefetch[1], i.long, i.mode, i.reg)
<1>1. Sound(u, r)
  BY Zenon, CalmContext, SourceSound
<1>2. Sound(u, Fail(c))
  BY Zenon, CalmContext, FailCalm
<1>3. \A f : Sound(u, Refill(Commit(r, SetFlags(r, f))))
  <2> HIDE DEF r
  <2> QED BY Zenon, <1>1, FlaggedSound
<1> QED BY Zenon, <1>2, <1>3 DEF Test

LEMMA MultiplySound ==
  ASSUME NEW u, NEW c, Calm(u, c), NEW i, i.mode \in Registers8, i.reg \in Registers8,
         i.dreg \in Registers8
  PROVE  Sound(u, Multiply(c, i))
<1> DEFINE s == SourceValue(c, FALSE, i.mode, i.reg)
           x == Product(i.signed, Low(c.d[i.dreg]), s, LongSize)
           r == ReadSource(c, c.prefetch[1], FALSE, i.mode, i.reg)
<1>1. Sound(u, r)
  BY Zenon, CalmContext, SourceSound
<1>2. s \in WordValues /\ Low(c.d[i.dreg]) \in WordValues /\ Width
  BY Zenon, CalmContext, SourceFound, RegisterRead, Halves DEF Operands
<1> HIDE DEF s
<1>3. x \in Longs
  BY Zenon, <1>2, ProductFits
<1> HIDE DEF x, r
<1>4. Running(r) => \A f : Calm(u, SetFlags(SetDataRegister(r, i.dreg, x), f))
  BY Zenon, <1>1, <1>3, SoundIsTyped, RegisterChanged, FlagsChanged
<1>5. Sound(u, LongResult(r, i, x))
  BY Zenon, <1>1, <1>4, CalmIsSound, CommitSound DEF LongResult
<1>6. Sound(u, Fail(c)) /\ Sound(u, Refill(LongResult(r, i, x)))
  BY Zenon, <1>5, CalmContext, FailCalm, ConsumeSound
<1> QED BY Zenon, <1>6 DEF Multiply, x, r, s

LEMMA DivideSound ==
  ASSUME NEW u, NEW c, Calm(u, c), NEW i, i.mode \in Registers8, i.reg \in Registers8,
         i.dreg \in Registers8
  PROVE  Sound(u, Divide(c, i))
<1>1. ASSUME NEW r, Sound(u, r), NEW a \in Int, NEW b \in Int PROVE Sound(u, DivideBy(r, i, a, b))
  <2> SUFFICES ASSUME Running(r) PROVE Sound(u, DivideBy(r, i, a, b))
    BY Zenon, <1>1 DEF DivideBy
  <2>0. Calm(u, r)
    BY Zenon, <1>1, SoundIsTyped
  <2>1. Sound(u, DivideByZero(r))
    <3>1. \A f : Sound(u, SetFlags(r, f))
      BY Zenon, <2>0, FlagsChanged, CalmIsSound
    <3>2. Add(r.pc, -2) \in Longs /\ 5 \in 2 .. 255
      BY SMT, <2>0, CalmContext, Added
    <3> QED BY Zenon, <3>1, <3>2, ExceptionSound DEF DivideByZero
  <2>2. Sound(u, Refill(DivisionOverflow(r)))
    BY Zenon, <2>0, FlagsChanged, CalmIsSound, ConsumeSound DEF DivisionOverflow
  <2>3. ASSUME b # 0 PROVE Sound(u, Refill(DivisionDone(r, i, Divided(a, b, LongSize))))
    <3>1. b \in Int \ {0} /\ Width
      BY Zenon, <2>0, <2>3, CalmContext
    <3>2. Divided(a, b, LongSize) \in Longs
      BY Zenon, <3>1, DividedFits
    <3>3. Calm(u, DivisionDone(r, i, Divided(a, b, LongSize)))
      BY Zenon, <2>0, <3>2, RegisterChanged, LogicalFlagsChanged DEF DivisionDone
    <3> QED BY Zenon, <3>3, CalmIsSound, ConsumeSound
  <2> QED BY Zenon, <1>1, <2>1, <2>2, <2>3 DEF DivideBy
<1>2. Dividend(i.signed, c.d[i.dreg], LongSize) \in Int
  <2>0. LongSize \in Int
    BY SMT, LongSizeIsNat
  <2>1. c.d[i.dreg] \in Int /\ LongSize \in Int
    BY Zenon, <2>0, CalmContext, RegisterRead, LongsAreIntegers
  <2> QED BY Zenon, <2>1, SignedIsInteger DEF Dividend
<1>3. Divisor(i.signed, SourceValue(c, FALSE, i.mode, i.reg)) \in Int
  <2> DEFINE s == SourceValue(c, FALSE, i.mode, i.reg)
  <2>1. s \in WordValues
    BY Zenon, CalmContext, SourceFound DEF Operands
  <2> HIDE DEF s
  <2>2. Divisor(i.signed, s) \in Int
    BY SMT, <2>1 DEF Divisor, Signed, WordValues
  <2> QED BY <2>2 DEF s
<1>4. Sound(u, Fail(c)) /\ Sound(u, ReadSource(c, c.prefetch[1], FALSE, i.mode, i.reg))
  BY Zenon, CalmContext, FailCalm, SourceSound
<1> QED BY Zenon, <1>1, <1>2, <1>3, <1>4 DEF Divide

LEMMA RefillsSound ==
  ASSUME NEW u, NEW c, Calm(u, c)
  PROVE  Sound(u, Refill(c)) /\ Calm(u, Refill(c))
  BY Zenon, CalmIsSound, ConsumeSound

LEMMA ExchangeSound ==
  ASSUME NEW u, NEW c, Calm(u, c), NEW i, i.reg \in Registers8, i.dreg \in Registers8
  PROVE  Sound(u, Exchange(c, i))
<1>1. /\ c.d[i.reg] \in Longs /\ c.d[i.dreg] \in Longs
      /\ AddressRegister(c, i.reg) \in Longs /\ AddressRegister(c, i.dreg) \in Longs
  BY Zenon, CalmContext, RegisterRead
<1>2. ASSUME NEW r, NEW x \in Longs, NEW q, NEW y \in Longs
      PROVE  /\ Sound(u, Refill(SetDataRegister(SetDataRegister(c, r, x), q, y)))
             /\ Sound(u, Refill(SetAddressRegister(SetAddressRegister(c, r, x), q, y)))
             /\ Sound(u, Refill(SetAddressRegister(SetDataRegister(c, r, x), q, y)))
  BY Zenon, RegisterChanged, RefillsSound
<1> QED BY Zenon, <1>1, <1>2 DEF Exchange

LEMMA ConditionByteSound ==
  ASSUME NEW u, NEW c, Calm(u, c), NEW i, i.reg \in Registers8
  PROVE  Sound(u, SetOnCondition(c, i))
<1> DEFINE byte == IF Holds(i.cond, c.sr) THEN 255 ELSE 0
<1>1. byte \in ByteValues
  BY SMT DEF ByteValues
<1> HIDE DEF byte
<1>2. SetLowByte(c.d[i.reg], byte) \in Longs
  <2>1. Width /\ c.d[i.reg] \in Longs
    BY Zenon, CalmContext, RegisterRead
  <2>2. 0 \in WordValues
    BY SMT DEF WordValues
  <2> QED BY Zenon, <1>1, <2>1, <2>2, LowByteSet
<1>3. Sound(u, Refill(SetDataRegister(c, i.reg, SetLowByte(c.d[i.reg], byte))))
  BY Zenon, <1>2, RegisterChanged, RefillsSound
<1> QED BY Zenon, <1>3 DEF SetOnCondition, byte

LEMMA BitSound ==
  ASSUME NEW u, NEW c, Calm(u, c), NEW i, i.reg \in Registers8,
         i.kind \in {"BTST", "BCHG", "BCLR", "BSET"}, ~ i.immediate => i.dreg \in Registers8
  PROVE  Sound(u, BitOperation(c, i))
<1>1. ASSUME NEW b, Calm(u, b), NEW n \in 0 .. 31 PROVE Sound(u, BitOf(b, i, n))
  <2> DEFINE x == BitChanged(i.kind, b.d[i.reg], n)
  <2>1. b.d[i.reg] \in Longs /\ Longs = LongValues
    BY Zenon, <1>1, CalmContext, RegisterRead, LongRange
  <2>2. x \in Longs
    BY Zenon, <2>1, LongFlips, BitChangeFits
  <2> HIDE DEF x
  <2>3. \A f : Calm(u, SetFlags(SetDataRegister(b, i.reg, x), f))
    BY Zenon, <1>1, <2>2, RegisterChanged, FlagsChanged
  <2>4. \A f : Calm(u, Commit(b, SetFlags(SetDataRegister(b, i.reg, x), f)))
    BY Zenon, <1>1, <2>3, CommitSound, CalmIsSound
  <2> QED BY Zenon, <2>4, RefillsSound DEF BitOf, x
<1>2. Calm(u, ConsumeExtension(c)) /\ Extension(c) % 32 \in 0 .. 31
  BY Zenon, CalmContext, ConsumeSound, ExtensionRead
<1>3. ~ i.immediate => c.d[i.dreg] % 32 \in 0 .. 31
  BY Zenon, CalmContext, RegisterRead, Halves
<1> QED BY Zenon, <1>1, <1>2, <1>3 DEF BitOperation

-----------------------------------------------------------------------------
(* The instructions on bytes. *)

LEMMA WriteByteSound ==
  ASSUME NEW u, NEW c, Sound(u, c), NEW a \in Longs, NEW x \in ByteValues
  PROVE  /\ Sound(u, WriteByte(c, a, x))
         /\ Calm(u, c) => Calm(u, WriteByte(c, a, x))
<1> DEFINE b == EvenAddress(a)
           w == WordAt(c, b)
           v == IF a % 2 = 0 THEN (256 * x) + (w % 256) ELSE SetLowByte(w, x)
<1>1. b \in Int
  BY SMT, CpuAssumption DEF EvenAddress, Longs
<1> HIDE DEF b
<1>2. w \in WordValues /\ Width
  BY Zenon, <1>1, SoundIsTyped, WordRead, TypedContext
<1>3. WriteByte(c, a, x) = Write(c, DataFC(c), b, v)
  BY DEF WriteByte, b
<1> HIDE DEF w
<1>4. v \in WordValues
  <2>1. (256 * x) + (w % 256) \in WordValues /\ SetLowByte(w, x) \in WordValues
    BY SMT, <1>2 DEF SetLowByte, WordValues, ByteValues
  <2> DEFINE p == (256 * x) + (w % 256)
  <2> HIDE DEF p
  <2>2. v = IF a % 2 = 0 THEN p ELSE SetLowByte(w, x)
    BY DEF p
  <2>3. p \in WordValues
    BY <2>1 DEF p
  <2> HIDE DEF v
  <2>4. CASE a % 2 = 0
    <3>1. v = p
      BY SMT, <2>2, <2>4
    <3> QED BY <2>3, <3>1
  <2>5. CASE ~ (a % 2 = 0)
    <3>1. v = SetLowByte(w, x)
      BY SMT, <2>2, <2>5
    <3> QED BY <2>1, <3>1
  <2> QED BY <2>4, <2>5
<1> HIDE DEF v
<1> QED BY Zenon, <1>3, <1>4, WriteSound

LEMMA ByteResultCalm ==
  ASSUME NEW u, NEW c, Calm(u, c), NEW r \in Registers8, NEW x \in ByteValues
  PROVE  \A f : Calm(u, ByteResult(c, r, x, f))
<1>1. c.d[r] \in Longs /\ Width
  BY Zenon, CalmContext, RegisterRead
<1>2. SetLowByte(c.d[r], x) \in Longs
  <2>1. 0 \in WordValues
    BY SMT DEF WordValues
  <2> QED BY Zenon, <1>1, <2>1, LowByteSet
<1>3. Calm(u, SetDataRegister(c, r, SetLowByte(c.d[r], x)))
  BY Zenon, <1>2, RegisterChanged
<1> QED BY Zenon, <1>3, FlagsChanged DEF ByteResult

LEMMA FlagsSetSound ==
  ASSUME NEW u, NEW c, Sound(u, c), NEW f
  PROVE  /\ Sound(u, FlagsSet(c, f)) /\ Sound(u, Refill(FlagsSet(c, f)))
         /\ Calm(u, c) => Calm(u, FlagsSet(c, f)) /\ Calm(u, Refill(FlagsSet(c, f)))
  BY Zenon, FlaggedSound DEF FlagsSet

(* As Fitting, on bytes. *)
ByteFitting(i, s) == s \in ByteValues /\ (s <= 63 \/ i.kind \in TwoOperandKinds)

LEMMA ByteOperatedFits ==
  ASSUME Width, NEW i, NEW d \in ByteValues, NEW s, ByteFitting(i, s), NEW f
  PROVE  Operate(i.kind, d, s, 256, f).value \in ByteValues
<1> DEFINE size == 256
           kind == i.kind
<1>1. /\ size \in Sizes /\ d \in Nat /\ d < size /\ s \in Nat /\ s < size
      /\ s <= 63 \/ kind \in TwoOperandKinds
  <2>1. s \in ByteValues /\ (s <= 63 \/ i.kind \in TwoOperandKinds)
    BY Zenon DEF ByteFitting
  <2>2. size \in Sizes /\ d \in Nat /\ d < size /\ s \in Nat /\ s < size
    BY SMT, <2>1 DEF Sizes, ByteValues
  <2> QED BY <2>1, <2>2
<1> HIDE DEF size, kind
<1>2. Operate(kind, d, s, size, f).value \in Nat /\ Operate(kind, d, s, size, f).value < size
  BY Zenon, <1>1, OperateFits DEF TwoOperandKinds
<1>3. Operate(kind, d, s, size, f).value \in ByteValues
  <2> DEFINE v == Operate(kind, d, s, size, f).value
  <2>1. v \in Nat /\ v < size
    BY <1>2
  <2> HIDE DEF v
  <2>2. v \in ByteValues
    BY SMT, <2>1 DEF size, ByteValues
  <2> QED BY <2>2 DEF v
<1> QED BY <1>3 DEF size, kind

LEMMA InByteRegisterSound ==
  ASSUME NEW u, NEW c, Sound(u, c), NEW i, NEW r \in Registers8, NEW s, ByteFitting(i, s)
  PROVE  /\ Sound(u, InByteRegister(c, i, r, s))
         /\ Calm(u, c) => Calm(u, InByteRegister(c, i, r, s))
<1> DEFINE o == Operate(i.kind, c.d[r] % 256, s, 256, Flags(c.sr))
           n == Commit(c, ByteResult(c, r, o.value, o.flags))
<1>1. c.d[r] % 256 \in ByteValues /\ Width
  BY Zenon, SoundIsTyped, TypedContext, RegisterRead, Halves
<1>2. o.value \in ByteValues
  BY <1>1, ByteOperatedFits
<1>3. InByteRegister(c, i, r, s) = Refill(n)
  BY DEF InByteRegister
<1> HIDE DEF o
<1>4. Running(c) => Calm(u, ByteResult(c, r, o.value, o.flags))
  BY Zenon, <1>2, SoundIsTyped, ByteResultCalm
<1>5. Sound(u, n) /\ (Calm(u, c) => Calm(u, n))
  BY Zenon, <1>4, CalmIsSound, CommitSound
<1> HIDE DEF n
<1> QED BY Zenon, <1>3, <1>5, ConsumeSound

LEMMA StepsAreIntegers ==
  ASSUME NEW reg
  PROVE  ByteAddressDelta(reg) \in Int /\ -ByteAddressDelta(reg) \in Int
  BY SMT DEF ByteAddressDelta

LEMMA ByteMovedSound ==
  ASSUME NEW u, NEW c, Sound(u, c), NEW mode, NEW reg \in Registers8
  PROVE  /\ Sound(u, ByteLocated(c, mode, reg)) /\ Sound(u, ByteIncremented(c, mode, reg))
         /\ Calm(u, c) => Calm(u, ByteLocated(c, mode, reg)) /\ Calm(u, ByteIncremented(c, mode, reg))
         /\ \A fc : Sound(u, ReadLocated(c, fc, mode, reg))
         /\ Calm(u, c) => \A fc : Calm(u, ReadLocated(c, fc, mode, reg))
<1>1. /\ Sound(u, ByteLocated(c, mode, reg))
      /\ Calm(u, c) => Calm(u, ByteLocated(c, mode, reg))
  BY Zenon, MovedSound, ExtensionsSound, StepsAreIntegers DEF ByteLocated
<1>2. /\ Sound(u, ByteIncremented(c, mode, reg))
      /\ Calm(u, c) => Calm(u, ByteIncremented(c, mode, reg))
  BY Zenon, MovedSound, StepsAreIntegers DEF ByteIncremented
<1>3. \A fc : /\ Sound(u, ReadLocated(c, fc, mode, reg))
              /\ Calm(u, c) => Calm(u, ReadLocated(c, fc, mode, reg))
  BY Zenon, <1>1, ReadSound DEF ReadLocated
<1> QED BY Zenon, <1>1, <1>2, <1>3

LEMMA ReadByteCalm ==
  ASSUME NEW u, NEW c, Calm(u, c), NEW mode, NEW reg \in Registers8
  PROVE  Calm(u, ReadByte(c, mode, reg))
<1>1. \A fc : Calm(u, ByteIncremented(ReadLocated(c, fc, mode, reg), mode, reg))
  BY Zenon, CalmIsSound, ByteMovedSound
<1>2. Calm(u, Fail(c)) /\ Calm(u, ConsumeExtension(c))
  BY Zenon, FailCalm, CalmIsSound, ConsumeSound
<1> QED BY Zenon, <1>1, <1>2 DEF ReadByte

LEMMA ReplacedCalm ==
  ASSUME NEW u, NEW c, Calm(u, c), NEW i, i.mode \in Registers8, i.reg \in Registers8
  PROVE  /\ \A value \in ByteValues : \A f : Calm(u, Replaced(c, i, value, f))
         /\ \A s : ByteFitting(i, s) => Calm(u, ModifyByte(c, i, s))
<1>0. ByteAddress(c, i.mode, i.reg) \in Longs /\ ByteValue(c, i.mode, i.reg) \in ByteValues /\ Width
  BY Zenon, CalmContext, ByteFound
<1>1. ASSUME NEW value \in ByteValues, NEW f PROVE Calm(u, Replaced(c, i, value, f))
  <2>1. Calm(u, Refill(FlagsSet(ReadLocated(c, DataFC(c), i.mode, i.reg), f)))
    BY Zenon, CalmIsSound, ByteMovedSound, FlagsSetSound
  <2>2. \A b, a : Calm(u, b) /\ a \in Longs
                    => Calm(u, ByteIncremented(WriteByte(b, a, value), i.mode, i.reg))
    BY Zenon, CalmIsSound, WriteByteSound, ByteMovedSound
  <2> QED BY Zenon, <1>0, <2>1, <2>2, FailCalm DEF Replaced
<1>2. ASSUME NEW s, ByteFitting(i, s) PROVE Calm(u, ModifyByte(c, i, s))
  <2> DEFINE o == Operate(i.kind, ByteValue(c, i.mode, i.reg), s, 256, Flags(c.sr))
  <2>1. o.value \in ByteValues
    BY <1>0, <1>2, ByteOperatedFits
  <2>2. ModifyByte(c, i, s) = Replaced(c, i, o.value, o.flags)
    BY DEF ModifyByte
  <2> HIDE DEF o
  <2>3. Calm(u, Replaced(c, i, o.value, o.flags))
    BY Zenon, <1>1, <2>1
  <2> QED BY <2>2, <2>3
<1> QED BY Zenon, <1>1, <1>2

LEMMA SmallBytes ==
  ASSUME NEW s \in Nat, s <= 63
  PROVE  s \in ByteValues /\ \A i : ByteFitting(i, s)
<1>1. s \in ByteValues
  BY SMT DEF ByteValues
<1> QED BY Zenon, <1>1 DEF ByteFitting

LEMMA ByteOperationsCalm ==
  ASSUME NEW u, NEW c, Calm(u, c), NEW i, i.mode \in Registers8, i.reg \in Registers8,
         i.dreg \in Registers8, i.kind \in TwoOperandKinds
  PROVE  Calm(u, ByteToRegister(c, i)) /\ Calm(u, ByteFromRegister(c, i))
<1>1. ByteFitting(i, ByteValue(c, i.mode, i.reg))
  BY Zenon, CalmContext, ByteFound DEF ByteFitting
<1>2. Calm(u, ByteToRegister(c, i))
  BY Zenon, <1>1, ReadByteCalm, CalmContext, InByteRegisterSound DEF ByteToRegister
<1> DEFINE s == c.d[i.dreg] % 256
<1>3. ByteFitting(i, s)
  BY Zenon, CalmContext, RegisterRead, Halves DEF ByteFitting
<1>4. ByteFromRegister(c, i)
        = IF i.kind = "EOR" /\ i.mode = 0 THEN InByteRegister(c, i, i.reg, s) ELSE ModifyByte(c, i, s)
  BY DEF ByteFromRegister
<1> HIDE DEF s
<1>5. Calm(u, ByteFromRegister(c, i))
  BY Zenon, <1>3, <1>4, CalmContext, InByteRegisterSound, ReplacedCalm
<1> QED BY <1>2, <1>5

LEMMA ByteQuickCalm ==
  ASSUME NEW u, NEW c, Calm(u, c), NEW i, i.mode \in Registers8, i.reg \in Registers8, i.byte \in 1 .. 8
  PROVE  Calm(u, ByteQuick(c, i))
<1>1. i.byte \in Nat /\ i.byte <= 63
  BY SMT
<1>2. ByteFitting(i, i.byte)
  BY Zenon, <1>1, SmallBytes
<1> QED BY Zenon, <1>2, CalmContext, InByteRegisterSound, ReplacedCalm DEF ByteQuick

LEMMA ByteShiftCalm ==
  ASSUME NEW u, NEW c, Calm(u, c), NEW i, i.reg \in Registers8,
         IF i.counted THEN i.dreg \in Registers8 ELSE i.byte \in 1 .. 8
  PROVE  Calm(u, ByteShift(c, i))
<1> DEFINE s == IF i.counted THEN c.d[i.dreg] % 64 ELSE i.byte
<1>1. s \in Nat /\ s <= 63
  <2>1. CASE i.counted
    <3>1. c.d[i.dreg] % 64 \in 0 .. 63
      BY Zenon, <2>1, CalmContext, RegisterRead, Halves
    <3> QED BY SMT, <2>1, <3>1
  <2>2. CASE ~ i.counted
    BY SMT, <2>2
  <2> QED BY <2>1, <2>2
<1>2. ByteFitting(i, s)
  <2> HIDE DEF s
  <2> QED BY Zenon, <1>1, SmallBytes
<1> QED BY Zenon, <1>2, CalmContext, InByteRegisterSound DEF ByteShift

LEMMA ByteExtendedCalm ==
  ASSUME NEW u, NEW c, Calm(u, c), NEW i, i.reg \in Registers8, i.dreg \in Registers8,
         i.kind \in TwoOperandKinds
  PROVE  Calm(u, ByteExtended(c, i))
<1> DEFINE s == c.d[i.reg] % 256
<1>1. ByteFitting(i, s)
  BY Zenon, CalmContext, RegisterRead, Halves DEF ByteFitting
<1>2. ByteExtended(c, i) = IF i.mode = 1 THEN Fail(c) ELSE InByteRegister(c, i, i.dreg, s)
  BY DEF ByteExtended
<1> HIDE DEF s
<1> QED BY Zenon, <1>1, <1>2, CalmContext, InByteRegisterSound, FailCalm

LEMMA CompareByteCalm ==
  ASSUME NEW u, NEW c, Calm(u, c), NEW mode, NEW reg \in Registers8, NEW s
  PROVE  Calm(u, CompareByte(c, mode, reg, s))
<1>1. \A f : Calm(u, Refill(FlagsSet(ReadByte(c, mode, reg), f)))
  BY Zenon, ReadByteCalm, CalmIsSound, FlagsSetSound
<1> QED BY Zenon, <1>1 DEF CompareByte

LEMMA CompareBytesCalm ==
  ASSUME NEW u, NEW c, Calm(u, c), NEW i, i.reg \in Registers8, i.dreg \in Registers8
  PROVE  Calm(u, CompareBytesInMemory(c, i))
  BY Zenon, ReadByteCalm, CompareByteCalm DEF CompareBytesInMemory

LEMMA ByteImmediateCalm ==
  ASSUME NEW u, NEW c, Calm(u, c), NEW i, i.mode \in Registers8, i.reg \in Registers8,
         i.kind \in TwoOperandKinds
  PROVE  Calm(u, ByteImmediate(c, i))
<1> DEFINE s == Extension(c) % 256
           b == ConsumeExtension(c)
<1>1. ByteFitting(i, s)
  BY Zenon, CalmContext, ExtensionRead DEF ByteFitting
<1>2. Calm(u, b) /\ Calm(u, Fail(c))
  BY Zenon, CalmContext, ConsumeSound, FailCalm
<1>3. ByteImmediate(c, i) = IF i.kind \in {"ADD", "SUB", "CMP"} /\ i.mode # 0 /\ ~ Alterable(i) THEN Fail(c)
                            ELSE ByteImmediateTo(b, i, s)
  BY DEF ByteImmediate
<1> HIDE DEF s, b
<1>4. Calm(u, ByteImmediateTo(b, i, s))
  BY Zenon, <1>1, <1>2, CalmContext, CompareByteCalm, InByteRegisterSound, ReplacedCalm DEF ByteImmediateTo
<1> QED BY Zenon, <1>2, <1>3, <1>4

LEMMA ByteTestSound ==
  ASSUME NEW u, NEW c, Calm(u, c), NEW i, i.mode \in Registers8, i.reg \in Registers8
  PROVE  Sound(u, TestByte(c, i)) /\ Calm(u, SetByteOnCondition(c, i))
<1>1. \A f : Sound(u, Refill(FlagsSet(ReadByte(c, i.mode, i.reg), f)))
  BY Zenon, ReadByteCalm, CalmIsSound, FlagsSetSound
<1>2. Sound(u, TestByte(c, i))
  <2> DEFINE address == ByteAddress(c, i.mode, i.reg)
             f == LogicalFlags(ByteValue(c, i.mode, i.reg), 256, Flags(c.sr))
  <2>1. address \in Longs /\ Add(c.pc, -2) \in Longs
    BY Zenon, CalmContext, ByteFound, Added
  <2> HIDE DEF f
  <2>2. Sound(u, AccessError(c, c.prefetch[1], address, Add(c.pc, -2), DataFC(c), TRUE, BusErrorVector))
    BY Zenon, <2>1, CalmContext, AccessErrorSound, FaultVectors, SpaceOf
  <2>3. Sound(u, Refill(FlagsSet(ReadByte(c, i.mode, i.reg), f))) /\ Sound(u, Fail(c))
    BY Zenon, <1>1, FailCalm, CalmIsSound
  <2> QED BY Zenon, <2>2, <2>3 DEF TestByte, f
<1>3. Calm(u, SetByteOnCondition(c, i))
  <2> DEFINE value == IF Holds(i.cond, c.sr) THEN 255 ELSE 0
  <2>1. value \in ByteValues
    BY SMT DEF ByteValues
  <2>2. SetByteOnCondition(c, i) = Replaced(c, i, value, Flags(c.sr))
    BY DEF SetByteOnCondition
  <2> HIDE DEF value
  <2>3. Calm(u, Replaced(c, i, value, Flags(c.sr)))
    BY Zenon, <2>1, ReplacedCalm
  <2> QED BY <2>2, <2>3
<1> QED BY <1>2, <1>3

LEMMA TestAndSetCalm ==
  ASSUME NEW u, NEW c, Calm(u, c), NEW i, i.mode \in Registers8, i.reg \in Registers8
  PROVE  Calm(u, TestAndSet(c, i))
<1> DEFINE x == ByteValue(c, i.mode, i.reg)
           set == IF x < 128 THEN x + 128 ELSE x
           f == LogicalFlags(x, 256, Flags(c.sr))
           read == FlagsSet(ReadByte(c, i.mode, i.reg), f)
           address == ByteAddress(c, i.mode, i.reg)
<1>1. x \in ByteValues /\ address \in Longs
  BY Zenon, CalmContext, ByteFound
<1>2. TestAndSet(c, i) = CASE i.mode = 0 -> Refill(ByteResult(c, i.reg, set, f))
                           [] i.mode # 0 /\ ~ Alterable(i) -> Fail(c)
                           [] OTHER -> Refill(WriteByte(read, address, set))
  BY DEF TestAndSet
<1> HIDE DEF f, address, x
<1>3. set \in ByteValues
  BY SMT, <1>1 DEF ByteValues
<1> HIDE DEF set
<1>4. Calm(u, read)
  BY Zenon, ReadByteCalm, CalmIsSound, FlagsSetSound
<1> HIDE DEF read
<1>5. Calm(u, Refill(WriteByte(read, address, set))) /\ Calm(u, Fail(c))
  BY Zenon, <1>1, <1>3, <1>4, CalmIsSound, WriteByteSound, RefillsSound, FailCalm
<1>6. Calm(u, Refill(ByteResult(c, i.reg, set, f)))
  BY Zenon, <1>3, ByteResultCalm, RefillsSound
<1> QED BY Zenon, <1>2, <1>5, <1>6

LEMMA ByteBitCalm ==
  ASSUME NEW u, NEW c, Calm(u, c), NEW i, i.mode \in Registers8, i.reg \in Registers8,
         i.kind \in {"BTST", "BCHG", "BCLR", "BSET"}, ~ i.immediate => i.dreg \in Registers8
  PROVE  Calm(u, ByteBitOperation(c, i))
<1>1. ASSUME NEW b, Calm(u, b), NEW n \in 0 .. 7 PROVE Calm(u, BitInByte(b, i, n))
  <2> DEFINE x == ByteValue(b, i.mode, i.reg)
             v == BitChanged(i.kind, x, n)
             f == [Flags(b.sr) EXCEPT !.z = ~ BitSet(x, n)]
             tested == Refill(FlagsSet(ReadByte(b, i.mode, i.reg), f))
  <2>1. x \in ByteValues /\ ByteAddress(b, i.mode, i.reg) \in Longs
    BY Zenon, <1>1, CalmContext, ByteFound
  <2>2. BitInByte(b, i, n) = IF i.kind = "BTST" THEN tested
                             ELSE WriteByte(tested, ByteAddress(b, i.mode, i.reg), v)
    BY DEF BitInByte
  <2> HIDE DEF x, f
  <2>3. v \in ByteValues
    BY Zenon, <2>1, ByteFlips, BitChangeFits
  <2>4. Calm(u, tested)
    BY Zenon, <1>1, ReadByteCalm, CalmIsSound, FlagsSetSound
  <2> HIDE DEF v, tested
  <2> QED BY Zenon, <2>1, <2>2, <2>3, <2>4, CalmIsSound, WriteByteSound
<1>2. Calm(u, ConsumeExtension(c)) /\ Calm(u, Fail(c)) /\ Extension(c) % 8 \in 0 .. 7
  BY Zenon, CalmContext, ConsumeSound, FailCalm, ExtensionRead
<1>3. ~ i.immediate => c.d[i.dreg] % 8 \in 0 .. 7
  BY Zenon, CalmContext, RegisterRead, Halves
<1> QED BY Zenon, <1>1, <1>2, <1>3 DEF ByteBitOperation

LEMMA MoveByteCalm ==
  ASSUME NEW u, NEW c, Calm(u, c), NEW i, i.mode \in Registers8, i.reg \in Registers8,
         i.dmode \in Registers8, i.dreg \in Registers8
  PROVE  Calm(u, MoveByte(c, i))
<1>1. ASSUME NEW b, Calm(u, b), NEW x \in ByteValues PROVE Calm(u, WriteByteDestination(b, i, x))
  <2> DEFINE address == ByteAddress(b, i.dmode, i.dreg)
  <2>1. address \in Longs /\ Add(b.pc, 2) \in Longs
    BY Zenon, <1>1, CalmContext, ByteFound, Added
  <2> HIDE DEF address
  <2>2. Calm(u, Refill(SetDataRegister(b, i.dreg, SetLowByte(b.d[i.dreg], x))))
    <3>1. 0 \in WordValues
      BY SMT DEF WordValues
    <3>2. SetLowByte(b.d[i.dreg], x) \in Longs
      BY Zenon, <1>1, <3>1, CalmContext, RegisterRead, LowByteSet
    <3> QED BY Zenon, <1>1, <3>2, RegisterChanged, RefillsSound
  <2>3. Calm(u, WriteByte(ByteLocated(Refill(b), 4, i.dreg), address, x))
    BY Zenon, <1>1, <2>1, RefillsSound, CalmIsSound, ByteMovedSound, WriteByteSound
  <2>4. Calm(u, RefillBranch(WriteByte(Reads(b, ProgramFC(b), {b.pc}), address, x), Add(b.pc, 2)))
    BY Zenon, <1>1, <2>1, CalmIsSound, ReadSound, WriteByteSound, FillSound
  <2>5. Calm(u, Refill(ByteIncremented(WriteByte(AfterExtensions(b, i.dmode, i.dreg), address, x),
                                       i.dmode, i.dreg)))
    BY Zenon, <1>1, <2>1, CalmIsSound, ExtensionsSound, WriteByteSound, ByteMovedSound, RefillsSound
  <2> QED BY Zenon, <2>2, <2>3, <2>4, <2>5 DEF WriteByteDestination, address
<1>2. ASSUME NEW s, Calm(u, s), NEW x \in ByteValues PROVE Calm(u, MoveByteTo(s, i, x))
  <2> DEFINE g == LogicalFlags(x, 256, Flags(s.sr))
  <2>1. MoveByteTo(s, i, x) = IF Running(s) THEN FlagsSet(WriteByteDestination(s, i, x), g) ELSE s
    BY DEF MoveByteTo
  <2> HIDE DEF g
  <2>2. Calm(u, FlagsSet(WriteByteDestination(s, i, x), g))
    BY Zenon, <1>1, <1>2, CalmIsSound, FlagsSetSound
  <2> QED BY Zenon, <1>2, <2>1, <2>2
<1>3. ByteValue(c, i.mode, i.reg) \in ByteValues /\ Calm(u, ReadByte(c, i.mode, i.reg)) /\ Calm(u, Fail(c))
  BY Zenon, CalmContext, ByteFound, ReadByteCalm, FailCalm
<1> QED BY Zenon, <1>2, <1>3 DEF MoveByte

-----------------------------------------------------------------------------
(* What the decoder says of an instruction on bytes, and of the others.    *)

LEMMA FormsOfBytes ==
  ASSUME NEW i, Encoded(i), i.op = "byte"
  PROVE  /\ i.form \in ByteForms
         /\ EncodedKind(i.form, i) /\ EncodedByte(i.form, i) /\ EncodedOperands(i.form, i)
  BY Zenon DEF Encoded, Form

LEMMA FormsOfOthers ==
  ASSUME NEW i, Encoded(i), i.op # "byte"
  PROVE  EncodedKind(i.op, i) /\ EncodedByte(i.op, i) /\ EncodedOperands(i.op, i)
  BY Zenon DEF Encoded, Form

LEMMA OperandsOfBytes ==
  ASSUME NEW i, Encoded(i), i.op = "byte"
  PROVE  /\ i.form \in ByteForms \ {"shift", "extended", "CMPM"} => i.mode \in Registers8
         /\ i.reg \in Registers8
         /\ i.form \in {"move", "to register", "from register", "extended", "CMPM"} => i.dreg \in Registers8
         /\ i.form = "move" => i.dmode \in Registers8
<1>1. i.form \in ByteForms /\ EncodedOperands(i.form, i)
  BY Zenon, FormsOfBytes
<1> QED BY Zenon, <1>1 DEF EncodedOperands, OfRegister, OfOperand, OfTwoRegisters, ByteForms

LEMMA KindsOf ==
  ASSUME NEW form, NEW i, EncodedKind(form, i)
  PROVE  /\ form \in {"to register", "from register", "immediate", "extended"} => i.kind \in TwoOperandKinds
         /\ form = "bit" => /\ i.kind \in {"BTST", "BCHG", "BCLR", "BSET"}
                            /\ ~ i.immediate => i.dreg \in Registers8
         /\ form = "logical to status" => i.kind \in {"AND", "OR", "EOR"}
  BY Zenon DEF EncodedKind, TwoOperandKinds

LEMMA ByteSound ==
  ASSUME NEW u, NEW c, Calm(u, c), NEW i, Encoded(i), i.op = "byte"
  PROVE  Sound(u, OnByte(c, i))
<1>1. /\ i.form \in ByteForms /\ EncodedKind(i.form, i) /\ EncodedByte(i.form, i)
      /\ i.reg \in Registers8
      /\ i.form \in ByteForms \ {"shift", "extended", "CMPM"} => i.mode \in Registers8
      /\ i.form \in {"move", "to register", "from register", "extended", "CMPM"} => i.dreg \in Registers8
      /\ i.form = "move" => i.dmode \in Registers8
  BY Zenon, FormsOfBytes, OperandsOfBytes
<1>2. /\ i.form = "quick" => i.byte \in 1 .. 8
      /\ i.form = "shift" => IF i.counted THEN i.dreg \in Registers8 ELSE i.byte \in 1 .. 8
  BY Zenon, <1>1 DEF EncodedByte
<1>3. /\ i.form \in {"to register", "from register", "immediate", "extended"} => i.kind \in TwoOperandKinds
      /\ i.form = "bit" => /\ i.kind \in {"BTST", "BCHG", "BCLR", "BSET"}
                           /\ ~ i.immediate => i.dreg \in Registers8
  BY Zenon, <1>1, KindsOf
<1>4. i.form \in {"shift", "extended", "CMPM"} \/ i.mode \in Registers8
  BY Zenon, <1>1
<1>5. CASE i.form = "move"
  <2>1. Calm(u, MoveByte(c, i))
    BY SMT, <1>1, <1>5, MoveByteCalm DEF ByteForms
  <2> QED BY Zenon, <1>5, <2>1, CalmIsSound DEF OnByte
<1>6. CASE i.form \in {"to register", "from register"}
  <2>1. i.mode \in Registers8 /\ i.dreg \in Registers8 /\ i.kind \in TwoOperandKinds
    BY Zenon, <1>1, <1>3, <1>4, <1>6
  <2>2. Calm(u, ByteToRegister(c, i)) /\ Calm(u, ByteFromRegister(c, i))
    BY Zenon, <1>1, <2>1, ByteOperationsCalm
  <2> QED BY Zenon, <1>6, <2>2, CalmIsSound DEF OnByte
<1>7. CASE i.form = "immediate"
  <2>1. Calm(u, ByteImmediate(c, i))
    BY Zenon, <1>1, <1>3, <1>4, <1>7, ByteImmediateCalm
  <2> QED BY Zenon, <1>7, <2>1, CalmIsSound DEF OnByte
<1>8. CASE i.form = "quick"
  <2>1. Calm(u, ByteQuick(c, i))
    BY Zenon, <1>1, <1>2, <1>4, <1>8, ByteQuickCalm
  <2> QED BY Zenon, <1>8, <2>1, CalmIsSound DEF OnByte
<1>9. CASE i.form = "shift"
  <2>1. Calm(u, ByteShift(c, i))
    BY Zenon, <1>1, <1>2, <1>9, ByteShiftCalm
  <2> QED BY Zenon, <1>9, <2>1, CalmIsSound DEF OnByte
<1>10. CASE i.form = "extended"
  <2>1. Calm(u, ByteExtended(c, i))
    BY Zenon, <1>1, <1>3, <1>10, ByteExtendedCalm
  <2> QED BY Zenon, <1>10, <2>1, CalmIsSound DEF OnByte
<1>11. CASE i.form = "CMPM"
  <2>1. Calm(u, CompareBytesInMemory(c, i))
    BY Zenon, <1>1, <1>11, CompareBytesCalm
  <2> QED BY Zenon, <1>11, <2>1, CalmIsSound DEF OnByte
<1>12. CASE i.form \in {"TST", "Scc"}
  <2>1. Sound(u, TestByte(c, i)) /\ Calm(u, SetByteOnCondition(c, i))
    BY Zenon, <1>1, <1>4, <1>12, ByteTestSound
  <2> QED BY Zenon, <1>12, <2>1, CalmIsSound DEF OnByte
<1>13. CASE i.form = "TAS"
  <2>1. Calm(u, TestAndSet(c, i))
    BY Zenon, <1>1, <1>4, <1>13, TestAndSetCalm
  <2> QED BY Zenon, <1>13, <2>1, CalmIsSound DEF OnByte
<1>14. CASE i.form = "bit"
  <2>1. Calm(u, ByteBitOperation(c, i))
    BY Zenon, <1>1, <1>3, <1>4, <1>14, ByteBitCalm
  <2> QED BY Zenon, <1>14, <2>1, CalmIsSound DEF OnByte
<1>15. \/ i.form = "move" \/ i.form \in {"to register", "from register"} \/ i.form = "immediate"
       \/ i.form = "quick" \/ i.form = "shift" \/ i.form = "extended" \/ i.form = "CMPM"
       \/ i.form \in {"TST", "Scc"} \/ i.form = "TAS" \/ i.form = "bit"
  BY Zenon, <1>1 DEF ByteForms
<1> QED BY <1>5, <1>6, <1>7, <1>8, <1>9, <1>10, <1>11, <1>12, <1>13, <1>14, <1>15

-----------------------------------------------------------------------------
(* Registers and jumps. *)

LEMMA ExtendedToLongs ==
  ASSUME NEW n \in Int
  PROVE  Add(0, SignedByte(n)) \in Longs /\ Add(0, SignedWord(n)) \in Longs
<1>1. 0 \in Int
  BY SMT
<1> QED BY Zenon, <1>1, SignsAreIntegers, Adds

LEMMA RegisterSound ==
  ASSUME NEW u, NEW c, Calm(u, c), NEW i, i.reg \in Registers8
  PROVE  /\ i.byte \in 0 .. 255 => Sound(u, Moveq(c, i))
         /\ Sound(u, Swap(c, i)) /\ Sound(u, ExtWord(c, i)) /\ Sound(u, ExtLong(c, i))
<1> DEFINE v == c.d[i.reg]
<1>0. v \in Longs /\ Width
  BY Zenon, CalmContext, RegisterRead
<1>1. ASSUME NEW x \in Longs
      PROVE  /\ \A y : Sound(u, Refill(SetLogicalFlagsLong(SetDataRegister(c, i.reg, x), y)))
             /\ \A y : Sound(u, Refill(SetLogicalFlagsWord(SetDataRegister(c, i.reg, x), y)))
  BY Zenon, <1>1, RegisterChanged, LogicalFlagsChanged, RefillsSound
<1>2. ASSUME i.byte \in 0 .. 255 PROVE Sound(u, Moveq(c, i))
  <2> DEFINE x == Add(0, SignedByte(i.byte))
  <2>1. i.byte \in Int
    BY SMT, <1>2
  <2>2. x \in Longs
    BY Zenon, <2>1, ExtendedToLongs
  <2>3. Moveq(c, i) = Refill(SetLogicalFlagsLong(SetDataRegister(c, i.reg, x), x))
    BY DEF Moveq
  <2> HIDE DEF x
  <2>4. Sound(u, Refill(SetLogicalFlagsLong(SetDataRegister(c, i.reg, x), x)))
    BY Zenon, <1>1, <2>2
  <2> QED BY <2>3, <2>4
<1>3. Sound(u, Swap(c, i))
  <2> DEFINE x == Long(Low(v), High(v))
  <2>1. x \in Longs
    BY Zenon, <1>0, Halves, Joined
  <2>2. Swap(c, i) = Refill(SetLogicalFlagsLong(SetDataRegister(c, i.reg, x), x))
    BY DEF Swap
  <2> HIDE DEF x
  <2>3. Sound(u, Refill(SetLogicalFlagsLong(SetDataRegister(c, i.reg, x), x)))
    BY Zenon, <1>1, <2>1
  <2> QED BY <2>2, <2>3
<1>4. Sound(u, ExtWord(c, i))
  <2> DEFINE w == SignedByte(v % 256) % 65536
             x == SetLow(v, w)
  <2>1. w \in WordValues
    <3>1. v % 256 \in ByteValues
      BY Zenon, <1>0, Halves
    <3> DEFINE n == v % 256
    <3> HIDE DEF n
    <3>2. SignedByte(n) \in Int
      BY SMT, <3>1 DEF SignedByte, Signed, ByteValues, n
    <3>3. SignedByte(n) % 65536 \in WordValues
      BY SMT, <3>2 DEF WordValues
    <3> QED BY <3>3 DEF n
  <2>2. x \in Longs
    <3> HIDE DEF w, v
    <3> QED BY Zenon, <1>0, <2>1, LowSet
  <2>3. ExtWord(c, i) = Refill(SetLogicalFlagsWord(SetDataRegister(c, i.reg, x), w))
    BY DEF ExtWord
  <2> HIDE DEF w, x
  <2>4. Sound(u, Refill(SetLogicalFlagsWord(SetDataRegister(c, i.reg, x), w)))
    BY Zenon, <1>1, <2>2
  <2> QED BY <2>3, <2>4
<1>5. Sound(u, ExtLong(c, i))
  <2> DEFINE x == Add(0, SignedWord(Low(v)))
  <2>1. Low(v) \in Int
    BY Zenon, <1>0, Halves, LongsAreIntegers
  <2>2. x \in Longs
    BY Zenon, <2>1, ExtendedToLongs
  <2>3. ExtLong(c, i) = Refill(SetLogicalFlagsLong(SetDataRegister(c, i.reg, x), x))
    BY DEF ExtLong
  <2> HIDE DEF x
  <2>4. Sound(u, Refill(SetLogicalFlagsLong(SetDataRegister(c, i.reg, x), x)))
    BY Zenon, <1>1, <2>2
  <2> QED BY <2>3, <2>4
<1> QED BY <1>2, <1>3, <1>4, <1>5

LEMMA TargetFound ==
  ASSUME NEW u, NEW c, Sound(u, c), NEW i, i.mode \in Registers8, i.reg \in Registers8
  PROVE  ControlTarget(c, i) \in Longs
  BY Zenon, SoundIsTyped, AddressFound DEF ControlTarget

LEMMA LeaSound ==
  ASSUME NEW u, NEW c, Calm(u, c), NEW i, i.mode \in Registers8, i.reg \in Registers8
  PROVE  Sound(u, Lea(c, i))
<1>1. ASSUME NEW b, Calm(u, b) PROVE Calm(u, AddressLoaded(b, i))
  <2>1. ControlTarget(b, i) \in Longs
    BY Zenon, <1>1, CalmIsSound, TargetFound
  <2> QED BY Zenon, <1>1, <2>1, CalmIsSound, RegisterChanged, CommitSound DEF AddressLoaded
<1> QED BY Zenon, <1>1, DecodeCalm, SequentialCalm, CalmIsSound DEF Lea

LEMMA FetchCalm ==
  ASSUME NEW u, NEW c, Calm(u, c), NEW t
  PROVE  Calm(u, Fetch(c, t))
  BY Zenon, CalmIsSound, ConsumeSound

LEMMA PeaSound ==
  ASSUME NEW u, NEW c, Calm(u, c), NEW i, i.mode \in Registers8, i.reg \in Registers8
  PROVE  Sound(u, Pea(c, i))
<1>1. ASSUME NEW b, Calm(u, b), NEW start \in Longs, NEW x \in Longs
      PROVE  Sound(u, PushDecoded(b, i, start, x))
  <2>1. Sound(u, Shift(PushLong(Fetch(b, b.pc), x)))
    BY Zenon, <1>1, FetchCalm, PushCalm, ConsumeSound, CalmIsSound
  <2>2. Sound(u, Fill(Fetch(PushLong(Fetch(b, start), x), start + 2), start))
    BY Zenon, <1>1, FetchCalm, PushCalm, FillSound, CalmIsSound
  <2>3. Sound(u, Fill(PushLong(Fetch(Fetch(b, start), start + 2), x), start))
    BY Zenon, <1>1, FetchCalm, PushCalm, FillSound, CalmIsSound
  <2> QED BY Zenon, <2>1, <2>2, <2>3 DEF PushDecoded
<1>2. AfterOperand(c, i) \in Longs /\ ControlTarget(c, i) \in Longs
  BY Zenon, CalmIsSound, AddressesReached, TargetFound
<1> QED BY Zenon, <1>1, <1>2, DecodeCalm DEF Pea

LEMMA DisplacementIsInteger ==
  ASSUME NEW u, NEW c, Calm(u, c), NEW i, i.byte \in 0 .. 255
  PROVE  Displacement(c, i) \in Int /\ Add(c.pc - 2, Displacement(c, i)) \in Longs
         /\ Add(c.pc - 2, SignedWord(Extension(c))) \in Longs
<1>1. c.pc \in Int /\ Extension(c) \in Int
  BY Zenon, CalmContext, LongsAreIntegers, ExtensionRead
<1>2. c.pc - 2 \in Int /\ i.byte \in Int
  BY SMT, <1>1
<1>3. SignedWord(Extension(c)) \in Int /\ SignedByte(i.byte) \in Int
  BY Zenon, <1>1, <1>2, SignsAreIntegers
<1>4. Displacement(c, i) \in Int
  BY Zenon, <1>3 DEF Displacement
<1> QED BY Zenon, <1>2, <1>3, <1>4, Adds

LEMMA JumpSound ==
  ASSUME NEW u, NEW c, Calm(u, c), NEW i, i.mode \in Registers8, i.reg \in Registers8
  PROVE  Sound(u, Jmp(c, i)) /\ Sound(u, Jsr(c, i))
<1>1. ASSUME NEW b, Calm(u, b), NEW target \in Longs, NEW returnPC \in Longs
      PROVE  Sound(u, Call(b, target, returnPC))
  <2>1. Sound(u, Fill(Fetch(PushLong(Fetch(b, target), returnPC), target + 2), target))
    BY Zenon, <1>1, FetchCalm, PushCalm, FillSound, CalmIsSound
  <2> QED BY Zenon, <1>1, <2>1, AddressErrorSound, CalmIsSound DEF Call
<1>2. AfterOperand(c, i) \in Longs /\ ControlTarget(c, i) \in Longs /\ Add(c.pc, -2) \in Longs
  BY Zenon, CalmIsSound, AddressesReached, TargetFound
<1>3. Calm(u, DecodeControlEA(c, i)) /\ Sound(u, DecodeControlEA(c, i))
  BY Zenon, DecodeCalm, CalmIsSound
<1>4. Sound(u, Jmp(c, i))
  BY Zenon, <1>2, <1>3, BranchSound DEF Jmp
<1>5. Sound(u, Jsr(c, i))
  BY Zenon, <1>1, <1>2, <1>3 DEF Jsr
<1> QED BY <1>4, <1>5

LEMMA RelativeSound ==
  ASSUME NEW u, NEW c, Calm(u, c), NEW i, i.byte \in 0 .. 255
  PROVE  Sound(u, Bsr(c, i)) /\ Sound(u, Branch(c, i))
<1>1. /\ Add(c.pc - 2, Displacement(c, i)) \in Longs /\ c.pc \in Longs /\ Add(c.pc, -2) \in Longs
  BY Zenon, DisplacementIsInteger, CalmIsSound, AddressesReached
<1>2. ASSUME NEW target \in Longs, NEW returnPC \in Longs PROVE Sound(u, CallNear(c, target, returnPC))
  BY Zenon, PushCalm, CalmIsSound, BranchSound DEF CallNear
<1>3. (IF i.byte = 0 THEN c.pc ELSE Add(c.pc, -2)) \in Longs
  BY Zenon, <1>1
<1>4. Sound(u, Bsr(c, i))
  BY Zenon, <1>1, <1>2, <1>3 DEF Bsr
<1>5. Sound(u, BranchTo(c, Add(c.pc - 2, Displacement(c, i)), Add(c.pc, -2)))
  BY Zenon, <1>1, CalmIsSound, BranchSound
<1>6. Sound(u, ConsumeExtension(c)) /\ Sound(u, RefillBranch(c, c.pc))
  BY Zenon, <1>1, CalmIsSound, ConsumeSound, FillSound
<1>7. Sound(u, Branch(c, i))
  BY Zenon, <1>5, <1>6 DEF Branch
<1> QED BY <1>4, <1>7

LEMMA LoopSound ==
  ASSUME NEW u, NEW c, Calm(u, c), NEW i, i.reg \in Registers8
  PROVE  Sound(u, DBcc(c, i))
<1> DEFINE count == (Low(c.d[i.reg]) - 1) % 65536
           target == Add(c.pc - 2, SignedWord(Extension(c)))
<1>0. c.d[i.reg] \in Longs /\ Width /\ c.pc \in Longs /\ Extension(c) \in Int
  BY Zenon, CalmContext, RegisterRead, ExtensionRead
<1>1. count \in WordValues
  <2>1. Low(c.d[i.reg]) \in Int
    BY Zenon, <1>0, Halves, LongsAreIntegers
  <2> QED BY SMT, <2>1 DEF WordValues
<1>2. target \in Longs
  <2>1. c.pc - 2 \in Int
    BY Zenon, <1>0, LongsAreIntegers, SignsAreIntegers
  <2> QED BY Zenon, <1>0, <2>1, SignsAreIntegers, Adds
<1>3. DBcc(c, i) = CountDown(c, i, count, target)
  BY DEF DBcc
<1> HIDE DEF count, target
<1>4. Calm(u, Counted(c, i, count))
  <2>1. SetLow(c.d[i.reg], count) \in Longs
    BY Zenon, <1>0, <1>1, LowSet
  <2> QED BY Zenon, <2>1, RegisterChanged DEF Counted
<1>5. Sound(u, RefillBranch(c, c.pc)) /\ Sound(u, RefillBranch(Counted(c, i, count), c.pc))
  BY Zenon, <1>0, <1>4, CalmIsSound, FillSound
<1> DEFINE b == IF target % 2 = 1 THEN c ELSE Counted(c, i, count)
<1>6. Sound(u, b)
  BY Zenon, <1>4, CalmIsSound
<1> HIDE DEF b
<1>7. Sound(u, BranchTo(b, target, c.pc))
  BY Zenon, <1>0, <1>2, <1>6, BranchSound
<1>8. CountDown(c, i, count, target) \in
        {RefillBranch(c, c.pc), RefillBranch(Counted(c, i, count), c.pc), BranchTo(b, target, c.pc)}
  BY SMT DEF CountDown, b
<1> QED BY Zenon, <1>3, <1>5, <1>7, <1>8

-----------------------------------------------------------------------------
(* The frames of procedures. *)

LEMMA ReturnSound ==
  ASSUME NEW u, NEW c, Calm(u, c)
  PROVE  Sound(u, Rts(c))
<1> DEFINE sp == AddressRegister(c, 7)
           r  == Reads(c, DataFC(c), {sp, sp + 2})
           p  == Commit(r, SetAddressRegister(r, 7, Add(sp, 4)))
<1>1. sp \in Longs /\ sp \in Int
  <2>1. 7 \in Registers8
    BY SMT DEF Registers8
  <2> QED BY Zenon, <2>1, CalmContext, RegisterRead, LongsAreIntegers
<1>2. LongAt(c, sp) \in Longs /\ Add(sp, 4) \in Longs /\ Add(c.pc, -2) \in Longs
  BY Zenon, <1>1, CalmContext, LongRead, Added
<1>3. Rts(c) = BranchTo(p, LongAt(c, sp), Add(c.pc, -2))
  BY DEF Rts
<1> HIDE DEF sp
<1>4. Calm(u, r)
  BY Zenon, CalmIsSound, ReadSound
<1> HIDE DEF r
<1>5. Calm(u, p)
  BY Zenon, <1>2, <1>4, RegisterChanged, CalmIsSound, CommitSound
<1> HIDE DEF p
<1> QED BY Zenon, <1>2, <1>3, <1>5, CalmIsSound, BranchSound

LEMMA LinkSound ==
  ASSUME NEW u, NEW c, Calm(u, c), NEW i, i.reg \in Registers8
  PROVE  Sound(u, Link(c, i))
<1>1. ASSUME NEW p, Calm(u, p), NEW n \in Int PROVE Calm(u, Linked(p, i, n))
  <2>1. 7 \in Registers8
    BY SMT DEF Registers8
  <2>2. AddressRegister(p, 7) \in Longs
    BY Zenon, <1>1, <2>1, CalmContext, RegisterRead
  <2>3. Add(AddressRegister(p, 7), n) \in Longs
    BY Zenon, <2>2, LongsAreIntegers, Adds
  <2>4. Calm(u, SetAddressRegister(SetAddressRegister(p, i.reg, AddressRegister(p, 7)), 7,
                                   Add(AddressRegister(p, 7), n)))
    BY Zenon, <1>1, <2>2, <2>3, RegisterChanged
  <2> QED BY Zenon, <1>1, <2>4, CalmIsSound, CommitSound DEF Linked
<1>2. AddressRegister(c, i.reg) \in Longs /\ SignedWord(Extension(c)) \in Int
  BY Zenon, CalmContext, RegisterRead, ExtensionRead, SignsAreIntegers
<1>3. Calm(u, PushLong(ConsumeExtension(c), AddressRegister(c, i.reg)))
  BY Zenon, <1>2, CalmIsSound, ConsumeSound, PushCalm
<1> QED BY Zenon, <1>1, <1>2, <1>3, RefillsSound DEF Link

LEMMA UnlinkSound ==
  ASSUME NEW u, NEW c, Calm(u, c), NEW i, i.reg \in Registers8
  PROVE  Sound(u, Unlk(c, i))
<1> DEFINE frame == AddressRegister(c, i.reg)
           x == LongAt(c, frame)
<1>1. frame \in Longs /\ frame \in Int
  BY Zenon, CalmContext, RegisterRead, LongsAreIntegers
<1>2. x \in Longs /\ Add(frame, 4) \in Longs
  BY Zenon, <1>1, CalmContext, LongRead, Added
<1>3. Unlk(c, i) = Unlink(c, i, frame)
  BY DEF Unlk
<1> HIDE DEF frame
<1>4. Sound(u, AccessError(c, c.prefetch[1], frame, c.pc, DataFC(c), TRUE, AddressErrorVector))
  BY Zenon, <1>1, CalmContext, AccessErrorSound, FaultVectors, SpaceOf
<1> DEFINE r == Reads(SetAddressRegister(c, 7, frame), DataFC(c), {frame, frame + 2})
<1>5. Calm(u, r)
  BY Zenon, <1>1, RegisterChanged, CalmIsSound, ReadSound
<1> HIDE DEF r, x
<1> DEFINE q == IF i.reg = 7 THEN r ELSE SetAddressRegister(r, 7, Add(frame, 4))
<1>6. Calm(u, q)
  BY Zenon, <1>2, <1>5, RegisterChanged
<1> HIDE DEF q
<1>7. Calm(u, Commit(r, SetAddressRegister(q, i.reg, x)))
  BY Zenon, <1>2, <1>5, <1>6, RegisterChanged, CalmIsSound, CommitSound
<1>8. Unlinked(r, i, frame, x) = Commit(r, SetAddressRegister(q, i.reg, x))
  BY DEF Unlinked, q
<1>9. Sound(u, Refill(Unlinked(r, i, frame, x)))
  <2>1. Calm(u, Unlinked(r, i, frame, x))
    BY <1>7, <1>8
  <2> QED BY Zenon, <2>1, RefillsSound
<1> QED BY Zenon, <1>3, <1>4, <1>9 DEF Unlink, r, x

-----------------------------------------------------------------------------
(* MOVE.W and MOVE.L. *)

LEMMA SavedPCReached ==
  ASSUME NEW u, NEW c, Calm(u, c), NEW i, i.dmode \in Registers8, i.dreg \in Registers8
  PROVE  /\ EffectiveAddress(c, i.dmode, i.dreg) \in Longs
         /\ (IF i.dmode = 7 /\ i.dreg = 1 /\ ~ AbsoluteFromMemory(i) THEN Add(c.pc, 2) ELSE c.pc) \in Longs
         /\ Add(c.pc, 2) \in Longs
  BY Zenon, CalmContext, AddressFound, Added

LEMMA WordWrittenSound ==
  ASSUME NEW u, NEW c, Calm(u, c), NEW opcode \in Longs, NEW address \in Longs, NEW savedPC \in Longs,
         NEW w \in WordValues
  PROVE  Sound(u, WriteWord(c, opcode, address, savedPC, w))
<1>1. Sound(u, SetLogicalFlagsWord(c, w))
  BY Zenon, LogicalFlagsChanged, CalmIsSound
<1>2. Sound(u, AccessError(SetLogicalFlagsWord(c, w), opcode, address, savedPC, DataFC(c),
                           FALSE, AddressErrorVector))
  BY Zenon, <1>1, AccessErrorSound, FaultVectors, SpaceOf
<1> QED BY Zenon, <1>2, CalmIsSound, CommitSound, WriteSound DEF WriteWord, WordWriteFault

LEMMA DestinationMoved ==
  ASSUME NEW u, NEW c, Calm(u, c), NEW r \in Registers8, NEW n \in Int
  PROVE  Calm(u, SetAddressRegister(c, r, Add(AddressRegister(c, r), n)))
<1>1. Add(AddressRegister(c, r), n) \in Longs
  BY Zenon, CalmContext, RegisterRead, LongsAreIntegers, Adds
<1> QED BY Zenon, <1>1, RegisterChanged

LEMMA DestinationSound ==
  ASSUME NEW u, NEW c, Calm(u, c), NEW i, i.dmode \in Registers8, i.dreg \in Registers8,
         NEW opcode \in Longs, NEW w \in WordValues
  PROVE  Sound(u, WriteWordDestination(c, i, opcode, w))
<1> DEFINE address == EffectiveAddress(c, i.dmode, i.dreg)
           savedPC == IF i.dmode = 7 /\ i.dreg = 1 /\ ~ AbsoluteFromMemory(i)
                      THEN Add(c.pc, 2) ELSE c.pc
           b == BeforeWrite(c, i)
           op == IF i.dmode = 4 THEN b.prefetch[1] ELSE opcode
           v == WriteWord(b, op, address, savedPC, w)
           x == SetLow(c.d[i.dreg], w)
<1>1. address \in Longs /\ savedPC \in Longs /\ Add(c.pc, 2) \in Longs
  BY Zenon, SavedPCReached
<1>2. Calm(u, b)
  <2>1. -2 \in Int
    BY SMT
  <2>2. Calm(u, Refill(SetAddressRegister(c, i.dreg, Add(AddressRegister(c, i.dreg), -2))))
    BY Zenon, <2>1, DestinationMoved, RefillsSound
  <2>3. Calm(u, Reads(c, ProgramFC(c), {c.pc})) /\ Calm(u, AfterExtensions(c, i.dmode, i.dreg))
    BY Zenon, CalmIsSound, ReadSound, ExtensionsSound
  <2> QED BY Zenon, <2>2, <2>3 DEF BeforeWrite
<1>3. x \in Longs
  BY Zenon, CalmContext, RegisterRead, LowSet
<1>4. WriteWordDestination(c, i, opcode, w)
        = IF i.dmode = 0 THEN Refill(SetDataRegister(c, i.dreg, x)) ELSE AfterWrite(v, i, c.pc)
  BY DEF WriteWordDestination
<1> HIDE DEF address, savedPC, b, x
<1>5. op \in Longs
  BY Zenon, <1>2, CalmContext
<1> HIDE DEF op
<1>6. Sound(u, v)
  BY Zenon, <1>1, <1>2, <1>5, WordWrittenSound
<1> HIDE DEF v
<1>7. Sound(u, AfterWrite(v, i, c.pc))
  <2> DEFINE p == IF i.dmode = 3 THEN SetAddressRegister(v, i.dreg, Add(AddressRegister(v, i.dreg), 2))
                  ELSE v
  <2>1. Running(v) => Calm(u, p)
    <3>1. 2 \in Int
      BY SMT
    <3> QED BY Zenon, <1>6, <3>1, SoundIsTyped, DestinationMoved
  <2>2. AfterWrite(v, i, c.pc) \in {v, RefillBranch(v, Add(c.pc, 2)), Refill(Commit(v, p))}
    BY SMT DEF AfterWrite
  <2> HIDE DEF p
  <2>3. Sound(u, Refill(Commit(v, p)))
    BY Zenon, <1>6, <2>1, CalmIsSound, CommitSound, ConsumeSound
  <2>4. Sound(u, RefillBranch(v, Add(c.pc, 2)))
    BY Zenon, <1>1, <1>6, FillSound
  <2> QED BY Zenon, <1>6, <2>2, <2>3, <2>4
<1>8. Sound(u, Refill(SetDataRegister(c, i.dreg, x)))
  BY Zenon, <1>3, RegisterChanged, RefillsSound
<1> QED BY Zenon, <1>4, <1>7, <1>8

LEMMA LogicallyFlagged ==
  ASSUME NEW u, NEW c, Sound(u, c), NEW x
  PROVE  Sound(u, Commit(c, SetLogicalFlagsWord(c, x))) /\ Sound(u, Commit(c, SetLogicalFlagsLong(c, x)))
<1>1. Running(c) => Sound(u, SetLogicalFlagsWord(c, x)) /\ Sound(u, SetLogicalFlagsLong(c, x))
  BY Zenon, SoundIsTyped, LogicalFlagsChanged, CalmIsSound
<1> QED BY Zenon, <1>1, CommitSound

LEMMA MoveSound ==
  ASSUME NEW u, NEW c, Calm(u, c), NEW i, i.mode \in Registers8, i.reg \in Registers8,
         i.dmode \in Registers8, i.dreg \in Registers8
  PROVE  Sound(u, MoveWord(c, i))
<1>1. ASSUME NEW s, Sound(u, s), NEW opcode \in Longs, NEW w \in WordValues
      PROVE  Sound(u, MoveTo(s, i, opcode, w))
  <2>1. Running(s) => Sound(u, WriteWordDestination(s, i, opcode, w))
    BY Zenon, <1>1, SoundIsTyped, DestinationSound
  <2> QED BY Zenon, <1>1, <2>1, LogicallyFlagged DEF MoveTo
<1>2. SourceValue(c, FALSE, i.mode, i.reg) \in WordValues
  BY Zenon, CalmContext, SourceFound DEF Operands
<1>3. Sound(u, ReadSource(c, c.prefetch[1], FALSE, i.mode, i.reg)) /\ Sound(u, Fail(c))
  BY Zenon, CalmContext, SourceSound, FailCalm
<1> QED BY Zenon, <1>1, <1>2, <1>3, CalmContext DEF MoveWord

LEMMA LongWrittenSound ==
  ASSUME NEW u, NEW c, Sound(u, c), NEW i, i.dreg \in Registers8,
         NEW opcode \in Longs, NEW address \in Longs, NEW savedPC \in Longs, NEW x \in Longs
  PROVE  Sound(u, LongWritten(c, i, opcode, address, savedPC, x))
<1> SUFFICES ASSUME Running(c) PROVE Sound(u, LongWritten(c, i, opcode, address, savedPC, x))
  BY Zenon DEF LongWritten
<1>0. Calm(u, c)
  BY Zenon, SoundIsTyped
<1>1. Sound(u, LongFaultFlags(c, i, x))
  <2>1. \A f : Calm(u, SetFlags(c, f))
    BY Zenon, <1>0, FlagsChanged
  <2>2. \A y : Calm(u, SetLogicalFlagsWord(c, y)) /\ Calm(u, SetLogicalFlagsLong(c, y))
    BY Zenon, <1>0, LogicalFlagsChanged
  <2>3. Calm(u, LongFaultFlags(c, i, x))
    BY Zenon, <1>0, <2>1, <2>2 DEF LongFaultFlags
  <2> QED BY Zenon, <2>3, CalmIsSound
<1>2. Sound(u, AccessError(LongFaultFlags(c, i, x), opcode, address, savedPC, DataFC(c), FALSE,
                           AddressErrorVector))
  BY Zenon, <1>1, AccessErrorSound, FaultVectors, SpaceOf
<1>3. Sound(u, WriteBack(Moved(c, i.dreg, -4), TRUE, Add(address, -2), x))
  BY Zenon, MovedSound, BytesAreIntegers, WriteBackSound DEF Operands
<1>4. Sound(u, WriteLong(c, DataFC(c), address, x))
  BY Zenon, WriteLongSound
<1> QED BY Zenon, <1>2, <1>3, <1>4 DEF LongWritten

LEMMA LongDestinationSound ==
  ASSUME NEW u, NEW c, Calm(u, c), NEW i, i.dmode \in Registers8, i.dreg \in Registers8,
         NEW opcode \in Longs, NEW x \in Longs
  PROVE  Sound(u, WriteLongDestination(c, i, opcode, x))
<1> DEFINE address == EffectiveAddress(c, i.dmode, i.dreg)
           savedPC == IF i.dmode = 7 /\ i.dreg = 1 /\ ~ AbsoluteFromMemory(i)
                      THEN Add(c.pc, 2) ELSE c.pc
           v == LongWritten(BeforeLong(c, i), i, opcode, address, savedPC, x)
<1>1. address \in Longs /\ savedPC \in Longs /\ Add(c.pc, 2) \in Longs
  BY Zenon, SavedPCReached
<1>2. Sound(u, BeforeLong(c, i))
  BY Zenon, CalmIsSound, ConsumeSound, ReadSound, ExtensionsSound DEF BeforeLong
<1>3. WriteLongDestination(c, i, opcode, x)
        = IF i.dmode = 0 THEN Refill(SetDataRegister(c, i.dreg, x)) ELSE AfterLong(v, i, c.pc)
  BY DEF WriteLongDestination
<1> HIDE DEF address, savedPC
<1>4. Sound(u, v)
  BY Zenon, <1>1, <1>2, LongWrittenSound
<1> HIDE DEF v
<1>5. Sound(u, AfterLong(v, i, c.pc))
  <2>1. Sound(u, Refill(Moved(v, i.dreg, 4)))
    BY Zenon, <1>4, BytesAreIntegers, MovedSound, ConsumeSound
  <2>2. Sound(u, RefillBranch(v, Add(c.pc, 2))) /\ Sound(u, Refill(v))
    BY Zenon, <1>1, <1>4, FillSound, ConsumeSound
  <2> QED BY Zenon, <1>4, <2>1, <2>2 DEF AfterLong
<1>6. Sound(u, Refill(SetDataRegister(c, i.dreg, x)))
  BY Zenon, RegisterChanged, RefillsSound
<1> QED BY Zenon, <1>3, <1>5, <1>6

LEMMA MoveLongSound ==
  ASSUME NEW u, NEW c, Calm(u, c), NEW i, i.mode \in Registers8, i.reg \in Registers8,
         i.dmode \in Registers8, i.dreg \in Registers8
  PROVE  Sound(u, MoveLong(c, i))
<1>1. ASSUME NEW s, Sound(u, s), NEW opcode \in Longs, NEW x \in Longs
      PROVE  Sound(u, MoveLongTo(s, i, opcode, x))
  <2>1. Running(s) => Sound(u, WriteLongDestination(s, i, opcode, x))
    BY Zenon, <1>1, SoundIsTyped, LongDestinationSound
  <2> QED BY Zenon, <1>1, <2>1, LogicallyFlagged DEF MoveLongTo
<1>2. SourceValue(c, TRUE, i.mode, i.reg) \in Longs
  BY Zenon, CalmContext, SourceFound DEF Operands
<1>3. Sound(u, ReadSource(c, c.prefetch[1], TRUE, i.mode, i.reg)) /\ Sound(u, Fail(c))
  BY Zenon, CalmContext, SourceSound, FailCalm
<1> QED BY Zenon, <1>1, <1>2, <1>3, CalmContext DEF MoveLong

-----------------------------------------------------------------------------
(* The instructions of the supervisor. *)

LEMMA StatusSetSound ==
  ASSUME NEW u, NEW c, Sound(u, c), NEW sr, Status(sr),
         Supervisor(u) \/ Upper(sr) = Upper(u.sr)
  PROVE  Sound(u, StatusSet(c, sr))
<1>1. Running(c) => Sound(u, [c EXCEPT !.sr = sr])
  <2> SUFFICES ASSUME Running(c) PROVE Sound(u, [c EXCEPT !.sr = sr])
    OBVIOUS
  <2>1. Calm(u, c)
    BY Zenon, SoundIsTyped
  <2>2. ~ Supervisor(u) => Upper(c.sr) = Upper(u.sr)
    BY Zenon, <2>1 DEF Calm, Same
  <2>3. Supervisor(u) \/ Upper(sr) = Upper(c.sr)
    BY Zenon, <2>2
  <2>4. Calm(u, [c EXCEPT !.sr = sr])
    BY Zenon, <2>1, <2>3, StateChanged
  <2> QED BY Zenon, <2>4, CalmIsSound
<1>2. Sound(u, Commit(c, [c EXCEPT !.sr = sr]))
  BY Zenon, <1>1, CommitSound
<1> DEFINE b == Commit(c, [c EXCEPT !.sr = sr])
<1>3. StatusSet(c, sr) = Refill(Reads(b, ProgramFC(b), {b.pc - 2}))
  BY DEF StatusSet
<1> HIDE DEF b
<1>4. Sound(u, b)
  BY <1>2 DEF b
<1> QED BY Zenon, <1>3, <1>4, ReadSound, ConsumeSound

CodesSet(sr, x) == ((sr \div 256) * 256) + (x % 32)

LEMMA CodesReplaced ==
  ASSUME NEW u, NEW c, Calm(u, c), NEW x \in Int
  PROVE  Status(CodesSet(c.sr, x)) /\ (Supervisor(u) \/ Upper(CodesSet(c.sr, x)) = Upper(u.sr))
<1> DEFINE n == (Upper(c.sr) * 256) + (x % 32)
<1>1. Status(n) /\ Upper(n) = Upper(c.sr)
  <2>1. Status(c.sr)
    BY Zenon, CalmContext, TypedContext
  <2> QED BY <2>1, StatusKept
<1>2. n = CodesSet(c.sr, x)
  BY DEF Upper, CodesSet
<1> HIDE DEF n
<1>3. ~ Supervisor(u) => Upper(c.sr) = Upper(u.sr)
  BY Zenon DEF Calm, Same
<1>4. Status(n) /\ (Supervisor(u) \/ Upper(n) = Upper(u.sr))
  BY Zenon, <1>1, <1>3
<1> QED BY <1>2, <1>4

LEMMA MoveStatusSound ==
  ASSUME NEW u, NEW c, Calm(u, c), NEW i, i.mode \in Registers8, i.reg \in Registers8,
         i.op \in {"MOVE to SR", "MOVE to CCR"}
  PROVE  Sound(u, MoveStatus(c, i))
<1> DEFINE w == SourceValue(c, FALSE, i.mode, i.reg)
           n == NewStatus(c, i.op, w)
           r == ReadSource(c, c.prefetch[1], FALSE, i.mode, i.reg)
<1>1. w \in WordValues /\ w \in Int
  BY Zenon, CalmContext, SourceFound, LongsAreIntegers DEF Operands
<1>2. Sound(u, r)
  BY Zenon, CalmContext, SourceSound
<1>3. MoveToStatus(c, i) = StatusSet(r, n)
  BY DEF MoveToStatus
<1> HIDE DEF w, r
<1>4. ASSUME MayMove(c, i) PROVE Sound(u, MoveToStatus(c, i))
  <2>1. CASE i.op = "MOVE to SR"
    <3>1. Supervisor(u)
      BY Zenon, <1>4, <2>1, UserStays DEF MayMove
    <3>2. n = Implemented(w)
      BY Zenon, <2>1 DEF NewStatus
    <3>3. Status(n)
      BY Zenon, <1>1, <3>2, StatusTaken
    <3> HIDE DEF n
    <3>4. Sound(u, StatusSet(r, n))
      BY Zenon, <1>2, <3>1, <3>3, StatusSetSound
    <3> QED BY <1>3, <3>4
  <2>2. CASE i.op = "MOVE to CCR"
    <3>1. n = CodesSet(c.sr, w)
      <4>1. i.op # "MOVE to SR"
        BY Zenon, <2>2
      <4> QED BY Zenon, <4>1 DEF NewStatus, CodesSet
    <3>2. Status(n) /\ (Supervisor(u) \/ Upper(n) = Upper(u.sr))
      BY Zenon, <1>1, <3>1, CodesReplaced
    <3> HIDE DEF n
    <3>3. Sound(u, StatusSet(r, n))
      BY Zenon, <1>2, <3>2, StatusSetSound
    <3> QED BY <1>3, <3>3
  <2> QED BY <2>1, <2>2
<1> QED BY Zenon, <1>4, CalmIsSound, ViolationSound DEF MoveStatus

LEMMA PrivilegedSound ==
  ASSUME NEW u, NEW c, Calm(u, c), NEW d, Supervisor(u) => Sound(u, d)
  PROVE  Sound(u, Privileged(c, d))
  BY Zenon, UserStays, CalmIsSound, ViolationSound DEF Privileged

LEMMA UserPointerSound ==
  ASSUME NEW u, NEW c, Calm(u, c), NEW i, i.reg \in Registers8
  PROVE  Sound(u, MoveToUsp(c, i)) /\ Sound(u, MoveFromUsp(c, i)) /\ Sound(u, ResetDevices(c))
<1>1. AddressRegister(c, i.reg) \in Longs /\ c.usp \in Longs
  BY Zenon, CalmContext, RegisterRead, TypedContext
<1>2. Sound(u, Refill([c EXCEPT !.usp = AddressRegister(c, i.reg)]))
  BY Zenon, <1>1, RegistersChanged, RefillsSound
<1>3. Sound(u, Refill(SetAddressRegister(c, i.reg, c.usp))) /\ Sound(u, Refill(c))
  BY Zenon, <1>1, RegisterChanged, RefillsSound
<1> QED BY Zenon, <1>2, <1>3, PrivilegedSound DEF MoveToUsp, MoveFromUsp, ResetDevices

LEMMA FromStatusSound ==
  ASSUME NEW u, NEW c, Calm(u, c), NEW i, i.mode \in Registers8, i.reg \in Registers8
  PROVE  Sound(u, MoveFromSR(c, i))
<1> DEFINE j == StoredStatus(i)
<1>1. j.mode = i.mode /\ j.reg = i.reg /\ j.kind = "STORE" /\ j.long = FALSE
  BY DEF StoredStatus
<1>2. c.sr \in WordValues
  BY Zenon, CalmContext, TypedContext
<1> HIDE DEF j
<1>3. Fitting(j, c.sr)
  <2>1. j.kind \in TwoOperandKinds
    BY <1>1 DEF TwoOperandKinds
  <2>2. c.sr \in Operands(j.long)
    BY Zenon, <1>1, <1>2 DEF Operands
  <2> QED BY Zenon, <2>1, <2>2 DEF Fitting
<1>4. Sound(u, Modify(c, j, c.prefetch[1], c.sr))
  BY Zenon, <1>1, <1>3, CalmContext, ModifySound
<1>5. SetLow(c.d[i.reg], c.sr) \in Longs
  BY Zenon, <1>2, CalmContext, RegisterRead, LowSet
<1>6. Sound(u, Refill(SetDataRegister(c, i.reg, SetLow(c.d[i.reg], c.sr))))
  BY Zenon, <1>5, RegisterChanged, RefillsSound
<1> QED BY Zenon, <1>4, <1>6 DEF MoveFromSR, j

LEMMA StopSound ==
  ASSUME NEW u, NEW c, Calm(u, c)
  PROVE  Sound(u, Stop(c))
<1> DEFINE n == Implemented(Extension(c))
<1>1. Status(n)
  BY Zenon, CalmContext, ExtensionRead, StatusTaken
<1>2. Stop(c) = Privileged(c, [c EXCEPT !.sr = n, !.stopped = TRUE])
  BY DEF Stop
<1> HIDE DEF n
<1>3. ASSUME Supervisor(u) PROVE Sound(u, [c EXCEPT !.sr = n, !.stopped = TRUE])
  <2>1. Calm(u, [c EXCEPT !.sr = n])
    BY Zenon, <1>1, <1>3, StateChanged
  <2>2. Calm(u, [[c EXCEPT !.sr = n] EXCEPT !.stopped = TRUE])
    BY Zenon, <2>1, StateChanged
  <2>3. [[c EXCEPT !.sr = n] EXCEPT !.stopped = TRUE] = [c EXCEPT !.sr = n, !.stopped = TRUE]
    OBVIOUS
  <2>4. Calm(u, [c EXCEPT !.sr = n, !.stopped = TRUE])
    BY <2>2, <2>3
  <2> QED BY Zenon, <2>4, CalmIsSound
<1>4. Sound(u, Privileged(c, [c EXCEPT !.sr = n, !.stopped = TRUE]))
  BY Zenon, <1>3, PrivilegedSound
<1> QED BY <1>2, <1>4

LEMMA ReturnFromExceptionSound ==
  ASSUME NEW u, NEW c, Calm(u, c)
  PROVE  Sound(u, Rte(c))
<1> DEFINE frame == c.ssp
           s == Reads(c, 5, {frame, frame + 2, frame + 4})
           n == Implemented(WordAt(c, frame))
           t == Commit(s, [s EXCEPT !.ssp = Add(frame, 6), !.sr = n])
<1>1. Return(c) = BranchTo(t, LongAt(c, frame + 2), Add(c.pc, -2))
  BY DEF Return
<1>2. ASSUME Supervisor(u) PROVE Sound(u, Return(c))
  <2>1. frame \in Longs /\ frame \in Int /\ frame + 2 \in Int
    BY Zenon, CalmContext, TypedContext, LongsAreIntegers, SignsAreIntegers
  <2>2. LongAt(c, frame + 2) \in Longs /\ Status(n) /\ Add(frame, 6) \in Longs /\ Add(c.pc, -2) \in Longs
    BY Zenon, <2>1, CalmContext, LongRead, WordRead, StatusTaken, Added
  <2> HIDE DEF frame, n
  <2>3. Calm(u, s)
    BY Zenon, CalmIsSound, ReadSound
  <2> HIDE DEF s
  <2>4. Calm(u, [s EXCEPT !.ssp = Add(frame, 6)])
    BY Zenon, <1>2, <2>2, <2>3, StateChanged
  <2>5. Calm(u, [[s EXCEPT !.ssp = Add(frame, 6)] EXCEPT !.sr = n])
    BY Zenon, <1>2, <2>2, <2>4, StateChanged
  <2>6. [[s EXCEPT !.ssp = Add(frame, 6)] EXCEPT !.sr = n] = [s EXCEPT !.ssp = Add(frame, 6), !.sr = n]
    OBVIOUS
  <2>7. Calm(u, [s EXCEPT !.ssp = Add(frame, 6), !.sr = n])
    BY <2>5, <2>6
  <2>8. Calm(u, t)
    BY Zenon, <2>3, <2>7, CalmIsSound, CommitSound
  <2> HIDE DEF t
  <2> QED BY Zenon, <1>1, <2>2, <2>8, CalmIsSound, BranchSound
<1> HIDE DEF t
<1> QED BY Zenon, <1>2, PrivilegedSound DEF Rte

LEMMA TrapSound ==
  ASSUME NEW u, NEW c, Calm(u, c)
  PROVE  /\ \A i : i.byte \in 0 .. 15 => Sound(u, Trap(c, i))
         /\ Sound(u, LineF(c)) /\ Sound(u, IllegalOp(c))
<1>1. Add(c.pc, -2) \in Longs /\ Add(c.pc, -4) \in Longs
  BY Zenon, CalmContext, Added
<1>2. 11 \in 2 .. 255 /\ 4 \in 2 .. 255 /\ \A i : i.byte \in 0 .. 15 => 32 + i.byte \in 2 .. 255
  BY SMT
<1>3. ASSUME NEW i, i.byte \in 0 .. 15 PROVE Sound(u, Trap(c, i))
  BY Zenon, <1>1, <1>2, <1>3, CalmIsSound, ExceptionSound DEF Trap
<1>4. Sound(u, LineF(c)) /\ Sound(u, IllegalOp(c))
  BY Zenon, <1>1, <1>2, CalmIsSound, ExceptionSound DEF LineF, IllegalOp
<1> QED BY <1>3, <1>4

LEMMA LogicalWords ==
  ASSUME Width, NEW kind \in {"AND", "OR", "EOR"}
  PROVE  /\ \A d \in WordValues, s \in WordValues : LogicalValue(kind, d, s) \in WordValues
         /\ \A d \in ByteValues, s \in ByteValues : LogicalValue(kind, d, s) \in ByteValues
<1>1. ASSUME NEW size \in Sizes, NEW d \in {n \in Nat : n < size}, NEW s \in {n \in Nat : n < size}
      PROVE  LogicalValue(kind, d, s) \in {n \in Nat : n < size}
  <2>1. d \in Nat /\ d < size /\ s \in Nat /\ s < size
    OBVIOUS
  <2>2. LogicalValue(kind, d, s) \in Nat /\ LogicalValue(kind, d, s) < size
    BY Zenon, <2>1, LogicFits
  <2> QED BY <2>2
<1> DEFINE word == 65536
           byte == 256
<1>2. word \in Sizes /\ byte \in Sizes
  BY DEF Sizes
<1>3. WordValues = {n \in Nat : n < word} /\ ByteValues = {n \in Nat : n < byte}
  BY DEF WordValues, ByteValues
<1> HIDE DEF word, byte
<1> QED BY Zenon, <1>1, <1>2, <1>3

LEMMA LogicalStatusKept ==
  ASSUME NEW u, NEW c, Calm(u, c), NEW i, i.kind \in {"AND", "OR", "EOR"},
         ~ i.whole \/ Supervisor(c)
  PROVE  /\ Status(LogicalStatus(c, i))
         /\ Supervisor(u) \/ Upper(LogicalStatus(c, i)) = Upper(u.sr)
<1> DEFINE e == Extension(c)
<1>1. e \in WordValues /\ e % 256 \in ByteValues /\ c.sr \in WordValues /\ Width /\ c.sr % 256 \in ByteValues
  <2>1. e \in WordValues /\ e % 256 \in ByteValues /\ c.sr \in WordValues /\ Width
    BY Zenon, CalmContext, ExtensionRead, TypedContext
  <2>2. c.sr \in Longs
    BY Zenon, <2>1, Narrower
  <2> QED BY Zenon, <2>1, <2>2, Halves
<1> HIDE DEF e
<1>2. CASE i.whole
  <2>1. LogicalStatus(c, i) = Implemented(LogicalValue(i.kind, c.sr, e))
    BY Zenon, <1>2 DEF LogicalStatus, e
  <2>2. Status(LogicalStatus(c, i))
    <3>1. LogicalValue(i.kind, c.sr, e) \in WordValues
      BY Zenon, <1>1, LogicalWords
    <3> QED BY Zenon, <2>1, <3>1, StatusTaken
  <2> QED BY Zenon, <1>2, <2>2, UserStays
<1>3. CASE ~ i.whole
  <2> DEFINE d == c.sr % 256
             s == e % 256
             x == LogicalValue(i.kind, d, s)
  <2>1. x \in ByteValues
    <3>1. d \in ByteValues /\ s \in ByteValues
      BY <1>1
    <3> HIDE DEF d, s
    <3> QED BY Zenon, <3>1, CalmContext, LogicalWords
  <2>2. LogicalStatus(c, i) = (256 * (c.sr \div 256)) + (x % 32)
    BY <1>3 DEF LogicalStatus, e
  <2> HIDE DEF x
  <2>3. x \in Int
    BY Zenon, <2>1, LongsAreIntegers
  <2>4. c.sr \in Int
    BY Zenon, <1>1, LongsAreIntegers
  <2>5. LogicalStatus(c, i) = CodesSet(c.sr, x)
    BY SMT, <2>2, <2>3, <2>4 DEF CodesSet
  <2> QED BY Zenon, <2>3, <2>5, CodesReplaced
<1> QED BY Zenon, <1>2, <1>3

LEMMA LogicalToStatusSound ==
  ASSUME NEW u, NEW c, Calm(u, c), NEW i, i.kind \in {"AND", "OR", "EOR"}
  PROVE  Sound(u, LogicalToStatus(c, i))
<1>1. Sound(u, ConsumeExtension(c))
  BY Zenon, CalmIsSound, ConsumeSound
<1>2. ASSUME ~ i.whole \/ Supervisor(c)
      PROVE  Sound(u, StatusSet(ConsumeExtension(c), LogicalStatus(c, i)))
  <2>1. /\ Status(LogicalStatus(c, i))
        /\ Supervisor(u) \/ Upper(LogicalStatus(c, i)) = Upper(u.sr)
    BY <1>2, LogicalStatusKept
  <2> QED BY Zenon, <1>1, <2>1, StatusSetSound
<1> QED BY Zenon, <1>2, CalmIsSound, ViolationSound DEF LogicalToStatus

-----------------------------------------------------------------------------
(* MOVEM.  The registers of a list are counted one by one.                 *)

Counting(F, e, list) ==
  /\ F[0] = {} /\ F[16] = list
  /\ \A j \in 0 .. 15 : e[j] \notin F[j] /\ F[j + 1] = IF e[j] \in list THEN F[j] \cup {e[j]} ELSE F[j]

LEMMA CountedUp ==
  ASSUME NEW F, NEW e, NEW list, Counting(F, e, list)
  PROVE  \A j \in 0 .. 16 : IsFiniteSet(F[j]) /\ Cardinality(F[j]) \in Nat
<1> DEFINE S == {j \in Nat : j <= 16 => IsFiniteSet(F[j])}
<1>1. 0 \in S
  BY FS_EmptySet DEF Counting
<1>2. ASSUME NEW j \in Nat, j \in S PROVE j + 1 \in S
  <2> SUFFICES ASSUME j + 1 <= 16 PROVE IsFiniteSet(F[j + 1])
    OBVIOUS
  <2>1. j \in 0 .. 15 /\ IsFiniteSet(F[j])
    BY <1>2
  <2>2. IsFiniteSet(F[j] \cup {e[j]})
    BY <2>1, FS_AddElement
  <2> QED BY <2>1, <2>2 DEF Counting
<1> HIDE DEF S
<1>3. Nat \subseteq S
  BY <1>1, <1>2, Induction
<1>4. \A j \in 0 .. 16 : IsFiniteSet(F[j])
  BY <1>3 DEF S
<1> QED BY <1>4, FS_CardinalityType

LEMMA CountedOnce ==
  ASSUME NEW F, NEW e, NEW list, Counting(F, e, list), NEW k \in Nat, k < Cardinality(list)
  PROVE  \E j \in 0 .. 15 : e[j] \in list /\ Cardinality(F[j]) = k
<1> DEFINE C(j) == Cardinality(F[j])
           S == {j \in Nat : j <= 16 => C(j) <= k}
<1>1. SUFFICES ASSUME \A j \in 0 .. 15 : e[j] \in list => C(j) # k PROVE FALSE
  OBVIOUS
<1>2. C(0) = 0 /\ C(16) = Cardinality(list)
  BY FS_EmptySet DEF Counting
<1>3. ASSUME NEW j \in 0 .. 15 PROVE C(j + 1) = C(j) + (IF e[j] \in list THEN 1 ELSE 0) /\ C(j) \in Nat
  <2>1. IsFiniteSet(F[j]) /\ C(j) \in Nat
    <3>1. j \in 0 .. 16
      OBVIOUS
    <3> QED BY <3>1, CountedUp
  <2>2. Cardinality(F[j] \cup {e[j]}) = C(j) + 1
    BY <2>1, FS_AddElement DEF Counting
  <2>3. F[j + 1] = IF e[j] \in list THEN F[j] \cup {e[j]} ELSE F[j]
    BY DEF Counting
  <2> HIDE DEF C
  <2>4. CASE e[j] \in list
    <3>1. C(j + 1) = C(j) + 1
      BY Zenon, <2>2, <2>3, <2>4 DEF C
    <3> QED BY <2>1, <2>4, <3>1
  <2>5. CASE e[j] \notin list
    <3>1. C(j + 1) = C(j)
      BY Zenon, <2>3, <2>5 DEF C
    <3> QED BY <2>1, <2>5, <3>1
  <2> QED BY Zenon, <2>4, <2>5
<1> HIDE DEF C
<1>4. 0 \in S
  BY <1>2
<1>5. ASSUME NEW j \in Nat, j \in S PROVE j + 1 \in S
  <2> SUFFICES ASSUME j + 1 <= 16 PROVE C(j + 1) <= k
    OBVIOUS
  <2>1. j \in 0 .. 15 /\ C(j) <= k
    BY <1>5
  <2>2. C(j + 1) = C(j) + (IF e[j] \in list THEN 1 ELSE 0) /\ C(j) \in Nat
    BY <1>3, <2>1
  <2>3. e[j] \in list => C(j) # k
    BY <1>1, <2>1
  <2> QED BY <2>1, <2>2, <2>3
<1> HIDE DEF S
<1>6. Nat \subseteq S
  BY <1>4, <1>5, Induction
<1>7. C(16) <= k
  BY <1>6 DEF S
<1>8. Cardinality(list) \in Nat
  <2>1. 16 \in 0 .. 16
    OBVIOUS
  <2>2. IsFiniteSet(F[16]) /\ Cardinality(F[16]) \in Nat
    BY Zenon, <2>1, CountedUp
  <2>3. F[16] = list
    BY Zenon DEF Counting
  <2> QED BY Zenon, <2>2, <2>3
<1> QED BY <1>2, <1>7, <1>8

(* Each place of a list is that of one of its registers. *)
LEMMA PlacesTaken ==
  ASSUME NEW list \in SUBSET (0 .. 15), NEW down \in BOOLEAN
  PROVE  /\ IsFiniteSet(list) /\ Cardinality(list) \in Nat
         /\ \A n : Place(list, n, down) \in Nat
         /\ \A k \in Nat : k < Cardinality(list) => \E n \in list : Place(list, n, down) = k
<1>0. \A m \in list : m \in Int /\ 0 <= m /\ m <= 15
  OBVIOUS
<1>1. IsFiniteSet(list)
  <2>1. list \in SUBSET Nat /\ 15 \in Nat
    BY SMT, <1>0
  <2> QED BY Zenon, <1>0, <2>1, FS_BoundedSetOfNaturals
<1>2. Cardinality(list) \in Nat
  BY <1>1, FS_CardinalityType
<1>3. ASSUME NEW n PROVE Place(list, n, down) \in Nat
  BY <1>1, FS_Subset, FS_CardinalityType DEF Place
<1>4. ASSUME NEW k \in Nat, k < Cardinality(list)
      PROVE  \E n \in list : Place(list, n, down) = k
  <2> DEFINE F == [j \in 0 .. 16 |-> {m \in list : IF down THEN m > 15 - j ELSE m < j}]
             e == [j \in 0 .. 15 |-> IF down THEN 15 - j ELSE j]
  <2>1. Counting(F, e, list)
    <3>1. F[0] = {} /\ F[16] = list
      <4>1. F[0] = {m \in list : IF down THEN m > 15 - 0 ELSE m < 0}
        BY SMT
      <4>2. F[16] = {m \in list : IF down THEN m > 15 - 16 ELSE m < 16}
        BY SMT
      <4> HIDE DEF F
      <4>3. \A m \in list : ~ (IF down THEN m > 15 - 0 ELSE m < 0)
        BY SMT, <1>0
      <4>4. \A m \in list : IF down THEN m > 15 - 16 ELSE m < 16
        BY SMT, <1>0
      <4>5. F[0] = {}
        BY Zenon, <4>1, <4>3
      <4>6. F[16] = list
        BY Zenon, <4>2, <4>4
      <4> QED BY <4>5, <4>6
    <3>2. ASSUME NEW j \in 0 .. 15
          PROVE  e[j] \notin F[j] /\ F[j + 1] = IF e[j] \in list THEN F[j] \cup {e[j]} ELSE F[j]
      <4>1. F[j] = {m \in list : IF down THEN m > 15 - j ELSE m < j}
        BY SMT
      <4>2. F[j + 1] = {m \in list : IF down THEN m > 15 - (j + 1) ELSE m < j + 1}
        BY SMT
      <4>3. e[j] = IF down THEN 15 - j ELSE j
        BY SMT
      <4> HIDE DEF F, e
      <4>4. CASE down
        <5>1. F[j] = {m \in list : m > 15 - j} /\ F[j + 1] = {m \in list : m > 15 - (j + 1)} /\ e[j] = 15 - j
          BY Zenon, <4>1, <4>2, <4>3, <4>4
        <5>2. e[j] \notin F[j]
          BY SMT, <1>0, <5>1
        <5>3. \A m \in list : (m > 15 - (j + 1)) <=> (m > 15 - j) \/ m = e[j]
          BY SMT, <1>0, <5>1
        <5>4. ASSUME e[j] \in list PROVE F[j + 1] = F[j] \cup {e[j]}
          BY Zenon, <5>1, <5>3, <5>4
        <5>5. ASSUME e[j] \notin list PROVE F[j + 1] = F[j]
          BY Zenon, <5>1, <5>3, <5>5
        <5> QED BY Zenon, <5>2, <5>4, <5>5
      <4>5. CASE ~ down
        <5>1. F[j] = {m \in list : m < j} /\ F[j + 1] = {m \in list : m < j + 1} /\ e[j] = j
          BY Zenon, <4>1, <4>2, <4>3, <4>5
        <5>2. e[j] \notin F[j]
          BY SMT, <1>0, <5>1
        <5>3. \A m \in list : (m < j + 1) <=> (m < j) \/ m = e[j]
          <6>1. \A m \in list : (m < j + 1) <=> (m < j) \/ m = j
            BY SMT, <1>0
          <6>2. e[j] = j
            BY Zenon, <5>1
          <6> QED BY Zenon, <6>1, <6>2
        <5>4. ASSUME e[j] \in list PROVE F[j + 1] = F[j] \cup {e[j]}
          BY Zenon, <5>1, <5>3, <5>4
        <5>5. ASSUME e[j] \notin list PROVE F[j + 1] = F[j]
          BY Zenon, <5>1, <5>3, <5>5
        <5> QED BY Zenon, <5>2, <5>4, <5>5
      <4> QED BY Zenon, <4>4, <4>5
    <3> QED BY <3>1, <3>2 DEF Counting
  <2> HIDE DEF F, e
  <2>2. PICK j \in 0 .. 15 : e[j] \in list /\ Cardinality(F[j]) = k
    BY <1>4, <2>1, CountedOnce
  <2>3. Place(list, e[j], down) = k
    <3>1. F[j] = {m \in list : IF down THEN m > e[j] ELSE m < e[j]}
      BY DEF F, e
    <3> QED BY <2>2, <3>1 DEF Place
  <2> QED BY <2>2, <2>3
<1> QED BY <1>1, <1>2, <1>3, <1>4

LEMMA ListedRegisters ==
  ASSUME NEW mask, NEW down
  PROVE  Listed(mask, down) \in SUBSET (0 .. 15)
  BY DEF Listed

LEMMA RegisterMoves ==
  ASSUME NEW c, Typed(c), NEW n \in 0 .. 15
  PROVE  MovemRegister(c, n) \in Longs
<1>1. CASE n < 8
  <2>1. n \in Registers8
    BY <1>1 DEF Registers8
  <2> QED BY Zenon, <1>1, <2>1, RegisterRead DEF MovemRegister
<1>2. CASE ~ (n < 8)
  <2>1. n - 8 \in Registers8
    BY <1>2 DEF Registers8
  <2> QED BY Zenon, <1>2, <2>1, RegisterRead DEF MovemRegister
<1> QED BY <1>1, <1>2

LEMMA WordsMoved ==
  ASSUME NEW c, Typed(c), NEW i, NEW list \in SUBSET (0 .. 15), NEW address, NEW down \in BOOLEAN
  PROVE  LET words == MovemWords(c, i, list, address, down)
         IN /\ IsFiniteSet(DOMAIN words)
            /\ \A k \in DOMAIN words : words[k].word \in WordValues
<1> DEFINE size == IF i.long THEN 2 ELSE 1
           nth(k) == CHOOSE n \in list : Place(list, n, down) = k
           last == (size * Cardinality(list)) - 1
           x(k) == MovemRegister(c, nth(k \div size))
           high(k) == i.long /\ (down <=> k % 2 = 1)
           word(k) == IF high(k) THEN High(x(k)) ELSE Low(x(k))
           at(k) == BusAddress(IF down THEN address - (2 * (k + 1)) ELSE address + (2 * k))
           words == [k \in 0 .. last |-> [at |-> at(k), word |-> word(k)]]
<1>1. MovemWords(c, i, list, address, down) = words
  BY DEF MovemWords
<1>2. size \in {1, 2} /\ last = (size * Cardinality(list)) - 1
  OBVIOUS
<1>3. Cardinality(list) \in Nat
  BY Zenon, PlacesTaken
<1>4. ASSUME NEW k \in 0 .. last PROVE x(k) \in Longs
  <2> HIDE DEF size, last
  <2>1. k \div size \in Nat /\ k \div size < Cardinality(list)
    BY <1>2, <1>3
  <2> HIDE DEF x
  <2>2. nth(k \div size) \in list
    BY Zenon, <2>1, PlacesTaken
  <2>3. nth(k \div size) \in 0 .. 15
    BY Zenon, <2>2
  <2> HIDE DEF nth
  <2> QED BY Zenon, <2>3, RegisterMoves DEF x
<1> HIDE DEF x, at, high
<1>5. ASSUME NEW k \in 0 .. last PROVE word(k) \in WordValues
  BY Zenon, <1>4, <1>5, TypedContext, Halves
<1> HIDE DEF word, size, last
<1>6. DOMAIN words = 0 .. last /\ \A k \in 0 .. last : words[k].word = word(k)
  OBVIOUS
<1>7. IsFiniteSet(0 .. last)
  <2>1. last \in Int
    BY <1>2, <1>3
  <2>2. 0 \in Int
    OBVIOUS
  <2> QED BY Zenon, <2>1, <2>2, FS_Interval
<1> HIDE DEF words
<1>8. IsFiniteSet(DOMAIN words) /\ \A k \in DOMAIN words : words[k].word \in WordValues
  BY Zenon, <1>5, <1>6, <1>7
<1> QED BY <1>1, <1>8

(* Whatever part of the words has been moved. *)
Movable(words) ==
  IsFiniteSet(DOMAIN words) /\ \A k \in DOMAIN words : words[k].word \in WordValues

LEMMA FinishedCalm ==
  ASSUME NEW u, NEW c, Calm(u, c), NEW words, NEW done
  PROVE  Calm(u, Finished(c, words, done))
  BY Zenon, FailCalm DEF Finished

LEMMA WholeRegisters ==
  ASSUME NEW words, Movable(words), NEW done \in SUBSET DOMAIN words, NEW i
  PROVE  Whole(i, done) \in Int
<1> DEFINE n == Cardinality(done)
           size == IF i.long THEN 2 ELSE 1
<1>1. n \in Nat
  <2>1. IsFiniteSet(done)
    BY Zenon, FS_Subset DEF Movable
  <2> QED BY Zenon, <2>1, FS_CardinalityType
<1>2. size \in {1, 2} /\ Whole(i, done) = n \div size
  BY DEF Whole
<1> HIDE DEF n, size
<1> QED BY <1>1, <1>2

LEMMA StoredCalm ==
  ASSUME NEW u, NEW c, Calm(u, c), NEW words, Movable(words), NEW done \in SUBSET DOMAIN words
  PROVE  Calm(u, Stored(c, words, done))
<1> DEFINE v == [a \in DOMAIN c.ram |->
                   IF \E k \in done : words[k].at = a
                   THEN words[CHOOSE k \in done : words[k].at = a].word
                   ELSE c.ram[a]]
<1>1. Stored(c, words, done) = [c EXCEPT !.ram = v]
  BY DEF Stored
<1>2. c.ram \in [Cells -> WordValues]
  BY Zenon, CalmContext, TypedContext
<1>3. DOMAIN c.ram = Cells /\ \A a \in Cells : c.ram[a] \in WordValues
  BY <1>2
<1>4. ASSUME NEW a \in Cells PROVE v[a] \in WordValues
  <2>1. CASE \E k \in done : words[k].at = a
    <3>1. (CHOOSE k \in done : words[k].at = a) \in done
      BY Zenon, <2>1
    <3>2. words[CHOOSE k \in done : words[k].at = a].word \in WordValues
      BY Zenon, <3>1 DEF Movable
    <3> QED BY <1>3, <2>1, <3>2
  <2>2. CASE ~ \E k \in done : words[k].at = a
    BY Zenon, <1>3, <2>2
  <2> QED BY <2>1, <2>2
<1>5. DOMAIN v = Cells /\ v = [a \in Cells |-> v[a]]
  BY <1>3
<1> HIDE DEF v
<1>6. v \in [Cells -> WordValues]
  BY <1>4, <1>5
<1>7. Calm(u, [c EXCEPT !.ram = v])
  BY Zenon, <1>6, StateChanged
<1> QED BY <1>1, <1>7

LEMMA FollowedCalm ==
  ASSUME NEW u, NEW c, Calm(u, c), NEW i, NEW address \in Int, NEW registers \in Int
  PROVE  Calm(u, Followed(c, i, address, registers))
<1> DEFINE n == -((IF i.long THEN 4 ELSE 2) * registers)
<1>1. n \in Int
  OBVIOUS
<1>2. Followed(c, i, address, registers) =
        IF i.mode = 4 THEN SetAddressRegister(c, i.reg, Add(address, n)) ELSE c
  BY DEF Followed
<1> HIDE DEF n
<1> QED BY Zenon, <1>1, <1>2, Adds, RegisterChanged

LEMMA StoreSound ==
  ASSUME NEW u, NEW c, Calm(u, c), NEW i, NEW mask, NEW address \in Int
  PROVE  Calm(u, MovemStore(c, i, mask, address))
<1> DEFINE words == MovemWords(c, i, Listed(mask, i.mode = 4), address, i.mode = 4)
           done == {k \in DOMAIN words : \A j \in 0 .. k : CanWrite(c, words[j].at, DataFC(c))}
           n == Whole(i, done)
<1>1. MovemStore(c, i, mask, address) =
        Finished(Followed(Stored(c, words, done), i, address, n), words, done)
  BY Zenon DEF MovemStore, StoreWords, Done
<1>2. done \in SUBSET DOMAIN words
  OBVIOUS
<1>3. Movable(words)
  <2>1. Listed(mask, i.mode = 4) \in SUBSET (0 .. 15) /\ (i.mode = 4) \in BOOLEAN /\ Typed(c)
    BY Zenon, ListedRegisters, CalmContext
  <2> QED BY Zenon, <2>1, WordsMoved DEF Movable
<1> HIDE DEF words, done
<1>4. n \in Int
  BY Zenon, <1>2, <1>3, WholeRegisters
<1> HIDE DEF n
<1>5. Calm(u, Followed(Stored(c, words, done), i, address, n))
  BY Zenon, <1>2, <1>3, <1>4, StoredCalm, FollowedCalm
<1> QED BY Zenon, <1>1, <1>5, FinishedCalm

LEMMA LoadCalm ==
  ASSUME NEW u, NEW c, Calm(u, c), NEW i, NEW address \in Int, NEW list \in SUBSET (0 .. 15), NEW whole
  PROVE  Calm(u, LoadRegisters(c, i, address, list, whole))
<1> DEFINE place(n) == Place(list, n, FALSE)
           loaded(n) == n \in list /\ place(n) < whole
           at(n)     == address + ((IF i.long THEN 4 ELSE 2) * place(n))
           value(n)  == IF i.long THEN LongAt(c, at(n)) ELSE Add(0, SignedWord(WordAt(c, at(n))))
           d == [n \in 0 .. 7 |-> IF loaded(n) THEN value(n) ELSE c.d[n]]
           a == [n \in 0 .. 6 |-> IF loaded(n + 8) THEN value(n + 8) ELSE c.a[n]]
           s == [c EXCEPT !.d = d, !.a = a]
<1>1. LoadRegisters(c, i, address, list, whole) =
        IF loaded(15) THEN SetAddressRegister(s, 7, value(15)) ELSE s
  BY DEF LoadRegisters
<1>2. ASSUME NEW n PROVE value(n) \in Longs
  <2>1. place(n) \in Nat
    <3>1. FALSE \in BOOLEAN
      OBVIOUS
    <3> QED BY Zenon, <3>1, PlacesTaken
  <2> HIDE DEF place
  <2>2. at(n) \in Int
    BY <2>1
  <2> HIDE DEF at
  <2>3. WordAt(c, at(n)) \in Int
    BY Zenon, <2>2, CalmContext, WordRead, LongsAreIntegers
  <2> QED BY Zenon, <2>2, <2>3, CalmContext, LongRead, ExtendedToLongs
<1>3. c.d \in [0 .. 7 -> Longs] /\ c.a \in [0 .. 6 -> Longs]
  BY Zenon, CalmContext, TypedContext
<1> HIDE DEF value, loaded
<1>4. d \in [0 .. 7 -> Longs] /\ a \in [0 .. 6 -> Longs]
  BY <1>2, <1>3
<1>5. s = [[c EXCEPT !.d = d] EXCEPT !.a = a]
  BY DEF s
<1> HIDE DEF d, a, s
<1>6. Calm(u, [c EXCEPT !.d = d])
  BY Zenon, <1>4, RegistersChanged
<1>7. Calm(u, [[c EXCEPT !.d = d] EXCEPT !.a = a])
  BY Zenon, <1>4, <1>6, RegistersChanged
<1>8. Calm(u, s)
  BY <1>5, <1>7
<1>9. Calm(u, SetAddressRegister(s, 7, value(15)))
  BY Zenon, <1>2, <1>8, RegisterChanged
<1> QED BY Zenon, <1>1, <1>8, <1>9

LEMMA LoadSound ==
  ASSUME NEW u, NEW c, Calm(u, c), NEW i, NEW mask, NEW address \in Int, NEW fc
  PROVE  Calm(u, MovemLoad(c, i, mask, address, fc))
<1> DEFINE list == Listed(mask, FALSE)
           words == MovemWords(c, i, list, address, FALSE)
           done == {k \in DOMAIN words : \A j \in 0 .. k : CanRead(c, words[j].at, fc)}
<1>1. MovemLoad(c, i, mask, address, fc) =
        Finished(LoadRegisters(c, i, address, list, Whole(i, done)), words, done)
  BY Zenon DEF MovemLoad, Done
<1>2. list \in SUBSET (0 .. 15)
  BY Zenon, ListedRegisters
<1> HIDE DEF words, done, list
<1> QED BY Zenon, <1>1, <1>2, LoadCalm, FinishedCalm

LEMMA TransferSound ==
  ASSUME NEW u, NEW c, Calm(u, c), NEW i, NEW opcode \in Longs, NEW mask, NEW address \in Longs,
         NEW fc \in Spaces
  PROVE  Sound(u, MovemTransfer(c, i, opcode, mask, address, fc))
<1> DEFINE list == Listed(mask, FALSE)
           bytes == (IF i.long THEN 4 ELSE 2) * Cardinality(list)
           loaded == MovemLoad(c, i, mask, address, fc)
           read == Reads(loaded, fc, {address + bytes})
           moved == IF i.mode = 3 THEN Commit(read, SetAddressRegister(read, i.reg, Add(address, bytes)))
                    ELSE read
           target == IF i.mode = 4 THEN Add(address, -2) ELSE address
<1>1. MovemTransfer(c, i, opcode, mask, address, fc) =
        CASE ~ Running(c) -> c
          [] Running(c) /\ address % 2 = 1 ->
               AccessError(c, opcode, target, c.pc, fc, i.load, AddressErrorVector)
          [] Running(c) /\ address % 2 = 0 /\ i.load -> Refill(moved)
          [] OTHER -> Refill(MovemStore(c, i, mask, address))
  BY DEF MovemTransfer
<1>2. address \in Int
  BY Zenon, LongsAreIntegers
<1>3. bytes \in Int
  <2>1. list \in SUBSET (0 .. 15) /\ FALSE \in BOOLEAN
    BY Zenon, ListedRegisters
  <2>2. Cardinality(list) \in Nat
    BY Zenon, <2>1, PlacesTaken
  <2> HIDE DEF list
  <2> QED BY <2>2
<1>4. Add(address, bytes) \in Longs
  BY Zenon, <1>2, <1>3, Adds
<1>5. target \in Longs
  BY Zenon, Added
<1>6. Calm(u, loaded)
  BY Zenon, <1>2, LoadSound
<1> HIDE DEF bytes, loaded, target
<1>7. Calm(u, read)
  BY Zenon, <1>6, CalmIsSound, ReadSound
<1> HIDE DEF read
<1>8. Calm(u, moved)
  <2>1. Calm(u, SetAddressRegister(read, i.reg, Add(address, bytes)))
    BY Zenon, <1>4, <1>7, RegisterChanged
  <2>2. Calm(u, Commit(read, SetAddressRegister(read, i.reg, Add(address, bytes))))
    BY Zenon, <1>7, <2>1, CalmIsSound, CommitSound
  <2> QED BY Zenon, <1>7, <2>2
<1> HIDE DEF moved
<1>9. Sound(u, c) /\ Sound(u, Refill(moved)) /\ Sound(u, Refill(MovemStore(c, i, mask, address)))
  BY Zenon, <1>2, <1>8, CalmIsSound, RefillsSound, StoreSound
<1>10. Sound(u, AccessError(c, opcode, target, c.pc, fc, i.load, AddressErrorVector))
  BY Zenon, <1>5, CalmContext, AccessErrorSound, FaultVectors
<1> DEFINE odd  == Running(c) /\ address % 2 = 1
           even == Running(c) /\ address % 2 = 0 /\ i.load
<1>12. odd => ~ even
  <2>1. ~ (address % 2 = 1 /\ address % 2 = 0)
    BY SMT
  <2> QED BY Zenon, <2>1
<1>13. odd => Running(c)
  OBVIOUS
<1>14. even => Running(c)
  OBVIOUS
<1> DEFINE t == MovemTransfer(c, i, opcode, mask, address, fc)
<1>15. t = CASE ~ Running(c) -> c
             [] odd -> AccessError(c, opcode, target, c.pc, fc, i.load, AddressErrorVector)
             [] even -> Refill(moved)
             [] OTHER -> Refill(MovemStore(c, i, mask, address))
  BY Zenon, <1>1
<1> HIDE DEF odd, even, t
<1>16. Sound(u, t)
  <2>1. CASE ~ Running(c)
    BY Zenon, <1>9, <1>13, <1>14, <1>15, <2>1
  <2>2. CASE odd
    BY Zenon, <1>10, <1>12, <1>13, <1>15, <2>2
  <2>3. CASE even
    BY Zenon, <1>9, <1>12, <1>14, <1>15, <2>3
  <2>4. CASE Running(c) /\ ~ odd /\ ~ even
    BY Zenon, <1>9, <1>15, <2>4
  <2> QED BY Zenon, <2>1, <2>2, <2>3, <2>4
<1> QED BY <1>16 DEF t

LEMMA MovemSound ==
  ASSUME NEW u, NEW c, Calm(u, c), NEW i, i.mode \in Registers8, i.reg \in Registers8
  PROVE  Sound(u, Movem(c, i))
<1> DEFINE fc == IF i.load /\ PcRelative(i.mode, i.reg) THEN ProgramFC(c) ELSE DataFC(c)
           m == ConsumeExtension(c)
           address == IF i.mode = 4 THEN AddressRegister(m, i.reg) ELSE EffectiveAddress(m, i.mode, i.reg)
           operand == IF MovemModeIsValid(i) THEN AfterExtensions(m, i.mode, i.reg) ELSE Fail(m)
<1>1. Movem(c, i) = MovemTransfer(operand, i, c.prefetch[1], Extension(c), address, fc)
  BY Zenon DEF Movem
<1>2. fc \in Spaces
  BY Zenon, SpaceOf
<1>3. Calm(u, m) /\ Typed(m)
  BY Zenon, CalmIsSound, ConsumeSound
<1> HIDE DEF m, fc
<1>4. address \in Longs
  BY Zenon, <1>3, RegisterRead, AddressFound
<1>5. Calm(u, operand)
  BY Zenon, <1>3, CalmIsSound, ExtensionsSound, FailCalm
<1> HIDE DEF address, operand
<1> QED BY Zenon, <1>1, <1>2, <1>4, <1>5, CalmContext, TransferSound

-----------------------------------------------------------------------------
(* Every instruction. *)

LEMMA OperandsOfOthers ==
  ASSUME NEW i, Encoded(i), i.op # "byte"
  PROVE  /\ i.op \in OfRegister \cup OfOperand => i.reg \in Registers8
         /\ i.op \in OfOperand => i.mode \in Registers8
         /\ i.op \in OfTwoRegisters => i.dreg \in Registers8
         /\ i.op \in {"MOVE.W", "MOVE.L"} => i.dmode \in Registers8
  BY Zenon, FormsOfOthers DEF EncodedOperands

LEMMA FieldsOfOthers ==
  ASSUME NEW i, Encoded(i), i.op # "byte"
  PROVE  /\ i.op \in {"MOVEQ", "BSR", "Bcc"} => i.byte \in 0 .. 255
         /\ i.op = "TRAP"  => i.byte \in 0 .. 15
         /\ i.op = "quick" => i.byte \in 1 .. 8
         /\ i.op = "shift" => IF i.counted THEN i.dreg \in Registers8 ELSE i.byte \in 1 .. 8
         /\ i.op \in {"to register", "from register", "immediate", "extended"} => i.kind \in TwoOperandKinds
         /\ i.op = "bit" => /\ i.kind \in {"BTST", "BCHG", "BCLR", "BSET"}
                            /\ ~ i.immediate => i.dreg \in Registers8
         /\ i.op = "logical to status" => i.kind \in {"AND", "OR", "EOR"}
<1>1. EncodedKind(i.op, i) /\ EncodedByte(i.op, i)
  BY Zenon, FormsOfOthers
<1>2. /\ i.op \in {"MOVEQ", "BSR", "Bcc"} => i.byte \in 0 .. 255
      /\ i.op = "TRAP"  => i.byte \in 0 .. 15
      /\ i.op = "quick" => i.byte \in 1 .. 8
      /\ i.op = "shift" => IF i.counted THEN i.dreg \in Registers8 ELSE i.byte \in 1 .. 8
  BY ONLY <1>1 DEF EncodedByte
<1>3. /\ i.op \in {"to register", "from register", "immediate", "extended"} => i.kind \in TwoOperandKinds
      /\ i.op = "bit" => /\ i.kind \in {"BTST", "BCHG", "BCLR", "BSET"}
                         /\ ~ i.immediate => i.dreg \in Registers8
      /\ i.op = "logical to status" => i.kind \in {"AND", "OR", "EOR"}
  BY Zenon, <1>1, KindsOf
<1> QED BY <1>2, <1>3

LEMMA RegistersAndJumps ==
  ASSUME NEW u, NEW c, Calm(u, c), NEW i, Encoded(i), i.op # "byte"
  PROVE  /\ i.op = "NOP"   => Sound(u, Refill(c))
         /\ i.op = "MOVEQ" => Sound(u, Moveq(c, i))
         /\ i.op = "SWAP"  => Sound(u, Swap(c, i))
         /\ i.op = "EXT.W" => Sound(u, ExtWord(c, i))
         /\ i.op = "EXT.L" => Sound(u, ExtLong(c, i))
         /\ i.op = "LEA"   => Sound(u, Lea(c, i))
         /\ i.op = "PEA"   => Sound(u, Pea(c, i))
         /\ i.op = "JMP"   => Sound(u, Jmp(c, i))
         /\ i.op = "JSR"   => Sound(u, Jsr(c, i))
         /\ i.op = "BSR"   => Sound(u, Bsr(c, i))
         /\ i.op = "Bcc"   => Sound(u, Branch(c, i))
         /\ i.op = "DBcc"  => Sound(u, DBcc(c, i))
         /\ i.op = "RTS"   => Sound(u, Rts(c))
         /\ i.op = "LINK"  => Sound(u, Link(c, i))
         /\ i.op = "UNLK"  => Sound(u, Unlk(c, i))
<1>1. /\ i.op \in {"MOVEQ", "SWAP", "EXT.W", "EXT.L", "LEA", "PEA", "JMP", "JSR", "DBcc", "LINK", "UNLK"} =>
           i.reg \in Registers8
      /\ i.op \in {"LEA", "PEA", "JMP", "JSR"} => i.mode \in Registers8
  BY Zenon, OperandsOfOthers DEF OfRegister, OfOperand
<1>2. i.op \in {"MOVEQ", "BSR", "Bcc"} => i.byte \in 0 .. 255
  BY ZenonT(30), FieldsOfOthers
<1>3. CASE i.op \in {"MOVEQ", "SWAP", "EXT.W", "EXT.L"}
  BY Zenon, <1>1, <1>2, <1>3, RegisterSound
<1>4. CASE i.op \in {"LEA", "PEA", "JMP", "JSR"}
  BY Zenon, <1>1, <1>4, LeaSound, PeaSound, JumpSound
<1>5. CASE i.op \in {"DBcc", "LINK", "UNLK"}
  BY Zenon, <1>1, <1>5, LoopSound, LinkSound, UnlinkSound
<1>6. CASE i.op \in {"BSR", "Bcc"}
  BY Zenon, <1>2, <1>6, RelativeSound
<1>7. CASE i.op \in {"NOP", "RTS"}
  BY Zenon, <1>7, RefillsSound, ReturnSound
<1> QED BY Zenon, <1>3, <1>4, <1>5, <1>6, <1>7

LEMMA MovesAndSums ==
  ASSUME NEW u, NEW c, Calm(u, c), NEW i, Encoded(i), i.op # "byte"
  PROVE  /\ i.op = "MOVE.W" => Sound(u, MoveWord(c, i))
         /\ i.op = "MOVE.L" => Sound(u, MoveLong(c, i))
         /\ i.op = "MOVEM" => Sound(u, Movem(c, i))
         /\ i.op = "to register"   => Sound(u, ToRegister(c, i))
         /\ i.op = "from register" => Sound(u, FromRegister(c, i))
         /\ i.op = "immediate"     => Sound(u, Immediate(c, i))
         /\ i.op = "quick"         => Sound(u, Quick(c, i))
         /\ i.op = "one operand"   => Sound(u, OneOperand(c, i))
         /\ i.op = "shift"         => Sound(u, ShiftRegister(c, i))
         /\ i.op = "extended"      => Sound(u, Extended(c, i))
<1>1. /\ i.op \in {"MOVE.W", "MOVE.L", "MOVEM", "to register", "from register", "immediate", "quick",
                   "one operand", "shift", "extended"} => i.reg \in Registers8
      /\ i.op \in {"MOVE.W", "MOVE.L", "MOVEM", "to register", "from register", "immediate", "quick",
                   "one operand"} => i.mode \in Registers8
      /\ i.op \in {"MOVE.W", "MOVE.L", "to register", "from register", "extended"} => i.dreg \in Registers8
      /\ i.op \in {"MOVE.W", "MOVE.L"} => i.dmode \in Registers8
  BY Zenon, OperandsOfOthers DEF OfRegister, OfOperand, OfTwoRegisters
<1>2. /\ i.op = "quick" => i.byte \in 1 .. 8
      /\ i.op = "shift" => IF i.counted THEN i.dreg \in Registers8 ELSE i.byte \in 1 .. 8
      /\ i.op \in {"to register", "from register", "immediate", "extended"} => i.kind \in TwoOperandKinds
  BY Zenon, FieldsOfOthers
<1>3. CASE i.op \in {"MOVE.W", "MOVE.L", "MOVEM"}
  BY Zenon, <1>1, <1>3, MoveSound, MoveLongSound, MovemSound
<1>4. CASE i.op \in {"to register", "from register"}
  BY Zenon, <1>1, <1>2, <1>4, ToRegisterSound
<1>5. CASE i.op \in {"immediate", "extended"}
  BY Zenon, <1>1, <1>2, <1>5, ImmediateOperationSound, ExtendedSound
<1>6. CASE i.op \in {"quick", "one operand"}
  BY Zenon, <1>1, <1>2, <1>6, QuickSound, OneOperandSound
<1>7. CASE i.op = "shift"
  BY Zenon, <1>1, <1>2, <1>7, ShiftSound
<1> QED BY Zenon, <1>3, <1>4, <1>5, <1>6, <1>7

LEMMA ComparisonsAndProducts ==
  ASSUME NEW u, NEW c, Calm(u, c), NEW i, Encoded(i), i.op # "byte"
  PROVE  /\ i.op = "to address register" => Sound(u, ToAddressRegister(c, i))
         /\ i.op = "CMPM"  => Sound(u, CompareMemory(c, i))
         /\ i.op = "TST"   => Sound(u, Test(c, i))
         /\ i.op = "multiply" => Sound(u, Multiply(c, i))
         /\ i.op = "divide"   => Sound(u, Divide(c, i))
         /\ i.op = "EXG"   => Sound(u, Exchange(c, i))
         /\ i.op = "Scc"   => Sound(u, SetOnCondition(c, i))
         /\ i.op = "bit"   => Sound(u, BitOperation(c, i))
<1>1. /\ i.op \in {"to address register", "CMPM", "TST", "multiply", "divide", "EXG", "Scc", "bit"} =>
           i.reg \in Registers8
      /\ i.op \in {"to address register", "TST", "multiply", "divide"} => i.mode \in Registers8
      /\ i.op \in {"to address register", "CMPM", "multiply", "divide", "EXG"} => i.dreg \in Registers8
  BY Zenon, OperandsOfOthers DEF OfRegister, OfOperand, OfTwoRegisters
<1>2. i.op = "bit" => /\ i.kind \in {"BTST", "BCHG", "BCLR", "BSET"}
                      /\ ~ i.immediate => i.dreg \in Registers8
  BY Zenon, FieldsOfOthers
<1>3. CASE i.op \in {"to address register", "TST"}
  BY Zenon, <1>1, <1>3, ToAddressSound, TestSound
<1>4. CASE i.op \in {"multiply", "divide"}
  BY Zenon, <1>1, <1>4, MultiplySound, DivideSound
<1>5. CASE i.op \in {"CMPM", "EXG", "Scc"}
  BY Zenon, <1>1, <1>5, CompareMemorySound, ExchangeSound, ConditionByteSound
<1>6. CASE i.op = "bit"
  BY Zenon, <1>1, <1>2, <1>6, BitSound
<1> QED BY Zenon, <1>3, <1>4, <1>5, <1>6

LEMMA SupervisorInstructions ==
  ASSUME NEW u, NEW c, Calm(u, c), NEW i, Encoded(i), i.op # "byte"
  PROVE  /\ i.op = "logical to status" => Sound(u, LogicalToStatus(c, i))
         /\ i.op = "MOVE to USP"   => Sound(u, MoveToUsp(c, i))
         /\ i.op = "MOVE from USP" => Sound(u, MoveFromUsp(c, i))
         /\ i.op \in {"MOVE to SR", "MOVE to CCR"} => Sound(u, MoveStatus(c, i))
         /\ i.op = "MOVE from SR"  => Sound(u, MoveFromSR(c, i))
         /\ i.op = "RTE"   => Sound(u, Rte(c))
         /\ i.op = "STOP"  => Sound(u, Stop(c))
         /\ i.op = "TRAP"  => Sound(u, Trap(c, i))
         /\ i.op = "LINE-F" => Sound(u, LineF(c))
         /\ i.op = "MOVEC" => Sound(u, IllegalOp(c))
         /\ i.op = "RESET" => Sound(u, ResetDevices(c))
<1>1. /\ i.op \in {"MOVE to USP", "MOVE from USP", "MOVE to SR", "MOVE to CCR", "MOVE from SR"} =>
           i.reg \in Registers8
      /\ i.op \in {"MOVE to SR", "MOVE to CCR", "MOVE from SR"} => i.mode \in Registers8
  BY Zenon, OperandsOfOthers DEF OfRegister, OfOperand
<1>2. /\ i.op = "TRAP"  => i.byte \in 0 .. 15
      /\ i.op = "logical to status" => i.kind \in {"AND", "OR", "EOR"}
  BY Zenon, FieldsOfOthers
<1>3. i.op = "RESET" => Sound(u, ResetDevices(c))
  <2>1. 0 \in Registers8
    BY SMT DEF Registers8
  <2>2. [reg |-> 0].reg \in Registers8
    BY <2>1
  <2> QED BY Zenon, <2>2, UserPointerSound
<1>4. CASE i.op \in {"MOVE to USP", "MOVE from USP"}
  BY Zenon, <1>1, <1>4, UserPointerSound
<1>5. CASE i.op \in {"MOVE to SR", "MOVE to CCR"}
  BY Zenon, <1>1, <1>5, MoveStatusSound
<1>6. CASE i.op = "MOVE from SR"
  BY Zenon, <1>1, <1>6, FromStatusSound
<1>7. CASE i.op \in {"TRAP", "LINE-F", "MOVEC"}
  BY Zenon, <1>2, <1>7, TrapSound
<1>8. CASE i.op = "logical to status"
  <2>1. i.kind \in {"AND", "OR", "EOR"}
    BY Zenon, <1>2, <1>8
  <2>2. Sound(u, LogicalToStatus(c, i))
    BY <2>1, LogicalToStatusSound
  <2> QED BY Zenon, <1>8, <2>2
<1>9. Sound(u, Rte(c)) /\ Sound(u, Stop(c))
  BY Zenon, ReturnFromExceptionSound, StopSound
<1> QED BY Zenon, <1>3, <1>4, <1>5, <1>6, <1>7, <1>8, <1>9

LEMMA ExecutedSound ==
  ASSUME NEW u, NEW c, Calm(u, c), NEW i, Encoded(i)
  PROVE  Sound(u, Executed(c, i))
<1>1. CASE i.op = "byte"
  BY Zenon, <1>1, ByteSound DEF Executed
<1>2. CASE i.op # "byte"
  <2>1. Sound(u, Fail(c))
    BY Zenon, FailCalm, CalmIsSound
  <2> QED BY Zenon, <1>2, <2>1, RegistersAndJumps, MovesAndSums, ComparisonsAndProducts,
             SupervisorInstructions DEF Executed
<1> QED BY Zenon, <1>1, <1>2

-----------------------------------------------------------------------------
(* The processor in the machine. *)

LEMMA CalmAtTheBeginning ==
  ASSUME NEW c, Typed(c)
  PROVE  Calm(c, Begin(c)) /\ Calm(c, Fail(c))
<1>1. Shape(c) /\ Status(c.sr)
  BY Zenon, TypedContext
<1>2. ASSUME NEW v PROVE Typed([c EXCEPT !.at = v]) /\ Same(c, [c EXCEPT !.at = v])
  BY SMT, <1>1 DEF Typed, Shape, Fields, TypedRegisters, TypedPipeline, TypedMemory, Same
<1>3. [c EXCEPT !.at = "running"].at = "running" /\ [c EXCEPT !.at = "failed"].at = "failed"
  BY SMT, <1>1 DEF Shape, Fields
<1> QED BY Zenon, <1>1, <1>2, <1>3 DEF Calm, Begin, Fail

LEMMA EndedState ==
  ASSUME NEW c, Typed(c)
  PROVE  /\ Typed(Ended(c)) /\ Ended(c).at \in {"ready", "failed"}
         /\ Ended(c).at = "failed" => c.at = "failed"
         /\ Ended(c).ssp = c.ssp /\ Ended(c).sr = c.sr /\ Ended(c).ram = c.ram
         /\ Ended(c).prefetch = c.prefetch
<1>1. Shape(c)
  BY Zenon, TypedContext
<1>2. ASSUME NEW v PROVE Typed([c EXCEPT !.at = v])
  BY SMT, <1>1 DEF Typed, Shape, Fields, TypedRegisters, TypedPipeline, TypedMemory
<1>3. ASSUME NEW v PROVE /\ [c EXCEPT !.at = v].at = v /\ [c EXCEPT !.at = v].ssp = c.ssp
                         /\ [c EXCEPT !.at = v].sr = c.sr /\ [c EXCEPT !.at = v].ram = c.ram
                         /\ [c EXCEPT !.at = v].prefetch = c.prefetch
  BY SMT, <1>1 DEF Shape, Fields
<1>4. "ready" # "failed"
  OBVIOUS
<1>5. CASE c.at = "failed"
  <2>1. Ended(c) = [c EXCEPT !.at = "failed"]
    BY Zenon, <1>5 DEF Ended
  <2> QED BY Zenon, <1>2, <1>3, <1>5, <2>1
<1>6. CASE c.at # "failed"
  <2>1. Ended(c) = [c EXCEPT !.at = "ready"]
    BY Zenon, <1>6 DEF Ended
  <2>2. Ended(c).at = "ready"
    BY <1>3, <2>1
  <2>3. Ended(c).at # "failed"
    BY <1>4, <2>2
  <2>4. /\ Typed(Ended(c)) /\ Ended(c).ssp = c.ssp /\ Ended(c).sr = c.sr /\ Ended(c).ram = c.ram
        /\ Ended(c).prefetch = c.prefetch
    <3> DEFINE e == [c EXCEPT !.at = "ready"]
    <3>1. /\ Typed(e) /\ e.ssp = c.ssp /\ e.sr = c.sr /\ e.ram = c.ram /\ e.prefetch = c.prefetch
      BY Zenon, <1>2, <1>3
    <3> HIDE DEF e
    <3>2. Ended(c) = e
      BY <2>1 DEF e
    <3> QED BY Zenon, <3>1, <3>2
  <2> QED BY <2>2, <2>3, <2>4
<1> QED BY <1>5, <1>6

LEMMA HandledBy ==
  ASSUME NEW u, NEW c, Handled(u, c), NEW d,
         d.ssp = c.ssp, d.ram = c.ram, d.prefetch = c.prefetch
  PROVE  Handled(u, d)
  BY Zenon, SameMemory DEF Handled

LEMMA AcceptedSound ==
  ASSUME Typed(cpu), NEW level \in 0 .. 7, NEW vector \in 2 .. 255
  PROVE  Sound(cpu, Accepted(cpu, level, vector))
<1> DEFINE e == StandardException(Begin(cpu), vector, AcceptedPC(cpu))
           woken == [e EXCEPT !.sr = WithMask(e.sr, level), !.stopped = FALSE]
<1>1. Accepted(cpu, level, vector) = IF e.at = "trapped" THEN woken ELSE e
  BY DEF Accepted
<1>2. Calm(cpu, Begin(cpu))
  BY Zenon, CalmAtTheBeginning
<1>3. AcceptedPC(cpu) \in Longs
  BY Zenon, TypedContext, Added DEF AcceptedPC
<1>4. Sound(cpu, e)
  BY Zenon, <1>2, <1>3, CalmIsSound, ExceptionSound
<1> HIDE DEF e
<1>5. CASE e.at = "trapped"
  <2>1. Typed(e) /\ (~ Supervisor(cpu) => Handled(cpu, e)) /\ Shape(e) /\ Status(e.sr)
    <3>1. Typed(e)
      BY Zenon, <1>4, SoundIsTyped
    <3>2. "trapped" \notin {"running", "failed"}
      OBVIOUS
    <3> QED BY Zenon, <1>4, <1>5, <3>1, <3>2, TypedContext DEF Sound, Calm
  <2>2. Status(WithMask(e.sr, level))
    BY Zenon, <2>1, StatusKept
  <2> DEFINE x == WithMask(e.sr, level)
  <2> HIDE DEF x
  <2>3. ASSUME NEW y, Status(y) PROVE Typed([e EXCEPT !.sr = y, !.stopped = FALSE])
    BY SMT, <2>1, <2>3 DEF Typed, Shape, Fields, TypedRegisters, TypedPipeline, TypedMemory
  <2>4. ASSUME NEW y
        PROVE  LET w == [e EXCEPT !.sr = y, !.stopped = FALSE]
               IN w.at = e.at /\ w.ssp = e.ssp /\ w.ram = e.ram /\ w.prefetch = e.prefetch
    BY SMT, <2>1 DEF Shape, Fields
  <2>5. Typed(woken) /\ woken.at = "trapped"
    BY Zenon, <1>5, <2>2, <2>3, <2>4
  <2>6. ~ Supervisor(cpu) => Handled(cpu, woken)
    BY Zenon, <2>1, <2>4, HandledBy
  <2> HIDE DEF woken
  <2>7. Sound(cpu, woken)
    BY Zenon, <2>5, <2>6 DEF Sound
  <2> QED BY Zenon, <1>1, <1>5, <2>7
<1>6. CASE e.at # "trapped"
  BY Zenon, <1>1, <1>4, <1>6
<1> QED BY <1>5, <1>6

(* A machine that has just been made. *)
LEMMA NewTyped ==
  ASSUME Context
  PROVE  Typed(NewCpu) /\ NewCpu.at = "off"
<1>1. /\ NewCpu.d = [n \in 0 .. 7 |-> 0] /\ NewCpu.a = [n \in 0 .. 6 |-> 0]
      /\ NewCpu.usp = 0 /\ NewCpu.ssp = 0 /\ NewCpu.sr = 0 /\ NewCpu.pc = 0
      /\ NewCpu.prefetch = <<0, 0>> /\ NewCpu.ram = [a \in Cells |-> 0] /\ NewCpu.at = "off"
  BY DEF NewCpu
<1>2. Shape(NewCpu)
  BY SMT DEF Shape, Fields, NewCpu
<1>3. 0 \in Longs /\ 0 \in WordValues
  BY CpuAssumption DEF Longs, WordValues
<1>4. TypedRegisters(NewCpu)
  BY <1>1, <1>3 DEF TypedRegisters
<1>5. TypedPipeline(NewCpu)
  BY <1>1, <1>3 DEF TypedPipeline
<1>6. TypedMemory(NewCpu)
  BY <1>1, <1>3 DEF TypedMemory
<1>7. Status(NewCpu.sr)
  <2>1. Status(0)
    BY SMT, FirstStatus
  <2> QED BY Zenon, <1>1, <2>1
<1> QED BY Zenon, <1>1, <1>2, <1>4, <1>5, <1>6, <1>7 DEF Typed

LEMMA ResetTyped ==
  ASSUME Context
  PROVE  Typed(ResetCpu(NewCpu))
<1> DEFINE first == 9984
           u == [sr |-> first]
           start == LongAt(NewCpu, 4)
           b == Begin(NewCpu)
           s == Reads(Reads(b, 6, {0, 2, 4, 6}), 6, {start, start + 2})
           ssp == LongAt(NewCpu, 0)
           t == FetchFrom(s, start)
           started == [t EXCEPT !.ssp = ssp, !.sr = first, !.stopped = FALSE]
<1>1. ResetCpu(NewCpu) = Commit(s, started)
  BY DEF ResetCpu
<1>2. Status(u.sr) /\ Supervisor(u) /\ Status(first)
  BY SMT, FirstStatus DEF Supervisor
<1>3. start \in Longs /\ ssp \in Longs
  <2>1. 0 \in Int /\ 4 \in Int
    OBVIOUS
  <2> QED BY Zenon, <2>1, NewTyped, LongRead
<1>4. Calm(u, b)
  <2>1. Calm(NewCpu, b)
    BY Zenon, NewTyped, CalmAtTheBeginning
  <2> HIDE DEF b, u, first
  <2> QED BY Zenon, <1>2, <2>1 DEF Calm
<1> HIDE DEF b, u, ssp, start, first
<1>5. Calm(u, s)
  BY Zenon, <1>4, CalmIsSound, ReadSound
<1> HIDE DEF s
<1>6. Calm(u, t)
  <2>1. Add(start, 2) \in Longs
    BY Zenon, <1>3, Added
  <2>2. Add(Add(start, 2), 2) \in Longs
    BY Zenon, <2>1, Added
  <2> QED BY Zenon, <1>3, <1>5, <2>1, <2>2, PipelineChanged DEF FetchFrom
<1> HIDE DEF t
<1>7. Calm(u, [t EXCEPT !.ssp = ssp])
  BY Zenon, <1>2, <1>3, <1>6, StateChanged
<1>8. Calm(u, [[t EXCEPT !.ssp = ssp] EXCEPT !.sr = first])
  BY Zenon, <1>2, <1>7, StateChanged
<1>9. Calm(u, [[[t EXCEPT !.ssp = ssp] EXCEPT !.sr = first] EXCEPT !.stopped = FALSE])
  BY Zenon, <1>8, StateChanged
<1>10. [[[t EXCEPT !.ssp = ssp] EXCEPT !.sr = first] EXCEPT !.stopped = FALSE] = started
  OBVIOUS
<1>11. Calm(u, started)
  BY <1>9, <1>10
<1> HIDE DEF started
<1>12. Calm(u, Commit(s, started))
  BY Zenon, <1>5, <1>11, CalmIsSound, CommitSound
<1> QED BY Zenon, <1>1, <1>12, CalmContext

-----------------------------------------------------------------------------
(* The steps of the machine. *)

(* What lies behind the program is no instruction. *)
LEMMA OpcodeSound ==
  ASSUME NEW u, NEW c, Calm(u, c)
  PROVE  Sound(u, Executed(c, Opcode))
<1> DEFINE i == Opcode
<1>1. Sound(u, Fail(c)) /\ Context
  BY Zenon, FailCalm, CalmIsSound DEF Typed
<1>2. i.op = "word" \/ Encoded(i)
  <2>1. CASE BusAddress(cpu.prefetch[1]) \in DOMAIN Words
    BY Zenon, <1>1, <2>1, InstructionAssumption DEF Opcode, Instruction, Words, Context
  <2>2. CASE BusAddress(cpu.prefetch[1]) \notin DOMAIN Words
    BY <2>2 DEF Opcode, Instruction
  <2> QED BY Zenon, <2>1, <2>2
<1> HIDE DEF i
<1>3. CASE i.op = "word"
  <2>1. Executed(c, i) = Fail(c)
    BY Zenon, <1>3 DEF Executed
  <2> QED BY Zenon, <1>1, <2>1 DEF i
<1>4. CASE Encoded(i)
  BY Zenon, <1>4, ExecutedSound DEF i
<1> QED BY Zenon, <1>2, <1>3, <1>4

LEMMA InterruptsBounded ==
  /\ \A g \in DOMAIN Guests : Guests[g].interrupts \in Nat
  /\ \A l \in Levels : l.level \in 0 .. 7 /\ l.vector \in 2 .. 255
<1>1. \A l \in Levels : l.level \in 1 .. 6 /\ l.vector \in 2 .. 255
  BY CpuAssumption
<1>2. \A g \in DOMAIN Guests : Guests[g].interrupts \in Nat
  BY CpuAssumption
<1> QED BY <1>1, <1>2

(* Whatever step the machine takes, what becomes of the processor is sound. *)
LEMMA StepSound ==
  ASSUME Typed(cpu), Step
  PROVE  On /\ guest' = guest /\ \E n : Sound(cpu, n) /\ cpu' = Ended(n)
<1>1. Calm(cpu, Begin(cpu)) /\ Calm(cpu, Fail(cpu))
  BY Zenon, CalmAtTheBeginning
<1>2. CASE Execute
  BY Zenon, <1>1, <1>2, OpcodeSound DEF Execute
<1>3. ASSUME NEW l \in Levels, Interrupt(l.level, l.vector)
      PROVE  On /\ guest' = guest /\ \E n : Sound(cpu, n) /\ cpu' = Ended(n)
  <2>1. l.level \in 0 .. 7 /\ l.vector \in 2 .. 255
    BY InterruptsBounded
  <2>2. Sound(cpu, Accepted(cpu, l.level, l.vector))
    BY <2>1, AcceptedSound
  <2> QED BY Zenon, <1>3, <2>2 DEF Interrupt
<1>4. CASE StayStopped
  BY Zenon, <1>1, <1>4, CalmIsSound DEF StayStopped
<1> QED BY Zenon, <1>2, <1>3, <1>4 DEF Step

LEMMA TypedNext ==
  ASSUME NEW c, Typed(c), cpu' = c, guest' = guest
  PROVE  Typed(cpu)'
  BY Zenon DEF Typed, Context, TypedMemory, Cells

TypedFrames == \E S : frames \in Seq(S) /\ \A f \in S : f.interrupt \in BOOLEAN

LEMMA FrameAdded ==
  ASSUME NEW S, NEW s \in Seq(S), \A f \in S : f.interrupt \in BOOLEAN, NEW c, NEW b \in BOOLEAN
  PROVE  \E T : <<Frame(c, b)>> \o s \in Seq(T) /\ \A f \in T : f.interrupt \in BOOLEAN
<1> DEFINE x == Frame(c, b)
<1>1. x.interrupt \in BOOLEAN
  BY DEF Frame
<1> HIDE DEF x
<1> DEFINE T == S \cup {x}
<1>2. \A f \in T : f.interrupt \in BOOLEAN
  BY Zenon, <1>1
<1>3. s \in Seq(T) /\ <<x>> \in Seq(T)
  OBVIOUS
<1> HIDE DEF T
<1>4. <<x>> \o s \in Seq(T)
  BY <1>3
<1> QED BY Zenon, <1>2, <1>4 DEF x

LEMMA FramesStep ==
  ASSUME TypedFrames, Step
  PROVE  TypedFrames'
<1>1. PICK S : frames \in Seq(S) /\ \A f \in S : f.interrupt \in BOOLEAN
  BY DEF TypedFrames
<1>2. CASE Execute
  <2>1. PICK c \in {Begin(cpu)}, i \in {Opcode} : \E n \in {Executed(c, i)} :
          LET open == IF TakesFrame(n) /\ frames # << >> THEN Tail(frames) ELSE frames
          IN frames' = IF n.at = "trapped" THEN <<Frame(cpu, FALSE)>> \o open ELSE open
    BY <1>2 DEF Execute
  <2>2. PICK n :
          LET open == IF TakesFrame(n) /\ frames # << >> THEN Tail(frames) ELSE frames
          IN frames' = IF n.at = "trapped" THEN <<Frame(cpu, FALSE)>> \o open ELSE open
    BY <2>1
  <2> DEFINE open == IF TakesFrame(n) /\ frames # << >> THEN Tail(frames) ELSE frames
  <2>3. frames' = IF n.at = "trapped" THEN <<Frame(cpu, FALSE)>> \o open ELSE open
    BY <2>2
  <2>4. open \in Seq(S)
    <3>1. frames # << >> => Tail(frames) \in Seq(S)
      BY <1>1
    <3> QED BY Zenon, <1>1, <3>1
  <2> HIDE DEF open
  <2>5. FALSE \in BOOLEAN
    OBVIOUS
  <2> QED BY Zenon, <1>1, <2>3, <2>4, <2>5, FrameAdded DEF TypedFrames
<1>3. ASSUME NEW l \in Levels, Interrupt(l.level, l.vector) PROVE TypedFrames'
  <2>1. TRUE \in BOOLEAN
    OBVIOUS
  <2>2. frames' = frames \/ frames' = <<Frame(cpu, TRUE)>> \o frames
    BY Zenon, <1>3 DEF Interrupt
  <2>3. \E T : <<Frame(cpu, TRUE)>> \o frames \in Seq(T) /\ \A f \in T : f.interrupt \in BOOLEAN
    BY <1>1, <2>1, FrameAdded
  <2>4. \E T : frames' \in Seq(T) /\ \A f \in T : f.interrupt \in BOOLEAN
    BY Zenon, <1>1, <2>2, <2>3
  <2> QED BY <2>4 DEF TypedFrames
<1>4. CASE StayStopped
  BY Zenon, <1>4 DEF StayStopped, TypedFrames
<1> QED BY Zenon, <1>2, <1>3, <1>4 DEF Step

(* The processor, its frames and its interrupts are what they are said to   *)
(* be, and the processor is off, ready or failed between steps.            *)
CpuInv ==
  /\ Typed(cpu) /\ cpu.at \in {"off", "ready", "failed"} /\ TypedFrames
  /\ arrivals \in 0 .. Guests[guest].interrupts

LEMMA CpuBegins == ASSUME Width PROVE CpuInit => CpuInv
<1> SUFFICES ASSUME CpuInit PROVE CpuInv
  OBVIOUS
<1>1. Context
  BY Zenon DEF CpuInit, Context
<1>2. Typed(cpu) /\ cpu.at = "off"
  BY Zenon, <1>1, NewTyped DEF CpuInit
<1>3. TypedFrames
  <2>1. frames \in Seq({})
    BY DEF CpuInit
  <2>2. \A f \in {} : f.interrupt \in BOOLEAN
    OBVIOUS
  <2> QED BY <2>1, <2>2 DEF TypedFrames
<1>4. arrivals \in 0 .. Guests[guest].interrupts
  <2>1. Guests[guest].interrupts \in Nat
    BY <1>1, InterruptsBounded DEF Context
  <2> QED BY <2>1 DEF CpuInit
<1> QED BY Zenon, <1>2, <1>3, <1>4 DEF CpuInv

LEMMA StepTyped == CpuInv /\ Step => CpuInv' /\ On'
<1> SUFFICES ASSUME CpuInv, Step PROVE CpuInv' /\ On'
  OBVIOUS
<1>1. PICK n : Sound(cpu, n) /\ cpu' = Ended(n) /\ guest' = guest
  BY Zenon, StepSound DEF CpuInv
<1>2. Typed(cpu)' /\ cpu'.at \in {"ready", "failed"}
  BY Zenon, <1>1, SoundIsTyped, EndedState, TypedNext
<1>3. TypedFrames'
  BY Zenon, FramesStep DEF CpuInv
<1>4. arrivals' \in 0 .. Guests[guest].interrupts
  <2>1. Guests[guest].interrupts \in Nat /\ arrivals \in 0 .. Guests[guest].interrupts
    <3>1. guest \in DOMAIN Guests /\ arrivals \in 0 .. Guests[guest].interrupts
      BY Zenon DEF CpuInv, Typed, Context
    <3> QED BY <3>1, InterruptsBounded
  <2>2. CASE arrivals' = arrivals
    BY <2>1, <2>2
  <2>3. CASE arrivals' = arrivals + 1 /\ arrivals < Guests[guest].interrupts
    BY <2>1, <2>3
  <2> QED BY Zenon, <2>2, <2>3 DEF Step, Execute, Interrupt, StayStopped
<1> QED BY Zenon, <1>1, <1>2, <1>3, <1>4 DEF CpuInv, On

LEMMA PowerTyped == CpuInv /\ (PowerOn \/ PowerOff) => CpuInv'
<1> SUFFICES ASSUME CpuInv, PowerOn \/ PowerOff PROVE CpuInv'
  OBVIOUS
<1>1. Context
  BY Zenon DEF CpuInv, Typed
<1>2. CASE PowerOn
  <2>1. guest' = guest /\ frames' = frames /\ arrivals' = arrivals
    BY Zenon, <1>2 DEF PowerOn
  <2>2. cpu' = cpu \/ cpu' = Ended(ResetCpu(NewCpu))
    BY Zenon, <1>2 DEF PowerOn
  <2>3. Typed(cpu)' /\ cpu'.at \in {"off", "ready", "failed"}
    <3>1. Typed(cpu) /\ cpu.at \in {"off", "ready", "failed"}
      BY Zenon DEF CpuInv
    <3>2. Typed(Ended(ResetCpu(NewCpu))) /\ Ended(ResetCpu(NewCpu)).at \in {"ready", "failed"}
      BY Zenon, <1>1, ResetTyped, EndedState
    <3> QED BY Zenon, <2>1, <2>2, <3>1, <3>2, TypedNext
  <2> QED BY Zenon, <2>1, <2>3 DEF CpuInv, TypedFrames
<1>3. CASE PowerOff
  <2>1. cpu' = NewCpu /\ guest' = guest /\ frames' = << >> /\ arrivals' = arrivals
    BY Zenon, <1>3 DEF PowerOff
  <2>2. Typed(cpu)' /\ cpu'.at = "off"
    BY Zenon, <1>1, <2>1, NewTyped, TypedNext
  <2>3. frames' \in Seq({})
    BY <2>1
  <2>4. TypedFrames'
    <3>1. \A f \in {} : f.interrupt \in BOOLEAN
      OBVIOUS
    <3> QED BY <2>3, <3>1 DEF TypedFrames
  <2> QED BY Zenon, <2>1, <2>2, <2>4 DEF CpuInv
<1> QED BY <1>2, <1>3

LEMMA CpuTyped == CpuInv => CpuTypeOK
<1> SUFFICES ASSUME CpuInv PROVE CpuTypeOK
  OBVIOUS
<1>1. /\ guest \in DOMAIN Guests
      /\ cpu.d \in [0 .. 7 -> Longs] /\ cpu.a \in [0 .. 6 -> Longs]
      /\ cpu.usp \in Longs /\ cpu.ssp \in Longs /\ cpu.pc \in Longs
      /\ cpu.sr = Implemented(cpu.sr)
      /\ cpu.ram \in [Cells -> WordValues]
  BY Zenon, TypedContext DEF CpuInv, Typed, Context, Status
<1>2. DOMAIN cpu.ram = Cells /\ \A a \in Cells : cpu.ram[a] \in WordValues
  BY <1>1
<1>3. \A n \in DOMAIN frames : frames[n].interrupt \in BOOLEAN
  <2>1. PICK S : frames \in Seq(S) /\ \A f \in S : f.interrupt \in BOOLEAN
    BY Zenon DEF CpuInv, TypedFrames
  <2>2. \A n \in DOMAIN frames : frames[n] \in S
    BY <2>1
  <2> QED BY Zenon, <2>1, <2>2
<1>4. {cpu.usp, cpu.ssp, cpu.pc} \subseteq Longs
  BY Zenon, <1>1
<1>5. \A a \in Cells : cpu.ram[a] \in WordRange
  BY Zenon, <1>2, WordsAreWhole
<1> QED BY Zenon, <1>1, <1>2, <1>3, <1>4, <1>5 DEF CpuTypeOK, CpuInv

-----------------------------------------------------------------------------
(* What a step may not do to a program in user mode. *)

LEMMA StepKeepsUser ==
  ASSUME Typed(cpu), ~ Supervisor(cpu), Step
  PROVE  /\ Supervisor(cpu') => Handled(cpu, cpu')
         /\ cpu'.at = "failed" => Same(cpu, cpu')
<1>1. PICK n : Sound(cpu, n) /\ cpu' = Ended(n)
  BY Zenon, StepSound
<1>2. /\ cpu'.at = "failed" => n.at = "failed"
      /\ cpu'.ssp = n.ssp /\ cpu'.sr = n.sr /\ cpu'.ram = n.ram /\ cpu'.prefetch = n.prefetch
  BY Zenon, <1>1, SoundIsTyped, EndedState
<1>3. Supervisor(cpu') <=> Supervisor(n)
  BY <1>2 DEF Supervisor
<1>4. ASSUME Calm(cpu, n) PROVE ~ Supervisor(n) /\ Same(cpu, n)
  BY Zenon, <1>4, UserStays DEF Calm
<1>5. CASE Calm(cpu, n)
  <2>1. ~ Supervisor(cpu') /\ Same(cpu, cpu')
    BY Zenon, <1>2, <1>3, <1>4, <1>5 DEF Same
  <2> QED BY Zenon, <2>1
<1>6. CASE n.at = "trapped" /\ Handled(cpu, n)
  <2>1. cpu'.at # "failed"
    BY Zenon, <1>2, <1>6
  <2>2. Handled(cpu, cpu')
    BY Zenon, <1>2, <1>6, HandledBy
  <2> QED BY Zenon, <2>1, <2>2
<1> QED BY Zenon, <1>1, <1>5, <1>6 DEF Sound

=============================================================================
