--------------------------------- MODULE Alu ---------------------------------
(***************************************************************************)
(* The arithmetic of internal/m68k/cpu.go: values, results and condition   *)
(* codes.  An operand of b bits is a number below size = 2^b; the sign bit *)
(* is that it lies in the upper half.  The flags X, N, Z, V and C are a    *)
(* record of Booleans; an operation gives a value and the flags after it.  *)
(***************************************************************************)
EXTENDS Integers

Negative(x, size) == x >= size \div 2
Signed(x, size)   == IF Negative(x, size) THEN x - size ELSE x

Flags(sr) ==
  [c |-> sr % 2 = 1, v |-> (sr \div 2) % 2 = 1, z |-> (sr \div 4) % 2 = 1,
   n |-> (sr \div 8) % 2 = 1, x |-> (sr \div 16) % 2 = 1]

WithFlags(sr, f) ==
  LET At(b, weight) == IF b THEN weight ELSE 0
  IN (32 * (sr \div 32)) + At(f.x, 16) + At(f.n, 8) + At(f.z, 4) + At(f.v, 2) + At(f.c, 1)

Outcome(value, flags) == [value |-> value, flags |-> flags]

(* Negative and zero from the result, the others given. *)
ResultFlags(r, size, x, v, c) ==
  [x |-> x, n |-> Negative(r, size), z |-> r = 0, v |-> v, c |-> c]

-----------------------------------------------------------------------------
(* Conditions 2 to 15 of Bcc, DBcc and Scc: an even one and its opposite.   *)

EvenCondition(condition, f) ==
  CASE condition \div 2 = 1 -> ~ f.c /\ ~ f.z
    [] condition \div 2 = 2 -> ~ f.c
    [] condition \div 2 = 3 -> ~ f.z
    [] condition \div 2 = 4 -> ~ f.v
    [] condition \div 2 = 5 -> ~ f.n
    [] condition \div 2 = 6 -> f.n = f.v
    [] condition \div 2 = 7 -> ~ f.z /\ f.n = f.v

BranchCondition(condition, sr) ==
  condition >= 2 /\ (EvenCondition(condition, Flags(sr)) <=> condition % 2 = 0)

(* DBcc, Bcc and Scc know the condition "true", too. *)
Holds(condition, sr) == condition = 0 \/ BranchCondition(condition, sr)

-----------------------------------------------------------------------------
(* Addition, subtraction and logic; f are the flags before.                *)

LogicalFlags(r, size, f) == ResultFlags(r, size, f.x, FALSE, FALSE)

(* Equal signs that the result does not have, and different signs of which *)
(* the result does not have the first.                                     *)
AdditionOverflows(d, s, r, size) ==
  Negative(d, size) = Negative(s, size) /\ Negative(d, size) # Negative(r, size)

SubtractionOverflows(d, s, r, size) ==
  Negative(d, size) # Negative(s, size) /\ Negative(d, size) # Negative(r, size)

AdditionFlags(d, s, r, size) ==
  LET carry == s > size - 1 - d
  IN ResultFlags(r, size, carry, AdditionOverflows(d, s, r, size), carry)

CompareFlags(d, s, size, x) ==
  LET r == (d - s) % size
  IN ResultFlags(r, size, x, SubtractionOverflows(d, s, r, size), s > d)

Sum(d, s, size) == Outcome((d + s) % size, AdditionFlags(d, s, (d + s) % size, size))

Difference(d, s, size) == Outcome((d - s) % size, CompareFlags(d, s, size, s > d))

(* ADDX and SUBX: the carry from the sign bits, and Z only ever cleared.    *)
ExtendedFlags(r, size, v, carry, f) ==
  [ResultFlags(r, size, carry, v, carry) EXCEPT !.z = r = 0 /\ f.z]

Extend(f) == IF f.x THEN 1 ELSE 0

ExtendedSum(d, s, size, f) ==
  LET r  == (d + s + Extend(f)) % size
      nd == Negative(d, size)
      ns == Negative(s, size)
      carry == (nd /\ ns) \/ (~ Negative(r, size) /\ (nd \/ ns))
  IN Outcome(r, ExtendedFlags(r, size, AdditionOverflows(d, s, r, size), carry, f))

ExtendedDifference(d, s, size, f) ==
  LET r  == (d - s - Extend(f)) % size
      nd == Negative(d, size)
      ns == Negative(s, size)
      borrow == (~ nd /\ ns) \/ (Negative(r, size) /\ (~ nd \/ ns))
  IN Outcome(r, ExtendedFlags(r, size, SubtractionOverflows(d, s, r, size), borrow, f))

(* The bitwise operations, bit by bit. *)
And(x, y) ==
  LET Both[p \in (0 .. x) \X (0 .. y)] ==
        IF p[1] = 0 \/ p[2] = 0 THEN 0
        ELSE (2 * Both[<<p[1] \div 2, p[2] \div 2>>])
             + (IF p[1] % 2 = 1 /\ p[2] % 2 = 1 THEN 1 ELSE 0)
  IN Both[<<x, y>>]

LogicalValue(kind, d, s) ==
  CASE kind = "AND" -> And(d, s)
    [] kind = "OR"  -> (d + s) - And(d, s)
    [] kind = "EOR" -> (d + s) - (2 * And(d, s))

Logical(r, size, f) == Outcome(r, LogicalFlags(r, size, f))

-----------------------------------------------------------------------------
(* Shifts and rotations, one place at a time.  The sign that ASL loses on   *)
(* the way is an overflow, whatever the sign of the result.                *)

Rotates(kind) == kind \in {"ROL", "ROR"}

ShiftedRight(kind, p, size) ==
  LET carry == p.value % 2 = 1
      fill  == (kind = "ROR" /\ carry) \/ (kind = "ASR" /\ Negative(p.value, size))
  IN [value |-> (p.value \div 2) + (IF fill THEN size \div 2 ELSE 0),
      carry |-> carry, overflow |-> FALSE]

ShiftedLeft(kind, p, size) ==
  LET carry == Negative(p.value, size)
      r     == ((2 * p.value) % size) + (IF kind = "ROL" /\ carry THEN 1 ELSE 0)
  IN [value |-> r, carry |-> carry,
      overflow |-> p.overflow \/ (kind = "ASL" /\ Negative(r, size) # carry)]

ShiftedOnce(kind, p, size) ==
  IF kind \in {"ASR", "LSR", "ROR"} THEN ShiftedRight(kind, p, size) ELSE ShiftedLeft(kind, p, size)

Shifted(kind, value, count, size, f) ==
  LET After[n \in 0 .. 63] ==
        IF n = 0 THEN [value |-> value, carry |-> FALSE, overflow |-> FALSE]
        ELSE ShiftedOnce(kind, After[n - 1], size)
      end == After[count]
      x   == IF count = 0 \/ Rotates(kind) THEN f.x ELSE end.carry
  IN Outcome(end.value, ResultFlags(end.value, size, x, end.overflow, end.carry))

-----------------------------------------------------------------------------
(* What the two operands of an instruction become.                         *)

Operate(kind, d, s, size, f) ==
  CASE kind = "ADD"  -> Sum(d, s, size)
    [] kind = "SUB"  -> Difference(d, s, size)
    [] kind = "CMP"  -> Outcome(d, CompareFlags(d, s, size, f.x))
    [] kind = "ADDX" -> ExtendedSum(d, s, size, f)
    [] kind = "SUBX" -> ExtendedDifference(d, s, size, f)
    [] kind = "NEG"  -> Difference(0, d, size)
    [] kind = "NOT"  -> Logical(size - 1 - d, size, f)
    [] kind = "CLR"  -> Logical(0, size, f)
    [] kind = "STORE" -> Outcome(s, f)
    [] kind \in {"AND", "OR", "EOR"} -> Logical(LogicalValue(kind, d, s), size, f)
    [] OTHER -> Shifted(kind, d, s, size, f)

-----------------------------------------------------------------------------
(* Multiplication and division of words; a long has size values.           *)

Product(signed, d, s, size) ==
  IF signed THEN (Signed(d, 65536) * Signed(s, 65536)) % size ELSE (d * s) % size

(* Division truncates: the remainder has the sign of the dividend. *)
Magnitude(a) == IF a < 0 THEN -a ELSE a

Quotient(a, b) ==
  LET q == Magnitude(a) \div Magnitude(b) IN IF a < 0 <=> b < 0 THEN q ELSE -q

Remainder(a, b) == a - (b * Quotient(a, b))

Dividend(signed, x, size) == IF signed THEN Signed(x, size) ELSE x
Divisor(signed, w)        == IF signed THEN Signed(w, 65536) ELSE w

DivisionOverflows(signed, q) == IF signed THEN q < -32768 \/ q > 32767 ELSE q > 65535

(* The remainder above the quotient. *)
Divided(a, b, size) ==
  ((Remainder(a, b) % (size \div 65536)) * 65536) + (Quotient(a, b) % 65536)

=============================================================================
