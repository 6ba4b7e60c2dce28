---------------------------- MODULE Session_proof ----------------------------
(***************************************************************************)
(* Proofs about the processor under the session, for every guest program,  *)
(* every set of interrupts and every way the host slices its runs.         *)
(***************************************************************************)
EXTENDS Session, Cpu_proof

-----------------------------------------------------------------------------
(* Arithmetic: what the condition codes and the carries mean, whatever the  *)
(* width of the operands.                                                  *)

FlagRecords == [x : BOOLEAN, n : BOOLEAN, z : BOOLEAN, v : BOOLEAN, c : BOOLEAN]

LEMMA FlagsRead ==
  ASSUME NEW sr \in Nat, NEW f \in FlagRecords
  PROVE  Flags(WithFlags(sr, f)) = f
<1> DEFINE q == sr \div 32
           W(b, weight) == IF b THEN weight ELSE 0
           w == (32 * q) + W(f.x, 16) + W(f.n, 8) + W(f.z, 4) + W(f.v, 2) + W(f.c, 1)
<1>1. q \in Nat
  BY SMT
<1>2. WithFlags(sr, f) = w
  BY SMT DEF WithFlags
<1>3. f = [x |-> f.x, n |-> f.n, z |-> f.z, v |-> f.v, c |-> f.c] /\ {f.x, f.n, f.z, f.v, f.c} \subseteq BOOLEAN
  BY SMT DEF FlagRecords
<1> HIDE DEF q
<1>4. /\ (w % 2 = 1) <=> f.c
      /\ ((w \div 2) % 2 = 1) <=> f.v
  BY SMT, <1>1, <1>3
<1>5. /\ ((w \div 4) % 2 = 1) <=> f.z
      /\ ((w \div 8) % 2 = 1) <=> f.n
  BY SMTT(30), <1>1, <1>3
<1>6. ((w \div 16) % 2 = 1) <=> f.x
  BY SMT, <1>1, <1>3
<1> HIDE DEF w
<1> QED BY Zenon, <1>2, <1>3, <1>4, <1>5, <1>6 DEF Flags

(* After CMP the conditions are the comparisons of the operands, without    *)
(* and with their signs.                                                   *)
THEOREM ConditionsCompare ==
  ASSUME NEW half \in Nat \ {0}, NEW sr \in Nat, NEW x \in BOOLEAN,
         NEW d \in 0 .. (2 * half) - 1, NEW s \in 0 .. (2 * half) - 1
  PROVE  LET after == WithFlags(sr, CompareFlags(d, s, 2 * half, x))
         IN /\ Holds(2, after) <=> d > s
            /\ Holds(3, after) <=> d <= s
            /\ Holds(4, after) <=> d >= s
            /\ Holds(5, after) <=> d < s
            /\ Holds(6, after) <=> d # s
            /\ Holds(7, after) <=> d = s
            /\ Holds(12, after) <=> Signed(d, 2 * half) >= Signed(s, 2 * half)
            /\ Holds(13, after) <=> Signed(d, 2 * half) < Signed(s, 2 * half)
            /\ Holds(14, after) <=> Signed(d, 2 * half) > Signed(s, 2 * half)
            /\ Holds(15, after) <=> Signed(d, 2 * half) <= Signed(s, 2 * half)
<1> DEFINE size == 2 * half
           r == (d - s) % size
           f == CompareFlags(d, s, size, x)
           after == WithFlags(sr, f)
<1>1. size \div 2 = half /\ size \in Nat \ {0}
  BY SMT
<1>2. /\ d >= s => r = d - s
      /\ d < s => r = (d - s) + size
  <2>1. d - s \in Int /\ (d >= s => d - s \in 0 .. (size - 1)) /\ (d < s => d - s \in (-size) .. -1)
    BY SMT
  <2> HIDE DEF size
  <2>2. /\ d - s \in 0 .. (size - 1) => (d - s) % size = d - s
        /\ d - s \in (-size) .. -1 => (d - s) % size = (d - s) + size
    BY Zenon, <1>1, <2>1, Wrapped
  <2> QED BY SMT, <2>1, <2>2 DEF r
<1>3. f = [x |-> x, n |-> Negative(r, size), z |-> r = 0,
           v |-> SubtractionOverflows(d, s, r, size), c |-> s > d]
  BY SMT DEF CompareFlags, ResultFlags
<1> HIDE DEF r, size
<1>4. /\ f.c <=> s > d
      /\ f.z <=> d = s
      /\ (f.n <=> f.v) <=> Signed(d, size) >= Signed(s, size)
  <2>1. f.c = (s > d) /\ f.z = (r = 0) /\ f.n = Negative(r, size) /\ f.v = SubtractionOverflows(d, s, r, size)
    BY SMT, <1>3
  <2> HIDE DEF f
  <2>2. size = 2 * half
    BY DEF size
  <2>3. r = 0 <=> d = s
    BY SMT, <1>2, <2>2
  <2>4. (Negative(r, size) <=> SubtractionOverflows(d, s, r, size))
          <=> Signed(d, size) >= Signed(s, size)
    BY SMT, <1>1, <1>2, <2>2 DEF Negative, Signed, SubtractionOverflows
  <2> QED BY Zenon, <2>1, <2>3, <2>4
<1>5. f \in FlagRecords
  <2>1. Negative(r, size) \in BOOLEAN /\ SubtractionOverflows(d, s, r, size) \in BOOLEAN
    BY SMT DEF Negative, SubtractionOverflows
  <2> QED BY SMT, <1>3, <2>1 DEF FlagRecords
<1>6. Flags(after) = f
  BY SMT, <1>5, FlagsRead
<1>7. Signed(d, size) = Signed(s, size) <=> d = s
  BY SMT, <1>1 DEF Signed, Negative, size
<1> HIDE DEF f, after
<1>8. f.c \in BOOLEAN /\ f.z \in BOOLEAN /\ f.n \in BOOLEAN /\ f.v \in BOOLEAN
  BY SMT, <1>5 DEF FlagRecords
<1>9. Signed(d, size) \in Int /\ Signed(s, size) \in Int
  BY SMT, <1>1 DEF Signed, Negative, size
<1>10. /\ Holds(2, after) <=> ~ f.c /\ ~ f.z
       /\ Holds(3, after) <=> ~ (~ f.c /\ ~ f.z)
       /\ Holds(4, after) <=> ~ f.c
       /\ Holds(5, after) <=> f.c
       /\ Holds(6, after) <=> ~ f.z
       /\ Holds(7, after) <=> f.z
  BY SMT, <1>6, <1>8 DEF Holds, BranchCondition, EvenCondition
<1>11. /\ Holds(12, after) <=> (f.n <=> f.v)
       /\ Holds(13, after) <=> ~ (f.n <=> f.v)
       /\ Holds(14, after) <=> ~ f.z /\ (f.n <=> f.v)
       /\ Holds(15, after) <=> ~ (~ f.z /\ (f.n <=> f.v))
  BY SMT, <1>6, <1>8 DEF Holds, BranchCondition, EvenCondition
<1>12. /\ Holds(2, after) <=> d > s
       /\ Holds(3, after) <=> d <= s
       /\ Holds(4, after) <=> d >= s
       /\ Holds(5, after) <=> d < s
       /\ Holds(6, after) <=> d # s
       /\ Holds(7, after) <=> d = s
  BY SMT, <1>4, <1>10
<1>13. /\ Holds(12, after) <=> Signed(d, size) >= Signed(s, size)
       /\ Holds(13, after) <=> Signed(d, size) < Signed(s, size)
       /\ Holds(14, after) <=> Signed(d, size) > Signed(s, size)
       /\ Holds(15, after) <=> Signed(d, size) <= Signed(s, size)
  BY SMT, <1>4, <1>7, <1>9, <1>11
<1> QED BY Zenon, <1>12, <1>13 DEF size, after, f

(* What ADD and ADDX, SUB and SUBX leave in X with the value is the whole   *)
(* sum or difference, with what X held before; V tells that it is not the   *)
(* sum of the signed operands.                                             *)
THEOREM SumsAreWhole ==
  ASSUME NEW half \in Nat \ {0}, NEW f \in FlagRecords,
         NEW d \in 0 .. (2 * half) - 1, NEW s \in 0 .. (2 * half) - 1
  PROVE  LET o == ExtendedSum(d, s, 2 * half, f)
             signed == Signed(d, 2 * half) + Signed(s, 2 * half) + Extend(f)
         IN /\ o.value \in 0 .. (2 * half) - 1
            /\ o.value + (IF o.flags.x THEN 2 * half ELSE 0) = d + s + Extend(f)
            /\ o.flags.v <=> signed \notin (-half) .. (half - 1)
            /\ o.flags.c <=> o.flags.x
            /\ o.flags.z <=> f.z /\ o.value = 0
<1> DEFINE size == 2 * half
           e == Extend(f)
           r == (d + s + e) % size
           nd == Negative(d, size)
           ns == Negative(s, size)
           carry == (nd /\ ns) \/ (~ Negative(r, size) /\ (nd \/ ns))
           o == ExtendedSum(d, s, size, f)
<1>1. size \div 2 = half /\ size \in Nat \ {0}
  BY SMT
<1>2. e \in {0, 1} /\ f.z \in BOOLEAN
  BY SMT DEF Extend, FlagRecords
<1>3. o = [value |-> r, flags |-> [x |-> carry, n |-> Negative(r, size), z |-> r = 0 /\ f.z,
                                   v |-> AdditionOverflows(d, s, r, size), c |-> carry]]
  BY SMT, <1>2 DEF ExtendedSum, Outcome, ExtendedFlags, ResultFlags
<1> HIDE DEF e
<1>4. /\ d + s + e < size => r = d + s + e
      /\ d + s + e >= size => r = (d + s + e) - size
  <2>1. /\ d + s + e \in Int
        /\ d + s + e < size => d + s + e \in 0 .. (size - 1)
        /\ d + s + e >= size => d + s + e \in size .. (2 * size) - 1
    BY SMT, <1>2
  <2> QED BY SMT, <1>1, <2>1, Wrapped
<1> HIDE DEF r, o
<1>5. /\ r \in 0 .. size - 1
      /\ r + (IF carry THEN size ELSE 0) = d + s + e
      /\ AdditionOverflows(d, s, r, size) <=>
           Signed(d, size) + Signed(s, size) + e \notin (-half) .. (half - 1)
  BY SMT, <1>1, <1>2, <1>4 DEF Negative, Signed, AdditionOverflows
<1>6. o.value = r /\ o.flags.x = carry /\ o.flags.c = carry /\ o.flags.z = (r = 0 /\ f.z)
      /\ o.flags.v = AdditionOverflows(d, s, r, size)
  BY SMT, <1>3
<1> HIDE DEF carry
<1>7. /\ o.value \in 0 .. size - 1
      /\ o.value + (IF o.flags.x THEN size ELSE 0) = d + s + e
      /\ o.flags.v <=> Signed(d, size) + Signed(s, size) + e \notin (-half) .. (half - 1)
  BY Zenon, <1>5, <1>6
<1>8. /\ o.flags.c <=> o.flags.x
      /\ o.flags.z <=> f.z /\ o.value = 0
  BY Zenon, <1>6
<1> QED BY Zenon, <1>7, <1>8 DEF size, o, e

(* The same of SUBX and SUB: X and the value are the whole difference.       *)
THEOREM DifferencesAreWhole ==
  ASSUME NEW half \in Nat \ {0}, NEW f \in FlagRecords,
         NEW d \in 0 .. (2 * half) - 1, NEW s \in 0 .. (2 * half) - 1
  PROVE  LET o == ExtendedDifference(d, s, 2 * half, f)
             signed == Signed(d, 2 * half) - Signed(s, 2 * half) - Extend(f)
         IN /\ o.value \in 0 .. (2 * half) - 1
            /\ o.value - (IF o.flags.x THEN 2 * half ELSE 0) = d - s - Extend(f)
            /\ o.flags.v <=> signed \notin (-half) .. (half - 1)
            /\ o.flags.c <=> o.flags.x
            /\ o.flags.z <=> f.z /\ o.value = 0
<1> DEFINE size == 2 * half
           e == Extend(f)
           r == (d - s - e) % size
           nd == Negative(d, size)
           ns == Negative(s, size)
           carry == (~ nd /\ ns) \/ (Negative(r, size) /\ (~ nd \/ ns))
           o == ExtendedDifference(d, s, size, f)
<1>1. size \div 2 = half /\ size \in Nat \ {0}
  BY SMT
<1>2. e \in {0, 1} /\ f.z \in BOOLEAN
  BY SMT DEF Extend, FlagRecords
<1>3. o = [value |-> r, flags |-> [x |-> carry, n |-> Negative(r, size), z |-> r = 0 /\ f.z,
                                   v |-> SubtractionOverflows(d, s, r, size), c |-> carry]]
  BY SMT, <1>2 DEF ExtendedDifference, Outcome, ExtendedFlags, ResultFlags
<1> HIDE DEF e
<1>4. /\ d >= s + e => r = d - s - e
      /\ d < s + e => r = (d - s - e) + size
  <2>1. /\ d - s - e \in Int
        /\ d >= s + e => d - s - e \in 0 .. (size - 1)
        /\ d < s + e => d - s - e \in (-size) .. -1
    BY SMT, <1>2
  <2> HIDE DEF size
  <2>2. /\ d - s - e \in 0 .. (size - 1) => (d - s - e) % size = d - s - e
        /\ d - s - e \in (-size) .. -1 => (d - s - e) % size = (d - s - e) + size
    BY Zenon, <1>1, <2>1, Wrapped
  <2> QED BY SMT, <2>1, <2>2 DEF r
<1> HIDE DEF r, o
<1>5. /\ r \in 0 .. size - 1
      /\ r - (IF carry THEN size ELSE 0) = d - s - e
      /\ SubtractionOverflows(d, s, r, size) <=>
           Signed(d, size) - Signed(s, size) - e \notin (-half) .. (half - 1)
  BY SMT, <1>1, <1>2, <1>4 DEF Negative, Signed, SubtractionOverflows
<1>6. o.value = r /\ o.flags.x = carry /\ o.flags.c = carry /\ o.flags.z = (r = 0 /\ f.z)
      /\ o.flags.v = SubtractionOverflows(d, s, r, size)
  BY SMT, <1>3
<1> HIDE DEF carry
<1>7. /\ o.value \in 0 .. size - 1
      /\ o.value - (IF o.flags.x THEN size ELSE 0) = d - s - e
      /\ o.flags.v <=> Signed(d, size) - Signed(s, size) - e \notin (-half) .. (half - 1)
  BY Zenon, <1>5, <1>6
<1>8. /\ o.flags.c <=> o.flags.x
      /\ o.flags.z <=> f.z /\ o.value = 0
  BY Zenon, <1>6
<1> QED BY Zenon, <1>7, <1>8 DEF size, o, e


(* ADD is ADDX, and SUB is SUBX, after X has been cleared and Z set, though *)
(* their carries are found in different ways.                              *)
THEOREM PlainIsExtended ==
  ASSUME NEW half \in Nat \ {0}, NEW f \in FlagRecords, ~ f.x, f.z,
         NEW d \in 0 .. (2 * half) - 1, NEW s \in 0 .. (2 * half) - 1
  PROVE  /\ Sum(d, s, 2 * half) = ExtendedSum(d, s, 2 * half, f)
         /\ Difference(d, s, 2 * half) = ExtendedDifference(d, s, 2 * half, f)
<1> DEFINE size == 2 * half
<1>1. size \div 2 = half /\ size \in Nat \ {0} /\ Extend(f) = 0
  BY SMT DEF Extend
<1>2. Sum(d, s, size) = ExtendedSum(d, s, size, f)
  <2> DEFINE r == (d + s) % size
             nd == Negative(d, size)
             ns == Negative(s, size)
             carry == (nd /\ ns) \/ (~ Negative(r, size) /\ (nd \/ ns))
  <2>1. (d + s) + 0 = d + s
    BY SMT
  <2>2. ExtendedSum(d, s, size, f) =
          [value |-> r, flags |-> [x |-> carry, n |-> Negative(r, size), z |-> r = 0 /\ f.z,
                                   v |-> AdditionOverflows(d, s, r, size), c |-> carry]]
    BY SMT, <1>1, <2>1 DEF ExtendedSum, Outcome, ExtendedFlags, ResultFlags
  <2>3. Sum(d, s, size) =
          [value |-> r, flags |-> [x |-> s > size - 1 - d, n |-> Negative(r, size), z |-> r = 0,
                                   v |-> AdditionOverflows(d, s, r, size), c |-> s > size - 1 - d]]
    BY SMT DEF Sum, Outcome, AdditionFlags, ResultFlags
  <2>4. carry = (s > size - 1 - d)
    <3>1. /\ d + s \in Int
          /\ d + s < size => d + s \in 0 .. (size - 1)
          /\ d + s >= size => d + s \in size .. (2 * size) - 1
      BY SMT
    <3> HIDE DEF size
    <3>2. /\ d + s \in 0 .. (size - 1) => (d + s) % size = d + s
          /\ d + s \in size .. (2 * size) - 1 => (d + s) % size = (d + s) - size
      BY Zenon, <1>1, <3>1, Wrapped
    <3>3. (d + s < size => r = d + s) /\ (d + s >= size => r = (d + s) - size)
      BY SMT, <3>1, <3>2
    <3>4. size = 2 * half
      BY DEF size
    <3> HIDE DEF r
    <3> QED BY SMT, <1>1, <3>3, <3>4 DEF Negative
  <2> HIDE DEF carry, r
  <2> QED BY Zenon, <2>2, <2>3, <2>4
<1>3. Difference(d, s, size) = ExtendedDifference(d, s, size, f)
  <2> DEFINE r == (d - s) % size
             nd == Negative(d, size)
             ns == Negative(s, size)
             borrow == (~ nd /\ ns) \/ (Negative(r, size) /\ (~ nd \/ ns))
  <2>1. (d - s) - 0 = d - s
    BY SMT
  <2>2. ExtendedDifference(d, s, size, f) =
          [value |-> r, flags |-> [x |-> borrow, n |-> Negative(r, size), z |-> r = 0 /\ f.z,
                                   v |-> SubtractionOverflows(d, s, r, size), c |-> borrow]]
    BY SMT, <1>1, <2>1 DEF ExtendedDifference, Outcome, ExtendedFlags, ResultFlags
  <2>3. Difference(d, s, size) =
          [value |-> r, flags |-> [x |-> s > d, n |-> Negative(r, size), z |-> r = 0,
                                   v |-> SubtractionOverflows(d, s, r, size), c |-> s > d]]
    BY SMT DEF Difference, Outcome, CompareFlags, ResultFlags
  <2>4. borrow = (s > d)
    <3>1. /\ d - s \in Int
          /\ d >= s => d - s \in 0 .. (size - 1)
          /\ d < s => d - s \in (-size) .. -1
      BY SMT
    <3> HIDE DEF size
    <3>2. /\ d - s \in 0 .. (size - 1) => (d - s) % size = d - s
          /\ d - s \in (-size) .. -1 => (d - s) % size = (d - s) + size
      BY Zenon, <1>1, <3>1, Wrapped
    <3>3. (d >= s => r = d - s) /\ (d < s => r = (d - s) + size)
      BY SMT, <3>1, <3>2
    <3>4. size = 2 * half
      BY DEF size
    <3> HIDE DEF r
    <3> QED BY SMT, <1>1, <3>3, <3>4 DEF Negative
  <2> HIDE DEF borrow, r
  <2> QED BY Zenon, <2>2, <2>3, <2>4
<1> QED BY Zenon, <1>2, <1>3 DEF size

(* With X clear and Z set, ADDX of the low halves and then of the high ones *)
(* adds numbers of twice the width: value, carry and zero.                 *)
THEOREM ChainedSumsAreWide ==
  ASSUME NEW half \in Nat \ {0}, NEW f \in FlagRecords, ~ f.x, f.z,
         NEW dl \in 0 .. (2 * half) - 1, NEW sl \in 0 .. (2 * half) - 1,
         NEW dh \in 0 .. (2 * half) - 1, NEW sh \in 0 .. (2 * half) - 1
  PROVE  LET size == 2 * half
             low  == ExtendedSum(dl, sl, size, f)
             high == ExtendedSum(dh, sh, size, low.flags)
             d == (size * dh) + dl
             s == (size * sh) + sl
             r == (size * high.value) + low.value
         IN /\ r + (IF high.flags.c THEN size * size ELSE 0) = d + s
            /\ high.flags.z <=> r = 0
<1>0. ASSUME NEW g \in FlagRecords, NEW d \in 0 .. (2 * half) - 1, NEW s \in 0 .. (2 * half) - 1
      PROVE  LET o == ExtendedSum(d, s, 2 * half, g)
             IN /\ o.value \in 0 .. (2 * half) - 1
                /\ o.value + (IF o.flags.x THEN 2 * half ELSE 0) = d + s + Extend(g)
                /\ o.flags.c <=> o.flags.x
                /\ o.flags.z <=> g.z /\ o.value = 0
  BY ZenonT(60), <1>0, SumsAreWhole
<1> DEFINE size == 2 * half
           low  == ExtendedSum(dl, sl, size, f)
           high == ExtendedSum(dh, sh, size, low.flags)
<1>1. /\ low.value \in 0 .. size - 1
      /\ low.value + (IF low.flags.x THEN size ELSE 0) = dl + sl
      /\ low.flags.z <=> low.value = 0
  <2>1. Extend(f) = 0
    BY SMT DEF Extend
  <2>2. /\ low.value \in 0 .. size - 1
        /\ low.value + (IF low.flags.x THEN size ELSE 0) = dl + sl + Extend(f)
        /\ low.flags.z <=> f.z /\ low.value = 0
    BY Zenon, <1>0
  <2> HIDE DEF low, size
  <2>3. dl + sl + 0 = dl + sl
    BY SMT
  <2> QED BY Zenon, <2>1, <2>2, <2>3
<1>2. low.flags \in FlagRecords
  BY SMT DEF ExtendedSum, Outcome, ExtendedFlags, ResultFlags, FlagRecords, Negative, AdditionOverflows
<1> HIDE DEF low
<1>3. /\ high.value \in 0 .. size - 1
      /\ high.value + (IF high.flags.x THEN size ELSE 0) = dh + sh + Extend(low.flags)
      /\ high.flags.c <=> high.flags.x
      /\ high.flags.z <=> low.flags.z /\ high.value = 0
  BY Zenon, <1>0, <1>2
<1>4. size \in Nat \ {0} /\ {dl, sl, dh, sh} \subseteq Nat
  BY SMT
<1> HIDE DEF high, size
<1>5. (size * high.value) + low.value + (IF high.flags.c THEN size * size ELSE 0)
        = ((size * dh) + dl) + ((size * sh) + sl)
  <2>1. CASE low.flags.x /\ high.flags.x
    <3>1. high.value = (dh + sh + 1) - size /\ low.value = (dl + sl) - size
      BY SMT, <1>1, <1>3, <1>4, <2>1 DEF Extend
    <3>2. high.flags.c
      BY Zenon, <1>3, <2>1
    <3> QED BY SMT, <1>4, <3>1, <3>2
  <2>2. CASE low.flags.x /\ ~ high.flags.x
    <3>1. high.value = dh + sh + 1 /\ low.value = (dl + sl) - size
      BY SMT, <1>1, <1>3, <1>4, <2>2 DEF Extend
    <3>2. ~ high.flags.c
      BY Zenon, <1>3, <2>2
    <3> QED BY SMT, <1>4, <3>1, <3>2
  <2>3. CASE ~ low.flags.x /\ high.flags.x
    <3>1. high.value = (dh + sh) - size /\ low.value = dl + sl
      BY SMT, <1>1, <1>3, <1>4, <2>3 DEF Extend
    <3>2. high.flags.c
      BY Zenon, <1>3, <2>3
    <3> QED BY SMT, <1>4, <3>1, <3>2
  <2>4. CASE ~ low.flags.x /\ ~ high.flags.x
    <3>1. high.value = dh + sh /\ low.value = dl + sl
      BY SMT, <1>1, <1>3, <1>4, <2>4 DEF Extend
    <3>2. ~ high.flags.c
      BY Zenon, <1>3, <2>4
    <3> QED BY SMT, <1>4, <3>1, <3>2
  <2> QED BY Zenon, <2>1, <2>2, <2>3, <2>4
<1>6. (size * high.value) + low.value = 0 <=> low.value = 0 /\ high.value = 0
  <2>1. low.value \in Nat /\ high.value \in Nat
    BY SMT, <1>1, <1>3, <1>4
  <2>2. high.value # 0 => size * high.value >= 1
    BY SMT, <1>4, <2>1
  <2>3. size * high.value \in Nat /\ (high.value = 0 => size * high.value = 0)
    BY SMT, <1>4, <2>1
  <2> QED BY SMT, <2>1, <2>2, <2>3
<1>7. high.flags.z <=> (size * high.value) + low.value = 0
  BY Zenon, <1>1, <1>3, <1>6
<1> QED BY Zenon, <1>5, <1>7 DEF size, low, high

LEMMA Truncated ==
  ASSUME NEW a \in Int, NEW b \in Int \ {0}
  PROVE  /\ Quotient(a, b) \in Int /\ Remainder(a, b) \in Int
         /\ (b * Quotient(a, b)) + Remainder(a, b) = a
         /\ Magnitude(Remainder(a, b)) < Magnitude(b)
         /\ Remainder(a, b) # 0 => (Remainder(a, b) < 0 <=> a < 0)
<1> DEFINE m == Magnitude(a)
           n == Magnitude(b)
           q == m \div n
           r == m % n
<1>1. m \in Nat /\ n \in Nat \ {0}
  BY SMT DEF Magnitude
<1>2. /\ a < 0 => a = -m
      /\ a >= 0 => a = m
      /\ b < 0 => b = -n
      /\ b >= 0 => b = n
  BY SMT DEF Magnitude
<1> HIDE DEF m, n
<1>3. q \in Nat /\ r \in 0 .. (n - 1) /\ m = (n * q) + r
  BY SMT, <1>1
<1>4. Quotient(a, b) = IF a < 0 <=> b < 0 THEN q ELSE -q
  BY DEF Quotient, m, n
<1>5. (b * Quotient(a, b) = IF a < 0 THEN -(n * q) ELSE n * q) /\ Quotient(a, b) \in Int
  <2> HIDE DEF q
  <2>1. CASE a < 0 /\ b < 0
    BY SMT, <1>1, <1>2, <1>3, <1>4, <2>1
  <2>2. CASE a < 0 /\ ~ b < 0
    BY SMT, <1>1, <1>2, <1>3, <1>4, <2>2
  <2>3. CASE ~ a < 0 /\ b < 0
    BY SMT, <1>1, <1>2, <1>3, <1>4, <2>3
  <2>4. CASE ~ a < 0 /\ ~ b < 0
    BY SMT, <1>1, <1>2, <1>3, <1>4, <2>4
  <2> QED BY <2>1, <2>2, <2>3, <2>4
<1>6. n * q \in Int
  BY SMT, <1>1, <1>3
<1> DEFINE p == n * q
<1>7. Remainder(a, b) = a - (IF a < 0 THEN -p ELSE p)
  BY Zenon, <1>5 DEF Remainder
<1> HIDE DEF q, r, p
<1>8. Remainder(a, b) = IF a < 0 THEN -r ELSE r
  <2>1. p \in Int /\ m = p + r
    BY <1>3, <1>6 DEF p
  <2> QED BY SMT, <1>2, <1>3, <1>7, <2>1
<1>9. Magnitude(b) = n
  BY DEF n
<1>10. (b * Quotient(a, b)) + Remainder(a, b) = a
  <2>1. b * Quotient(a, b) = (IF a < 0 THEN -p ELSE p) /\ p \in Int
    BY <1>5, <1>6 DEF p
  <2> QED BY SMT, <2>1, <1>7
<1> QED BY SMT, <1>1, <1>3, <1>5, <1>8, <1>9, <1>10 DEF Magnitude

WordSize == 65536
FullSize == 65536 * 65536

(* A word read back as it was written. *)
ReadBack(signed, h) == IF signed THEN Signed(h, WordSize) ELSE h

Fits(signed, n) == IF signed THEN -32768 <= n /\ n <= 32767 ELSE 0 <= n /\ n <= 65535

LEMMA WordsReadBack ==
  ASSUME NEW signed \in BOOLEAN, NEW n \in Int, Fits(signed, n)
  PROVE  n % WordSize \in Nat /\ n % WordSize < WordSize /\ ReadBack(signed, n % WordSize) = n
<1>0. WordSize \in Nat \ {0}
  BY SMT DEF WordSize
<1>1. WordSize \in Nat /\ WordSize > 65535 /\ WordSize \div 2 = 32768
  BY SMT DEF WordSize
<1>2. /\ 0 <= n => n \in 0 .. (WordSize - 1)
      /\ n < 0 => n \in (-WordSize) .. -1 /\ signed
  BY SMT, <1>1 DEF Fits
<1>3. /\ n \in 0 .. (WordSize - 1) => n % WordSize = n
      /\ n \in (-WordSize) .. -1 => n % WordSize = n + WordSize
  BY Zenon, <1>0, Wrapped
<1>4. CASE 0 <= n
  <2>1. n % WordSize = n
    BY Zenon, <1>2, <1>3, <1>4
  <2>2. ReadBack(signed, n) = n
    BY SMT, <1>1, <1>4 DEF Fits, ReadBack, Signed, Negative
  <2> QED BY SMT, <1>4, <2>1, <2>2 DEF Fits, WordSize
<1>5. CASE n < 0
  <2>1. n % WordSize = n + WordSize /\ signed
    BY Zenon, <1>2, <1>3, <1>5
  <2>2. -32768 <= n
    BY SMT, <2>1 DEF Fits
  <2>3. n + WordSize >= 32768 /\ (n + WordSize) - WordSize = n
    BY SMT, <2>2 DEF WordSize
  <2>4. ReadBack(signed, n + WordSize) = n
    BY SMT, <1>1, <2>1, <2>3 DEF ReadBack, Signed, Negative
  <2>5. n + WordSize \in Nat /\ n + WordSize < WordSize
    BY SMT, <1>1, <1>5, <2>3
  <2> QED BY Zenon, <2>1, <2>4, <2>5
<1> QED BY SMT, <1>4, <1>5

(* A quotient that fits is the low word of what DIVU and DIVS leave, and     *)
(* the remainder, smaller than the divisor and of the sign of the dividend, *)
(* the high one.                                                           *)
THEOREM DivisionsAreExact ==
  ASSUME NEW signed \in BOOLEAN, NEW x \in Nat, x < FullSize,
         NEW w \in Nat \ {0}, w < WordSize,
         ~ DivisionOverflows(signed, Quotient(Dividend(signed, x, FullSize), Divisor(signed, w)))
  PROVE  LET a == Dividend(signed, x, FullSize)
             b == Divisor(signed, w)
             r == Divided(a, b, FullSize)
             quotient  == ReadBack(signed, r % WordSize)
             remainder == ReadBack(signed, r \div WordSize)
         IN /\ a = (b * quotient) + remainder
            /\ Magnitude(remainder) < Magnitude(b)
            /\ remainder # 0 => (remainder < 0 <=> a < 0)
<1> DEFINE a == Dividend(signed, x, FullSize)
           b == Divisor(signed, w)
           q == Quotient(a, b)
           m == Remainder(a, b)
           r == Divided(a, b, FullSize)
<1>1. a \in Int /\ (~ signed => a >= 0)
  <2>1. FullSize \in Nat /\ x \in Nat
    BY SMT DEF FullSize
  <2> QED BY SMT, <2>1 DEF Dividend, Signed, Negative
<1>2. b \in Int \ {0} /\ (~ signed => b > 0) /\ Magnitude(b) <= (IF signed THEN 32768 ELSE 65535)
  <2>1. w \in Nat \ {0} /\ w < 65536 /\ 65536 \div 2 = 32768
    BY SMT DEF WordSize
  <2>2. b = IF signed /\ w >= 32768 THEN w - 65536 ELSE w
    BY SMT, <2>1 DEF Divisor, Signed, Negative
  <2> HIDE DEF b
  <2> QED BY SMT, <2>1, <2>2 DEF Magnitude
<1> HIDE DEF a, b
<1>0. a \in Int /\ b \in Int \ {0}
  BY <1>1, <1>2
<1>3. /\ q \in Int /\ m \in Int
      /\ (b * q) + m = a
      /\ Magnitude(m) < Magnitude(b)
      /\ m # 0 => (m < 0 <=> a < 0)
  BY Zenon, <1>0, Truncated
<1>4. ~ DivisionOverflows(signed, q)
  BY Zenon DEF a, b
<1>5. ~ signed => q >= 0
  BY SMT, <1>1, <1>2 DEF Quotient, Magnitude
<1> HIDE DEF q, m
<1>6. Fits(signed, q)
  BY SMT, <1>3, <1>4, <1>5 DEF DivisionOverflows, Fits
<1>7. FullSize \div 65536 = WordSize
  BY SMT DEF FullSize, WordSize
<1>8. r = ((m % WordSize) * WordSize) + (q % WordSize)
  <2>1. r = ((m % (FullSize \div 65536)) * 65536) + (q % 65536)
    BY SMT DEF Divided, q, m
  <2> QED BY SMT, <1>7, <2>1 DEF WordSize
<1> HIDE DEF r
<1>9. Fits(signed, m)
  BY SMT, <1>1, <1>2, <1>3 DEF Magnitude, Fits
<1>10. /\ q % WordSize \in Nat /\ q % WordSize < WordSize /\ ReadBack(signed, q % WordSize) = q
       /\ m % WordSize \in Nat /\ m % WordSize < WordSize /\ ReadBack(signed, m % WordSize) = m
  BY Zenon, <1>3, <1>6, <1>9, WordsReadBack
<1>11. r % WordSize = q % WordSize /\ r \div WordSize = m % WordSize
  <2> DEFINE low == q % WordSize
             high == m % WordSize
  <2>1. r = (high * 65536) + low /\ low \in Nat /\ low < 65536 /\ high \in Nat
    BY SMT, <1>8, <1>10 DEF WordSize
  <2> HIDE DEF low, high
  <2>2. r % 65536 = low /\ r \div 65536 = high
    BY SMT, <2>1
  <2> QED BY SMT, <2>2 DEF WordSize, low, high
<1>12. ReadBack(signed, r % WordSize) = q /\ ReadBack(signed, r \div WordSize) = m
  BY Zenon, <1>10, <1>11
<1> QED BY Zenon, <1>3, <1>12 DEF r, a, b

(***************************************************************************)
(* Shifts.  The code moves a value by one place at a time and takes the    *)
(* flags of the last; the theorems say what that makes of the whole count. *)
(***************************************************************************)

(* The powers of two, for as many places as a count has. *)
Power[n \in 0 .. 63] == IF n = 0 THEN 1 ELSE 2 * Power[n - 1]

PowerStep(f, n) == IF n = 0 THEN 1 ELSE 2 * f[n - 1]

LEMMA PowerHasATable == \E f : f = [n \in 0 .. 63 |-> PowerStep(f, n)]
<1> DEFINE Solves(g, m) == /\ g = [n \in 0 .. 63 |-> g[n]]
                           /\ \A n \in 0 .. 63 : n <= m => g[n] = PowerStep(g, n)
           S == {m \in Nat : \E g : Solves(g, m)}
<1>1. 0 \in S
  <2> DEFINE g == [n \in 0 .. 63 |-> 1]
  <2>1. \A n \in 0 .. 63 : n <= 0 => n = 0
    BY SMT
  <2>2. Solves(g, 0)
    BY Zenon, <2>1 DEF PowerStep
  <2> HIDE DEF g, Solves
  <2> QED BY Zenon, <2>2
<1>2. ASSUME NEW m \in Nat, m \in S PROVE m + 1 \in S
  <2>1. PICK g : Solves(g, m)
    BY <1>2
  <2> DEFINE h == [n \in 0 .. 63 |-> IF n <= m THEN g[n] ELSE PowerStep(g, n)]
  <2>2. ASSUME NEW n \in 0 .. 63, n <= m + 1 PROVE PowerStep(g, n) = PowerStep(h, n)
    <3>1. n # 0 => n - 1 \in 0 .. 63 /\ n - 1 <= m
      BY SMT, <2>2
    <3>2. n # 0 => h[n - 1] = g[n - 1]
      BY Zenon, <3>1
    <3> HIDE DEF h
    <3> QED BY Zenon, <3>2 DEF PowerStep
  <2>3. ASSUME NEW n \in 0 .. 63, n <= m + 1 PROVE h[n] = PowerStep(h, n)
    <3>1. CASE n <= m
      BY Zenon, <2>1, <2>2, <2>3, <3>1
    <3>2. CASE ~ (n <= m)
      BY Zenon, <2>2, <2>3, <3>2
    <3> QED BY <3>1, <3>2
  <2>4. h = [n \in 0 .. 63 |-> h[n]]
    BY Zenon
  <2> HIDE DEF h
  <2>5. Solves(h, m + 1)
    BY Zenon, <2>3, <2>4
  <2> HIDE DEF Solves
  <2>6. m + 1 \in Nat
    BY SMT
  <2> QED BY Zenon, <2>5, <2>6
<1>3. 63 \in S
  <2> HIDE DEF S
  <2> QED BY SMT, <1>1, <1>2, Induction
<1>4. PICK f : Solves(f, 63)
  BY <1>3
<1>5. \A n \in 0 .. 63 : n <= 63
  BY SMT
<1> QED BY Zenon, <1>4, <1>5

LEMMA PowerByStep == \A n \in 0 .. 63 : Power[n] = PowerStep(Power, n)
<1>1. Power = [n \in 0 .. 63 |-> PowerStep(Power, n)]
  BY Zenon, PowerHasATable DEF Power, PowerStep
<1> HIDE DEF Power
<1>2. ASSUME NEW n \in 0 .. 63 PROVE Power[n] = PowerStep(Power, n)
  BY Zenon, <1>1, <1>2
<1> QED BY <1>2

(* A property of the first place that passes from one place to the next is  *)
(* one of all places.                                                      *)
LEMMA PlaceByPlace ==
  ASSUME NEW S, 0 \in S, \A n \in 0 .. 62 : n \in S => n + 1 \in S
  PROVE  0 .. 63 \subseteq S
<1> DEFINE T == {n \in Nat : n <= 63 => n \in S}
<1>1. 0 \in T
  BY SMT
<1>2. ASSUME NEW n \in Nat, n \in T PROVE n + 1 \in T
  <2>1. n + 1 \in Nat /\ (n + 1 <= 63 => n <= 63 /\ n \in 0 .. 62)
    BY SMT
  <2> QED BY Zenon, <1>2, <2>1
<1>3. Nat \subseteq T
  <2> HIDE DEF T
  <2> QED BY Zenon, <1>1, <1>2, Induction
<1>4. \A n \in 0 .. 63 : n \in Nat /\ n <= 63
  BY SMT
<1> QED BY Zenon, <1>3, <1>4

LEMMA Powers ==
  /\ Power[0] = 1
  /\ \A n \in 0 .. 62 : n + 1 \in 0 .. 63 /\ Power[n + 1] = 2 * Power[n]
  /\ \A n \in 0 .. 63 : Power[n] \in Nat \ {0}
<1>1. 0 \in 0 .. 63 /\ \A n \in 0 .. 62 : n + 1 \in 0 .. 63 /\ n + 1 # 0 /\ (n + 1) - 1 = n
  BY SMT
<1>2. Power[0] = 1
  BY Zenon, <1>1, PowerByStep DEF PowerStep
<1>3. ASSUME NEW n \in 0 .. 62 PROVE Power[n + 1] = 2 * Power[n]
  BY Zenon, <1>1, PowerByStep DEF PowerStep
<1>4. \A n \in 0 .. 63 : Power[n] \in Nat \ {0}
  <2> DEFINE S == {n \in 0 .. 63 : Power[n] \in Nat \ {0}}
  <2>1. 0 \in S
    <3>1. 1 \in Nat \ {0}
      BY SMT
    <3> QED BY Zenon, <1>1, <1>2, <3>1
  <2>2. ASSUME NEW n \in 0 .. 62, n \in S PROVE n + 1 \in S
    <3>1. \A p \in Nat \ {0} : 2 * p \in Nat \ {0}
      BY SMT
    <3> QED BY Zenon, <1>1, <1>3, <2>2, <3>1
  <2>3. 0 .. 63 \subseteq S
    <3> HIDE DEF S
    <3> QED BY Zenon, <2>1, <2>2, PlaceByPlace
  <2> QED BY Zenon, <2>3
<1> QED BY Zenon, <1>1, <1>2, <1>3, <1>4

LEMMA DivisionLeaves ==
  ASSUME NEW x \in Int, NEW c \in Nat \ {0}
  PROVE  /\ x \div c \in Int /\ x % c \in Int /\ 0 <= x % c /\ x % c < c
         /\ x = (c * (x \div c)) + (x % c)
  BY SMT

(* Quotients and remainders are determined by what makes them.              *)
LEMMA QuotientOf ==
  ASSUME NEW x \in Int, NEW c \in Nat \ {0}, NEW q \in Int, NEW r \in Int,
         0 <= r, r < c, x = (c * q) + r
  PROVE  x \div c = q /\ x % c = r
<1> DEFINE d == x \div c
           m == x % c
<1>1. d \in Int /\ m \in Int /\ 0 <= m /\ m < c /\ x = (c * d) + m
  BY SMT
<1> HIDE DEF d, m
<1>2. c * (d - q) = r - m /\ d - q \in Int
  BY SMT, <1>1
<1>3. ~ (d - q >= 1)
  <2> SUFFICES ASSUME d - q >= 1 PROVE FALSE
    OBVIOUS
  <2>1. c * (d - q) >= c
    BY SMT, <1>2
  <2> QED BY SMT, <1>1, <1>2, <2>1
<1>4. ~ (d - q <= -1)
  <2> SUFFICES ASSUME d - q <= -1 PROVE FALSE
    OBVIOUS
  <2>1. c * (d - q) <= -c
    BY SMT, <1>2
  <2> QED BY SMT, <1>1, <1>2, <2>1
<1>5. d = q
  BY SMT, <1>1, <1>2, <1>3, <1>4
<1>6. m = r
  BY SMT, <1>1, <1>5
<1> QED BY <1>5, <1>6 DEF d, m

LEMMA DivideTwice ==
  ASSUME NEW x \in Int, NEW p \in Nat \ {0}
  PROVE  (x \div p) \div 2 = x \div (2 * p)
<1> DEFINE d == x \div p
           m == x % p
           e == d \div 2
           b == d % 2
<1>1. d \in Int /\ m \in Int /\ 0 <= m /\ m < p /\ x = (p * d) + m
  BY SMT
<1>2. e \in Int /\ b \in {0, 1} /\ d = (2 * e) + b
  <2> HIDE DEF d
  <2> QED BY SMT, <1>1
<1> HIDE DEF d, m, e, b
<1>3. 2 * p \in Nat \ {0} /\ p \in Int
  BY SMT
<1>4. p * b \in Int /\ 0 <= (p * b) + m /\ (p * b) + m < 2 * p
  <2>1. CASE b = 0
    BY SMT, <1>1, <2>1
  <2>2. CASE b = 1
    BY SMT, <1>1, <2>2
  <2> QED BY Zenon, <1>2, <2>1, <2>2
<1>5. x = ((2 * p) * e) + ((p * b) + m)
  BY SMT, <1>1, <1>2
<1>6. (p * b) + m \in Int
  BY SMT, <1>1, <1>4
<1>7. x \div (2 * p) = e
  BY Zenon, <1>2, <1>3, <1>4, <1>5, <1>6, QuotientOf
<1> QED BY <1>7 DEF e, d

LEMMA DoubleOfRemainder ==
  ASSUME NEW y \in Int, NEW size \in Nat \ {0}
  PROVE  (2 * (y % size)) % size = (2 * y) % size
<1> DEFINE k == y \div size
           m == y % size
           j == (2 * m) \div size
           r == (2 * m) % size
<1>1. k \in Int /\ m \in Int /\ y = (size * k) + m
  BY SMT
<1>2. 2 * m \in Int
  BY SMT, <1>1
<1>3. j \in Int /\ r \in Int /\ 0 <= r /\ r < size /\ 2 * m = (size * j) + r
  BY Zenon, <1>2, DivisionLeaves
<1> HIDE DEF k, m, j, r
<1>4. 2 * y = (size * ((2 * k) + j)) + r /\ (2 * k) + j \in Int /\ 2 * y \in Int
  BY SMT, <1>1, <1>3
<1>5. (2 * y) % size = r
  BY Zenon, <1>3, <1>4, QuotientOf
<1> QED BY <1>5 DEF r, m

(* One place. *)
LEMMA RightByOne ==
  ASSUME NEW half \in Nat \ {0}, NEW p, p.value \in 0 .. (2 * half) - 1, NEW kind \in {"LSR", "ASR"}
  PROVE  LET q == ShiftedOnce(kind, p, 2 * half)
         IN /\ q.carry = (p.value % 2 = 1) /\ q.overflow = FALSE
            /\ kind = "LSR" => q.value = p.value \div 2
            /\ kind = "ASR" => /\ Signed(q.value, 2 * half) = Signed(p.value, 2 * half) \div 2
                               /\ q.carry = (Signed(p.value, 2 * half) % 2 = 1)
<1> DEFINE v == p.value
           q == ShiftedRight(kind, p, 2 * half)
<1>1. ShiftedOnce(kind, p, 2 * half) = q
  BY DEF ShiftedOnce
<1>2. (2 * half) \div 2 = half /\ v \in Int /\ 0 <= v /\ v < 2 * half
  BY SMT
<1>3. q.carry = (v % 2 = 1) /\ q.overflow = FALSE
  BY DEF ShiftedRight
<1>4. kind = "LSR" => q.value = (v \div 2) + 0
  BY DEF ShiftedRight
<1>5. kind = "ASR" => q.value = (v \div 2) + (IF v >= half THEN half ELSE 0)
  BY <1>2 DEF ShiftedRight, Negative
<1> HIDE DEF v, q
<1>6. kind = "LSR" => q.value = v \div 2
  BY SMT, <1>2, <1>4
<1>7. CASE v >= half
  <2>1. /\ v \div 2 + half >= half /\ ((v \div 2) + half) - (2 * half) = (v - (2 * half)) \div 2
        /\ (v - (2 * half)) % 2 = v % 2
    BY SMT, <1>2, <1>7
  <2>2. kind = "ASR" => Signed(q.value, 2 * half) = (v - (2 * half)) \div 2
    BY SMT, <1>2, <1>5, <1>7, <2>1 DEF Signed, Negative
  <2>3. Signed(v, 2 * half) = v - (2 * half)
    BY SMT, <1>2, <1>7 DEF Signed, Negative
  <2> QED BY Zenon, <1>1, <1>3, <1>6, <2>1, <2>2, <2>3 DEF v
<1>8. CASE ~ (v >= half)
  <2>1. v \div 2 \in Int /\ ~ (v \div 2 >= half) /\ (v \div 2) + 0 = v \div 2
    BY SMT, <1>2, <1>8
  <2>2. kind = "ASR" => Signed(q.value, 2 * half) = v \div 2
    BY SMT, <1>2, <1>5, <1>8, <2>1 DEF Signed, Negative
  <2>3. Signed(v, 2 * half) = v
    BY SMT, <1>2, <1>8 DEF Signed, Negative
  <2> QED BY Zenon, <1>1, <1>3, <1>6, <2>2, <2>3 DEF v
<1> QED BY <1>7, <1>8

LEMMA LeftByOne ==
  ASSUME NEW half \in Nat \ {0}, NEW p, p.value \in 0 .. (2 * half) - 1, NEW kind \in {"LSL", "ASL"}
  PROVE  LET q == ShiftedOnce(kind, p, 2 * half)
         IN /\ q.value = (2 * p.value) % (2 * half)
            /\ q.carry = (p.value >= half)
            /\ q.overflow = (p.overflow \/ (kind = "ASL" /\ (q.value >= half) # (p.value >= half)))
<1> DEFINE v == p.value
           m == (2 * v) % (2 * half)
           q == ShiftedLeft(kind, p, 2 * half)
<1>1. ShiftedOnce(kind, p, 2 * half) = q
  BY DEF ShiftedOnce
<1>2. (2 * half) \div 2 = half /\ v \in Int /\ m \in Int
  BY SMT
<1>3. q.value = m + 0
  BY DEF ShiftedLeft
<1>4. m + 0 = m
  <2> HIDE DEF m
  <2> QED BY SMT, <1>2
<1>5. q.carry = (v >= half)
  BY Zenon, <1>2 DEF ShiftedLeft, Negative
<1>6. q.overflow = (p.overflow \/ (kind = "ASL" /\ (q.value >= half) # (v >= half)))
  BY <1>2 DEF ShiftedLeft, Negative
<1> QED BY Zenon, <1>1, <1>3, <1>4, <1>5, <1>6

(* The places of a shift one by one, and what the instruction makes of the  *)
(* last.                                                                   *)
LEMMA PlacesOfAShift ==
  ASSUME NEW half \in Nat \ {0}, NEW kind, NEW value \in 0 .. (2 * half) - 1
  PROVE  LET t == ShiftTable(kind, value, 2 * half)
         IN /\ t[0] = Start(value)
            /\ \A n \in 0 .. 62 : n + 1 \in 0 .. 63 /\ t[n + 1] = ShiftedOnce(kind, t[n], 2 * half)
            /\ \A n \in 0 .. 63 : t[n].value \in 0 .. (2 * half) - 1
<1> DEFINE t == ShiftTable(kind, value, 2 * half)
<1>1. \A n \in 0 .. 63 : t[n] = ShiftStep(kind, value, 2 * half, t, n)
  BY Zenon, ShiftByStep
<1>2. \A n \in 0 .. 63 : t[n].value \in 0 .. (2 * half) - 1
  <2> SUFFICES ASSUME NEW n \in 0 .. 63 PROVE t[n].value \in 0 .. (2 * half) - 1
    BY Zenon
  <2>1. Shifted(kind, value, n, 2 * half, 0).value = t[n].value
    BY Zenon, ShiftLooksUp
  <2>2. Shifted(kind, value, n, 2 * half, 0).value \in 0 .. (2 * half) - 1
    BY ShiftFits
  <2> QED BY Zenon, <2>1, <2>2
<1> HIDE DEF t
<1>3. 0 \in 0 .. 63 /\ \A n \in 0 .. 62 : n + 1 \in 0 .. 63 /\ n + 1 # 0 /\ (n + 1) - 1 = n
  BY SMT
<1>4. t[0] = Start(value)
  BY Zenon, <1>1, <1>3 DEF ShiftStep
<1>5. \A n \in 0 .. 62 : n + 1 \in 0 .. 63 /\ t[n + 1] = ShiftedOnce(kind, t[n], 2 * half)
  BY Zenon, <1>1, <1>3 DEF ShiftStep
<1> QED BY Zenon, <1>2, <1>4, <1>5 DEF t

LEMMA OutcomeOfAShift ==
  ASSUME NEW kind, NEW value, NEW count, NEW size, NEW f
  PROVE  LET r == Shifted(kind, value, count, size, f)
             p == ShiftTable(kind, value, size)[count]
         IN /\ r.value = p.value /\ r.flags.c = p.carry /\ r.flags.v = p.overflow
            /\ count = 0 \/ Rotates(kind) => r.flags.x = f.x
            /\ count # 0 /\ ~ Rotates(kind) => r.flags.x = p.carry
  BY DEF Shifted, Outcome, ResultFlags, ShiftTable, ShiftStep, Start

LEMMA ASmallCount ==
  ASSUME NEW count \in 1 .. 63
  PROVE  count - 1 \in 0 .. 62 /\ count - 1 \in 0 .. 63 /\ (count - 1) + 1 = count /\ count # 0 /\ count \in 0 .. 63
  BY SMT

LEMMA SignedIsWhole ==
  ASSUME NEW half \in Nat \ {0}, NEW v \in 0 .. (2 * half) - 1
  PROVE  /\ v \in Int /\ Signed(v, 2 * half) \in Int
         /\ v < half => Signed(v, 2 * half) = v
         /\ v >= half => Signed(v, 2 * half) = v - (2 * half)
  BY SMT DEF Signed, Negative

(* LSR divides the value as it stands, ASR the signed one, both towards     *)
(* minus infinity, and C and X are the last bit that falls off.            *)
THEOREM ShiftsRightDivide ==
  ASSUME NEW half \in Nat \ {0}, NEW value \in 0 .. (2 * half) - 1, NEW count \in 1 .. 63, NEW f,
         NEW kind \in {"LSR", "ASR"}
  PROVE  LET size == 2 * half
             r    == Shifted(kind, value, count, size, f)
             Of(v) == IF kind = "ASR" THEN Signed(v, size) ELSE v
         IN /\ Of(r.value) = Of(value) \div Power[count]
            /\ r.flags.c = ((Of(value) \div Power[count - 1]) % 2 = 1)
            /\ r.flags.x = r.flags.c /\ r.flags.v = FALSE
<1> DEFINE size  == 2 * half
           t     == ShiftTable(kind, value, size)
           Of(v) == IF kind = "ASR" THEN Signed(v, size) ELSE v
           S     == {n \in 0 .. 63 : Of(t[n].value) = Of(value) \div Power[n]}
<1>1. /\ t[0] = Start(value)
      /\ \A n \in 0 .. 62 : n + 1 \in 0 .. 63 /\ t[n + 1] = ShiftedOnce(kind, t[n], size)
      /\ \A n \in 0 .. 63 : t[n].value \in 0 .. size - 1
  BY Zenon, PlacesOfAShift
<1>2. \A v \in 0 .. size - 1 : Of(v) \in Int
  BY Zenon, SignedIsWhole
<1> HIDE DEF t
<1>3. \A n \in 0 .. 62 : n \in 0 .. 63
  BY SMT
<1>4. ASSUME NEW n \in 0 .. 62
      PROVE  /\ Of(t[n + 1].value) = Of(t[n].value) \div 2
             /\ t[n + 1].carry = (Of(t[n].value) % 2 = 1) /\ t[n + 1].overflow = FALSE
  <2> DEFINE p == t[n]
             q == ShiftedOnce(kind, p, size)
  <2>1. p.value \in 0 .. size - 1 /\ t[n + 1] = q
    BY Zenon, <1>1, <1>3
  <2>2. /\ q.carry = (p.value % 2 = 1) /\ q.overflow = FALSE
        /\ kind = "LSR" => q.value = p.value \div 2
        /\ kind = "ASR" => /\ Signed(q.value, size) = Signed(p.value, size) \div 2
                           /\ q.carry = (Signed(p.value, size) % 2 = 1)
    <3> HIDE DEF p
    <3> QED BY Zenon, <2>1, RightByOne
  <2> HIDE DEF q
  <2>3. CASE kind = "LSR"
    <3>1. \A v : Of(v) = v
      BY <2>3
    <3> HIDE DEF Of
    <3> QED BY Zenon, <2>1, <2>2, <2>3, <3>1
  <2>4. CASE kind = "ASR"
    <3>1. \A v : Of(v) = Signed(v, size)
      BY <2>4
    <3> HIDE DEF Of
    <3> QED BY Zenon, <2>1, <2>2, <2>4, <3>1
  <2> QED BY <2>3, <2>4
<1>5. 0 \in S
  <2>1. t[0].value = value /\ 0 \in 0 .. 63
    BY SMT, <1>1 DEF Start
  <2>2. \A x \in Int : x \div 1 = x
    BY SMT
  <2>3. Of(value) \in Int
    BY Zenon, <1>2
  <2> HIDE DEF Of
  <2> QED BY Zenon, <2>1, <2>2, <2>3, Powers
<1>6. ASSUME NEW n \in 0 .. 62, n \in S PROVE n + 1 \in S
  <2>1. Of(value) \in Int
    BY Zenon, <1>2
  <2> HIDE DEF Of
  <2> QED BY Zenon, <1>1, <1>3, <1>4, <1>6, <2>1, Powers, DivideTwice
<1>7. 0 .. 63 \subseteq S
  <2> HIDE DEF S
  <2> QED BY Zenon, <1>5, <1>6, PlaceByPlace
<1>8. ~ Rotates(kind)
  BY DEF Rotates
<1>9. count - 1 \in 0 .. 62 /\ count - 1 \in S /\ (count - 1) + 1 = count /\ count \in S /\ count # 0
  <2> HIDE DEF S
  <2> QED BY Zenon, <1>7, ASmallCount
<1> DEFINE a == Of(t[count].value) = Of(value) \div Power[count]
           b == (Of(value) \div Power[count - 1]) % 2 = 1
<1>10. a /\ t[count].carry = b /\ t[count].overflow = FALSE
  <2> HIDE DEF Of
  <2>1. /\ t[count].carry = (Of(t[count - 1].value) % 2 = 1) /\ t[count].overflow = FALSE
    BY Zenon, <1>4, <1>9
  <2>2. Of(t[count - 1].value) = Of(value) \div Power[count - 1]
    BY Zenon, <1>9
  <2> QED BY Zenon, <1>9, <2>1, <2>2
<1> DEFINE r == Shifted(kind, value, count, size, f)
<1>11. /\ r.value = t[count].value /\ r.flags.c = t[count].carry /\ r.flags.v = t[count].overflow
       /\ count # 0 /\ ~ Rotates(kind) => r.flags.x = t[count].carry
  BY OutcomeOfAShift DEF t
<1> HIDE DEF r, t
<1>12. /\ Of(r.value) = Of(value) \div Power[count] /\ r.flags.c = b
       /\ r.flags.x = r.flags.c /\ r.flags.v = FALSE
  <2> HIDE DEF Of, b
  <2>1. Of(r.value) = Of(value) \div Power[count]
    BY Zenon, <1>10, <1>11
  <2>2. t[count].carry = b /\ r.flags.c = t[count].carry /\ r.flags.v = FALSE
    BY Zenon, <1>10, <1>11
  <2>3. r.flags.x = t[count].carry
    BY Zenon, <1>8, <1>9, <1>11
  <2> QED BY <2>1, <2>2, <2>3
<1> QED BY <1>12 DEF r

InReach(half, x) == x \in (-half) .. (half - 1)

(* ASL keeps the signed value doubled as long as no place overflowed, and   *)
(* a doubling that once overflowed stays out of reach.                     *)
LEMMA DoubledOnceMore ==
  ASSUME NEW half \in Nat \ {0}, NEW p, p.value \in 0 .. (2 * half) - 1, NEW w \in Int,
         p.overflow = ~ InReach(half, w),
         InReach(half, w) => Signed(p.value, 2 * half) = w
  PROVE  LET q == ShiftedOnce("ASL", p, 2 * half)
         IN /\ q.overflow = ~ InReach(half, 2 * w)
            /\ InReach(half, 2 * w) => Signed(q.value, 2 * half) = 2 * w
<1> DEFINE size == 2 * half
           v == p.value
           q == ShiftedOnce("ASL", p, size)
           m == (2 * v) % size
<1>1. q.value = m /\ q.overflow = (p.overflow \/ (q.value >= half) # (v >= half))
  BY LeftByOne
<1>2. v \in Int /\ 0 <= v /\ v < 2 * half /\ half \in Int /\ half > 0
  BY SMT
<1>3. /\ v < half => Signed(v, size) = v
      /\ v >= half => Signed(v, size) = v - size
      /\ m < half => m \in Int /\ Signed(m, size) = m
      /\ m >= half => m \in Int /\ Signed(m, size) = m - size
  <2>1. m \in 0 .. (2 * half) - 1
    <3>1. 2 * v \in Int /\ size \in Nat \ {0}
      BY SMT, <1>2
    <3>2. m \in Int /\ 0 <= m /\ m < size
      BY Zenon, <3>1, DivisionLeaves
    <3> HIDE DEF m
    <3> QED BY SMT, <3>2
  <2> HIDE DEF m
  <2> QED BY Zenon, <2>1, SignedIsWhole
<1>4. (v < half => m = 2 * v) /\ (v >= half => m = (2 * v) - size)
  <2>1. 2 * v \in Int /\ (v < half => 2 * v \in 0 .. (size - 1))
        /\ (v >= half => 2 * v \in size .. (2 * size) - 1)
    <3> HIDE DEF v
    <3> QED BY SMT, <1>2
  <2>2. size \in Nat \ {0}
    BY SMT
  <2> QED BY Zenon, <2>1, <2>2, Wrapped
<1>5. \A x \in Int : InReach(half, x) <=> (-half <= x /\ x < half)
  BY SMT DEF InReach
<1>6. p.overflow = ~ InReach(half, w) /\ (InReach(half, w) => Signed(v, size) = w)
  OBVIOUS
<1> HIDE DEF q, m, v
<1>7. 2 * w \in Int
  BY SMT
<1>8. CASE ~ InReach(half, w)
  <2>1. ~ InReach(half, 2 * w)
    BY SMT, <1>2, <1>5, <1>7, <1>8
  <2>2. q.overflow = TRUE
    BY Zenon, <1>1, <1>6, <1>8
  <2> QED BY Zenon, <2>1, <2>2 DEF q
<1>9. CASE InReach(half, w)
  <2>1. p.overflow = FALSE /\ Signed(v, size) = w
    BY Zenon, <1>6, <1>9
  <2>2. q.overflow = ((m >= half) # (v >= half))
    BY Zenon, <1>1, <2>1
  <2>3. ((m >= half) # (v >= half)) <=> ~ InReach(half, 2 * w)
    BY SMT, <1>2, <1>3, <1>4, <1>5, <1>7, <2>1
  <2>4. InReach(half, 2 * w) => Signed(m, size) = 2 * w
    BY SMT, <1>2, <1>3, <1>4, <1>5, <1>7, <2>1
  <2>5. q.overflow = ~ InReach(half, 2 * w)
    BY Zenon, <2>2, <2>3
  <2> QED BY Zenon, <1>1, <2>4, <2>5 DEF q
<1> QED BY <1>8, <1>9

LEMMA TimesTwice ==
  ASSUME NEW x \in Int, NEW p \in Nat, NEW q, q = 2 * p
  PROVE  x * p \in Int /\ x * q = 2 * (x * p)
<1>1. x * p \in Int /\ x * (2 * p) = 2 * (x * p)
  BY SMT
<1> QED BY <1>1

(* LSL and ASL multiply, C and X are the last bit lost, and V of ASL says   *)
(* that the signed product does not fit, whatever sign the result has.     *)
THEOREM ShiftsLeftMultiply ==
  ASSUME NEW half \in Nat \ {0}, NEW value \in 0 .. (2 * half) - 1, NEW count \in 1 .. 63, NEW f,
         NEW kind \in {"LSL", "ASL"}
  PROVE  LET size == 2 * half
             r    == Shifted(kind, value, count, size, f)
         IN /\ r.value = (value * Power[count]) % size
            /\ r.flags.c = ((value * Power[count - 1]) % size >= half)
            /\ r.flags.x = r.flags.c
            /\ kind = "LSL" => r.flags.v = FALSE
            /\ kind = "ASL" =>
                 r.flags.v = (Signed(value, size) * Power[count] \notin (-half) .. (half - 1))
<1> DEFINE size  == 2 * half
           t     == ShiftTable(kind, value, size)
           signed == Signed(value, size)
           S     == {n \in 0 .. 63 : t[n].value = (value * Power[n]) % size}
           L     == {n \in 0 .. 63 : t[n].overflow = FALSE}
           A     == {n \in 0 .. 63 : /\ t[n].overflow = ~ InReach(half, signed * Power[n])
                                     /\ InReach(half, signed * Power[n]) =>
                                          Signed(t[n].value, size) = signed * Power[n]}
<1>1. /\ t[0] = Start(value)
      /\ \A n \in 0 .. 62 : n + 1 \in 0 .. 63 /\ t[n + 1] = ShiftedOnce(kind, t[n], size)
      /\ \A n \in 0 .. 63 : t[n].value \in 0 .. size - 1
  BY Zenon, PlacesOfAShift
<1>2. value \in Int /\ signed \in Int /\ size \in Nat \ {0}
  BY SMT, SignedIsWhole
<1> HIDE DEF t
<1>3. 0 \in 0 .. 63 /\ \A n \in 0 .. 62 : n \in 0 .. 63
  BY SMT
<1>4. \A x \in Int : x * 1 = x
  BY SMT
<1>5. ASSUME NEW n \in 0 .. 62
      PROVE  /\ t[n + 1].value = (2 * t[n].value) % size /\ t[n + 1].carry = (t[n].value >= half)
             /\ kind = "LSL" /\ t[n].overflow = FALSE => t[n + 1].overflow = FALSE
  <2> DEFINE p == t[n]
             q == ShiftedOnce(kind, p, size)
  <2>1. p.value \in 0 .. size - 1 /\ t[n + 1] = q
    BY Zenon, <1>1, <1>3
  <2>2. /\ q.value = (2 * p.value) % size /\ q.carry = (p.value >= half)
        /\ q.overflow = (p.overflow \/ (kind = "ASL" /\ (q.value >= half) # (p.value >= half)))
    <3> HIDE DEF p
    <3> QED BY Zenon, <2>1, LeftByOne
  <2> HIDE DEF p, q
  <2>3. kind = "LSL" /\ p.overflow = FALSE => q.overflow = FALSE
    BY <2>2
  <2>4. t[n + 1].value = (2 * p.value) % size /\ t[n + 1].carry = (p.value >= half)
        /\ (kind = "LSL" /\ p.overflow = FALSE => t[n + 1].overflow = FALSE)
    BY Zenon, <2>1, <2>2, <2>3
  <2> QED BY <2>4 DEF p
<1>6. t[0].value = value /\ t[0].overflow = FALSE
  BY <1>1 DEF Start
<1>7. 0 .. 63 \subseteq S
  <2>1. 0 \in S
    <3>1. value % size = value /\ value * 1 = value
      BY Zenon, <1>2, <1>4, Wrapped
    <3> QED BY Zenon, <1>3, <1>6, <3>1, Powers
  <2>2. ASSUME NEW n \in 0 .. 62, n \in S PROVE n + 1 \in S
    <3>1. t[n + 1].value = (2 * ((value * Power[n]) % size)) % size
      BY Zenon, <1>5, <2>2
    <3>2. Power[n] \in Nat /\ Power[n + 1] = 2 * Power[n] /\ n + 1 \in 0 .. 63
      BY Zenon, <1>3, Powers
    <3>3. value * Power[n] \in Int /\ value * Power[n + 1] = 2 * (value * Power[n])
      BY <1>2, <3>2, TimesTwice
    <3>4. (2 * ((value * Power[n]) % size)) % size = (2 * (value * Power[n])) % size
      BY Zenon, <1>2, <3>3, DoubleOfRemainder
    <3> QED BY Zenon, <3>1, <3>2, <3>3, <3>4
  <2> HIDE DEF S
  <2> QED BY Zenon, <2>1, <2>2, PlaceByPlace
<1>8. kind = "LSL" => 0 .. 63 \subseteq L
  <2> SUFFICES ASSUME kind = "LSL" PROVE 0 .. 63 \subseteq L
    BY Zenon
  <2>1. 0 \in L
    BY Zenon, <1>3, <1>6
  <2>2. ASSUME NEW n \in 0 .. 62, n \in L PROVE n + 1 \in L
    BY Zenon, <1>1, <1>5, <2>2
  <2> HIDE DEF L
  <2> QED BY Zenon, <2>1, <2>2, PlaceByPlace
<1>9. kind = "ASL" => 0 .. 63 \subseteq A
  <2> SUFFICES ASSUME kind = "ASL" PROVE 0 .. 63 \subseteq A
    BY Zenon
  <2>1. 0 \in A
    <3>1. signed * Power[0] = signed
      BY Zenon, <1>2, <1>4, Powers
    <3>2. InReach(half, signed)
      BY SMT, SignedIsWhole DEF InReach
    <3> HIDE DEF signed
    <3>3. Signed(t[0].value, size) = signed
      BY Zenon, <1>6 DEF signed
    <3> QED BY Zenon, <1>3, <1>6, <3>1, <3>2, <3>3
  <2>2. ASSUME NEW n \in 0 .. 62, n \in A PROVE n + 1 \in A
    <3> DEFINE w == signed * Power[n]
               p == t[n]
    <3>1. Power[n] \in Nat /\ Power[n + 1] = 2 * Power[n] /\ n + 1 \in 0 .. 63
      BY Zenon, <1>3, Powers
    <3>2. w \in Int /\ signed * Power[n + 1] = 2 * w
      <4> HIDE DEF signed
      <4> QED BY <1>2, <3>1, TimesTwice
    <3>3. p.value \in 0 .. (2 * half) - 1 /\ t[n + 1] = ShiftedOnce("ASL", p, 2 * half)
      BY Zenon, <1>1, <1>3
    <3>4. p.overflow = ~ InReach(half, w) /\ (InReach(half, w) => Signed(p.value, 2 * half) = w)
      BY Zenon, <2>2
    <3> HIDE DEF w, p
    <3>5. /\ ShiftedOnce("ASL", p, 2 * half).overflow = ~ InReach(half, 2 * w)
          /\ InReach(half, 2 * w) => Signed(ShiftedOnce("ASL", p, 2 * half).value, 2 * half) = 2 * w
      BY Zenon, <3>2, <3>3, <3>4, DoubledOnceMore
    <3> QED BY Zenon, <3>1, <3>2, <3>3, <3>5
  <2> HIDE DEF A
  <2> QED BY Zenon, <2>1, <2>2, PlaceByPlace
<1>10. ~ Rotates(kind)
  BY DEF Rotates
<1>11. /\ count - 1 \in 0 .. 62 /\ (count - 1) + 1 = count /\ count # 0 /\ count \in 0 .. 63
       /\ count - 1 \in 0 .. 63
  BY Zenon, ASmallCount
<1> DEFINE b == (value * Power[count - 1]) % size >= half
           o == ~ InReach(half, signed * Power[count])
           r == Shifted(kind, value, count, size, f)
<1>12. /\ t[count].value = (value * Power[count]) % size
       /\ t[count].carry = b
       /\ kind = "LSL" => t[count].overflow = FALSE
       /\ kind = "ASL" => t[count].overflow = o
  <2>1. t[count].value = (value * Power[count]) % size
        /\ t[count - 1].value = (value * Power[count - 1]) % size
    BY Zenon, <1>7, <1>11
  <2>2. t[count].carry = (t[count - 1].value >= half)
    BY Zenon, <1>5, <1>11
  <2>3. kind = "LSL" => t[count].overflow = FALSE
    BY Zenon, <1>8, <1>11
  <2>4. kind = "ASL" => t[count].overflow = o
    BY Zenon, <1>9, <1>11
  <2>5. t[count].carry = b
    BY Zenon, <2>1, <2>2
  <2> QED BY Zenon, <2>1, <2>3, <2>4, <2>5
<1>13. /\ r.value = t[count].value /\ r.flags.c = t[count].carry /\ r.flags.v = t[count].overflow
       /\ count # 0 /\ ~ Rotates(kind) => r.flags.x = t[count].carry
  BY OutcomeOfAShift DEF t
<1> HIDE DEF r, t
<1>14. /\ r.value = (value * Power[count]) % size /\ r.flags.c = b /\ r.flags.x = r.flags.c
       /\ kind = "LSL" => r.flags.v = FALSE
       /\ kind = "ASL" => r.flags.v = o
  <2> HIDE DEF b, o
  <2> QED BY Zenon, <1>10, <1>11, <1>12, <1>13
<1> QED BY <1>14 DEF r, InReach

(* A turn by one place, and one back. *)
LEMMA TurnedBack ==
  ASSUME NEW half \in Nat \ {0}, NEW p, p.value \in 0 .. (2 * half) - 1,
         NEW q, NEW kind \in {"ROL", "ROR"}, NEW back \in {"ROL", "ROR"} \ {kind},
         q.value = ShiftedOnce(kind, p, 2 * half).value
  PROVE  ShiftedOnce(back, q, 2 * half).value = p.value
<1> DEFINE size == 2 * half
           v == p.value
           w == q.value
           Left(x)  == ((2 * x) % size) + (IF x >= half THEN 1 ELSE 0)
           Right(x) == (x \div 2) + (IF x % 2 = 1 THEN half ELSE 0)
<1>1. size \div 2 = half /\ size \in Nat \ {0} /\ v \in Int /\ 0 <= v /\ v < size
  BY SMT
<1>2. /\ \A k, x : ShiftedLeft("ROL", x, size).value = Left(x.value)
      /\ \A x : ShiftedRight("ROR", x, size).value = Right(x.value)
  BY Zenon, <1>1 DEF ShiftedLeft, ShiftedRight, Negative
<1>3. \A x : /\ ShiftedOnce("ROL", x, size).value = Left(x.value)
             /\ ShiftedOnce("ROR", x, size).value = Right(x.value)
  BY <1>2 DEF ShiftedOnce
<1> HIDE DEF v, w
<1>4. ASSUME NEW x \in Int, 0 <= x, x < size
      PROVE  (x < half => Left(x) = 2 * x) /\ (x >= half => Left(x) = ((2 * x) - size) + 1)
  <2>1. /\ 2 * x \in Int /\ (x < half => 2 * x \in 0 .. (size - 1))
        /\ (x >= half => 2 * x \in size .. (2 * size) - 1)
    BY SMT, <1>4
  <2>2. (x < half => (2 * x) % size = 2 * x) /\ (x >= half => (2 * x) % size = (2 * x) - size)
    BY Zenon, <1>1, <2>1, Wrapped
  <2> DEFINE m == (2 * x) % size
  <2>3. (x < half => m = 2 * x) /\ (x >= half => m = (2 * x) - size)
    BY <2>2
  <2> HIDE DEF m
  <2>4. /\ x < half => m + (IF x >= half THEN 1 ELSE 0) = 2 * x
        /\ x >= half => m + (IF x >= half THEN 1 ELSE 0) = ((2 * x) - size) + 1
    BY SMT, <1>4, <2>3
  <2> QED BY <2>4 DEF m
<1>5. Right(Left(v)) = v
  <2> DEFINE l == Left(v)
  <2>1. (v < half => l = 2 * v) /\ (v >= half => l = ((2 * v) - size) + 1)
    BY Zenon, <1>1, <1>4
  <2> HIDE DEF l
  <2>2. Right(l) = v
    BY SMT, <1>1, <2>1
  <2> QED BY <2>2 DEF l
<1>6. Left(Right(v)) = v
  <2> DEFINE x == Right(v)
             d == v \div 2
  <2>1. d \in Int /\ 0 <= d /\ d < half /\ (v % 2 = 1 => v = (2 * d) + 1) /\ (v % 2 # 1 => v = 2 * d)
    BY SMT, <1>1
  <2>2. (v % 2 = 1 => x = d + half) /\ (v % 2 # 1 => x = d)
    <3> HIDE DEF d
    <3>1. (v % 2 = 1 => d + (IF v % 2 = 1 THEN half ELSE 0) = d + half)
          /\ (v % 2 # 1 => d + (IF v % 2 = 1 THEN half ELSE 0) = d)
      BY SMT, <2>1
    <3> QED BY <3>1 DEF d
  <2> HIDE DEF x, d
  <2>3. x \in Int /\ 0 <= x /\ x < size
    BY SMT, <1>1, <2>1, <2>2
  <2>4. (x < half => Left(x) = 2 * x) /\ (x >= half => Left(x) = ((2 * x) - size) + 1)
    BY Zenon, <1>4, <2>3
  <2> HIDE DEF Left
  <2>5. Left(x) = v
    BY SMT, <1>1, <2>1, <2>2, <2>3, <2>4
  <2> QED BY <2>5 DEF x
<1> HIDE DEF Left, Right
<1>7. CASE kind = "ROL"
  <2>1. back = "ROR" /\ w = Left(v)
    BY <1>3, <1>7 DEF v, w
  <2> QED BY Zenon, <1>3, <1>5, <2>1 DEF v, w
<1>8. CASE kind = "ROR"
  <2>1. back = "ROL" /\ w = Right(v)
    BY <1>3, <1>8 DEF v, w
  <2> QED BY Zenon, <1>3, <1>6, <2>1 DEF v, w
<1> QED BY <1>7, <1>8

(* Turned left and then right by as many places, or the other way round, a  *)
(* value is what it was; no rotation touches X or leaves V.                *)
THEOREM RotationsUndo ==
  ASSUME NEW half \in Nat \ {0}, NEW value \in 0 .. (2 * half) - 1, NEW count \in 0 .. 63, NEW f, NEW g,
         NEW kind \in {"ROL", "ROR"}, NEW back \in {"ROL", "ROR"} \ {kind}
  PROVE  LET size == 2 * half
             r    == Shifted(kind, value, count, size, f)
         IN /\ Shifted(back, r.value, count, size, g).value = value
            /\ r.flags.x = f.x /\ r.flags.v = FALSE
<1> DEFINE size == 2 * half
           r    == Shifted(kind, value, count, size, f)
           t    == ShiftTable(kind, value, size)
           u    == ShiftTable(back, r.value, size)
           S    == {n \in 0 .. 63 : n <= count => u[n].value = t[count - n].value}
           L    == {n \in 0 .. 63 : t[n].overflow = FALSE}
<1>1. r.value \in 0 .. size - 1
  BY Zenon, ShiftFits
<1>2. /\ t[0] = Start(value)
      /\ \A n \in 0 .. 62 : n + 1 \in 0 .. 63 /\ t[n + 1] = ShiftedOnce(kind, t[n], size)
      /\ \A n \in 0 .. 63 : t[n].value \in 0 .. size - 1
  BY Zenon, PlacesOfAShift
<1>3. /\ u[0] = Start(r.value)
      /\ \A n \in 0 .. 62 : n + 1 \in 0 .. 63 /\ u[n + 1] = ShiftedOnce(back, u[n], size)
  <2> HIDE DEF r
  <2> QED BY <1>1, PlacesOfAShift
<1>4. /\ r.value = t[count].value /\ r.flags.v = t[count].overflow
      /\ Rotates(kind) => r.flags.x = f.x
  BY OutcomeOfAShift
<1>5. Shifted(back, r.value, count, size, g).value = u[count].value
  <2> HIDE DEF r
  <2> QED BY ShiftLooksUp
<1> HIDE DEF r, t, u
<1>6. Rotates(kind)
  BY DEF Rotates
<1>7. t[0].value = value /\ t[0].overflow = FALSE /\ u[0].value = r.value
  BY <1>2, <1>3 DEF Start
<1>8. 0 .. 63 \subseteq S
  <2>1. 0 \in S
    <3>1. count - 0 = count /\ 0 \in 0 .. 63
      BY SMT
    <3> QED BY Zenon, <1>4, <1>7, <3>1
  <2>2. ASSUME NEW n \in 0 .. 62, n \in S, n + 1 <= count PROVE u[n + 1].value = t[count - (n + 1)].value
    <3> DEFINE k == count - (n + 1)
               p == t[k]
               q == u[n]
    <3>1. k \in 0 .. 62 /\ k \in 0 .. 63 /\ k + 1 = count - n /\ n <= count
      BY SMT, <2>2
    <3> HIDE DEF k
    <3>2. q.value = ShiftedOnce(kind, p, size).value
      BY Zenon, <1>2, <2>2, <3>1
    <3>3. p.value \in 0 .. size - 1
      BY Zenon, <1>2, <3>1
    <3>4. u[n + 1] = ShiftedOnce(back, q, size)
      BY Zenon, <1>3
    <3> HIDE DEF p, q
    <3>5. ShiftedOnce(back, q, size).value = p.value
      BY <3>2, <3>3, TurnedBack
    <3> QED BY Zenon, <3>4, <3>5 DEF p, k
  <2>3. \A n \in 0 .. 62 : n + 1 \in 0 .. 63
    BY SMT
  <2>4. ASSUME NEW n \in 0 .. 62, n \in S PROVE n + 1 \in S
    BY Zenon, <2>2, <2>3, <2>4
  <2> HIDE DEF S
  <2> QED BY Zenon, <2>1, <2>4, PlaceByPlace
<1>9. 0 .. 63 \subseteq L
  <2>1. 0 \in L
    <3>1. 0 \in 0 .. 63
      BY SMT
    <3> QED BY Zenon, <1>7, <3>1
  <2>2. ASSUME NEW n \in 0 .. 62, n \in L PROVE n + 1 \in L
    <3> DEFINE p == t[n]
    <3>1. n \in 0 .. 63 /\ n + 1 \in 0 .. 63
      BY SMT
    <3>2. t[n + 1] = ShiftedOnce(kind, p, size) /\ p.overflow = FALSE
      BY Zenon, <1>2, <2>2
    <3> HIDE DEF p
    <3>3. /\ ShiftedRight(kind, p, size).overflow = FALSE
          /\ ShiftedLeft(kind, p, size).overflow = FALSE
      BY <3>2 DEF ShiftedRight, ShiftedLeft
    <3>4. ShiftedOnce(kind, p, size).overflow = FALSE
      BY Zenon, <3>3 DEF ShiftedOnce
    <3> QED BY Zenon, <3>1, <3>2, <3>4
  <2> HIDE DEF L
  <2> QED BY Zenon, <2>1, <2>2, PlaceByPlace
<1>10. count - count = 0 /\ count <= count
  BY SMT
<1>11. u[count].value = value
  BY Zenon, <1>7, <1>8, <1>10
<1>12. r.flags.v = FALSE
  BY Zenon, <1>4, <1>9
<1> QED BY Zenon, <1>4, <1>5, <1>6, <1>11, <1>12 DEF r

-----------------------------------------------------------------------------
(* A processor record, and one whose pipeline is coherent. *)

Pipeline(c) == Add(c.prefetch[1], 2) = c.prefetch[2] /\ Add(c.prefetch[2], 2) = c.pc

Good(c) == Shape(c) /\ Pipeline(c)

(* A field other than the three of the pipeline can be set. *)
LEMMA OtherFields ==
  ASSUME NEW c, Good(c), NEW v
  PROVE  /\ Good([c EXCEPT !.d = v]) /\ Good([c EXCEPT !.a = v])
         /\ Good([c EXCEPT !.usp = v]) /\ Good([c EXCEPT !.ssp = v])
         /\ Good([c EXCEPT !.sr = v]) /\ Good([c EXCEPT !.stopped = v])
         /\ Good([c EXCEPT !.ram = v]) /\ Good([c EXCEPT !.at = v])
  BY SMT DEF Good, Shape, Fields, Pipeline

LEMMA Fetched ==
  ASSUME NEW c, Shape(c), NEW t
  PROVE  Good(FetchFrom(c, t))
  BY SMT DEF Good, Shape, Fields, Pipeline, FetchFrom

LEMMA PipelineMoved ==
  ASSUME NEW c, Good(c)
  PROVE  Good([c EXCEPT !.prefetch = <<c.prefetch[2], c.pc>>, !.pc = Add(c.pc, 2)])
  BY SMT DEF Good, Shape, Fields, Pipeline

-----------------------------------------------------------------------------
(* The steps of an instruction. *)

LEMMA Kept == ASSUME NEW c, Good(c), NEW d, Good(d) PROVE Good(Commit(c, d))
  BY Zenon DEF Commit

LEMMA Failed == ASSUME NEW c, Good(c) PROVE Good(Fail(c))
  BY Zenon, OtherFields DEF Fail

LEMMA Read ==
  ASSUME NEW c, Good(c), NEW fc, NEW addresses
  PROVE  Good(Reads(c, fc, addresses))
  BY Zenon, Failed DEF Reads

LEMMA Written ==
  ASSUME NEW c, Good(c), NEW fc, NEW a, NEW w
  PROVE  Good(Write(c, fc, a, w))
  BY Zenon, Failed, OtherFields DEF Write

LEMMA LongStored ==
  ASSUME NEW c, Good(c), NEW fc, NEW a, NEW x
  PROVE  Good(WriteLong(c, fc, a, x))
  BY Zenon, Written DEF WriteLong

LEMMA RegisterSet ==
  ASSUME NEW c, Good(c), NEW r, NEW x
  PROVE  Good(SetAddressRegister(c, r, x)) /\ Good(SetDataRegister(c, r, x))
  BY Zenon, OtherFields DEF SetAddressRegister, SetDataRegister

LEMMA Flagged ==
  ASSUME NEW c, Good(c)
  PROVE  /\ \A f : Good(SetFlags(c, f))
         /\ \A x : Good(SetLogicalFlagsWord(c, x)) /\ Good(SetLogicalFlagsLong(c, x))
<1>1. ASSUME NEW f PROVE Good(SetFlags(c, f))
  BY Zenon, OtherFields DEF SetFlags
<1>2. \A f : Good(SetFlags(c, f))
  BY <1>1
<1> QED BY SMT, <1>2 DEF SetLogicalFlagsWord, SetLogicalFlagsLong

LEMMA Consumed ==
  ASSUME NEW c, Good(c)
  PROVE  /\ Good(Shift(c)) /\ Good(ConsumeExtension(c)) /\ Good(Refill(c))
         /\ \A t : Good(Fetch(c, t))
<1>1. ASSUME NEW b, Good(b) PROVE Good(Shift(b))
  BY Zenon, <1>1, PipelineMoved, Kept DEF Shift
<1>2. ASSUME NEW t PROVE Good(Fetch(c, t))
  BY Zenon, Read DEF Fetch
<1> QED BY Zenon, <1>1, <1>2 DEF ConsumeExtension, Refill

LEMMA Filled ==
  ASSUME NEW c, Good(c), NEW t
  PROVE  Good(Fill(c, t)) /\ Good(RefillBranch(c, t))
<1>1. ASSUME NEW b, Good(b) PROVE Good(Fill(b, t))
  BY Zenon, <1>1, Fetched, Kept DEF Fill, Good
<1> QED BY Zenon, <1>1, Read DEF RefillBranch

LEMMA Pushed ==
  ASSUME NEW c, Good(c), NEW x
  PROVE  /\ Good(PushLong(c, x))
         /\ \A sp : Good(PushAt(c, sp, x)) /\ Good(MoveStack(c, sp))
<1>1. ASSUME NEW b, Good(b), NEW sp PROVE Good(MoveStack(b, sp))
  BY Zenon, <1>1, RegisterSet, Kept DEF MoveStack
<1>2. ASSUME NEW sp PROVE Good(PushAt(c, sp, x))
  BY Zenon, <1>1, LongStored DEF PushAt
<1> QED BY Zenon, <1>1, <1>2 DEF PushLong

-----------------------------------------------------------------------------
(* Exceptions. *)

LEMMA Entered ==
  ASSUME NEW c, Good(c), NEW sp, NEW vectorAddress
  PROVE  Good(EnterHandler(c, sp, vectorAddress))
<1>1. ASSUME NEW h, Good(h), NEW handler PROVE Good(AtHandler(h, sp, handler))
  <2>1. Good(FetchFrom(h, handler))
    BY Zenon, <1>1, Fetched DEF Good
  <2> DEFINE f == FetchFrom(h, handler)
             x == InSupervisorMode(f.sr)
  <2>2. Good([f EXCEPT !.ssp = sp])
    BY Zenon, <2>1, OtherFields
  <2>3. Good([[f EXCEPT !.ssp = sp] EXCEPT !.sr = InSupervisorMode([f EXCEPT !.ssp = sp].sr)])
    BY Zenon, <2>2, OtherFields
  <2> DEFINE g == [f EXCEPT !.ssp = sp, !.sr = InSupervisorMode(@), !.at = "trapped"]
  <2>4. Good(g)
    BY SMT, <2>1 DEF Good, Shape, Fields, Pipeline
  <2> QED BY Zenon, <1>1, <2>4, Kept DEF AtHandler
<1>2. ASSUME NEW handler PROVE Good(HandlerReads(c, vectorAddress, handler))
  BY Zenon, Read DEF HandlerReads
<1> QED BY Zenon, <1>1, <1>2 DEF EnterHandler

LEMMA Excepted ==
  ASSUME NEW c, Good(c), NEW vector, NEW savedPC
  PROVE  Good(StandardException(c, vector, savedPC))
<1>1. \A sp : Good(ShortFrame(c, sp, savedPC))
  BY Zenon, Written DEF ShortFrame, WriteStatus
<1> QED BY Zenon, <1>1, Entered DEF StandardException

LEMMA Violated ==
  ASSUME NEW c, Good(c)
  PROVE  Good(PrivilegeViolation(c))
  BY Zenon, Excepted DEF PrivilegeViolation

LEMMA AccessFaulted ==
  ASSUME NEW c, Good(c), NEW opcode, NEW target, NEW savedPC, NEW fc, NEW read, NEW vectorAddress
  PROVE  Good(AccessError(c, opcode, target, savedPC, fc, read, vectorAddress))
<1>1. \A sp : Good(OldFrame(c, sp, savedPC))
  BY Zenon, Written DEF OldFrame, WriteStatus
<1>2. ASSUME NEW b, Good(b), NEW sp, NEW status PROVE Good(AccessFrame(b, sp, opcode, target, status))
  BY Zenon, <1>2, Written DEF AccessFrame
<1> QED BY Zenon, <1>1, <1>2, Entered DEF AccessError, AccessErrorAt

LEMMA Branched ==
  ASSUME NEW c, Good(c), NEW target, NEW savedPC
  PROVE  Good(BranchTo(c, target, savedPC))
  BY Zenon, AccessFaulted, Filled DEF BranchTo, InstructionAddressError

-----------------------------------------------------------------------------
(* Operands. *)

LEMMA ExtensionsTaken ==
  ASSUME NEW c, Good(c), NEW mode, NEW reg
  PROVE  Good(AfterExtensions(c, mode, reg))
  BY Zenon, Consumed DEF AfterExtensions

LEMMA Decoded ==
  ASSUME NEW c, Good(c), NEW i
  PROVE  Good(DecodeControlEA(c, i))
  BY Zenon, Failed, Read DEF DecodeControlEA

LEMMA Sequential ==
  ASSUME NEW c, Good(c), NEW i
  PROVE  Good(RefillSequential(c, i))
  BY Zenon, Consumed, Filled DEF RefillSequential

LEMMA RegisterMoved ==
  ASSUME NEW c, Good(c), NEW r, NEW n
  PROVE  Good(Moved(c, r, n))
  BY Zenon, RegisterSet, Kept DEF Moved

LEMMA ImmediateTaken ==
  ASSUME NEW c, Good(c), NEW long
  PROVE  Good(ImmediateConsumed(c, long))
  BY Zenon, Consumed DEF ImmediateConsumed

LEMMA AddressMoved ==
  ASSUME NEW c, Good(c), NEW long, NEW mode, NEW reg
  PROVE  Good(SourceMoved(c, long, mode, reg)) /\ Good(MemoryRead(c, long, mode, reg))
<1>1. Good(SourceMoved(c, long, mode, reg))
  BY Zenon, RegisterMoved, ExtensionsTaken DEF SourceMoved
<1>2. Good(MemoryRead(c, long, mode, reg))
  BY Zenon, RegisterMoved DEF MemoryRead
<1> QED BY <1>1, <1>2

LEMMA SourceGood ==
  ASSUME NEW c, Good(c), NEW opcode, NEW long, NEW mode, NEW reg
  PROVE  Good(ReadSource(c, opcode, long, mode, reg))
<1>1. Good(SourceMoved(c, long, mode, reg)) /\ Good(ImmediateConsumed(c, long))
  BY Zenon, AddressMoved, ImmediateTaken
<1>2. ASSUME NEW b, Good(b), NEW address, NEW savedPC, NEW fc
      PROVE  Good(SourceAccess(b, opcode, long, address, savedPC, fc))
  BY Zenon, <1>2, AccessFaulted, Read DEF SourceAccess
<1>3. ASSUME NEW address, NEW savedPC, NEW fc
      PROVE  Good(MemoryRead(SourceAccess(SourceMoved(c, long, mode, reg), opcode, long, address,
                                          savedPC, fc), long, mode, reg))
  BY Zenon, <1>1, <1>2, AddressMoved
<1>4. Good(Commit(c, Fail(c)))
  BY Zenon, Failed DEF Commit
<1> QED BY Zenon, <1>1, <1>3, <1>4 DEF ReadSource

-----------------------------------------------------------------------------
(* The instructions that compute. *)

LEMMA ResultSet ==
  ASSUME NEW c, Good(c), NEW long, NEW r, NEW x, NEW f
  PROVE  /\ Good(SetPart(c, long, r, x)) /\ Good(SetFlags(SetPart(c, long, r, x), f))
         /\ Good(SetFlags(SetDataRegister(c, r, x), f))
<1>1. Good(SetPart(c, long, r, x)) /\ Good(SetDataRegister(c, r, x))
  BY Zenon, RegisterSet DEF SetPart
<1> QED BY Zenon, <1>1, Flagged

LEMMA InRegisterGood ==
  ASSUME NEW c, Good(c), NEW i, NEW r, NEW s
  PROVE  Good(InRegister(c, i, r, s))
<1>1. ASSUME NEW outcome PROVE Good(Into(c, i, r, outcome))
  BY Zenon, ResultSet DEF Into
<1> QED BY Zenon, <1>1, Kept, Consumed DEF InRegister

LEMMA WrittenBack ==
  ASSUME NEW c, Good(c), NEW long, NEW a, NEW x
  PROVE  Good(WriteBack(c, long, a, x))
  BY Zenon, Written DEF WriteBack

LEMMA ModifyGood ==
  ASSUME NEW c, Good(c), NEW i, NEW opcode, NEW s
  PROVE  Good(Modify(c, i, opcode, s))
<1>1. ASSUME NEW b, Good(b), NEW address PROVE Good(Modified(b, i, address, s))
  <2>1. ASSUME NEW r, Good(r), NEW f PROVE Good(Refill(Commit(r, SetFlags(r, f))))
    BY Zenon, <2>1, Flagged, Kept, Consumed
  <2>2. ASSUME NEW words PROVE Good(Reads(b, DataFC(b), words))
    BY Zenon, <1>1, Read
  <2> QED BY Zenon, <2>1, <2>2, WrittenBack DEF Modified
<1>2. ASSUME NEW m, Good(m), NEW address, NEW savedPC
      PROVE  Good(ModifyAt(m, i, opcode, address, savedPC, s))
  BY Zenon, <1>1, <1>2, AddressMoved, AccessFaulted DEF ModifyAt
<1> QED BY Zenon, <1>2, AddressMoved, Failed DEF Modify

LEMMA OperationGood ==
  ASSUME NEW c, Good(c), NEW i
  PROVE  /\ Good(ToRegister(c, i)) /\ Good(FromRegister(c, i)) /\ Good(Quick(c, i))
         /\ Good(OneOperand(c, i)) /\ Good(ShiftRegister(c, i)) /\ Good(Extended(c, i))
<1>1. Good(ToRegister(c, i))
  BY Zenon, SourceGood, InRegisterGood DEF ToRegister
<1>2. Good(FromRegister(c, i)) /\ Good(OneOperand(c, i))
  BY Zenon, InRegisterGood, ModifyGood DEF FromRegister, OneOperand
<1>3. Good(Quick(c, i))
  BY Zenon, InRegisterGood, RegisterMoved, Consumed, ModifyGood DEF Quick
<1>4. Good(ShiftRegister(c, i)) /\ Good(Extended(c, i))
  BY Zenon, InRegisterGood, Failed DEF ShiftRegister, Extended
<1> QED BY <1>1, <1>2, <1>3, <1>4

LEMMA ComparedGood ==
  ASSUME NEW c, Good(c), NEW i, NEW opcode, NEW s
  PROVE  Good(CompareWith(c, i, opcode, s))
<1>1. ASSUME NEW r, Good(r), NEW f PROVE Good(Refill(Commit(r, SetFlags(r, f))))
  BY Zenon, <1>1, Flagged, Kept, Consumed
<1> QED BY Zenon, <1>1, SourceGood DEF CompareWith

LEMMA ImmediateGood ==
  ASSUME NEW c, Good(c), NEW i
  PROVE  Good(Immediate(c, i))
<1>1. ASSUME NEW b, Good(b), NEW opcode, NEW s PROVE Good(ImmediateTo(b, i, opcode, s))
  BY Zenon, <1>1, ComparedGood, InRegisterGood, ModifyGood DEF ImmediateTo
<1> QED BY Zenon, <1>1, Failed, ImmediateTaken DEF Immediate

LEMMA ToAddressGood ==
  ASSUME NEW c, Good(c), NEW i
  PROVE  Good(ToAddressRegister(c, i))
<1>1. ASSUME NEW r, Good(r), NEW before, NEW x PROVE Good(AddressOperation(r, i, before, x))
  BY Zenon, <1>1, Flagged, RegisterSet DEF AddressOperation
<1> QED BY Zenon, <1>1, SourceGood, Kept, Consumed DEF ToAddressRegister

LEMMA CompareMemoryGood ==
  ASSUME NEW c, Good(c), NEW i
  PROVE  Good(CompareMemory(c, i))
<1>1. ASSUME NEW s, Good(s), NEW target
      PROVE  Good(AccessError(s, c.prefetch[1], target, c.pc, DataFC(c), TRUE, AddressErrorVector))
  BY Zenon, <1>1, AccessFaulted
<1>2. Good(Moved(c, i.reg, 2)) /\ Good(ReadSource(c, c.prefetch[1], i.long, 3, i.reg))
  BY Zenon, RegisterMoved, SourceGood
<1> QED BY Zenon, <1>1, <1>2, ComparedGood DEF CompareMemory

LEMMA TestGood ==
  ASSUME NEW c, Good(c), NEW i
  PROVE  Good(Test(c, i))
<1>1. ASSUME NEW r, Good(r), NEW f PROVE Good(Refill(Commit(r, SetFlags(r, f))))
  BY Zenon, <1>1, Flagged, Kept, Consumed
<1> QED BY Zenon, <1>1, SourceGood, Failed DEF Test

LEMMA ProductGood ==
  ASSUME NEW c, Good(c), NEW i
  PROVE  Good(Multiply(c, i)) /\ Good(Divide(c, i))
<1>1. ASSUME NEW r, Good(r), NEW x PROVE Good(LongResult(r, i, x))
  BY Zenon, <1>1, ResultSet, Kept DEF LongResult
<1>2. Good(Multiply(c, i))
  BY Zenon, <1>1, SourceGood, Failed, Consumed DEF Multiply
<1>3. ASSUME NEW r, Good(r), NEW a, NEW b PROVE Good(DivideBy(r, i, a, b))
  <2>1. Good(DivideByZero(r))
    BY Zenon, <1>3, Flagged, Excepted DEF DivideByZero
  <2>2. Good(Refill(DivisionOverflow(r)))
    BY Zenon, <1>3, Flagged, Consumed DEF DivisionOverflow
  <2>3. ASSUME NEW x PROVE Good(Refill(DivisionDone(r, i, x)))
    BY Zenon, <1>3, RegisterSet, Flagged, Consumed DEF DivisionDone
  <2> QED BY Zenon, <1>3, <2>1, <2>2, <2>3 DEF DivideBy
<1>4. Good(Divide(c, i))
  BY Zenon, <1>3, SourceGood, Failed DEF Divide
<1> QED BY <1>2, <1>4

LEMMA BitGood ==
  ASSUME NEW c, Good(c), NEW i
  PROVE  Good(SetOnCondition(c, i)) /\ Good(BitOperation(c, i))
<1>1. Good(SetOnCondition(c, i))
  <2>1. \A x : Good(Refill(SetDataRegister(c, i.reg, x)))
    BY Zenon, RegisterSet, Consumed
  <2> QED BY SMT, <2>1 DEF SetOnCondition
<1>2. ASSUME NEW b, Good(b), NEW n PROVE Good(BitOf(b, i, n))
  BY Zenon, <1>2, ResultSet, Kept, Consumed DEF BitOf
<1> QED BY Zenon, <1>1, <1>2, Consumed DEF BitOperation

LEMMA ExchangeGood ==
  ASSUME NEW c, Good(c), NEW i
  PROVE  Good(Exchange(c, i))
<1>1. ASSUME NEW r, NEW x, NEW q, NEW y
      PROVE  /\ Good(Refill(SetDataRegister(SetDataRegister(c, r, x), q, y)))
             /\ Good(Refill(SetAddressRegister(SetAddressRegister(c, r, x), q, y)))
             /\ Good(Refill(SetAddressRegister(SetDataRegister(c, r, x), q, y)))
  BY Zenon, RegisterSet, Consumed
<1> QED BY Zenon, <1>1 DEF Exchange

-----------------------------------------------------------------------------
(* The instructions on bytes. *)

LEMMA ByteWritten ==
  ASSUME NEW c, Good(c), NEW a, NEW x
  PROVE  Good(WriteByte(c, a, x))
<1>1. \A w : Good(Write(c, DataFC(c), EvenAddress(a), w))
  BY Zenon, Written
<1> QED BY Zenon, <1>1 DEF WriteByte

LEMMA ByteSet ==
  ASSUME NEW c, Good(c), NEW r, NEW x, NEW f
  PROVE  /\ Good(FlagsSet(c, f)) /\ Good(ByteResult(c, r, x, f))
         /\ Good(Refill(FlagsSet(c, f))) /\ Good(Refill(ByteResult(c, r, x, f)))
<1>1. Good(FlagsSet(c, f))
  BY Zenon, Flagged, Kept DEF FlagsSet
<1>2. Good(ByteResult(c, r, x, f))
  BY Zenon, RegisterSet, Flagged DEF ByteResult
<1> QED BY Zenon, <1>1, <1>2, Consumed

LEMMA InByteRegisterGood ==
  ASSUME NEW c, Good(c), NEW i, NEW r, NEW s
  PROVE  Good(InByteRegister(c, i, r, s))
<1>1. \A x, f : Good(Commit(c, ByteResult(c, r, x, f)))
  BY Zenon, ByteSet, Kept
<1>2. \A x, f : Good(Refill(Commit(c, ByteResult(c, r, x, f))))
  BY Zenon, <1>1, Consumed
<1> QED BY SMT, <1>2 DEF InByteRegister

LEMMA ByteMoved ==
  ASSUME NEW c, Good(c), NEW mode, NEW reg
  PROVE  /\ Good(ByteLocated(c, mode, reg)) /\ Good(ByteIncremented(c, mode, reg))
         /\ \A fc : Good(ReadLocated(c, fc, mode, reg))
<1>1. Good(ByteLocated(c, mode, reg)) /\ Good(ByteIncremented(c, mode, reg))
  BY Zenon, RegisterMoved, ExtensionsTaken DEF ByteLocated, ByteIncremented
<1>2. ASSUME NEW fc PROVE Good(ReadLocated(c, fc, mode, reg))
  BY Zenon, <1>1, Read DEF ReadLocated
<1> QED BY Zenon, <1>1, <1>2

LEMMA ByteRead ==
  ASSUME NEW c, Good(c), NEW mode, NEW reg
  PROVE  Good(ReadByte(c, mode, reg))
<1>1. \A fc : Good(ByteIncremented(ReadLocated(c, fc, mode, reg), mode, reg))
  BY Zenon, ByteMoved
<1>2. Good(Fail(c)) /\ Good(ConsumeExtension(c))
  BY Zenon, Failed, Consumed
<1> QED BY Zenon, <1>1, <1>2 DEF ReadByte

LEMMA ByteReplaced ==
  ASSUME NEW c, Good(c), NEW i
  PROVE  /\ \A value, f : Good(Replaced(c, i, value, f))
         /\ \A s : Good(ModifyByte(c, i, s))
<1>1. ASSUME NEW value, NEW f PROVE Good(Replaced(c, i, value, f))
  <2>1. Good(Refill(FlagsSet(ReadLocated(c, DataFC(c), i.mode, i.reg), f)))
    BY Zenon, ByteMoved, ByteSet
  <2>2. \A b, a : Good(b) => Good(ByteIncremented(WriteByte(b, a, value), i.mode, i.reg))
    BY Zenon, ByteWritten, ByteMoved
  <2> QED BY Zenon, <2>1, <2>2, Failed DEF Replaced
<1>2. ASSUME NEW s PROVE Good(ModifyByte(c, i, s))
  BY SMT, <1>1 DEF ModifyByte
<1> QED BY Zenon, <1>1, <1>2

LEMMA ByteOperationGood ==
  ASSUME NEW c, Good(c), NEW i
  PROVE  /\ Good(ByteToRegister(c, i)) /\ Good(ByteFromRegister(c, i)) /\ Good(ByteQuick(c, i))
         /\ Good(ByteShift(c, i)) /\ Good(ByteExtended(c, i))
<1>1. Good(ByteToRegister(c, i))
  BY Zenon, ByteRead, InByteRegisterGood DEF ByteToRegister
<1>2. Good(ByteFromRegister(c, i)) /\ Good(ByteQuick(c, i))
  <2>1. \A s : Good(ModifyByte(c, i, s))
    BY Zenon, ByteReplaced
  <2>2. \A r, s : Good(InByteRegister(c, i, r, s))
    BY Zenon, InByteRegisterGood
  <2>3. Good(ByteFromRegister(c, i))
    BY SMT, <2>1, <2>2 DEF ByteFromRegister
  <2>4. Good(ByteQuick(c, i))
    BY Zenon, <2>1, <2>2 DEF ByteQuick
  <2> QED BY <2>3, <2>4
<1>3. Good(ByteShift(c, i)) /\ Good(ByteExtended(c, i))
  <2>1. \A r, s : Good(InByteRegister(c, i, r, s))
    BY Zenon, InByteRegisterGood
  <2>2. Good(ByteShift(c, i))
    BY Zenon, <2>1 DEF ByteShift
  <2>3. Good(ByteExtended(c, i))
    BY Zenon, <2>1, Failed DEF ByteExtended
  <2> QED BY <2>2, <2>3
<1> QED BY <1>1, <1>2, <1>3

LEMMA ByteComparedGood ==
  ASSUME NEW c, Good(c), NEW i
  PROVE  /\ \A mode, reg, s : Good(CompareByte(c, mode, reg, s))
         /\ Good(CompareBytesInMemory(c, i))
<1>1. ASSUME NEW b, Good(b), NEW mode, NEW reg, NEW s PROVE Good(CompareByte(b, mode, reg, s))
  <2>1. \A f : Good(Refill(FlagsSet(ReadByte(b, mode, reg), f)))
    BY Zenon, <1>1, ByteRead, ByteSet
  <2> QED BY Zenon, <2>1 DEF CompareByte
<1>2. Good(ReadByte(c, 3, i.reg))
  BY Zenon, ByteRead
<1> QED BY Zenon, <1>1, <1>2 DEF CompareBytesInMemory

LEMMA ByteImmediateGood ==
  ASSUME NEW c, Good(c), NEW i
  PROVE  Good(ByteImmediate(c, i))
<1>1. ASSUME NEW b, Good(b), NEW s PROVE Good(ByteImmediateTo(b, i, s))
  <2>1. Good(ModifyByte(b, i, s)) /\ Good(CompareByte(b, i.mode, i.reg, s))
    BY Zenon, <1>1, ByteReplaced, ByteComparedGood
  <2> QED BY Zenon, <1>1, <2>1, InByteRegisterGood DEF ByteImmediateTo
<1> QED BY Zenon, <1>1, Failed, Consumed DEF ByteImmediate

LEMMA ByteTestGood ==
  ASSUME NEW c, Good(c), NEW i
  PROVE  Good(TestByte(c, i)) /\ Good(SetByteOnCondition(c, i))
<1>1. \A f : Good(Refill(FlagsSet(ReadByte(c, i.mode, i.reg), f)))
  BY Zenon, ByteRead, ByteSet
<1>2. Good(TestByte(c, i))
  BY Zenon, <1>1, Failed, AccessFaulted DEF TestByte
<1>3. Good(SetByteOnCondition(c, i))
  <2>1. \A value, f : Good(Replaced(c, i, value, f))
    BY Zenon, ByteReplaced
  <2> QED BY <2>1 DEF SetByteOnCondition
<1> QED BY <1>2, <1>3

LEMMA TestAndSetGood ==
  ASSUME NEW c, Good(c), NEW i
  PROVE  Good(TestAndSet(c, i))
<1>1. \A x, f : Good(Refill(ByteResult(c, i.reg, x, f)))
  BY Zenon, ByteSet
<1>2. \A f, a, x : Good(Refill(WriteByte(FlagsSet(ReadByte(c, i.mode, i.reg), f), a, x)))
  BY Zenon, ByteRead, ByteSet, ByteWritten, Consumed
<1> QED BY SMT, <1>1, <1>2, Failed DEF TestAndSet

LEMMA ByteBitGood ==
  ASSUME NEW c, Good(c), NEW i
  PROVE  Good(ByteBitOperation(c, i))
<1>1. ASSUME NEW b, Good(b), NEW n PROVE Good(BitInByte(b, i, n))
  <2>1. \A f : Good(Refill(FlagsSet(ReadByte(b, i.mode, i.reg), f)))
    BY Zenon, <1>1, ByteRead, ByteSet
  <2> QED BY Zenon, <2>1, ByteWritten DEF BitInByte
<1>2. Good(ConsumeExtension(c)) /\ Good(Fail(c))
  BY Zenon, Consumed, Failed
<1>3. \A n : Good(BitInByte(c, i, n)) /\ Good(BitInByte(ConsumeExtension(c), i, n))
  BY Zenon, <1>1, <1>2
<1> QED BY Zenon, <1>2, <1>3 DEF ByteBitOperation

LEMMA ByteMoveGood ==
  ASSUME NEW c, Good(c), NEW i
  PROVE  Good(MoveByte(c, i))
<1>1. ASSUME NEW b, Good(b), NEW x PROVE Good(WriteByteDestination(b, i, x))
  <2>1. \A y : Good(Refill(SetDataRegister(b, i.dreg, y)))
    BY Zenon, <1>1, RegisterSet, Consumed
  <2>2. \A a : Good(WriteByte(ByteLocated(Refill(b), 4, i.dreg), a, x))
    BY Zenon, <1>1, Consumed, ByteMoved, ByteWritten
  <2>3. \A fc, words, a, pc : Good(RefillBranch(WriteByte(Reads(b, fc, words), a, x), pc))
    BY Zenon, <1>1, Read, ByteWritten, Filled
  <2>4. \A a : Good(Refill(ByteIncremented(WriteByte(AfterExtensions(b, i.dmode, i.dreg), a, x),
                                           i.dmode, i.dreg)))
    BY Zenon, <1>1, ExtensionsTaken, ByteWritten, ByteMoved, Consumed
  <2> QED BY Zenon, <2>1, <2>2, <2>3, <2>4 DEF WriteByteDestination
<1>2. ASSUME NEW s, Good(s), NEW x PROVE Good(MoveByteTo(s, i, x))
  BY Zenon, <1>1, <1>2, ByteSet DEF MoveByteTo
<1> QED BY Zenon, <1>2, ByteRead, Failed DEF MoveByte

LEMMA ByteGood ==
  ASSUME NEW c, Good(c), NEW i
  PROVE  Good(OnByte(c, i))
<1>1. /\ Good(MoveByte(c, i)) /\ Good(ByteToRegister(c, i)) /\ Good(ByteFromRegister(c, i))
      /\ Good(ByteImmediate(c, i)) /\ Good(ByteQuick(c, i)) /\ Good(ByteShift(c, i))
      /\ Good(ByteExtended(c, i)) /\ Good(CompareBytesInMemory(c, i)) /\ Good(TestByte(c, i))
      /\ Good(SetByteOnCondition(c, i)) /\ Good(TestAndSet(c, i)) /\ Good(ByteBitOperation(c, i))
  BY Zenon, ByteMoveGood, ByteOperationGood, ByteImmediateGood, ByteComparedGood, ByteTestGood,
     TestAndSetGood, ByteBitGood
<1> QED BY Zenon, <1>1 DEF OnByte

-----------------------------------------------------------------------------
(* Registers and jumps. *)

LEMMA RegisterGood ==
  ASSUME NEW c, Good(c), NEW i
  PROVE  Good(Moveq(c, i)) /\ Good(Swap(c, i)) /\ Good(ExtWord(c, i)) /\ Good(ExtLong(c, i))
<1>1. \A r, x : Good(SetDataRegister(c, r, x))
  BY Zenon, RegisterSet
<1>2. \A r, x, y : /\ Good(Refill(SetLogicalFlagsLong(SetDataRegister(c, r, x), y)))
                   /\ Good(Refill(SetLogicalFlagsWord(SetDataRegister(c, r, x), y)))
  BY Zenon, <1>1, Flagged, Consumed
<1> QED BY SMT, <1>2 DEF Moveq, Swap, ExtWord, ExtLong

LEMMA LeaGood ==
  ASSUME NEW c, Good(c), NEW i
  PROVE  Good(Lea(c, i))
<1>1. ASSUME NEW b, Good(b) PROVE Good(AddressLoaded(b, i))
  BY Zenon, <1>1, RegisterSet, Kept DEF AddressLoaded
<1> QED BY Zenon, <1>1, Decoded, Sequential DEF Lea

LEMMA PeaGood ==
  ASSUME NEW c, Good(c), NEW i
  PROVE  Good(Pea(c, i))
<1>1. ASSUME NEW b, Good(b), NEW start, NEW x PROVE Good(PushDecoded(b, i, start, x))
  BY Zenon, <1>1, Consumed, Pushed, Filled DEF PushDecoded
<1> QED BY Zenon, <1>1, Decoded DEF Pea

LEMMA JumpGood ==
  ASSUME NEW c, Good(c), NEW i
  PROVE  Good(Jmp(c, i)) /\ Good(Jsr(c, i)) /\ Good(Bsr(c, i)) /\ Good(Branch(c, i))
<1>1. ASSUME NEW b, Good(b), NEW target, NEW returnPC PROVE Good(Call(b, target, returnPC))
  BY Zenon, <1>1, AccessFaulted, Consumed, Pushed, Filled DEF Call, InstructionAddressError
<1>2. Good(Jmp(c, i)) /\ Good(Jsr(c, i))
  BY Zenon, <1>1, Decoded, Branched DEF Jmp, Jsr
<1>3. Good(Bsr(c, i))
  BY Zenon, Pushed, Branched DEF Bsr, CallNear
<1>4. Good(Branch(c, i))
  BY Zenon, Branched, Consumed, Filled DEF Branch
<1> QED BY <1>2, <1>3, <1>4

LEMMA LoopGood ==
  ASSUME NEW c, Good(c), NEW i
  PROVE  Good(DBcc(c, i))
<1>1. \A count : Good(Counted(c, i, count))
  BY Zenon, RegisterSet DEF Counted
<1>2. ASSUME NEW count, NEW target PROVE Good(CountDown(c, i, count, target))
  <2>1. Good(IF target % 2 = 1 THEN c ELSE Counted(c, i, count))
    BY Zenon, <1>1
  <2> QED BY SMT, <1>1, <2>1, Branched, Filled DEF CountDown
<1> QED BY SMT, <1>2 DEF DBcc

LEMMA FrameGood ==
  ASSUME NEW c, Good(c), NEW i
  PROVE  Good(Rts(c)) /\ Good(Link(c, i)) /\ Good(Unlk(c, i))
<1>1. Good(Rts(c))
  <2> DEFINE sp == AddressRegister(c, 7)
             r  == Reads(c, DataFC(c), {sp, sp + 2})
  <2>1. Good(r) /\ Good(SetAddressRegister(r, 7, Add(sp, 4)))
    BY Zenon, Read, RegisterSet
  <2>2. Good(Commit(r, SetAddressRegister(r, 7, Add(sp, 4))))
    BY Zenon, <2>1, Kept
  <2>3. Rts(c) = BranchTo(Commit(r, SetAddressRegister(r, 7, Add(sp, 4))), LongAt(c, sp), Add(c.pc, -2))
    BY Zenon DEF Rts
  <2> HIDE DEF r, sp
  <2> QED BY Zenon, <2>2, <2>3, Branched
<1>2. ASSUME NEW b, Good(b), NEW displacement PROVE Good(Linked(b, i, displacement))
  BY Zenon, <1>2, RegisterSet, Kept DEF Linked
<1>3. Good(Link(c, i))
  BY Zenon, <1>2, Consumed, Pushed DEF Link
<1>4. ASSUME NEW b, Good(b), NEW frame, NEW x PROVE Good(Unlinked(b, i, frame, x))
  <2>1. Good(IF i.reg = 7 THEN b ELSE SetAddressRegister(b, 7, Add(frame, 4)))
    BY Zenon, <1>4, RegisterSet
  <2> QED BY Zenon, <1>4, <2>1, RegisterSet, Kept DEF Unlinked
<1>5. ASSUME NEW frame PROVE Good(Unlink(c, i, frame))
  BY Zenon, <1>4, AccessFaulted, RegisterSet, Read, Consumed DEF Unlink
<1> QED BY Zenon, <1>1, <1>3, <1>5 DEF Unlk

-----------------------------------------------------------------------------
(* MOVE.W, MOVE.L and MOVEM. *)

LEMMA DestinationGood ==
  ASSUME NEW c, Good(c), NEW i, NEW opcode, NEW w
  PROVE  Good(WriteWordDestination(c, i, opcode, w))
<1>1. ASSUME NEW b, Good(b), NEW op, NEW address, NEW savedPC
      PROVE  Good(WriteWord(b, op, address, savedPC, w))
  BY Zenon, <1>1, Flagged, AccessFaulted, Kept, Written DEF WriteWord, WordWriteFault
<1>2. Good(BeforeWrite(c, i))
  BY Zenon, RegisterSet, Consumed, Read, ExtensionsTaken DEF BeforeWrite
<1>3. ASSUME NEW b, Good(b), NEW pc PROVE Good(AfterWrite(b, i, pc))
  <2>1. Good(IF i.dmode = 3 THEN SetAddressRegister(b, i.dreg, Add(AddressRegister(b, i.dreg), 2)) ELSE b)
    BY Zenon, <1>3, RegisterSet
  <2> QED BY Zenon, <1>3, <2>1, Filled, Kept, Consumed DEF AfterWrite
<1>4. Good(Refill(SetDataRegister(c, i.dreg, SetLow(c.d[i.dreg], w))))
  BY Zenon, RegisterSet, Consumed
<1> QED BY Zenon, <1>1, <1>2, <1>3, <1>4 DEF WriteWordDestination

LEMMA MoveGood ==
  ASSUME NEW c, Good(c), NEW i
  PROVE  Good(MoveWord(c, i))
<1>1. ASSUME NEW b, Good(b), NEW opcode, NEW w PROVE Good(MoveTo(b, i, opcode, w))
  BY Zenon, <1>1, DestinationGood, Flagged, Kept DEF MoveTo
<1> QED BY Zenon, <1>1, Failed, SourceGood DEF MoveWord

LEMMA LongDestinationGood ==
  ASSUME NEW c, Good(c), NEW i, NEW opcode, NEW x
  PROVE  Good(WriteLongDestination(c, i, opcode, x))
<1>1. ASSUME NEW b, Good(b) PROVE Good(LongFaultFlags(b, i, x))
  BY Zenon, <1>1, Flagged DEF LongFaultFlags
<1>2. ASSUME NEW b, Good(b), NEW op, NEW address, NEW savedPC
      PROVE  Good(LongWritten(b, i, op, address, savedPC, x))
  BY Zenon, <1>1, <1>2, AccessFaulted, RegisterMoved, WrittenBack, LongStored DEF LongWritten
<1>3. Good(BeforeLong(c, i))
  BY Zenon, Consumed, Read, ExtensionsTaken DEF BeforeLong
<1>4. ASSUME NEW b, Good(b), NEW pc PROVE Good(AfterLong(b, i, pc))
  BY Zenon, <1>4, RegisterMoved, Filled, Consumed DEF AfterLong
<1>5. Good(Refill(SetDataRegister(c, i.dreg, x)))
  BY Zenon, RegisterSet, Consumed
<1> QED BY Zenon, <1>2, <1>3, <1>4, <1>5 DEF WriteLongDestination

LEMMA MoveLongGood ==
  ASSUME NEW c, Good(c), NEW i
  PROVE  Good(MoveLong(c, i))
<1>1. ASSUME NEW b, Good(b), NEW opcode, NEW x PROVE Good(MoveLongTo(b, i, opcode, x))
  BY Zenon, <1>1, LongDestinationGood, Flagged, Kept DEF MoveLongTo
<1> QED BY Zenon, <1>1, Failed, SourceGood DEF MoveLong

LEMMA StoreGood ==
  ASSUME NEW c, Good(c), NEW i, NEW mask, NEW address
  PROVE  Good(MovemStore(c, i, mask, address))
<1>1. ASSUME NEW words, NEW done PROVE Good(StoreWords(c, i, address, words, done))
  <2>1. Good(Stored(c, words, done))
    BY Zenon, OtherFields DEF Stored
  <2>2. ASSUME NEW b, Good(b), NEW n PROVE Good(Followed(b, i, address, n))
    BY Zenon, <2>2, RegisterSet DEF Followed
  <2>3. ASSUME NEW b, Good(b) PROVE Good(Finished(b, words, done))
    BY Zenon, <2>3, Failed DEF Finished
  <2> QED BY Zenon, <2>1, <2>2, <2>3 DEF StoreWords
<1> QED BY Zenon, <1>1 DEF MovemStore

LEMMA LoadGood ==
  ASSUME NEW c, Good(c), NEW i, NEW mask, NEW address, NEW fc
  PROVE  Good(MovemLoad(c, i, mask, address, fc))
<1>1. ASSUME NEW list, NEW whole PROVE Good(LoadRegisters(c, i, address, list, whole))
  <2>1. ASSUME NEW x, NEW y PROVE Good([c EXCEPT !.d = x, !.a = y])
    BY SMT DEF Good, Shape, Fields, Pipeline
  <2> QED BY Zenon, <2>1, RegisterSet DEF LoadRegisters
<1>2. ASSUME NEW b, Good(b), NEW words, NEW done PROVE Good(Finished(b, words, done))
  BY Zenon, <1>2, Failed DEF Finished
<1> QED BY Zenon, <1>1, <1>2 DEF MovemLoad

LEMMA MovemGood ==
  ASSUME NEW c, Good(c), NEW i
  PROVE  Good(Movem(c, i))
<1>1. ASSUME NEW b, Good(b), NEW opcode, NEW mask, NEW address, NEW fc
      PROVE  Good(MovemTransfer(b, i, opcode, mask, address, fc))
  <2>1. ASSUME NEW s, Good(s), NEW x
        PROVE  Good(IF i.mode = 3 THEN Commit(s, SetAddressRegister(s, i.reg, x)) ELSE s)
    BY Zenon, <2>1, RegisterSet, Kept
  <2>2. Good(MovemStore(b, i, mask, address)) /\ Good(MovemLoad(b, i, mask, address, fc))
    BY Zenon, <1>1, StoreGood, LoadGood
  <2> QED BY Zenon, <1>1, <2>1, <2>2, AccessFaulted, Read, Consumed DEF MovemTransfer
<1>2. Good(ConsumeExtension(c))
  BY Zenon, Consumed
<1>3. ASSUME NEW b, Good(b)
      PROVE  Good(IF MovemModeIsValid(i) THEN AfterExtensions(b, i.mode, i.reg) ELSE Fail(b))
  BY Zenon, <1>3, ExtensionsTaken, Failed
<1> QED BY Zenon, <1>1, <1>2, <1>3 DEF Movem

-----------------------------------------------------------------------------
(* The instructions of the supervisor. *)

LEMMA SupervisorGood ==
  ASSUME NEW c, Good(c), NEW i
  PROVE  /\ Good(MoveToUsp(c, i)) /\ Good(MoveFromUsp(c, i)) /\ Good(MoveFromSR(c, i))
         /\ Good(Rte(c)) /\ Good(Stop(c)) /\ Good(ResetDevices(c))
<1>1. ASSUME NEW d, Good(d) PROVE Good(Privileged(c, d))
  BY Zenon, <1>1, Violated DEF Privileged
<1>2. Good(MoveToUsp(c, i)) /\ Good(MoveFromUsp(c, i)) /\ Good(ResetDevices(c))
  BY Zenon, <1>1, OtherFields, RegisterSet, Consumed DEF MoveToUsp, MoveFromUsp, ResetDevices
<1>3. Good(MoveFromSR(c, i))
  BY Zenon, RegisterSet, Consumed, ModifyGood DEF MoveFromSR
<1>4. Good(Stop(c))
  <2>1. ASSUME NEW x PROVE Good([c EXCEPT !.sr = x, !.stopped = TRUE])
    BY SMT DEF Good, Shape, Fields, Pipeline
  <2> QED BY Zenon, <1>1, <2>1 DEF Stop
<1>5. Good(Return(c))
  <2>1. ASSUME NEW s, Good(s), NEW x, NEW y PROVE Good(Commit(s, [s EXCEPT !.ssp = x, !.sr = y]))
    <3>1. Good([s EXCEPT !.ssp = x, !.sr = y])
      BY SMT, <2>1 DEF Good, Shape, Fields, Pipeline
    <3> QED BY Zenon, <2>1, <3>1, Kept
  <2> QED BY Zenon, <2>1, Read, Branched DEF Return
<1> QED BY Zenon, <1>1, <1>2, <1>3, <1>4, <1>5 DEF Rte

LEMMA StatusGood ==
  ASSUME NEW c, Good(c), NEW i
  PROVE  Good(MoveStatus(c, i)) /\ Good(LogicalToStatus(c, i))
<1>1. ASSUME NEW s, Good(s), NEW sr PROVE Good(StatusSet(s, sr))
  <2>1. ASSUME NEW b, Good(b) PROVE Good(Commit(b, [b EXCEPT !.sr = sr]))
    BY Zenon, <2>1, OtherFields, Kept
  <2> QED BY Zenon, <1>1, <2>1, Read, Consumed DEF StatusSet
<1>2. Good(MoveToStatus(c, i))
  BY Zenon, <1>1, SourceGood DEF MoveToStatus
<1>3. Good(LogicalToStatus(c, i))
  BY Zenon, <1>1, Consumed, Violated DEF LogicalToStatus
<1> QED BY Zenon, <1>2, <1>3, Violated DEF MoveStatus

LEMMA TrapGood ==
  ASSUME NEW c, Good(c), NEW i
  PROVE  Good(Trap(c, i)) /\ Good(LineF(c)) /\ Good(IllegalOp(c))
  BY Zenon, Excepted DEF Trap, LineF, IllegalOp

LEMMA ExecutedGood ==
  ASSUME NEW c, Good(c), NEW i
  PROVE  Good(Executed(c, i))
<1>1. Good(Refill(c)) /\ Good(Fail(c))
  BY Zenon, Consumed, Failed
<1>2. /\ Good(Moveq(c, i)) /\ Good(Swap(c, i)) /\ Good(ExtWord(c, i)) /\ Good(ExtLong(c, i))
      /\ Good(Lea(c, i)) /\ Good(Pea(c, i)) /\ Good(Jmp(c, i)) /\ Good(Jsr(c, i))
      /\ Good(Bsr(c, i)) /\ Good(Branch(c, i)) /\ Good(DBcc(c, i))
      /\ Good(Rts(c)) /\ Good(Link(c, i)) /\ Good(Unlk(c, i))
  BY Zenon, RegisterGood, LeaGood, PeaGood, JumpGood, LoopGood, FrameGood
<1>3. Good(MoveWord(c, i)) /\ Good(MoveLong(c, i)) /\ Good(Movem(c, i))
  BY Zenon, MoveGood, MoveLongGood, MovemGood
<1>4. /\ Good(MoveToUsp(c, i)) /\ Good(MoveFromUsp(c, i)) /\ Good(MoveFromSR(c, i))
      /\ Good(MoveStatus(c, i)) /\ Good(LogicalToStatus(c, i)) /\ Good(Rte(c)) /\ Good(Stop(c)) /\ Good(ResetDevices(c))
      /\ Good(Trap(c, i)) /\ Good(LineF(c)) /\ Good(IllegalOp(c))
  BY Zenon, SupervisorGood, StatusGood, TrapGood
<1>5. /\ Good(ToRegister(c, i)) /\ Good(FromRegister(c, i)) /\ Good(Immediate(c, i))
      /\ Good(Quick(c, i)) /\ Good(OneOperand(c, i)) /\ Good(ShiftRegister(c, i))
      /\ Good(Extended(c, i)) /\ Good(ToAddressRegister(c, i)) /\ Good(CompareMemory(c, i))
      /\ Good(Test(c, i)) /\ Good(Multiply(c, i)) /\ Good(Divide(c, i)) /\ Good(Exchange(c, i))
      /\ Good(SetOnCondition(c, i)) /\ Good(BitOperation(c, i))
  BY Zenon, OperationGood, ImmediateGood, ToAddressGood, CompareMemoryGood, TestGood,
     ProductGood, ExchangeGood, BitGood
<1>6. Good(OnByte(c, i))
  BY Zenon, ByteGood
<1> QED BY Zenon, <1>1, <1>2, <1>3, <1>4, <1>5, <1>6 DEF Executed

-----------------------------------------------------------------------------
(* The processor in the machine, and the machine in the session. *)

IInv == Shape(cpu) /\ (On => Pipeline(cpu))

LEMMA BeginEnd ==
  ASSUME NEW c, Good(c)
  PROVE  Good(Begin(c)) /\ Good(Ended(c))
  BY Zenon, OtherFields DEF Begin, Ended

LEMMA Begun ==
  ASSUME NEW c, Shape(c)
  PROVE  Shape(Begin(c)) /\ Begin(c).at = "running"
  BY SMT DEF Shape, Fields, Begin

LEMMA ReadOrFailed ==
  ASSUME NEW c, Shape(c), NEW fc, NEW addresses
  PROVE  /\ Shape(Reads(c, fc, addresses))
         /\ c.at \in {"running", "failed"} => Reads(c, fc, addresses).at \in {"running", "failed"}
  BY SMT DEF Shape, Fields, Reads, Fail, Running

(* A machine that has been reset begins with a whole pipeline; one that    *)
(* has not is no machine.                                                  *)
LEMMA ResetGood ==
  ASSUME NEW c, Shape(c)
  PROVE  ResetCpu(c).at = "failed" \/ Good(ResetCpu(c))
<1> DEFINE start == LongAt(c, 4)
           s == Reads(Reads(Begin(c), 6, {0, 2, 4, 6}), 6, {start, start + 2})
           started == [FetchFrom(s, start) EXCEPT !.ssp = LongAt(c, 0), !.sr = 9984, !.stopped = FALSE]
<1>1. Shape(s) /\ s.at \in {"running", "failed"}
  <2>1. Shape(Begin(c)) /\ Begin(c).at \in {"running", "failed"}
    BY Zenon, Begun
  <2> QED BY Zenon, <2>1, ReadOrFailed
<1>2. ResetCpu(c) = Commit(s, started)
  BY SMT DEF ResetCpu
<1>3. Good(started)
  <2>1. Good(FetchFrom(s, start))
    BY Zenon, <1>1, Fetched
  <2> QED BY SMT, <2>1 DEF Good, Shape, Fields, Pipeline
<1> HIDE DEF s, started
<1> QED BY Zenon, <1>1, <1>2, <1>3 DEF Commit, Running

LEMMA NewShape == Shape(NewCpu)
  BY SMT DEF Shape, Fields, NewCpu

LEMMA AwakeGood ==
  ASSUME NEW c, Good(c), NEW level, NEW vector
  PROVE  Good(Accepted(c, level, vector))
<1>1. ASSUME NEW e, Good(e), NEW x
      PROVE  Good(IF e.at = "trapped" THEN [e EXCEPT !.sr = x, !.stopped = FALSE] ELSE e)
  BY SMT, <1>1 DEF Good, Shape, Fields, Pipeline
<1> QED BY Zenon, <1>1, BeginEnd, Excepted DEF Accepted

LEMMA StepGood == IInv /\ Step => Good(cpu')
<1> SUFFICES ASSUME IInv, Step PROVE Good(cpu')
  OBVIOUS
<1>1. On => Good(cpu)
  BY Zenon DEF IInv, Good
<1>2. CASE Execute
  BY Zenon, <1>1, <1>2, BeginEnd, ExecutedGood DEF Execute
<1>3. ASSUME NEW level, NEW vector, Interrupt(level, vector) PROVE Good(cpu')
  BY Zenon, <1>1, <1>3, BeginEnd, AwakeGood DEF Interrupt
<1>4. CASE StayStopped
  BY Zenon, <1>1, <1>4, BeginEnd, Failed DEF StayStopped
<1> QED BY Zenon, <1>2, <1>3, <1>4 DEF Step

LEMMA PowerGood == IInv /\ (PowerOn \/ PowerOff) => IInv'
<1> SUFFICES ASSUME IInv, PowerOn \/ PowerOff PROVE IInv'
  OBVIOUS
<1>1. CASE PowerOn
  <2>1. ~ On /\ Shape(cpu)
    BY Zenon, <1>1 DEF PowerOn, IInv
  <2>2. cpu' = cpu \/ (ResetCpu(NewCpu).at # "failed" /\ cpu' = Ended(ResetCpu(NewCpu)))
    BY Zenon, <1>1 DEF PowerOn
  <2>3. CASE cpu' = cpu
    BY Zenon, <2>1, <2>3 DEF IInv, On
  <2>4. CASE ResetCpu(NewCpu).at # "failed" /\ cpu' = Ended(ResetCpu(NewCpu))
    BY Zenon, <2>4, NewShape, ResetGood, BeginEnd DEF IInv, Good
  <2> QED BY Zenon, <2>2, <2>3, <2>4
<1>2. CASE PowerOff
  <2>1. cpu' = NewCpu
    BY Zenon, <1>2 DEF PowerOff
  <2>2. NewCpu.at = "off"
    BY SMT DEF NewCpu
  <2> QED BY Zenon, <2>1, <2>2, NewShape DEF IInv, On
<1> QED BY <1>1, <1>2

LEMMA InitInv == Init => IInv
<1>1. NewCpu.at = "off"
  BY SMT DEF NewCpu
<1> QED BY Zenon, <1>1, NewShape DEF Init, CpuInit, IInv, On

LEMMA NextInv == IInv /\ [Next]_vars => IInv'
<1> SUFFICES ASSUME IInv, [Next]_vars PROVE IInv'
  OBVIOUS
<1>1. ASSUME UNCHANGED cpuVars PROVE IInv'
  <2>1. cpu' = cpu
    BY Zenon, <1>1 DEF cpuVars
  <2> QED BY Zenon, <2>1 DEF IInv, On
<1>2. CASE BadLine \/ AskMachine \/ AskStateless \/ Quit \/ UNCHANGED vars
  BY Zenon, <1>1, <1>2 DEF BadLine, AskMachine, AskStateless, Quit, vars
<1>3. ASSUME NEW count, RunInstructions(count) PROVE IInv'
  BY Zenon, <1>1, <1>3 DEF RunInstructions
<1>4. CASE Boot
  BY Zenon, <1>1, <1>4, PowerGood DEF Boot
<1>5. CASE Reset
  BY Zenon, <1>5, PowerGood DEF Reset
<1>6. CASE RunStep
  BY Zenon, <1>6, StepGood DEF RunStep, IInv, Good
<1> QED BY Zenon, <1>2, <1>3, <1>4, <1>5, <1>6 DEF Next

(* The prefetched words are the two below the program counter between any   *)
(* two steps the host can see, after failed ones, too.                     *)
THEOREM Coherent == Spec => []PrefetchCoherent
<1>1. Init => IInv
  BY InitInv
<1>2. IInv /\ [Next]_vars => IInv'
  BY NextInv
<1>3. IInv => PrefetchCoherent
  BY Zenon DEF IInv, Pipeline, PrefetchCoherent
<1> QED BY <1>1, <1>2, <1>3, PTL DEF Spec

-----------------------------------------------------------------------------
(* What the host is told. *)

(* A run is under way only on a machine. *)
RunsOnAMachine == left \in Nat /\ (left > 0 => On)

SessionInv == IInv /\ RunsOnAMachine /\ AnswersTellTheMachine

LEMMA StillOn ==
  ASSUME NEW c, Shape(c)
  PROVE  Ended(c).at # "off"
  BY SMT DEF Shape, Fields, Ended

LEMMA StepKeepsTheMachine == IInv /\ Step => On'
<1> SUFFICES ASSUME IInv, Step PROVE On'
  OBVIOUS
<1>1. On => Good(cpu)
  BY Zenon DEF IInv, Good
<1>2. CASE Execute
  BY Zenon, <1>1, <1>2, BeginEnd, ExecutedGood, StillOn DEF Execute, On, Good
<1>3. ASSUME NEW level, NEW vector, Interrupt(level, vector) PROVE On'
  BY Zenon, <1>1, <1>3, AwakeGood, StillOn DEF Interrupt, On, Good
<1>4. CASE StayStopped
  BY Zenon, <1>1, <1>4, Failed, StillOn DEF StayStopped, On, Good
<1> QED BY Zenon, <1>2, <1>3, <1>4 DEF Step

LEMMA AnswersUnchanged ==
  ASSUME SessionInv, UNCHANGED <<cpu, left>>, UNCHANGED <<answer, quit>> \/ quit'
  PROVE  RunsOnAMachine' /\ AnswersTellTheMachine'
  BY Zenon DEF SessionInv, RunsOnAMachine, AnswersTellTheMachine, Idle, On

LEMMA Answered ==
  ASSUME SessionInv, left = 0, NEW code, Respond(code),
         code \in {"boot_failed", "no_rom", "not_booted"} => ~ On',
         code \in {"already_booted", "bus_fault"} => On'
  PROVE  RunsOnAMachine' /\ AnswersTellTheMachine'
<1>1. answer' = code /\ left' = left /\ left \in Nat
  BY Zenon DEF Respond, SessionInv, RunsOnAMachine
<1>2. ~ left' > 0
  BY SMT, <1>1
<1> QED BY Zenon, <1>1, <1>2 DEF RunsOnAMachine, AnswersTellTheMachine

LEMMA SessionNext == SessionInv /\ [Next]_vars => SessionInv'
<1> SUFFICES ASSUME SessionInv, [Next]_vars PROVE RunsOnAMachine' /\ AnswersTellTheMachine'
  BY Zenon, NextInv DEF SessionInv
<1> DEFINE Told == RunsOnAMachine' /\ AnswersTellTheMachine'
<1>1. UNCHANGED cpuVars => (On' <=> On)
  BY Zenon DEF cpuVars, On
<1>2. CASE BadLine
  BY Zenon, <1>1, <1>2, Answered DEF BadLine, Idle
<1>3. CASE Boot
  <2>1. left = 0
    BY Zenon, <1>3 DEF Boot, Idle
  <2>2. CASE On /\ Respond("already_booted") /\ UNCHANGED cpuVars
    BY Zenon, <1>1, <2>1, <2>2, Answered
  <2>3. CASE ~ On /\ \E code \in {"no_rom", "boot_failed"} : Respond(code) /\ UNCHANGED cpuVars
    BY Zenon, <1>1, <2>1, <2>3, Answered
  <2>4. CASE PowerOn /\ Respond(IF On' THEN "ok" ELSE "boot_failed")
    <3>1. CASE On'
      BY Zenon, <2>1, <2>4, <3>1, Answered
    <3>2. CASE ~ On'
      BY Zenon, <2>1, <2>4, <3>2, Answered
    <3> QED BY <3>1, <3>2
  <2> QED BY Zenon, <1>3, <2>2, <2>3, <2>4 DEF Boot
<1>4. CASE Reset
  BY Zenon, <1>4, Answered DEF Reset, Idle
<1>5. CASE AskMachine
  <2>1. PICK op \in DOMAIN OfBooted :
          \E code \in IF On THEN OfBooted[op] ELSE {"not_booted"} :
            Respond(code) /\ left = 0 /\ UNCHANGED cpuVars
    BY Zenon, <1>5 DEF AskMachine, Idle
  <2>2. OfBooted[op] \subseteq {"ok", "invalid_request", "unsupported_input", "bus_fault"}
    BY SMT DEF OfBooted
  <2>3. PICK code \in IF On THEN OfBooted[op] ELSE {"not_booted"} :
          Respond(code) /\ left = 0 /\ UNCHANGED cpuVars
    BY <2>1
  <2>4. /\ code \in {"boot_failed", "no_rom", "not_booted"} => ~ On'
        /\ code \in {"already_booted", "bus_fault"} => On'
    BY Zenon, <1>1, <2>2, <2>3
  <2> QED BY Zenon, <2>3, <2>4, Answered
<1>6. CASE AskStateless
  <2>1. PICK op \in DOMAIN Stateless : Respond(Stateless[op]) /\ left = 0
    BY Zenon, <1>6 DEF AskStateless, Idle
  <2>2. Stateless[op] \in {"ok", "not_implemented", "unknown_operation"}
    BY SMT DEF Stateless
  <2> QED BY Zenon, <2>1, <2>2, Answered
<1>7. CASE Quit
  BY Zenon, <1>7, AnswersUnchanged DEF Quit, cpuVars
<1>8. ASSUME NEW count \in Counts, RunInstructions(count) PROVE Told
  <2>1. left = 0 /\ UNCHANGED cpuVars
    BY Zenon, <1>8 DEF RunInstructions, Idle
  <2>2. CASE ~ On /\ Respond("not_booted")
    BY Zenon, <1>1, <2>1, <2>2, Answered
  <2>3. CASE Respond("invalid_request")
    BY Zenon, <2>1, <2>3, Answered
  <2>4. CASE On /\ count \in 1 .. MaxRunInstructions /\ left' = count
    <3>1. left' \in Nat /\ left' # 0
      BY SMT, <2>4, SessionAssumption
    <3>2. On'
      BY Zenon, <1>1, <2>1, <2>4
    <3> QED BY Zenon, <3>1, <3>2 DEF RunsOnAMachine, AnswersTellTheMachine, Idle
  <2> QED BY Zenon, <1>8, <2>2, <2>3, <2>4 DEF RunInstructions
<1>9. CASE RunStep
  <2>1. On'
    BY Zenon, <1>9, StepKeepsTheMachine DEF RunStep, SessionInv
  <2>2. left' \in Nat
    BY SMT, <1>9 DEF RunStep, SessionInv, RunsOnAMachine
  <2>3. left' = 0 => answer' \in {"ok", "bus_fault"}
    BY SMT, <1>9 DEF RunStep, SessionInv, RunsOnAMachine
  <2> QED BY Zenon, <2>1, <2>2, <2>3 DEF RunsOnAMachine, AnswersTellTheMachine, Idle
<1>10. CASE UNCHANGED vars
  BY Zenon, <1>10, AnswersUnchanged DEF vars, cpuVars
<1> QED BY Zenon, <1>2, <1>3, <1>4, <1>5, <1>6, <1>7, <1>8, <1>9, <1>10 DEF Next

(* The last answer of an idle session tells whether there is a machine, for *)
(* every guest and every limit of a run.                                   *)
THEOREM AnswersAreTrue == Spec => []AnswersTellTheMachine
<1>1. Init => SessionInv
  <2>1. Init => RunsOnAMachine /\ AnswersTellTheMachine
    BY SMT DEF Init, RunsOnAMachine, AnswersTellTheMachine
  <2> QED BY <2>1, InitInv DEF SessionInv
<1>2. SessionInv /\ [Next]_vars => SessionInv'
  BY SessionNext
<1>3. SessionInv => AnswersTellTheMachine
  BY DEF SessionInv
<1> QED BY <1>1, <1>2, <1>3, PTL DEF Spec

-----------------------------------------------------------------------------
(* Values of their width, and what a user program cannot do. *)

SessionTyped ==
  /\ CpuInv
  /\ left \in 0 .. MaxRunInstructions /\ (left > 0 => On /\ ~ quit)
  /\ answer \in Codes /\ quit \in BOOLEAN

(* Nothing is left of a run: what is asked of the session then, and what a *)
(* session answers.                                                        *)
LEMMA IdleTyped ==
  ASSUME SessionTyped, left' = left, left = 0, answer' \in Codes, quit' \in BOOLEAN, CpuInv'
  PROVE  SessionTyped'
<1>1. left' \in 0 .. MaxRunInstructions /\ ~ left' > 0
  BY SMT DEF SessionTyped
<1> QED BY Zenon, <1>1 DEF SessionTyped

LEMMA CpuUnchanged == CpuInv /\ UNCHANGED cpuVars => CpuInv'
<1> SUFFICES ASSUME CpuInv, UNCHANGED cpuVars PROVE CpuInv'
  OBVIOUS
<1>1. cpu' = cpu /\ guest' = guest /\ frames' = frames /\ arrivals' = arrivals
  BY Zenon DEF cpuVars
<1>2. Typed(cpu)'
  BY Zenon, <1>1, TypedNext DEF CpuInv
<1> QED BY Zenon, <1>1, <1>2 DEF CpuInv, TypedFrames

LEMMA SessionBegins == ASSUME Width PROVE Init => SessionTyped
<1> SUFFICES ASSUME Init PROVE SessionTyped
  OBVIOUS
<1>1. CpuInv
  BY Zenon, CpuBegins DEF Init
<1>2. left \in 0 .. MaxRunInstructions /\ ~ left > 0
  BY SMT, SessionAssumption DEF Init
<1>3. answer \in Codes /\ quit \in BOOLEAN
  BY Zenon DEF Init, Codes
<1> QED BY Zenon, <1>1, <1>2, <1>3 DEF SessionTyped

LEMMA SessionStep == SessionTyped /\ [Next]_vars => SessionTyped'
<1> SUFFICES ASSUME SessionTyped, [Next]_vars PROVE SessionTyped'
  OBVIOUS
<1>0. CpuInv /\ quit \in BOOLEAN /\ answer \in Codes
  BY Zenon DEF SessionTyped
<1>1. UNCHANGED cpuVars => CpuInv'
  BY Zenon, <1>0, CpuUnchanged
<1>2. ASSUME NEW code \in Codes, Idle, Respond(code), CpuInv' PROVE SessionTyped'
  BY Zenon, <1>0, <1>2, IdleTyped DEF Idle, Respond
<1>3. CASE BadLine
  BY Zenon, <1>1, <1>2, <1>3 DEF BadLine, Codes
<1>4. CASE Boot
  <2>1. \E code \in Codes : Respond(code)
    BY Zenon, <1>4 DEF Boot, Codes
  <2>2. CpuInv'
    BY Zenon, <1>0, <1>1, <1>4, PowerTyped DEF Boot
  <2> QED BY Zenon, <1>2, <1>4, <2>1, <2>2 DEF Boot
<1>5. CASE Reset
  BY Zenon, <1>0, <1>2, <1>5, PowerTyped DEF Reset, Codes
<1>6. CASE AskMachine
  <2>1. \A op \in DOMAIN OfBooted : OfBooted[op] \subseteq Codes
    BY DEF OfBooted, Codes
  <2>2. "not_booted" \in Codes
    BY DEF Codes
  <2> QED BY Zenon, <1>1, <1>2, <1>6, <2>1, <2>2 DEF AskMachine
<1>7. CASE AskStateless
  <2>1. \A op \in DOMAIN Stateless : Stateless[op] \in Codes
    BY DEF Stateless, Codes
  <2> QED BY Zenon, <1>1, <1>2, <1>7, <2>1 DEF AskStateless
<1>8. CASE Quit
  <2>1. left = 0 /\ left' = left /\ answer' \in Codes /\ quit' \in BOOLEAN /\ CpuInv'
    BY Zenon, <1>1, <1>8 DEF Quit, Idle, Codes
  <2> QED BY Zenon, <2>1, IdleTyped
<1>9. ASSUME NEW count \in Counts, RunInstructions(count) PROVE SessionTyped'
  <2>1. Idle /\ CpuInv'
    BY Zenon, <1>1, <1>9 DEF RunInstructions
  <2>2. ASSUME NEW code \in {"not_booted", "invalid_request"}, Respond(code) PROVE SessionTyped'
    BY Zenon, <1>2, <2>1, <2>2 DEF Codes
  <2>3. CASE On /\ count \in 1 .. MaxRunInstructions /\ left' = count /\ UNCHANGED <<answer, quit>>
    <3>1. left' \in 0 .. MaxRunInstructions
      BY SMT, <2>3, SessionAssumption
    <3>2. On'
      BY Zenon, <1>9, <2>3 DEF RunInstructions, cpuVars, On
    <3> QED BY Zenon, <1>0, <2>1, <2>3, <3>1, <3>2 DEF SessionTyped, Idle
  <2> QED BY Zenon, <1>9, <2>2, <2>3 DEF RunInstructions
<1>10. CASE RunStep
  <2>1. CpuInv' /\ On'
    BY Zenon, <1>0, <1>10, StepTyped DEF RunStep
  <2>2. left' \in 0 .. MaxRunInstructions
    BY SMT, <1>10, SessionAssumption DEF RunStep, SessionTyped
  <2>3. ~ quit /\ quit' = quit
    BY Zenon, <1>10 DEF RunStep, SessionTyped
  <2>4. answer' \in {"bus_fault", "ok", answer}
    BY Zenon, <1>10 DEF RunStep
  <2>5. answer' \in Codes
    BY Zenon, <1>0, <2>4 DEF Codes
  <2> QED BY Zenon, <2>1, <2>2, <2>3, <2>5 DEF SessionTyped
<1>11. CASE UNCHANGED vars
  <2>1. UNCHANGED cpuVars /\ left' = left /\ answer' = answer /\ quit' = quit
    BY Zenon, <1>11 DEF vars
  <2>2. On' <=> On
    BY Zenon, <2>1 DEF cpuVars, On
  <2> QED BY Zenon, <1>1, <2>1, <2>2 DEF SessionTyped
<1> QED BY Zenon, <1>3, <1>4, <1>5, <1>6, <1>7, <1>8, <1>9, <1>10, <1>11 DEF Next

(* Only a step of the machine changes a processor that stays on. *)
LEMMA OnlySteps ==
  ASSUME [Next]_vars, On, On' \/ cpu'.at = "failed"
  PROVE  Step \/ UNCHANGED cpu
<1>1. "off" # "failed" /\ NewCpu.at = "off"
  BY SMT DEF NewCpu
<1>2. ~ PowerOn /\ ~ PowerOff
  BY Zenon, <1>1 DEF PowerOn, PowerOff, On
<1> QED BY Zenon, <1>2 DEF Next, BadLine, Boot, Reset, AskMachine, AskStateless, Quit, RunInstructions,
           RunStep, cpuVars, vars

(* Whatever the guest and however it is run, every register, memory cell    *)
(* and status bit has the width it has in the program, a run is under way  *)
(* only on a machine, and every answer is one of the contract's codes.     *)
THEOREM SessionTypes == ASSUME Width PROVE Spec => []TypeOK
<1>1. Init => SessionTyped
  BY SessionBegins
<1>2. SessionTyped /\ [Next]_vars => SessionTyped'
  BY SessionStep
<1>3. SessionTyped => TypeOK
  BY Zenon, CpuTyped DEF SessionTyped, TypeOK
<1> QED BY <1>1, <1>2, <1>3, PTL DEF Spec

(* No instruction, exception or interrupt makes a user program supervisor   *)
(* anywhere but at the first word of a handler, over a frame of its own.   *)
THEOREM UserIsConfined == ASSUME Width PROVE Spec => UserStaysUser
<1>1. Init => SessionTyped
  BY SessionBegins
<1>2. SessionTyped /\ [Next]_vars => SessionTyped'
  BY SessionStep
<1> DEFINE AtItsHandler(c, d) ==
             /\ \E v \in 2 .. 255 : CanRead(d, 4 * v, 5) /\ d.prefetch[1] = LongAt(d, 4 * v)
             /\ d.ssp \in {Add(c.ssp, -6), Add(c.ssp, -14)}
<1>3. SessionTyped /\ [Next]_vars =>
        [On /\ ~ Supervisor(cpu) /\ On' /\ Supervisor(cpu') => Handled(cpu, cpu')]_cpuVars
  <2> SUFFICES ASSUME SessionTyped, [Next]_vars, On, ~ Supervisor(cpu), On', Supervisor(cpu')
               PROVE  Handled(cpu, cpu')
    OBVIOUS
  <2>1. Step \/ UNCHANGED cpu
    BY Zenon, OnlySteps
  <2>2. Typed(cpu)
    BY Zenon DEF SessionTyped, CpuInv
  <2> QED BY Zenon, <2>1, <2>2, StepKeepsUser
<1>4. SessionTyped /\ [Next]_vars =>
        [On /\ ~ Supervisor(cpu) /\ On' /\ Supervisor(cpu') => AtItsHandler(cpu, cpu')]_cpuVars
  BY Zenon, <1>3 DEF Handled
<1> QED BY <1>1, <1>2, <1>4, PTL DEF Spec, UserStaysUser

(* An exception that cannot be entered costs a user program neither its     *)
(* supervisor stack pointer nor a bit of its privilege.                    *)
THEOREM FailuresLeaveNoTrace == ASSUME Width PROVE Spec => FailedEntriesLeaveNoTrace
<1>1. Init => SessionTyped
  BY SessionBegins
<1>2. SessionTyped /\ [Next]_vars => SessionTyped'
  BY SessionStep
<1>3. SessionTyped /\ [Next]_vars =>
        [On /\ ~ Supervisor(cpu) /\ cpu'.at = "failed" =>
           cpu'.ssp = cpu.ssp /\ cpu'.sr \div 256 = cpu.sr \div 256]_cpuVars
  <2> SUFFICES ASSUME SessionTyped, [Next]_vars, On, ~ Supervisor(cpu), cpu'.at = "failed"
               PROVE  cpu'.ssp = cpu.ssp /\ cpu'.sr \div 256 = cpu.sr \div 256
    OBVIOUS
  <2>1. Step \/ UNCHANGED cpu
    BY Zenon, OnlySteps
  <2>2. Typed(cpu)
    BY Zenon DEF SessionTyped, CpuInv
  <2>3. CASE Step
    <3>1. Same(cpu, cpu')
      BY Zenon, <2>2, <2>3, StepKeepsUser
    <3> QED BY <3>1 DEF Same, Upper
  <2>4. CASE UNCHANGED cpu
    BY <2>4
  <2> QED BY <2>1, <2>3, <2>4
<1> QED BY <1>1, <1>2, <1>3, PTL DEF Spec, FailedEntriesLeaveNoTrace

=============================================================================
