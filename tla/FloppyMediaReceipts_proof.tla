--------------------- MODULE FloppyMediaReceipts_proof ---------------------
(***************************************************************************)
(* Proofs about the floppy media: the receipt ring, for every capacity and *)
(* every bound on the number of receipts, and behind it the raw image of   *)
(* an inserted disk.                                                       *)
(***************************************************************************)
EXTENDS FloppyMediaReceipts, RawFloppy, SequenceTheorems, TLAPS

(***************************************************************************)
(* Modulo on the numbers the ring applies it to: at most one turn ahead.   *)
(***************************************************************************)
LEMMA WrapOneTurn ==
  \A a \in 0 .. (2 * Capacity - 1) :
    Wrap(a) = IF a < Capacity THEN a ELSE a - Capacity
<1> SUFFICES ASSUME NEW a \in 0 .. (2 * Capacity - 1)
             PROVE  Wrap(a) = IF a < Capacity THEN a ELSE a - Capacity
  OBVIOUS
<1>1. CASE a < Capacity
  BY <1>1, CapacityAssumption, SMT DEF Wrap
<1>2. CASE a >= Capacity
  BY <1>2, CapacityAssumption, SMT DEF Wrap
<1> QED
  BY <1>1, <1>2, CapacityAssumption

(***************************************************************************)
(* The lookup's slot as a function of the values it is computed from, so   *)
(* that facts about it hold before and after a step: it is the slot that   *)
(* lies tt - n + 1 places before next.                                     *)
(***************************************************************************)
SlotAt(nx, ct, tt, n) == Wrap(Wrap(nx - ct + Capacity) + (n - (tt - ct + 1)))

SlotBack(nx, k) == IF nx - k >= 0 THEN nx - k ELSE nx - k + Capacity

LEMMA SlotAtIsBack ==
  ASSUME NEW nx \in Slots, NEW ct \in 0 .. Capacity, NEW tt \in Nat,
         NEW n \in (tt - ct + 1) .. tt
  PROVE  /\ SlotAt(nx, ct, tt, n) = SlotBack(nx, tt - n + 1)
         /\ SlotAt(nx, ct, tt, n) \in Slots
<1> DEFINE old == Wrap(nx - ct + Capacity)
           off == n - (tt - ct + 1)
<1>1. nx - ct + Capacity \in 0 .. (2 * Capacity - 1)
  BY CapacityAssumption DEF Slots
<1>2. old = SlotBack(nx, ct) /\ old \in Slots
  BY <1>1, WrapOneTurn, CapacityAssumption DEF SlotBack, Slots
<1>3. off \in 0 .. (ct - 1)
  BY CapacityAssumption
<1>4. old + off \in 0 .. (2 * Capacity - 1)
  BY <1>2, <1>3, CapacityAssumption DEF Slots
<1>5. Wrap(old + off) = IF old + off < Capacity
                          THEN old + off ELSE old + off - Capacity
  <2> HIDE DEF old, off
  <2> QED
    BY <1>2, <1>3, <1>4, WrapOneTurn, CapacityAssumption DEF Slots
<1>6. SlotAt(nx, ct, tt, n) = Wrap(old + off)
  BY DEF SlotAt
<1> HIDE DEF old
<1> QED
  BY <1>2, <1>3, <1>5, <1>6, CapacityAssumption DEF SlotBack, Slots

(* Every step moves next one slot on, around the ring. *)
LEMMA NextSlot ==
  ASSUME NEW nx \in Slots
  PROVE  Wrap(nx + 1) = IF nx + 1 = Capacity THEN 0 ELSE nx + 1
<1>1. nx + 1 \in 0 .. (2 * Capacity - 1)
  BY CapacityAssumption DEF Slots
<1> QED
  BY <1>1, WrapOneTurn, CapacityAssumption DEF Slots

------------------------------------------------------------------------------
LEMMA InitIInv == Init => IInv
<1> SUFFICES ASSUME Init PROVE IInv
  OBVIOUS
<1>1. TypeOK
  BY CapacityAssumption, MaxTotalAssumption
  DEF Init, TypeOK, Slots, Entry, EmptyEntry
<1>2. WindowIsMaximal
  BY CapacityAssumption DEF Init, WindowIsMaximal
<1>3. WindowIsNumbered
  BY DEF Init, WindowIsNumbered
<1> QED
  BY <1>1, <1>2, <1>3 DEF IInv

LEMMA AppendTypeOK ==
  ASSUME IInv, NEW r \in Receipts, AppendReceipt(r)
  PROVE  TypeOK'
<1>1. total' \in 0 .. MaxTotal
  BY MaxTotalAssumption DEF IInv, TypeOK, AppendReceipt
<1>2. count' \in 0 .. Capacity
  BY CapacityAssumption DEF IInv, TypeOK, AppendReceipt
<1>3. next' \in Slots
  BY NextSlot, CapacityAssumption DEF IInv, TypeOK, AppendReceipt, Slots
<1>4. entries' \in [Slots -> Entry]
  <2>1. [attempt |-> total + 1, body |-> r] \in Entry
    BY MaxTotalAssumption DEF IInv, TypeOK, AppendReceipt, Entry
  <2> QED
    BY <2>1 DEF IInv, TypeOK, AppendReceipt
<1> QED
  BY <1>1, <1>2, <1>3, <1>4 DEF TypeOK

(***************************************************************************)
(* A number of the new window is either the one just appended, whose slot  *)
(* is the old next, or one of the old window, whose slot does not move and *)
(* is not overwritten.                                                     *)
(***************************************************************************)
LEMMA AppendSlots ==
  ASSUME IInv, NEW r \in Receipts, AppendReceipt(r),
         NEW n \in (total' - count' + 1) .. total'
  PROVE  \/ /\ n = total + 1
            /\ SlotAt(next', count', total', n) = next
         \/ /\ n \in (total - count + 1) .. total
            /\ SlotAt(next', count', total', n) = SlotAt(next, count, total, n)
            /\ SlotAt(next, count, total, n) # next
            /\ SlotAt(next, count, total, n) \in Slots
<1>1. TypeOK /\ TypeOK'
  BY AppendTypeOK DEF IInv
<1>2. SlotAt(next', count', total', n) = SlotBack(next', total' - n + 1)
  <2>1. next' \in Slots /\ count' \in 0 .. Capacity /\ total' \in Nat
    BY <1>1, MaxTotalAssumption DEF TypeOK
  <2> QED
    BY <2>1, SlotAtIsBack
<1>3. next' = IF next + 1 = Capacity THEN 0 ELSE next + 1
  BY <1>1, NextSlot DEF AppendReceipt, TypeOK
<1>4. total' = total + 1
  BY DEF AppendReceipt
<1>5. total \in Nat /\ count \in 0 .. Capacity /\ next \in Slots /\ n \in Int
  BY <1>1, MaxTotalAssumption DEF TypeOK
<1>6. count' = IF count < Capacity THEN count + 1 ELSE count
  BY DEF AppendReceipt
<1>7. CASE n = total + 1
  BY <1>2, <1>3, <1>4, <1>5, <1>7, CapacityAssumption DEF SlotBack, Slots
<1>8. CASE n # total + 1
  <2>1. n \in (total - count + 1) .. total
    BY <1>4, <1>5, <1>6, <1>8, CapacityAssumption
  <2>2. total - n + 1 \in 1 .. (Capacity - 1)
    BY <1>4, <1>5, <1>6, <2>1, CapacityAssumption
  <2>3. /\ SlotAt(next, count, total, n) = SlotBack(next, total - n + 1)
        /\ SlotAt(next, count, total, n) \in Slots
    BY <1>5, <2>1, SlotAtIsBack
  <2>4. SlotBack(next', total' - n + 1) = SlotBack(next, total - n + 1)
    BY <1>3, <1>4, <1>5, <2>2, CapacityAssumption DEF SlotBack, Slots
  <2>5. SlotBack(next, total - n + 1) # next
    BY <1>5, <2>2, CapacityAssumption DEF SlotBack, Slots
  <2> QED
    BY <1>2, <2>1, <2>3, <2>4, <2>5
<1> QED
  BY <1>7, <1>8

LEMMA NextIInv == IInv /\ [Next]_vars => IInv'
<1> SUFFICES ASSUME IInv, [Next]_vars PROVE IInv'
  OBVIOUS
<1>1. ASSUME NEW r \in Receipts, AppendReceipt(r) PROVE IInv'
  <2>1. TypeOK'
    BY <1>1, AppendTypeOK
  <2>2. WindowIsMaximal'
    BY <1>1, CapacityAssumption DEF IInv, TypeOK, WindowIsMaximal, AppendReceipt
  <2>3. WindowIsNumbered'
    <3> SUFFICES ASSUME NEW n \in (total' - count' + 1) .. total'
                 PROVE  entries'[SlotOf(n)'].attempt = n
      BY DEF WindowIsNumbered
    <3>1. entries' = [entries EXCEPT ![next] = [attempt |-> total + 1, body |-> r]]
      BY <1>1 DEF AppendReceipt
    <3>2. next \in Slots /\ entries \in [Slots -> Entry]
      BY DEF IInv, TypeOK
    <3>3. /\ SlotOf(n)' = SlotAt(next', count', total', n)
          /\ SlotOf(n) = SlotAt(next, count, total, n)
      BY DEF SlotOf, Oldest, SlotAt
    <3>4. CASE n = total + 1 /\ SlotOf(n)' = next
      BY <3>1, <3>2, <3>4
    <3>5. CASE /\ n \in (total - count + 1) .. total
               /\ SlotOf(n)' = SlotOf(n)
               /\ SlotOf(n) # next
               /\ SlotOf(n) \in Slots
      BY <3>1, <3>2, <3>5 DEF IInv, WindowIsNumbered
    <3> QED
      BY <1>1, <3>3, <3>4, <3>5, AppendSlots
  <2> QED
    BY <2>1, <2>2, <2>3 DEF IInv
<1>2. CASE Reset
  <2>1. Init'
    BY <1>2 DEF Reset, Init
  <2>2. TypeOK'
    BY <1>2, CapacityAssumption, MaxTotalAssumption
    DEF Reset, TypeOK, Slots, Entry, EmptyEntry
  <2>3. WindowIsMaximal' /\ WindowIsNumbered'
    BY <1>2, CapacityAssumption DEF Reset, WindowIsMaximal, WindowIsNumbered
  <2> QED
    BY <2>2, <2>3 DEF IInv
<1>3. CASE UNCHANGED vars
  BY <1>3 DEF vars, IInv, TypeOK, WindowIsMaximal, WindowIsNumbered, SlotOf, Oldest
<1> QED
  BY <1>1, <1>2, <1>3 DEF Next

(***************************************************************************)
(* The slots of the window carry the numbers the window promises, in every *)
(* reachable state.                                                        *)
(***************************************************************************)
THEOREM RingIsNumbered == Spec => []IInv
<1> QED
  BY InitIInv, NextIInv, PTL DEF Spec

(***************************************************************************)
(* The lookup finds exactly the last Capacity receipts, in every reachable *)
(* state.                                                                  *)
(***************************************************************************)
THEOREM LookupCorrect == Spec => []LookupFindsTheWindow
<1>1. IInv => LookupFindsTheWindow
  <2> SUFFICES ASSUME IInv, NEW n \in 0 .. MaxTotal
               PROVE  Attempt(n).ok <=> n \in 1 .. total /\ total - n < Capacity
    BY DEF LookupFindsTheWindow
  <2>1. /\ total \in 0 .. MaxTotal
        /\ count = IF total < Capacity THEN total ELSE Capacity
    BY DEF IInv, TypeOK, WindowIsMaximal
  <2>2. Known(n) <=> n \in 1 .. total /\ total - n < Capacity
    BY <2>1, CapacityAssumption, MaxTotalAssumption DEF Known
  <2>3. CASE Known(n)
    <3>1. n \in (total - count + 1) .. total
      BY <2>1, <2>3, CapacityAssumption, MaxTotalAssumption DEF Known
    <3>2. entries[SlotOf(n)].attempt = n
      BY <3>1 DEF IInv, WindowIsNumbered
    <3> QED
      BY <2>2, <2>3, <3>2 DEF Attempt
  <2>4. CASE ~ Known(n)
    BY <2>2, <2>4 DEF Attempt
  <2> QED
    BY <2>3, <2>4
<1> QED
  BY <1>1, RingIsNumbered, PTL

------------------------------------------------------------------------------
(* A sequence extended by one element, as a function. *)
LEMMA AppendAsFunction ==
  ASSUME NEW S, NEW s \in Seq(S), NEW e \in S
  PROVE  Append(s, e) = [i \in 1 .. (Len(s) + 1) |->
                           IF i = Len(s) + 1 THEN e ELSE s[i]]
<1>1. /\ Append(s, e) \in Seq(S) /\ Len(Append(s, e)) = Len(s) + 1
      /\ \A i \in 1 .. Len(s) : Append(s, e)[i] = s[i]
      /\ Append(s, e)[Len(s) + 1] = e
  BY AppendProperties
<1>2. Append(s, e) = [i \in 1 .. Len(Append(s, e)) |-> Append(s, e)[i]]
  BY <1>1, LenProperties
<1>3. Len(s) \in Nat
  BY LenProperties
<1> QED
  BY <1>1, <1>2, <1>3

(* A non-empty sequence without its first element, then extended by one. *)
LEMMA ShiftAsFunction ==
  ASSUME NEW S, NEW s \in Seq(S), NEW e \in S, s # << >>
  PROVE  Append(Tail(s), e) = [i \in 1 .. Len(s) |->
                                 IF i = Len(s) THEN e ELSE s[i + 1]]
<1>1. PICK t \in Seq(S) : /\ t = Tail(s)
                         /\ Len(t) = Len(s) - 1
                         /\ \A i \in 1 .. Len(t) : t[i] = s[i + 1]
  <2>1. /\ Tail(s) \in Seq(S) /\ Len(Tail(s)) = Len(s) - 1
        /\ \A i \in 1 .. Len(Tail(s)) : Tail(s)[i] = s[i + 1]
    BY HeadTailProperties
  <2> QED
    BY <2>1, Zenon
<1>2. Len(s) \in Nat /\ Len(t) \in Nat
  BY LenProperties
<1>3. Append(t, e) = [i \in 1 .. (Len(t) + 1) |->
                        IF i = Len(t) + 1 THEN e ELSE t[i]]
  BY AppendAsFunction
<1>4. Append(t, e) = [i \in 1 .. Len(s) |-> IF i = Len(s) THEN e ELSE s[i + 1]]
  <2>1. Len(t) + 1 = Len(s)
    BY <1>1, <1>2
  <2>2. ASSUME NEW i \in 1 .. Len(s), i # Len(s) PROVE t[i] = s[i + 1]
    <3>1. i \in 1 .. Len(t)
      BY <1>2, <2>1, <2>2
    <3> QED
      BY <1>1, <3>1
  <2> QED
    BY <1>3, <2>1, <2>2
<1> QED
  BY <1>1, <1>4, Zenon

(* The i-th number of a window of ct numbers that ends at tt is in it. *)
LEMMA WindowNumbers ==
  ASSUME NEW tt \in Nat, NEW ct \in Nat, NEW i \in 1 .. ct, ct <= tt
  PROVE  /\ tt - ct + i # 0
         /\ tt - ct + i <= tt
         /\ tt - (tt - ct + i) < ct
OBVIOUS

(***************************************************************************)
(* What the abstract log maps to: the bodies of the window, oldest first.  *)
(***************************************************************************)
LEMMA RecentIsWindow ==
  ASSUME IInv
  PROVE  Recent = [i \in 1 .. count |->
                     entries[SlotAt(next, count, total, total - count + i)].body]
<1> SUFFICES ASSUME NEW i \in 1 .. count
             PROVE  Attempt(total - count + i).receipt =
                      entries[SlotAt(next, count, total, total - count + i)].body
  BY DEF Recent
<1>1. Known(total - count + i)
  BY CapacityAssumption, MaxTotalAssumption
  DEF IInv, TypeOK, WindowIsMaximal, Known
<1> QED
  BY <1>1 DEF Attempt, SlotOf, Oldest, SlotAt

LEMMA RecentIsWindowNext ==
  ASSUME IInv'
  PROVE  Recent' = [i \in 1 .. count' |->
            entries'[SlotAt(next', count', total', total' - count' + i)].body]
<1> SUFFICES ASSUME NEW i \in 1 .. count'
             PROVE  Attempt(total - count + i)'.receipt =
              entries'[SlotAt(next', count', total', total' - count' + i)].body
  BY DEF Recent
<1>1. TypeOK' /\ WindowIsMaximal'
  BY DEF IInv
<1>2. total' \in Nat /\ count' \in Nat /\ count' <= total'
  BY <1>1, CapacityAssumption, MaxTotalAssumption DEF TypeOK, WindowIsMaximal
<1>3. /\ total' - count' + i # 0
      /\ total' - count' + i <= total'
      /\ total' - (total' - count' + i) < count'
  BY <1>2, WindowNumbers
<1> QED
  BY <1>3 DEF Attempt, Known, SlotOf, Oldest, SlotAt

(***************************************************************************)
(* An append maps to an append of the abstract log: the new receipt is the *)
(* last of the new window, and every other place of it holds the receipt   *)
(* that its number already had.                                            *)
(***************************************************************************)
LEMMA AppendRefines ==
  ASSUME IInv, IInv', NEW r \in Receipts, AppendReceipt(r)
  PROVE  Log!Append1(r)
<1> DEFINE old == [i \in 1 .. count |->
              entries[SlotAt(next, count, total, total - count + i)].body]
           new == [i \in 1 .. count' |->
              entries'[SlotAt(next', count', total', total' - count' + i)].body]
           Bodies == Receipts \cup {NoReceipt}
<1>1. Recent = old /\ Recent' = new
  BY RecentIsWindow, RecentIsWindowNext
<1>2. /\ total \in Nat /\ count \in 0 .. Capacity
      /\ total' = total + 1
      /\ count' = IF count < Capacity THEN count + 1 ELSE count
      /\ entries' = [entries EXCEPT ![next] = [attempt |-> total + 1, body |-> r]]
      /\ next \in Slots /\ entries \in [Slots -> Entry]
  BY MaxTotalAssumption DEF IInv, TypeOK, AppendReceipt
<1>3. count \in Nat /\ count' \in Nat /\ count' \in 0 .. Capacity
  BY <1>2, CapacityAssumption
<1>4. ASSUME NEW i \in 1 .. count
      PROVE  old[i] \in Bodies
  <2>1. (total - count + i) \in (total - count + 1) .. total
    BY <1>2
  <2>2. SlotAt(next, count, total, total - count + i) \in Slots
    BY <1>2, <2>1, SlotAtIsBack
  <2> QED
    BY <1>2, <2>2 DEF Entry
<1>5. ASSUME NEW i \in 1 .. count'
      PROVE  new[i] = IF i = count' THEN r
                      ELSE old[IF count < Capacity THEN i ELSE i + 1]
  <2>1. PICK n \in Int : n = total' - count' + i
    <3>1. (total' - count' + i) \in Int
      BY <1>2, <1>3
    <3> QED
      BY <3>1, Zenon
  <2>2. n \in (total' - count' + 1) .. total'
    BY <1>2, <1>3, <2>1
  <2>3. new[i] = entries'[SlotAt(next', count', total', n)].body
    BY <2>1
  <2>4. CASE n = total + 1 /\ SlotAt(next', count', total', n) = next
    BY <1>2, <1>3, <2>1, <2>3, <2>4
  <2>5. CASE /\ n \in (total - count + 1) .. total
             /\ SlotAt(next', count', total', n) = SlotAt(next, count, total, n)
             /\ SlotAt(next, count, total, n) # next
             /\ SlotAt(next, count, total, n) \in Slots
    <3>1. new[i] = entries[SlotAt(next, count, total, n)].body
      BY <1>2, <2>3, <2>5
    <3>2. PICK j \in Int : j = IF count < Capacity THEN i ELSE i + 1
      <4>1. (IF count < Capacity THEN i ELSE i + 1) \in Int
        OBVIOUS
      <4> QED
        BY <4>1, Zenon
    <3>3. i # count' /\ j \in 1 .. count /\ n = total - count + j
      BY <1>2, <1>3, <2>1, <2>5, <3>2
    <3>4. old[j] = entries[SlotAt(next, count, total, n)].body
      BY <3>3
    <3> QED
      BY <3>1, <3>2, <3>3, <3>4
  <2> QED
    BY <2>2, <2>4, <2>5, AppendSlots
<1>6. /\ old = [i \in 1 .. count |-> old[i]]
      /\ new = [i \in 1 .. count' |-> new[i]]
  OBVIOUS
<1> HIDE DEF old, new
<1>7. old \in Seq(Bodies) /\ Len(old) = count
  BY <1>3, <1>4, <1>6
<1>8. r \in Bodies
  OBVIOUS
<1> HIDE DEF Bodies
<1>9. Recent' = IF Len(Recent) < Capacity
                  THEN Append(Recent, r) ELSE Append(Tail(Recent), r)
  <2>1. CASE count < Capacity
    <3>1. Append(old, r) = [i \in 1 .. (count + 1) |->
                              IF i = count + 1 THEN r ELSE old[i]]
      BY <1>7, <1>8, AppendAsFunction
    <3>2. new = [i \in 1 .. (count + 1) |->
                   IF i = count + 1 THEN r ELSE old[i]]
      BY <1>2, <1>3, <1>5, <1>6, <2>1
    <3> QED
      BY <1>1, <1>7, <2>1, <3>1, <3>2
  <2>2. CASE ~ (count < Capacity)
    <3>1. old # << >>
      BY <1>2, <1>7, <2>2, CapacityAssumption
    <3>2. Append(Tail(old), r) = [i \in 1 .. count |->
                                    IF i = count THEN r ELSE old[i + 1]]
      BY <1>7, <1>8, <3>1, ShiftAsFunction
    <3>3. new = [i \in 1 .. count |-> IF i = count THEN r ELSE old[i + 1]]
      BY <1>2, <1>3, <1>5, <1>6, <2>2
    <3> QED
      BY <1>1, <1>7, <2>2, <3>2, <3>3
  <2> QED
    BY <2>1, <2>2
<1> QED
  BY <1>9 DEF AppendReceipt, Log!Append1

(***************************************************************************)
(* Every behaviour of the ring is a behaviour of the abstract log: appends *)
(* map to appends, the cold reset to the reset.                            *)
(***************************************************************************)
THEOREM RingImplementsLog == Spec => ImplementsLog
<1>1. Init => Log!Init
  <2> SUFFICES ASSUME Init PROVE total = 0 /\ Recent = << >>
    BY DEF Log!Init
  <2> QED
    BY DEF Init, Recent
<1>2. IInv /\ IInv' /\ [Next]_vars => [Log!Next]_(Log!vars)
  <2> SUFFICES ASSUME IInv, IInv', [Next]_vars PROVE [Log!Next]_(Log!vars)
    OBVIOUS
  <2>1. ASSUME NEW r \in Receipts, AppendReceipt(r) PROVE Log!Next
    BY <2>1, AppendRefines DEF Log!Next
  <2>2. CASE Reset
    <3>1. total' = 0 /\ Recent' = << >>
      BY <2>2 DEF Reset, Recent
    <3> QED
      BY <3>1 DEF Log!Next, Log!Reset
  <2>3. CASE UNCHANGED vars
    <3>1. UNCHANGED Recent
      BY <2>3 DEF vars, Recent, Attempt, Known, SlotOf, Oldest
    <3> QED
      BY <2>3, <3>1 DEF vars, Log!vars
  <2> QED
    BY <2>1, <2>2, <2>3 DEF Next
<1> QED
  BY <1>1, <1>2, RingIsNumbered, PTL DEF Spec, ImplementsLog, Log!Spec

(***************************************************************************)
(* The raw image.  Every sector of an accepted image has its own 512       *)
(* bytes, they lie in the image, and together they are the image: for      *)
(* every length and every geometry.  Two mixed-radix digits are at work:   *)
(* the side in the track and the sector in the side.                       *)
(***************************************************************************)
LEMMA WordIsNat == \A w \in Word : w \in Nat /\ w \in Int
<1>1. ASSUME NEW n \in Nat, NEW w \in 0 .. n PROVE w \in Nat /\ w \in Int
  BY SMT, <1>1
<1>2. MaxWord \in Nat
  BY SMT DEF MaxWord
<1> QED BY Zenon, <1>1, <1>2 DEF Word

LEMMA WordsAreBounded == ASSUME NEW w \in Word PROVE w <= 65535
<1>1. ASSUME NEW n \in Nat, w \in 0 .. n PROVE w <= n
  BY SMT, <1>1
<1>2. MaxWord \in Nat
  BY SMT DEF MaxWord
<1>3. w <= MaxWord
  BY Zenon, <1>1, <1>2 DEF Word
<1> QED BY SMT, <1>3 DEF MaxWord

LEMMA BelowAWord == ASSUME NEW w \in Word, NEW x \in Nat, x <= w PROVE x \in Word
<1>1. ASSUME NEW n \in Nat, w \in 0 .. n PROVE x \in 0 .. n
  BY <1>1
<1>2. MaxWord \in Nat
  BY SMT DEF MaxWord
<1> QED BY <1>1, <1>2 DEF Word

LEMMA OneOrTwo == ASSUME NEW n \in {1, 2} PROVE n \in Nat \ {0}
  OBVIOUS

(* A product with a natural number does not fall. *)
LEMMA ProductIsNat == ASSUME NEW a \in Nat, NEW b \in Nat PROVE a * b \in Nat
  OBVIOUS

LEMMA ProductIsPositive ==
  ASSUME NEW a \in Nat \ {0}, NEW b \in Nat \ {0}
  PROVE  a * b \in Nat \ {0}
  OBVIOUS

LEMMA Regroup ==
  ASSUME NEW a \in Nat, NEW b \in Nat, NEW c \in Nat
  PROVE  (a * b) * c = a * (c * b)
  OBVIOUS

LEMMA OneMore ==
  ASSUME NEW a \in Nat, NEW b \in Nat, NEW n \in Nat, a < b
  PROVE  a * n + n <= b * n
<1>1. (b - a - 1) * n \in Nat
  BY ProductIsNat
<1>2. (b - a - 1) * n = b * n - a * n - n
  OBVIOUS
<1> QED BY <1>1, <1>2

(* Digits are told from the number. *)
LEMMA DigitsAreUnique ==
  ASSUME NEW n \in Nat, NEW q \in Nat, NEW p \in Nat,
         NEW r \in 0 .. (n - 1), NEW s \in 0 .. (n - 1), q * n + r = p * n + s
  PROVE  q = p /\ r = s
<1>1. ~ q < p
  <2> SUFFICES ASSUME q < p PROVE FALSE
    OBVIOUS
  <2>1. q * n + n <= p * n
    BY OneMore
  <2>2. q * n \in Nat /\ p * n \in Nat
    BY ProductIsNat
  <2> QED BY <2>1, <2>2
<1>2. ~ p < q
  <2> SUFFICES ASSUME p < q PROVE FALSE
    OBVIOUS
  <2>1. p * n + n <= q * n
    BY OneMore
  <2>2. q * n \in Nat /\ p * n \in Nat
    BY ProductIsNat
  <2> QED BY <2>1, <2>2
<1>3. q = p
  BY <1>1, <1>2
<1> QED BY <1>3, ProductIsNat

(* The geometry of an accepted image. *)
LEMMA DivisorOfSectors ==
  ASSUME NEW x \in Nat, NEW c \in Nat \ {0}, x % c = 0
  PROVE  (x \div c) * c = x /\ x \div c \in Nat
  OBVIOUS

LEMMA Geometry ==
  ASSUME NEW image \in Images, Accepted(image)
  PROVE  /\ image.sectorsPerTrack \in Nat \ {0} /\ image.sides \in {1, 2}
         /\ Tracks(image) \in Nat
         /\ Tracks(image) * SectorsPerCylinder(image) = image.totalSectors
         /\ image.totalSectors \in Word
         /\ image.length = image.totalSectors * SectorSize
<1>1. /\ image.sectorsPerTrack \in Word /\ image.sectorsPerTrack # 0 /\ image.sides \in {1, 2}
      /\ image.totalSectors \in Word
      /\ image.totalSectors % SectorsPerCylinder(image) = 0
      /\ image.totalSectors * image.bytesPerSector = image.length
      /\ image.bytesPerSector = SectorSize
  BY Zenon DEF Images, Accepted
<1>3. image.totalSectors \in Nat /\ image.sectorsPerTrack \in Nat \ {0}
  <2>1. image.sectorsPerTrack \in Nat /\ image.sectorsPerTrack \notin {0}
    BY Zenon, <1>1, WordIsNat
  <2> QED BY Zenon, <1>1, <2>1, WordIsNat
<1>2. SectorsPerCylinder(image) \in Nat \ {0}
  BY Zenon, <1>3, <1>1, OneOrTwo, ProductIsPositive DEF SectorsPerCylinder
<1> QED BY Zenon, <1>1, <1>2, <1>3, DivisorOfSectors DEF Tracks

(* The two digits of a sector's number: the side among all sides of all     *)
(* tracks, and the sector on it.                                           *)
LEMMA DigitsOfAddress ==
  ASSUME NEW image \in Images, Accepted(image), NEW a \in Addresses(image)
  PROVE  /\ a.track \in Nat /\ a.side \in 0 .. (image.sides - 1)
         /\ a.track * image.sides + a.side \in Nat
         /\ a.sector - 1 \in 0 .. (image.sectorsPerTrack - 1)
         /\ a.track * image.sides + a.side + 1 <= Tracks(image) * image.sides
<1>1. /\ a \in [track : Word, side : Word, sector : Word]
      /\ a.track < Tracks(image) /\ a.side < image.sides
      /\ a.sector # 0 /\ a.sector <= image.sectorsPerTrack
  BY Zenon DEF Addresses, InRange
<1>2. a.track \in Nat /\ a.side \in Nat /\ a.sector \in Nat
  BY Zenon, <1>1, WordIsNat
<1>3. /\ image.sectorsPerTrack \in Nat \ {0} /\ image.sides \in {1, 2} /\ Tracks(image) \in Nat
  BY Zenon, Geometry
<1>4. CASE image.sides = 1
  BY <1>1, <1>2, <1>3, <1>4
<1>5. CASE image.sides = 2
  BY <1>1, <1>2, <1>3, <1>5
<1> QED BY Zenon, <1>3, <1>4, <1>5

-----------------------------------------------------------------------------
(* The 512 bytes Sector returns lie in the image, and their offset is less *)
(* than 2^25, so the 32 bits of the code's arithmetic suffice and the      *)
(* slice is never out of range.                                            *)
THEOREM SectorsAreInside ==
  ASSUME NEW image \in Images, Accepted(image), NEW a \in Addresses(image)
  PROVE  /\ Offset(image, a) \in 0 .. (image.length - SectorSize)
         /\ image.length <= 65535 * SectorSize
<1> DEFINE q == a.track * image.sides + a.side
           n == image.sectorsPerTrack
           t == Tracks(image) * image.sides
<1>1. /\ n \in Nat /\ image.sides \in Nat /\ Tracks(image) \in Nat
      /\ Tracks(image) * SectorsPerCylinder(image) = image.totalSectors
      /\ image.totalSectors \in Word
      /\ image.length = image.totalSectors * SectorSize
  <2>1. image.sectorsPerTrack \in Nat /\ image.sides \in Nat
    BY Zenon, Geometry, OneOrTwo
  <2> QED BY Zenon, <2>1, Geometry
<1>2. q \in Nat /\ a.sector - 1 \in 0 .. (n - 1) /\ q + 1 <= t
  BY Zenon, DigitsOfAddress
<1>3. t \in Nat
  BY Zenon, <1>1, ProductIsNat
<1>4. t * n = image.totalSectors
  BY Zenon, <1>1, Regroup DEF SectorsPerCylinder
<1>5. Linear(image, a) = q * n + (a.sector - 1)
  BY Zenon DEF Linear
<1> HIDE DEF q, n, t
<1>6. q * n + n <= t * n /\ q * n \in Nat
  <2>1. q < t
    BY <1>2, <1>3
  <2> QED BY Zenon, <1>1, <1>2, <1>3, <2>1, OneMore, ProductIsNat
<1> DEFINE y == q * n
           z == image.totalSectors
           l == image.length
           x == Linear(image, a)
           r == a.sector - 1
<1>7. /\ y + n <= z /\ y \in Nat /\ z \in Word /\ l = z * SectorSize
      /\ x = y + r /\ r \in 0 .. (n - 1) /\ n \in Nat
  BY Zenon, <1>1, <1>2, <1>4, <1>5, <1>6
<1>8. Offset(image, a) = x * SectorSize
  BY Zenon DEF Offset
<1> HIDE DEF y, z, l, x, r
<1>9. x * SectorSize \in 0 .. (l - SectorSize) /\ l <= 65535 * SectorSize
  <2>1. z \in Nat /\ z <= 65535
    BY <1>7, WordIsNat, WordsAreBounded
  <2> QED BY SMT, <1>7, <2>1 DEF SectorSize
<1> QED BY <1>8, <1>9 DEF l

(* Two sectors do not share a byte: their offsets are at least 512 apart.  *)
THEOREM SectorsAreApart ==
  ASSUME NEW image \in Images, Accepted(image),
         NEW a \in Addresses(image), NEW b \in Addresses(image), a # b
  PROVE  \/ Offset(image, a) + SectorSize <= Offset(image, b)
         \/ Offset(image, b) + SectorSize <= Offset(image, a)
<1> DEFINE q == a.track * image.sides + a.side
           p == b.track * image.sides + b.side
           n == image.sectorsPerTrack
<1>1. n \in Nat /\ image.sides \in Nat
  <2>1. image.sectorsPerTrack \in Nat
    BY Zenon, Geometry
  <2> QED BY Zenon, <2>1, Geometry, OneOrTwo
<1>2. /\ q \in Nat /\ p \in Nat
      /\ a.sector - 1 \in 0 .. (n - 1) /\ b.sector - 1 \in 0 .. (n - 1)
      /\ a.track \in Nat /\ b.track \in Nat
      /\ a.side \in 0 .. (image.sides - 1) /\ b.side \in 0 .. (image.sides - 1)
  BY Zenon, DigitsOfAddress
<1>3. Linear(image, a) = q * n + (a.sector - 1) /\ Linear(image, b) = p * n + (b.sector - 1)
  BY Zenon DEF Linear
<1>4. Linear(image, a) # Linear(image, b)
  <2> SUFFICES ASSUME Linear(image, a) = Linear(image, b) PROVE FALSE
    OBVIOUS
  <2>1. q = p /\ a.sector - 1 = b.sector - 1
    <3>1. q * n + (a.sector - 1) = p * n + (b.sector - 1)
      BY Zenon, <1>3
    <3> HIDE DEF q, p, n
    <3> DEFINE r == a.sector - 1
               s == b.sector - 1
    <3>2. /\ q * n + r = p * n + s /\ q \in Nat /\ p \in Nat /\ n \in Nat
          /\ r \in 0 .. (n - 1) /\ s \in 0 .. (n - 1)
      BY Zenon, <1>1, <1>2, <3>1
    <3> HIDE DEF r, s
    <3>3. q = p /\ r = s
      BY Zenon, <3>2, DigitsAreUnique
    <3> QED BY Zenon, <3>3 DEF r, s
  <2>2. a.track = b.track /\ a.side = b.side
    <3>1. a.track * image.sides + a.side = b.track * image.sides + b.side
      BY Zenon, <2>1
    <3>2. /\ image.sides \in Nat /\ a.track \in Nat /\ b.track \in Nat
          /\ a.side \in 0 .. (image.sides - 1) /\ b.side \in 0 .. (image.sides - 1)
      BY Zenon, <1>1, <1>2
    <3> HIDE DEF q, p, n
    <3> QED BY Zenon, <3>1, <3>2, DigitsAreUnique
  <2>3. /\ a \in [track : Word, side : Word, sector : Word]
        /\ b \in [track : Word, side : Word, sector : Word]
    BY Zenon DEF Addresses
  <2>4. a.sector \in Int /\ b.sector \in Int
    BY Zenon, <2>3, WordIsNat
  <2>5. a.sector = b.sector
    BY <2>1, <2>4
  <2>6. a = b
    BY <2>2, <2>3, <2>5
  <2> QED BY <2>6
<1>5. Linear(image, a) \in Int /\ Linear(image, b) \in Int
  <2> HIDE DEF q, p, n
  <2>1. q * n \in Nat /\ p * n \in Nat
    BY <1>1, <1>2, ProductIsNat
  <2> QED BY <1>2, <1>3, <2>1
<1> HIDE DEF q, p, n
<1> QED BY <1>4, <1>5 DEF Offset, SectorSize

LEMMA DivMod ==
  ASSUME NEW x \in Nat, NEW c \in Nat \ {0}
  PROVE  /\ x = (x \div c) * c + (x % c)
         /\ x \div c \in Nat /\ x % c \in 0 .. (c - 1)
  OBVIOUS

(* The digit above is less than the number of its values. *)
LEMMA QuotientIsBelow ==
  ASSUME NEW x \in Nat, NEW c \in Nat \ {0}, NEW t \in Nat, x < t * c
  PROVE  x \div c < t
<1> DEFINE d == x \div c
           m == x % c
<1>1. d \in Nat /\ m \in Nat /\ x = d * c + m
  BY DivMod
<1> HIDE DEF d, m
<1>2. ~ t <= d
  <2> SUFFICES ASSUME t <= d PROVE FALSE
    OBVIOUS
  <2>1. t * c <= d * c
    <3>1. CASE t = d
      BY <3>1, ProductIsNat
    <3>2. CASE t < d
      <4>1. t * c + c <= d * c
        BY <1>1, <3>2, OneMore
      <4> QED BY <4>1, <1>1, ProductIsNat
    <3> QED BY <3>1, <3>2, <1>1
  <2> QED BY <1>1, <2>1, ProductIsNat
<1>3. d < t
  BY <1>1, <1>2
<1> QED BY Zenon, <1>3 DEF d

(* No part of an image is out of reach: every multiple of 512 below its    *)
(* length is the offset of a sector.                                       *)
THEOREM SectorsCover ==
  ASSUME NEW image \in Images, Accepted(image), NEW k \in Nat, k < image.totalSectors
  PROVE  \E a \in Addresses(image) : Offset(image, a) = k * SectorSize
<1> DEFINE n == image.sectorsPerTrack
           s == image.sides
           q == k \div n
           t == q \div s
           d == q % s
           r == k % n
           a == [track |-> t, side |-> d, sector |-> r + 1]
<1>1. /\ n \in Word /\ s \in {1, 2} /\ s \in Word /\ s \in Nat \ {0} /\ Tracks(image) \in Nat
      /\ n \in Nat \ {0} /\ image.totalSectors \in Word
      /\ Tracks(image) * SectorsPerCylinder(image) = image.totalSectors
  BY Zenon, Geometry, OneOrTwo DEF Images
<1>2. (Tracks(image) * s) * n = image.totalSectors
  BY Zenon, <1>1, Regroup DEF SectorsPerCylinder
<1>3. Tracks(image) * s \in Nat
  BY Zenon, <1>1, ProductIsNat
<1>4. /\ k = q * n + r /\ q \in Nat /\ r \in 0 .. (n - 1) /\ q < Tracks(image) * s
  <2>1. k < (Tracks(image) * s) * n
    BY Zenon, <1>2
  <2>2. k = q * n + r /\ q \in Nat /\ r \in 0 .. (n - 1)
    BY Zenon, <1>1, DivMod
  <2>3. q < Tracks(image) * s
    BY Zenon, <1>1, <1>3, <2>1, QuotientIsBelow
  <2> QED BY Zenon, <2>2, <2>3
<1>5. /\ q = t * s + d /\ t \in Nat /\ d \in 0 .. (s - 1) /\ t < Tracks(image)
  BY Zenon, <1>1, <1>4, DivMod, QuotientIsBelow
<1>6. t <= k
  <2>1. \A x \in Nat, c \in Nat \ {0} : x \div c <= x
    OBVIOUS
  <2>2. t <= q /\ q <= k
    BY Zenon, <1>1, <1>4, <2>1
  <2> HIDE DEF t, q
  <2> QED BY <1>4, <1>5, <2>2
<1>7. t \in Word /\ d \in Word /\ r + 1 \in Word
  <2> HIDE DEF t, d, r, q, s, n
  <2>1. image.totalSectors \in Word
    BY Zenon, <1>1
  <2>2. t <= image.totalSectors /\ t \in Nat /\ image.totalSectors \in Nat
    <3>1. t \in Nat /\ image.totalSectors \in Nat
      BY Zenon, <1>1, <1>5, WordIsNat
    <3> QED BY <1>6, <3>1
  <2>3. d \in Nat /\ d <= s /\ r + 1 \in Nat /\ r + 1 <= n
    <3>1. d \in 0 .. (s - 1) /\ r \in 0 .. (n - 1) /\ s \in Nat /\ n \in Nat
      BY Zenon, <1>1, <1>4, <1>5
    <3> QED BY <3>1
  <2> QED BY Zenon, <1>1, <2>1, <2>2, <2>3, BelowAWord
<1>8. /\ a.track = t /\ a.side = d /\ a.sector = r + 1
      /\ a \in [track : Word, side : Word, sector : Word]
  <2> HIDE DEF t, d, r
  <2> QED BY <1>7
<1>9. InRange(image, a.track, a.side, a.sector)
  <2>1. t < Tracks(image) /\ d < s /\ r + 1 # 0 /\ r + 1 <= n
    <3> HIDE DEF t, d, r, q, s, n
    <3> QED BY <1>1, <1>4, <1>5
  <2> HIDE DEF a, t, d, r
  <2> QED BY Zenon, <1>8, <2>1 DEF InRange
<1>10. a \in Addresses(image)
  <2> HIDE DEF a
  <2> QED BY Zenon, <1>8, <1>9 DEF Addresses
<1>11. Linear(image, a) = k
  <2>1. Linear(image, a) = ((a.track * s) + a.side) * n + (a.sector - 1)
    BY Zenon DEF Linear
  <2>2. ((t * s) + d) * n + ((r + 1) - 1) = k
    <3> HIDE DEF t, d, r, q, s, n
    <3>1. (r + 1) - 1 = r
      BY <1>4
    <3> QED BY Zenon, <1>4, <1>5, <3>1
  <2> HIDE DEF a, t, d, r, s, n
  <2> QED BY Zenon, <1>8, <2>1, <2>2
<1> HIDE DEF a
<1> QED BY Zenon, <1>10, <1>11 DEF Offset


=============================================================================
