------------------------ MODULE IkbdUplinkRing_proof ------------------------
(***************************************************************************)
(* Proofs about the uplink ring, for every capacity, every set of bytes    *)
(* and every set of packets.                                               *)
(***************************************************************************)
EXTENDS IkbdUplinkRing, SequenceTheorems, TLAPS

LEMMA WrapOneTurn ==
  \A a \in 0 .. (2 * Capacity - 1) :
    Wrap(a) = IF a < Capacity THEN a ELSE a - Capacity
<1> SUFFICES ASSUME NEW a \in 0 .. (2 * Capacity - 1)
             PROVE  Wrap(a) = IF a < Capacity THEN a ELSE a - Capacity
  OBVIOUS
<1>1. CASE a < Capacity
  BY <1>1, CapacityAssumption, SMT DEF Wrap
<1>2. CASE a >= Capacity
  BY <1>2, CapacityAssumption, SMT DEF Wrap
<1> QED
  BY <1>1, <1>2, CapacityAssumption

(* The slot k places behind a head, and where the next head lies. *)
LEMMA SlotBehind ==
  ASSUME NEW hd \in Slots, NEW k \in 0 .. (Capacity - 1)
  PROVE  /\ Wrap(hd + k) = IF hd + k < Capacity THEN hd + k ELSE hd + k - Capacity
         /\ Wrap(hd + k) \in Slots
<1>1. hd + k \in 0 .. (2 * Capacity - 1)
  BY CapacityAssumption DEF Slots
<1>2. Wrap(hd + k) = IF hd + k < Capacity THEN hd + k ELSE hd + k - Capacity
  BY <1>1, WrapOneTurn, CapacityAssumption DEF Slots
<1> QED
  BY <1>2, CapacityAssumption DEF Slots

(* Different places behind the head are different slots. *)
LEMMA SlotsDistinct ==
  ASSUME NEW hd \in Slots,
         NEW j \in 0 .. (Capacity - 1), NEW k \in 0 .. (Capacity - 1),
         Wrap(hd + j) = Wrap(hd + k)
  PROVE  j = k
<1>1. Wrap(hd + j) = IF hd + j < Capacity THEN hd + j ELSE hd + j - Capacity
  BY SlotBehind
<1>2. Wrap(hd + k) = IF hd + k < Capacity THEN hd + k ELSE hd + k - Capacity
  BY SlotBehind
<1> QED
  BY <1>1, <1>2, CapacityAssumption DEF Slots

(* Taking the oldest byte moves every other byte one place forward. *)
LEMMA SlotsMoveUp ==
  ASSUME NEW hd \in Slots, NEW k \in 0 .. (Capacity - 2)
  PROVE  Wrap(Wrap(hd + 1) + k) = Wrap(hd + (k + 1))
<1>1. CASE Capacity = 1
  BY <1>1
<1>2. CASE Capacity # 1
  <2>1. /\ Wrap(hd + 1) = IF hd + 1 < Capacity THEN hd + 1 ELSE hd + 1 - Capacity
        /\ Wrap(hd + 1) \in Slots
    BY <1>2, SlotBehind, CapacityAssumption
  <2>2. PICK h2 \in Slots : h2 = Wrap(hd + 1)
    BY <2>1, Zenon
  <2>3. Wrap(h2 + k) = IF h2 + k < Capacity THEN h2 + k ELSE h2 + k - Capacity
    BY SlotBehind, CapacityAssumption
  <2>4. k + 1 \in 0 .. (Capacity - 1)
    BY CapacityAssumption
  <2>5. PICK k2 \in 0 .. (Capacity - 1) : k2 = k + 1
    BY <2>4, Zenon
  <2>6. Wrap(hd + k2) = IF hd + k2 < Capacity THEN hd + k2 ELSE hd + k2 - Capacity
    BY SlotBehind
  <2>7. Wrap(h2 + k) = Wrap(hd + k2)
    BY <2>1, <2>2, <2>3, <2>5, <2>6, CapacityAssumption DEF Slots
  <2> QED
    BY <2>2, <2>5, <2>7, Zenon
<1> QED
  BY <1>1, <1>2

------------------------------------------------------------------------------
(* The places an offered packet fills: right behind the count occupied ones. *)
LEMMA OfferSlots ==
  ASSUME IInv, NEW p \in Packets, Offer(p),
         NEW i \in 1 .. (count + Len(p))
  PROVE  slots'[Wrap(head + (i - 1))] =
           IF i <= count THEN slots[Wrap(head + (i - 1))] ELSE p[i - count]
<1>1. /\ head \in Slots /\ count \in 0 .. Capacity
      /\ p \in Seq(Bytes) /\ Len(p) \in Nat
      /\ count + Len(p) <= Capacity
  BY PacketsAssumption, LenProperties DEF IInv, Offer, Fits
<1>2. i - 1 \in 0 .. (Capacity - 1)
  BY <1>1, CapacityAssumption
<1>3. Wrap(head + (i - 1)) \in Slots
  BY <1>1, <1>2, SlotBehind
<1> DEFINE s == Wrap(head + (i - 1))
<1>4. slots'[s] = IF \E n \in 1 .. Len(p) : s = TailSlot(n)
                    THEN p[CHOOSE n \in 1 .. Len(p) : s = TailSlot(n)]
                    ELSE slots[s]
  BY <1>3 DEF Offer
<1>5. ASSUME NEW n \in 1 .. Len(p), s = TailSlot(n)
      PROVE  n = i - count
  <2>1. (count + n - 1) \in 0 .. (Capacity - 1)
    BY <1>1, CapacityAssumption
  <2>2. i - 1 = count + n - 1
    BY <1>1, <1>2, <1>5, <2>1, SlotsDistinct DEF TailSlot
  <2> QED
    BY <1>1, <2>2
<1>6. CASE i <= count
  <2>1. ~ \E n \in 1 .. Len(p) : s = TailSlot(n)
    BY <1>1, <1>5, <1>6
  <2> QED
    BY <1>4, <1>6, <2>1
<1>7. CASE ~ (i <= count)
  <2>1. i - count \in 1 .. Len(p)
    BY <1>1, <1>7
  <2>2. s = TailSlot(i - count)
    <3>1. count + (i - count) - 1 = i - 1
      BY <1>1
    <3> QED
      BY <3>1 DEF TailSlot
  <2>3. (CHOOSE n \in 1 .. Len(p) : s = TailSlot(n)) = i - count
    BY <1>5, <2>1, <2>2
  <2> QED
    BY <1>4, <1>7, <2>1, <2>2, <2>3
<1> QED
  BY <1>6, <1>7

LEMMA InitIInv == Init => IInv
BY CapacityAssumption DEF Init, IInv, Slots, EmptySlots

LEMMA NextIInv == IInv /\ [Next]_vars => IInv'
<1> SUFFICES ASSUME IInv, [Next]_vars PROVE IInv'
  OBVIOUS
<1>1. ASSUME NEW p \in Packets, Offer(p) PROVE IInv'
  <2>1. /\ p \in Seq(Bytes) /\ Len(p) \in Nat
        /\ \A n \in 1 .. Len(p) : p[n] \in Bytes
    BY PacketsAssumption, LenProperties, ElementOfSeq
  <2>2. head' \in Slots /\ count' \in 0 .. Capacity
    BY <1>1, <2>1, CapacityAssumption DEF IInv, Offer, Fits
  <2>3. slots' \in [Slots -> Bytes \cup {NoByte}]
    <3> SUFFICES ASSUME NEW s \in Slots,
                        \E i \in 1 .. Len(p) : s = TailSlot(i)
                 PROVE  p[CHOOSE i \in 1 .. Len(p) : s = TailSlot(i)] \in Bytes
      BY <1>1 DEF Offer, IInv
    <3> QED
      BY <2>1
  <2>4. ASSUME NEW i \in 1 .. count' PROVE slots'[Wrap(head' + (i - 1))] \in Bytes
    <3>1. count' = count + Len(p) /\ head' = head
      BY <1>1 DEF Offer
    <3>2. count \in Nat /\ i \in 1 .. (count + Len(p))
      BY <3>1, CapacityAssumption DEF IInv
    <3>3. slots'[Wrap(head + (i - 1))] =
            IF i <= count THEN slots[Wrap(head + (i - 1))] ELSE p[i - count]
      BY <1>1, <3>2, OfferSlots
    <3>4. i <= count => i \in 1 .. count
      BY <3>2
    <3>5. ~ (i <= count) => i - count \in 1 .. Len(p)
      BY <2>1, <3>2
    <3> QED
      BY <2>1, <3>1, <3>3, <3>4, <3>5 DEF IInv
  <2> QED
    BY <2>2, <2>3, <2>4 DEF IInv
<1>2. CASE Take
  <2>1. head \in Slots /\ count \in 1 .. Capacity
    BY <1>2, CapacityAssumption DEF Take, IInv
  <2>2. head' \in Slots
    <3>1. CASE Capacity = 1
      BY <1>2, <2>1, <3>1, WrapOneTurn DEF Take, Slots
    <3>2. CASE Capacity # 1
      BY <1>2, <2>1, <3>2, SlotBehind, CapacityAssumption DEF Take
    <3> QED
      BY <3>1, <3>2
  <2>3. ASSUME NEW i \in 1 .. count' PROVE slots'[Wrap(head' + (i - 1))] \in Bytes
    <3>1. i - 1 \in 0 .. (Capacity - 2) /\ i + 1 \in 1 .. count
      BY <1>2, <2>1, CapacityAssumption DEF Take
    <3>2. Wrap(Wrap(head + 1) + (i - 1)) = Wrap(head + ((i - 1) + 1))
      BY <2>1, <3>1, SlotsMoveUp
    <3>3. (i - 1) + 1 = (i + 1) - 1
      BY <3>1
    <3> QED
      BY <1>2, <3>1, <3>2, <3>3 DEF Take, IInv
  <2>4. count' \in 0 .. Capacity
    BY <1>2, <2>1, CapacityAssumption DEF Take
  <2>5. slots' \in [Slots -> Bytes \cup {NoByte}]
    BY <1>2 DEF Take, IInv
  <2> QED
    BY <2>2, <2>3, <2>4, <2>5 DEF IInv
<1>3. CASE Clear
  BY <1>3, CapacityAssumption DEF Clear, IInv, Slots, EmptySlots
<1>4. CASE UNCHANGED vars
  BY <1>4 DEF vars, IInv
<1> QED
  BY <1>1, <1>2, <1>3, <1>4 DEF Next

(***************************************************************************)
(* In every reachable state the occupied slots hold offered bytes and the  *)
(* indices are in range.                                                   *)
(***************************************************************************)
THEOREM RingInvariant == Spec => []IInv
<1> QED
  BY InitIInv, NextIInv, PTL DEF Spec

------------------------------------------------------------------------------
(* The bytes still to be sent form a sequence. *)
LEMMA PendingIsSeq ==
  IInv => Pending \in Seq(Bytes) /\ Len(Pending) = count
<1> SUFFICES ASSUME IInv PROVE Pending \in Seq(Bytes) /\ Len(Pending) = count
  OBVIOUS
<1>1. count \in Nat /\ \A i \in 1 .. count : slots[Wrap(head + (i - 1))] \in Bytes
  BY CapacityAssumption DEF IInv
<1> QED
  BY <1>1 DEF Pending

(* An offered packet is appended to the pending bytes. *)
LEMMA OfferRefines ==
  ASSUME IInv, NEW p \in Packets, Offer(p)
  PROVE  Queue!Offer(p)
<1>1. Pending \in Seq(Bytes) /\ Len(Pending) = count
  BY PendingIsSeq
<1>2. p \in Seq(Bytes) /\ Len(p) \in Nat /\ count \in Nat
  BY PacketsAssumption, LenProperties, CapacityAssumption DEF IInv
<1>3. Pending' = [i \in 1 .. (count + Len(p)) |->
                    IF i <= count THEN Pending[i] ELSE p[i - count]]
  <2>1. Pending' = [i \in 1 .. (count + Len(p)) |->
                      slots'[Wrap(head + (i - 1))]]
    BY DEF Offer, Pending
  <2>2. ASSUME NEW i \in 1 .. (count + Len(p))
        PROVE  slots'[Wrap(head + (i - 1))] =
                 IF i <= count THEN Pending[i] ELSE p[i - count]
    <3>1. slots'[Wrap(head + (i - 1))] =
            IF i <= count THEN slots[Wrap(head + (i - 1))] ELSE p[i - count]
      BY OfferSlots
    <3>2. i <= count => Pending[i] = slots[Wrap(head + (i - 1))]
      BY <1>2 DEF Pending
    <3> QED
      BY <3>1, <3>2
  <2> QED
    BY <2>1, <2>2
<1>4. Pending \o p = [i \in 1 .. (count + Len(p)) |->
                        IF i <= count THEN Pending[i] ELSE p[i - count]]
  <2>1. /\ Pending \o p \in Seq(Bytes)
        /\ Len(Pending \o p) = count + Len(p)
        /\ \A i \in 1 .. (count + Len(p)) :
             (Pending \o p)[i] = IF i <= count THEN Pending[i] ELSE p[i - count]
    BY <1>1, <1>2, ConcatProperties
  <2>2. Pending \o p = [i \in 1 .. Len(Pending \o p) |-> (Pending \o p)[i]]
    BY <2>1, LenProperties
  <2> QED
    BY <2>1, <2>2
<1>5. Pending' = Pending \o p
  BY <1>3, <1>4
<1> QED
  BY <1>1, <1>5 DEF Offer, Fits, Queue!Offer

(* Taking the oldest byte leaves the tail of the pending bytes. *)
LEMMA TakeRefines ==
  ASSUME IInv, Take
  PROVE  Queue!Take
<1>1. Pending \in Seq(Bytes) /\ Len(Pending) = count
  BY PendingIsSeq
<1>2. head \in Slots /\ count \in 1 .. Capacity
  BY CapacityAssumption DEF Take, IInv
<1>3. Pending # << >>
  BY <1>1, <1>2, CapacityAssumption
<1>4. Pending' = [i \in 1 .. (count - 1) |-> Pending[i + 1]]
  <2>1. Pending' = [i \in 1 .. (count - 1) |->
                      slots[Wrap(Wrap(head + 1) + (i - 1))]]
    BY DEF Take, Pending
  <2>2. ASSUME NEW i \in 1 .. (count - 1)
        PROVE  slots[Wrap(Wrap(head + 1) + (i - 1))] = Pending[i + 1]
    <3>1. i - 1 \in 0 .. (Capacity - 2) /\ i + 1 \in 1 .. count
      BY <1>2, CapacityAssumption
    <3>2. Wrap(Wrap(head + 1) + (i - 1)) = Wrap(head + ((i - 1) + 1))
      BY <1>2, <3>1, SlotsMoveUp
    <3>3. (i - 1) + 1 = (i + 1) - 1
      BY <3>1
    <3> QED
      BY <3>1, <3>2, <3>3 DEF Pending
  <2> QED
    BY <2>1, <2>2
<1>5. Tail(Pending) = [i \in 1 .. (count - 1) |-> Pending[i + 1]]
  <2>1. PICK t \in Seq(Bytes) : /\ t = Tail(Pending)
                                /\ Len(t) = Len(Pending) - 1
                                /\ \A i \in 1 .. Len(t) : t[i] = Pending[i + 1]
    <3>1. /\ Tail(Pending) \in Seq(Bytes)
          /\ Len(Tail(Pending)) = Len(Pending) - 1
          /\ \A i \in 1 .. Len(Tail(Pending)) : Tail(Pending)[i] = Pending[i + 1]
      BY <1>1, <1>3, HeadTailProperties
    <3> QED
      BY <3>1, Zenon
  <2>2. t = [i \in 1 .. Len(t) |-> t[i]] /\ Len(t) = count - 1
    BY <1>1, <2>1, LenProperties
  <2>3. t = [i \in 1 .. (count - 1) |-> Pending[i + 1]]
    BY <2>1, <2>2
  <2> QED
    BY <2>1, <2>3, Zenon
<1> QED
  BY <1>3, <1>4, <1>5 DEF Queue!Take

(***************************************************************************)
(* Every behaviour of the ring is a behaviour of the byte queue.           *)
(***************************************************************************)
THEOREM RingImplementsQueue == Spec => ImplementsQueue
<1>1. Init => Queue!Init
  <2> SUFFICES ASSUME Init PROVE Pending = << >>
    BY DEF Queue!Init
  <2> QED
    BY DEF Init, Pending
<1>2. IInv /\ [Next]_vars => [Queue!Next]_Pending
  <2> SUFFICES ASSUME IInv, [Next]_vars PROVE [Queue!Next]_Pending
    OBVIOUS
  <2>1. ASSUME NEW p \in Packets, Offer(p) PROVE Queue!Next
    BY <2>1, OfferRefines DEF Queue!Next
  <2>2. CASE Take
    BY <2>2, TakeRefines DEF Queue!Next
  <2>3. CASE Clear
    <3>1. Pending' = << >>
      BY <2>3 DEF Clear, Pending
    <3> QED
      BY <3>1 DEF Queue!Next, Queue!Clear
  <2>4. CASE UNCHANGED vars
    BY <2>4 DEF vars, Pending
  <2> QED
    BY <2>1, <2>2, <2>3, <2>4 DEF Next
<1> QED
  BY <1>1, <1>2, RingInvariant, PTL DEF Spec, ImplementsQueue, Queue!Spec
==============================================================================
