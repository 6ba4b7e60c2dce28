--------------------------- MODULE IkbdUplinkRing ---------------------------
(***************************************************************************)
(* The ring that holds the bytes the IKBD still has to send to the host:   *)
(* ikbdUplink, ikbdUplinkHead and ikbdUplinkCount of internal/st, as       *)
(* ikbd_mouse.go and ikbd_keyboard.go use them.  What decides which bytes  *)
(* are offered, and when one is taken, is in IkbdAcia, which uses the      *)
(* abstract queue this ring implements.                                    *)
(***************************************************************************)
EXTENDS Integers, Sequences, FiniteSets

CONSTANTS Bytes,     \* byte values
          NoByte,    \* the zero an empty slot starts with
          Packets,   \* what a handler may offer: a mouse packet or one key
          Capacity   \* ikbdUplinkCapacity, 6 in the code

ASSUME CapacityAssumption == Capacity \in Nat \ {0}
ASSUME PacketsAssumption == Packets \subseteq Seq(Bytes)
ASSUME NoByteAssumption == NoByte \notin Bytes

VARIABLES slots,   \* ikbdUplink
          head,    \* ikbdUplinkHead, the oldest byte
          count    \* ikbdUplinkCount

vars == <<slots, head, count>>

Slots == 0 .. (Capacity - 1)

Wrap(n) == n % Capacity

EmptySlots == [s \in Slots |-> NoByte]

Init == slots = EmptySlots /\ head = 0 /\ count = 0

(* Mutant of Fits: lets a packet in when only its first byte has room. *)
FitsFirstByte(p) == count + 1 <= Capacity

Fits(p) == count + Len(p) <= Capacity

(* Mutant of TailSlot: appends behind the head instead of behind the tail. *)
TailSlotFromHead(i) == Wrap(head + i - 1)

(* The slot of the i-th byte appended by one call. *)
TailSlot(i) == Wrap(head + (count + i - 1))

(***************************************************************************)
(* The append loops of QueueMouseMotion (three bytes) and QueueKey (one):  *)
(* nothing is written unless the whole packet fits.                        *)
(***************************************************************************)
Offer(p) ==
  /\ Fits(p)
  /\ slots' = [s \in Slots |->
                 IF \E i \in 1 .. Len(p) : s = TailSlot(i)
                   THEN p[CHOOSE i \in 1 .. Len(p) : s = TailSlot(i)]
                   ELSE slots[s]]
  /\ count' = count + Len(p)
  /\ UNCHANGED head

(***************************************************************************)
(* nextIKBDUplinkByte and the part of deliverIKBDUplinkByte that removes   *)
(* the byte; the slot keeps its old value.                                 *)
(***************************************************************************)
Take ==
  /\ count # 0
  /\ head' = Wrap(head + 1)
  /\ count' = count - 1
  /\ UNCHANGED slots

(* The part of ColdReset that empties the queue. *)
Clear == slots' = EmptySlots /\ head' = 0 /\ count' = 0

Next == (\E p \in Packets : Offer(p)) \/ Take \/ Clear

Spec == Init /\ [][Next]_vars

------------------------------------------------------------------------------
(* The bytes still to be sent, oldest first. *)
Pending == [i \in 1 .. count |-> slots[Wrap(head + (i - 1))]]

Queue == INSTANCE ByteQueue WITH queue <- Pending

(***************************************************************************)
(* The ring is a first-in first-out queue: packets are appended whole even *)
(* when they straddle the end of the array, and no byte that has not been  *)
(* sent is overwritten.                                                    *)
(***************************************************************************)
ImplementsQueue == Queue!Spec

(***************************************************************************)
(* Inductive invariant: the indices stay in range, and every slot that is  *)
(* counted as occupied holds a byte some handler offered, never the        *)
(* initial zero.                                                           *)
(***************************************************************************)
IInv ==
  /\ head \in Slots
  /\ count \in 0 .. Capacity
  /\ slots \in [Slots -> Bytes \cup {NoByte}]
  /\ \A i \in 1 .. count : slots[Wrap(head + (i - 1))] \in Bytes
==============================================================================
