------------------------ MODULE FloppyMediaReceipts ------------------------
(***************************************************************************)
(* The ring of media check receipts of internal/st/floppy_media.go.        *)
(* memory.go appends the receipt of a finished read attempt to it, the     *)
(* cold reset empties it, and the conformance tests look receipts up by    *)
(* the number of the attempt.                                              *)
(*                                                                         *)
(* The fields of a receipt that the ring does not look at are abstracted   *)
(* to one member of Receipts.                                              *)
(***************************************************************************)
EXTENDS Integers, Sequences

CONSTANTS Receipts,   \* what an attempt may have recorded
          NoReceipt,  \* the body of floppyMediaReceipt{}
          Capacity,   \* floppyMediaReceiptCapacity, 8 in the code
          MaxTotal    \* bound of Total, a uint64 in the code

ASSUME CapacityAssumption == Capacity \in Nat \ {0}
ASSUME MaxTotalAssumption == MaxTotal \in Nat
ASSUME NoReceiptAssumption == NoReceipt \notin Receipts

VARIABLES total,    \* floppyMediaReceipts.Total
          count,    \* floppyMediaReceipts.Count
          next,     \* floppyMediaReceipts.Next, the slot of the next receipt
          entries   \* floppyMediaReceipts.Entries

vars == <<total, count, next, entries>>

Slots == 0 .. (Capacity - 1)

Entry == [attempt : 0 .. MaxTotal, body : Receipts \cup {NoReceipt}]

EmptyEntry == [attempt |-> 0, body |-> NoReceipt]

(* Modulo of a slot number that is at most one turn ahead. *)
Wrap(n) == n % Capacity

Init ==
  /\ total = 0
  /\ count = 0
  /\ next = 0
  /\ entries = [s \in Slots |-> EmptyEntry]

(* Mutant of AppendReceipt: next stops at the last slot instead of wrapping. *)
AppendWithoutWrap(r) ==
  /\ total < MaxTotal
  /\ total' = total + 1
  /\ entries' = [entries EXCEPT ![next] = [attempt |-> total + 1, body |-> r]]
  /\ next' = IF next + 1 < Capacity THEN next + 1 ELSE next
  /\ count' = IF count < Capacity THEN count + 1 ELSE count

(* Mutant of AppendReceipt: count goes on after the ring is full. *)
AppendWithoutCap(r) ==
  /\ total < MaxTotal
  /\ total' = total + 1
  /\ entries' = [entries EXCEPT ![next] = [attempt |-> total + 1, body |-> r]]
  /\ next' = Wrap(next + 1)
  /\ count' = count + 1

(***************************************************************************)
(* append: the receipt takes the next number and overwrites the slot at    *)
(* next, which is the oldest one once the ring is full.                    *)
(***************************************************************************)
AppendReceipt(r) ==
  /\ total < MaxTotal
  /\ total' = total + 1
  /\ entries' = [entries EXCEPT ![next] = [attempt |-> total + 1, body |-> r]]
  /\ next' = Wrap(next + 1)
  /\ count' = IF count < Capacity THEN count + 1 ELSE count

(* reset, the part of ColdReset that empties the ring. *)
Reset ==
  /\ total' = 0
  /\ count' = 0
  /\ next' = 0
  /\ entries' = [s \in Slots |-> EmptyEntry]

Next == (\E r \in Receipts : AppendReceipt(r)) \/ Reset

Spec == Init /\ [][Next]_vars

(***************************************************************************)
(* attempt(n): the lookup. It answers ok = FALSE for a number outside the  *)
(* kept window, and otherwise computes the slot from the oldest one.       *)
(***************************************************************************)
Oldest == Wrap(next - count + Capacity)

(* Mutant of SlotOf: the oldest receipt is taken to be in slot 0. *)
SlotFromZero(n) == Wrap(n - (total - count + 1))

SlotOf(n) == Wrap(Oldest + (n - (total - count + 1)))

Known(n) == n # 0 /\ n <= total /\ total - n < count

Attempt(n) ==
  IF Known(n)
    THEN [receipt |-> entries[SlotOf(n)].body,
          ok |-> entries[SlotOf(n)].attempt = n]
    ELSE [receipt |-> NoReceipt, ok |-> FALSE]

------------------------------------------------------------------------------
(* The receipts the lookup finds, oldest first. *)
Recent == [i \in 1 .. count |-> Attempt(total - count + i).receipt]

Log == INSTANCE RecentLog WITH recent <- Recent

(***************************************************************************)
(* The ring and its lookup implement the abstract log: appending across    *)
(* the wrap forgets exactly the oldest receipt, and the lookup goes on     *)
(* finding the others under the numbers they were given.                   *)
(***************************************************************************)
ImplementsLog == Log!Spec

(***************************************************************************)
(* attempt finds exactly the numbers of the last Capacity appends: the     *)
(* comparison receipt.Attempt == attempt that ends the Go function never   *)
(* fails for a number in the window, and a receipt is forgotten only       *)
(* because Capacity newer ones arrived.                                    *)
(***************************************************************************)
LookupFindsTheWindow ==
  \A n \in 0 .. MaxTotal :
    Attempt(n).ok <=> /\ n \in 1 .. total
                      /\ total - n < Capacity

------------------------------------------------------------------------------
(* The fields stay in their ranges. *)
TypeOK ==
  /\ total \in 0 .. MaxTotal
  /\ count \in 0 .. Capacity
  /\ next \in Slots
  /\ entries \in [Slots -> Entry]

(* count is min(total, Capacity). *)
WindowIsMaximal == count = IF total < Capacity THEN total ELSE Capacity

(* The slot computed for each number of the window carries that number. *)
WindowIsNumbered ==
  \A n \in (total - count + 1) .. total : entries[SlotOf(n)].attempt = n

(***************************************************************************)
(* The inductive invariant behind both properties: types, the size of the  *)
(* window, and the numbers written in the slots of the window.             *)
(***************************************************************************)
IInv == TypeOK /\ WindowIsMaximal /\ WindowIsNumbered
==============================================================================
