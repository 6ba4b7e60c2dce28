------------------------------ MODULE RecentLog ------------------------------
(***************************************************************************)
(* What a receipt store promises: the receipts appended since the last     *)
(* reset are numbered 1, 2, 3, ..., the most recent Capacity of them are   *)
(* kept in order, and every older one is forgotten.                        *)
(***************************************************************************)
EXTENDS Integers, Sequences

CONSTANTS Receipts,  \* the receipts that may be appended
          Capacity,  \* how many of them are kept
          MaxTotal   \* bound of the number of receipts between two resets

VARIABLES total,     \* number of receipts appended since the last reset
          recent     \* the last of them, oldest first

vars == <<total, recent>>

Init == total = 0 /\ recent = <<>>

Append1(r) ==
  /\ total < MaxTotal
  /\ total' = total + 1
  /\ recent' = IF Len(recent) < Capacity
                 THEN Append(recent, r)
                 ELSE Append(Tail(recent), r)

Reset == total' = 0 /\ recent' = <<>>

Next == (\E r \in Receipts : Append1(r)) \/ Reset

Spec == Init /\ [][Next]_vars
==============================================================================
