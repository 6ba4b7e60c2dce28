------------------------------ MODULE ByteQueue ------------------------------
(***************************************************************************)
(* What the IKBD uplink queue promises: a first-in first-out queue of at   *)
(* most Capacity bytes.  A mouse packet or a key enters whole or not at    *)
(* all, and bytes leave one by one in the order they entered.              *)
(***************************************************************************)
EXTENDS Integers, Sequences

CONSTANTS Packets,   \* the byte sequences that may be offered
          Capacity

VARIABLE queue

Offer(p) ==
  /\ Len(queue) + Len(p) <= Capacity
  /\ queue' = queue \o p

Take ==
  /\ queue # << >>
  /\ queue' = Tail(queue)

Clear == queue' = << >>

Init == queue = << >>

Next == (\E p \in Packets : Offer(p)) \/ Take \/ Clear

Spec == Init /\ [][Next]_queue
==============================================================================
