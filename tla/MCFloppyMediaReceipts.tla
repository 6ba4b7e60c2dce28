----------------------- MODULE MCFloppyMediaReceipts -----------------------
(***************************************************************************)
(* Small instance of the receipt ring: three slots, three different        *)
(* receipts, enough appends to wrap the ring twice between two resets.     *)
(***************************************************************************)
EXTENDS FloppyMediaReceipts

CONSTANTS r1, r2, r3, none

MCReceipts == {r1, r2, r3}
MCCapacity == 3
MCMaxTotal == 8
==============================================================================
