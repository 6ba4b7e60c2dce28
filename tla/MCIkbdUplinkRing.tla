-------------------------- MODULE MCIkbdUplinkRing --------------------------
(***************************************************************************)
(* The ring at the code's capacity of six: one kind of mouse packet and    *)
(* two keys, so that packets start at every slot and straddle the end.     *)
(***************************************************************************)
EXTENDS IkbdUplinkRing

CONSTANTS header, dx, dy, key1, key2, zero

MCBytes == {header, dx, dy, key1, key2}
MCPackets == {<<header, dx, dy>>, <<key1>>, <<key2>>}
MCCapacity == 6
==============================================================================
