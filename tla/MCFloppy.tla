------------------------------ MODULE MCFloppy ------------------------------
(***************************************************************************)
(* Instances of Floppy for TLC.  Three ACSI targets make a first, a middle *)
(* and a last one; everything else is at its real size.                    *)
(***************************************************************************)
EXTENDS Floppy

MCLastTarget == 2
==============================================================================
