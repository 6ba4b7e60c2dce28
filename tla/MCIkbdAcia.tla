----------------------------- MODULE MCIkbdAcia -----------------------------
(***************************************************************************)
(* Instances of IkbdAcia for TLC: a set-clock packet of two or three bytes *)
(* and responses of two bytes keep the boot protocols short; the alphabet  *)
(* holds every byte a guard of the code names and the parameters that      *)
(* collide with one of them.                                               *)
(***************************************************************************)
EXTENDS IkbdAcia

MCPacket == <<27, 36>>
MCHostBytes == {128, 1, 28, 27, 36, 7}
MCMotions == {<<1, 0, TRUE, FALSE>>, <<0, 0, FALSE, FALSE>>}
MCMinDelta == -1
\* The bytes of the clock protocol, and one command without a parameter.
ClockBytes == {128, 1, 28, 27, 36, 8}
\* The commands that switch the mouse on.
MouseBytes == {1, 8, 16, 11}
NoMotions == {}
NoKeys == {}
MCKeys == {<<"key", "make">>}
==============================================================================
