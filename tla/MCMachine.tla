----------------------------- MODULE MCMachine -----------------------------
(***************************************************************************)
(* Instances of Machine for TLC.  The scheduler's instance boots Timer C   *)
(* and the ACIA channel only; the instance of the timers boots Timer D too *)
(* and leaves the keyboard out.                                            *)
(***************************************************************************)
EXTENDS Machine

\* The writes up to the enabling of the ACIA channel.
AciaEnables == {{TIMERC}, {TIMERC, ACIA}}
AciaClears == {Channels \ {ACIA}, Channels \ {TIMERC}}
\* The writes of the whole boot.
AllEnables == {{TIMERC}, {TIMERC, ACIA}, Channels}
AllClears == {Channels \ {ACIA}, Channels \ {TIMERD}, Channels \ {TIMERC}}
\* No interrupt, or one of the two that wake a stopped processor by its idling,
\* is out of reach.
OneOrNone == {{}, {VBL}, {ACIA}}
\* With mask 7 alone a stopped processor takes none.
None == {{}}
==============================================================================
