-------------------------------- MODULE Mfp --------------------------------
(***************************************************************************)
(* The B bank of the MFP interrupt controller with Timers C and D, as      *)
(* internal/st/memory.go accepts writes to it: four registers of which     *)
(* channels 4 (Timer D), 5 (Timer C) and 6 (ACIA) are modelled, the timer  *)
(* control and data registers, the USART registers, and the four stage     *)
(* counters that follow the boot code of the operating system and decide   *)
(* which write is accepted next.                                           *)
(*                                                                         *)
(* The registers are a record, and a write is a function from the register *)
(* file to the register file: an instruction writes and then the devices   *)
(* advance in one step of module Machine.  A write the code refuses is a   *)
(* bus fault that leaves the registers alone; it is the identity here.     *)
(* A byte is the set of the channels whose bits are set; the other bits    *)
(* are the ones the boot code writes.                                      *)
(***************************************************************************)
EXTENDS Integers

CONSTANTS
  EnableValues,  \* bytes the program writes to IERB and IMRB, as channel sets
  ClearValues,   \* bytes it writes to IPRB and ISRB
  TimerDValues   \* delays it gives Timer D in TCDCR, of 0, 1 and 2

Channels == {4, 5, 6}

ASSUME ValueAssumption ==
  /\ EnableValues \subseteq SUBSET Channels /\ ClearValues \subseteq SUBSET Channels
  /\ TimerDValues \subseteq 0 .. 2

TIMERD == 4
TIMERC == 5
ACIA   == 6

(***************************************************************************)
(* ier, ipr, isr, imr: IERB, IPRB, ISRB, IMRB.  soft: bit 3 of VR.  c and  *)
(* d: the two halves of TCDCR, which is one of $00, $50, $51 and $52.      *)
(* cStart, dStart: mfpTimerCStart, mfpTimerDStart.  tcdr: TCDR is $C0.     *)
(* tddr: TDDR.  midi: midiACIAConfigured.  aciaStage, systemStage,         *)
(* stopStage, usartStage: the stage counters.                              *)
(***************************************************************************)
MfpReset ==
  [ier |-> {}, ipr |-> {}, isr |-> {}, imr |-> {}, soft |-> FALSE,
   c |-> 0, d |-> 0, cStart |-> FALSE, dStart |-> FALSE,
   tcdr |-> FALSE, tddr |-> 0, midi |-> FALSE,
   ucr |-> FALSE, rsr |-> FALSE, tsr |-> FALSE,
   aciaStage |-> 0, systemStage |-> 0, stopStage |-> 0, usartStage |-> 0]

(* midiACIAControl and its configuration, $03 then $95, as one write. *)
WriteMIDI(m) == [m EXCEPT !.midi = TRUE]

WriteIERB(m, v) ==
  CASE m.ier = {} /\ v = {TIMERC} /\ m.ipr = {} /\ m.c = 5 ->
         [m EXCEPT !.ier = v]
    [] m.midi /\ m.ier = {TIMERC} /\ m.imr = {TIMERC} /\ m.aciaStage = 0 /\ v = {TIMERC} ->
         [m EXCEPT !.aciaStage = 1]
    [] m.aciaStage = 3 /\ m.ier = {TIMERC} /\ v = {TIMERC, ACIA}
         /\ ACIA \notin m.ipr \cup m.isr ->
         [m EXCEPT !.ier = v, !.aciaStage = 4]
    [] m.aciaStage = 5 /\ m.systemStage = 0 /\ m.ier = {TIMERC, ACIA}
         /\ m.imr = {TIMERC, ACIA} /\ v = {TIMERC, ACIA} ->
         [m EXCEPT !.systemStage = 1]
    [] m.systemStage = 5 /\ m.ier = {TIMERC, ACIA} /\ v = Channels
         /\ TIMERD \notin m.ipr \cup m.isr ->
         [m EXCEPT !.ier = v, !.systemStage = 6]
    [] m.systemStage = 8 /\ m.stopStage = 0 /\ m.ier = Channels /\ m.imr = Channels
         /\ v = {TIMERC, ACIA} /\ TIMERD \notin m.ipr \cup m.isr ->
         [m EXCEPT !.ier = v, !.stopStage = 1]
    [] m.stopStage = 4 /\ m.ier = {TIMERC, ACIA} /\ v = {TIMERC, ACIA} ->
         [m EXCEPT !.stopStage = 5]
    [] OTHER -> m

(* Mutant of WriteIPRB: the last stage takes any value for $EF. *)
WriteIPRBAnyValue(m, v) ==
  [m EXCEPT !.ipr = @ \cap v,
            !.aciaStage   = IF @ = 1 /\ v = Channels \ {ACIA} THEN 2 ELSE @,
            !.systemStage = IF @ = 1 /\ v = Channels \ {TIMERD} THEN 2 ELSE @,
            !.stopStage   = IF @ = 5 THEN 6 ELSE @]

(* A write of IPRB clears the channels whose bits are zero. *)
WriteIPRB(m, v) ==
  [m EXCEPT !.ipr = @ \cap v,
            !.aciaStage   = IF @ = 1 /\ v = Channels \ {ACIA} THEN 2 ELSE @,
            !.systemStage = IF @ = 1 /\ v = Channels \ {TIMERD} THEN 2 ELSE @,
            !.stopStage   = IF @ = 5 /\ v = Channels \ {TIMERD} THEN 6 ELSE @]

(* Mutant of WriteISRB: the stage is set whatever stage was reached. *)
WriteISRBAnyStage(m, v) ==
  [m EXCEPT !.isr = @ \cap v,
            !.aciaStage   = IF v = Channels \ {ACIA} THEN 3 ELSE @,
            !.systemStage = IF @ = 2 /\ v = Channels \ {TIMERD} THEN 3 ELSE @,
            !.stopStage   = IF @ = 6 /\ v = Channels \ {TIMERD} THEN 7 ELSE @]

WriteISRB(m, v) ==
  [m EXCEPT !.isr = @ \cap v,
            !.aciaStage   = IF @ = 2 /\ v = Channels \ {ACIA} THEN 3 ELSE @,
            !.systemStage = IF @ = 2 /\ v = Channels \ {TIMERD} THEN 3 ELSE @,
            !.stopStage   = IF @ = 6 /\ v = Channels \ {TIMERD} THEN 7 ELSE @]

(* IMRB faults while a channel is pending, except for one write of stop. *)
WriteIMRB(m, v) ==
  IF m.stopStage = 3 /\ m.imr = {TIMERC, ACIA} /\ v = {TIMERC, ACIA}
    THEN [m EXCEPT !.stopStage = 4]
  ELSE IF m.ipr # {} THEN m
  ELSE IF m.stopStage = 1 /\ m.imr = Channels /\ v = {TIMERC, ACIA}
    THEN [m EXCEPT !.imr = v, !.stopStage = 2]
  ELSE [m EXCEPT !.imr = v,
          !.aciaStage   = IF @ = 4 /\ v = {TIMERC, ACIA} THEN 5 ELSE @,
          !.systemStage = IF @ = 6 /\ v = Channels THEN 7 ELSE @]

(* VR: bit 3 selects the software end of interrupt. *)
WriteVR(m, s) ==
  IF s THEN [m EXCEPT !.soft = TRUE]
  ELSE IF m.ipr # {} THEN m
  ELSE [m EXCEPT !.soft = FALSE, !.isr = {}]

(* TCDCR: the halves <<c, d>> of $50, $51 and $52. *)
WriteTCDCR(m, c, d) ==
  CASE m.c = 0 /\ m.d = 0 /\ c = 5 /\ d = 0 /\ m.tcdr ->
         [m EXCEPT !.c = 5, !.cStart = TRUE]
    [] m.stopStage = 7 /\ m.usartStage = 0 /\ m.c = 5 /\ m.d = 0 /\ m.tddr = 0
         /\ c = 5 /\ d = 0 ->
         [m EXCEPT !.usartStage = 1]
    [] m.usartStage = 2 /\ m.c = 5 /\ m.d = 0 /\ c = 5 /\ d = 1 /\ m.tddr = 2 ->
         [m EXCEPT !.d = 1, !.dStart = TRUE, !.usartStage = 3]
    [] m.stopStage # 7 /\ m.c = 5 /\ m.d = 0 /\ c = 5 /\ d = 1 /\ m.tddr = 2 ->
         [m EXCEPT !.d = 1, !.dStart = TRUE]
    [] m.stopStage # 7 /\ m.systemStage = 3 /\ m.c = 5 /\ m.d = 1 /\ c = 5 /\ d = 0
         /\ m.tddr = 2 ->
         [m EXCEPT !.d = 0, !.dStart = FALSE, !.systemStage = 4]
    [] m.stopStage # 7 /\ m.systemStage = 7 /\ m.c = 5 /\ m.d = 0 /\ c = 5 /\ d = 2
         /\ m.tddr = 0 ->
         [m EXCEPT !.d = 2, !.dStart = TRUE, !.systemStage = 8]
    [] m.stopStage = 2 /\ m.c = 5 /\ m.d = 2 /\ c = 5 /\ d = 0
         /\ m.ier = {TIMERC, ACIA} /\ m.imr = {TIMERC, ACIA} ->
         [m EXCEPT !.d = 0, !.dStart = FALSE, !.stopStage = 3]
    [] OTHER -> m

(* The data registers load only while their timer is stopped. *)
WriteTCDR(m) == IF m.c = 0 THEN [m EXCEPT !.tcdr = TRUE] ELSE m

WriteTDDR(m, v) ==
  IF m.d # 0 THEN m
  ELSE IF m.stopStage = 7
    THEN IF m.usartStage = 1 /\ v = 2
           THEN [m EXCEPT !.tddr = 2, !.usartStage = 2] ELSE m
  ELSE [m EXCEPT !.tddr = v,
          !.systemStage = IF @ = 4 /\ v = 0 THEN 5 ELSE @]

(* The USART control registers: set once, then again in the last stage. *)
WriteUSART(m) ==
  CASE ~m.ucr /\ m.c = 5 /\ m.d = 1 /\ m.tddr = 2 /\ m.stopStage # 7 ->
         [m EXCEPT !.ucr = TRUE]
    [] m.ucr /\ ~m.rsr /\ m.stopStage # 7 -> [m EXCEPT !.rsr = TRUE]
    [] m.rsr /\ ~m.tsr /\ m.stopStage # 7 -> [m EXCEPT !.tsr = TRUE]
    [] m.usartStage = 3 /\ m.ucr -> [m EXCEPT !.usartStage = 4]
    [] m.usartStage = 4 /\ m.rsr -> [m EXCEPT !.usartStage = 5]
    [] m.usartStage = 5 /\ m.tsr -> [m EXCEPT !.usartStage = 6]
    [] m.usartStage = 6 -> [m EXCEPT !.usartStage = 7]
    [] OTHER -> m

(* TDDR is written for the delays the program uses: 2 for $51, 0 for $52. *)
TDDRValues == IF 1 \in TimerDValues THEN {0, 2} ELSE {0}

(* The register files one instruction of the program can leave behind. *)
Written(m) ==
  {m, WriteMIDI(m), WriteTCDR(m), WriteUSART(m)}
    \cup {WriteIERB(m, v) : v \in EnableValues}
    \cup {WriteIPRB(m, v) : v \in ClearValues}
    \cup {WriteISRB(m, v) : v \in ClearValues}
    \cup {WriteIMRB(m, v) : v \in EnableValues}
    \cup {WriteVR(m, s) : s \in BOOLEAN}
    \cup {WriteTCDCR(m, 5, d) : d \in TimerDValues}
    \cup {WriteTDDR(m, v) : v \in TDDRValues}

------------------------------------------------------------------------------
(* Mutant of Serviceable: only the channel itself blocks its request. *)
ServiceableOverHigher(m, ch) == ch \in (m.ipr \cap m.ier \cap m.imr) \ m.isr

(* mfpBInterruptChannel: pending, enabled, unmasked, nothing as high in service. *)
Serviceable(m, ch) ==
  ch \in m.ipr \cap m.ier \cap m.imr /\ \A s \in m.isr : s < ch

Requests(m) == {ch \in Channels : Serviceable(m, ch)}

HighestRequest(m) == CHOOSE ch \in Requests(m) : \A other \in Requests(m) : other <= ch

(* acknowledgeMFPB *)
Acknowledge(m, ch) ==
  [m EXCEPT !.ipr = @ \ {ch}, !.isr = IF m.soft THEN @ \cup {ch} ELSE @]

Pend(m, ch) == [m EXCEPT !.ipr = @ \cup {ch}]
==============================================================================
