------------------------------ MODULE Machine ------------------------------
(***************************************************************************)
(* Machine.Step of internal/st/machine.go: the scheduler that runs one     *)
(* instruction or accepts one interrupt, moves the machine clock, and lets *)
(* every device whose deadline has passed catch up.                        *)
(*                                                                         *)
(* Every clock is kept as its distance from Clocks (toVBL is nextVBLClock  *)
(* minus Clocks), so a behaviour may run for ever; Frame, ByteTime and the *)
(* periods are the code's constants scaled down.  What an instruction      *)
(* does is any of the effects the scheduler can see.                       *)
(***************************************************************************)
EXTENDS Mfp

CONSTANTS
  Frame,          \* vblFrameClocks
  ByteTime,       \* ikbdUplinkByteClocks
  PeriodC,        \* clocks of one period of Timer C
  PeriodD,        \* clocks of one period of Timer D
  InstrClocks,    \* durations of an instruction
  AcceptClocks,   \* durations of an interrupt, with the E-clock wait
  Masks,          \* interrupt masks the program puts in SR
  FailingSets,    \* interrupts that may be out of reach, as sets
  Responses,      \* what other bytes the link delivers: "none", "byte", "last"
  ResetBytes,     \* whether the reset response may arrive
  Capacity,       \* ikbdUplinkCapacity
  Late,           \* bound: clocks a deadline may be overdue by errors
  MaxResets       \* bound: RESET instructions of a behaviour, 0 or 1

VBL == 28  \* the autovector of level 4; a channel stands for its own vector

ASSUME ClockAssumption ==
  /\ Frame \in Nat \ {0} /\ ByteTime \in Nat \ {0}
  /\ PeriodC \in Nat \ {0} /\ PeriodD \in Nat \ {0}
  /\ InstrClocks \subseteq Nat \ {0} /\ AcceptClocks \subseteq Nat \ {0}
ASSUME MaskAssumption == Masks \subseteq 0 .. 7
ASSUME FailingAssumption == FailingSets \subseteq SUBSET (Channels \cup {VBL})
ASSUME ResponseAssumption ==
  Responses \subseteq {"none", "byte", "last"} /\ ResetBytes \subseteq BOOLEAN
ASSUME LimitAssumption == Capacity \in Nat /\ Late \in Nat /\ MaxResets \in 0 .. 1

VARIABLES
  mfp,          \* the registers, see Mfp
  stopped, mask,  \* CPU.stopped and the interrupt mask in SR
  failing,        \* the interrupts that a stopped processor cannot enter: the
                  \* bus refuses the stack, the vector or the handler
  vblPending, toVBL,
  timerC,       \* timerCClockStarted, nextTimerCClock; own is history:
                \* Machine counts the periods of the present start
  timerD,       \* timerDClockStarted, nextTimerDClock
  link,         \* ikbdUplinkCount, nextIKBDUplinkClock, armed when it is not
                \* zero, and bit 0 of ikbdACIAStatus
  resets        \* RESET instructions executed

cpuVars == <<stopped, mask, failing>>
vblVars == <<vblPending, toVBL>>
vars == <<mfp, cpuVars, vblVars, timerC, timerD, link, resets>>

EmptyLink == [count |-> 0, armed |-> FALSE, to |-> 0, rdrf |-> FALSE]

(* Machine.Reset: mask 7, the first VBL one frame away, everything stopped. *)
Init ==
  /\ mfp = MfpReset
  /\ stopped = FALSE /\ mask = 7 /\ failing = {}
  /\ vblPending = FALSE /\ toVBL = Frame
  /\ timerC = [run |-> FALSE, to |-> 0, own |-> TRUE]
  /\ timerD = [run |-> FALSE, to |-> 0]
  /\ link = EmptyLink
  /\ resets = 0

------------------------------------------------------------------------------
(* Mutant of NextTick: a deadline reached exactly is kept. *)
NextTickLate(t, period) == IF t >= 0 THEN t ELSE period - ((-t) % period)

(* The deadline after one that is t clocks away and may have passed. *)
NextTick(t, period) == IF t > 0 THEN t ELSE period - ((-t) % period)

(***************************************************************************)
(* Timer C.  It starts at the access that wrote TCDCR, age clocks before   *)
(* the end of the step.  A deadline that Machine's count of periods did    *)
(* not derive from the present start is followed by whatever deadline the  *)
(* count makes of that start: any, within bound.                           *)
(***************************************************************************)
AdvanceTimerC(m, c, age) ==
  LET starts == ~timerC.run /\ m.cStart
      to == IF starts THEN PeriodC - age ELSE timerC.to - c
      own == m.cStart /\ (starts \/ timerC.own)
  IN IF ~timerC.run /\ ~m.cStart THEN UNCHANGED timerC
     ELSE \E next \in IF own \/ to > 0 THEN {NextTick(to, PeriodC)}
                                      ELSE 1 .. 2 * PeriodC :
            timerC' = [run |-> TRUE, to |-> next, own |-> own]

TimerCTicks(m, c, age) ==
  IF timerC.run THEN timerC.to <= c ELSE m.cStart /\ PeriodC <= age

(* Mutant of TimerDKeepsRunning: the stop is noticed one step late. *)
TimerDKeepsRunningLate(m) == timerD.run

(* The stop of Timer D is looked at before its deadline. *)
TimerDKeepsRunning(m) == timerD.run /\ m.dStart

TimerDStarts(m) == ~TimerDKeepsRunning(m) /\ m.dStart /\ m.d = 2

AdvanceTimerD(m, c, age) ==
  timerD' = IF TimerDStarts(m) THEN [run |-> TRUE, to |-> NextTick(PeriodD - age, PeriodD)]
            ELSE IF TimerDKeepsRunning(m)
              THEN [run |-> TRUE, to |-> NextTick(timerD.to - c, PeriodD)]
            ELSE [run |-> FALSE, to |-> 0]

TimerDTicks(m, c, age) ==
  IF TimerDStarts(m) THEN PeriodD <= age ELSE TimerDKeepsRunning(m) /\ timerD.to <= c

(* dueIKBDUplinkClock, for a link record. *)
UplinkDue(l) == l.armed /\ l.count > 0

(* Mutant of FallsDue: the comparison is strict. *)
FallsDueLate(l) == UplinkDue(l) /\ l.to < 0

FallsDue(l) == UplinkDue(l) /\ l.to <= 0

(* The byte at the head of the queue enters RDR. *)
Delivered(l) == [l EXCEPT !.count = @ - 1, !.rdrf = TRUE, !.to = @ + ByteTime]

(* The deadline of an empty queue is cleared. *)
Disarmed(l) == IF l.count = 0 THEN [l EXCEPT !.armed = FALSE, !.to = 0] ELSE l

(***************************************************************************)
(* A response byte of another protocol of IkbdAcia may enter RDR first;    *)
(* the last one of a response also clears the deadline of the uplink.      *)
(***************************************************************************)
Responded(l, response) ==
  CASE response = "none" -> l
    [] response = "byte" -> [l EXCEPT !.rdrf = TRUE]
    [] response = "last" -> [l EXCEPT !.rdrf = TRUE, !.armed = FALSE, !.to = 0]

(***************************************************************************)
(* The part of the state that idling and the instruction change before the *)
(* devices advance: clocks is the idle time, pending is vblPending.        *)
(***************************************************************************)
Now == [clocks |-> 0, mfp |-> mfp, link |-> link, toVBL |-> toVBL, pending |-> vblPending]

(***************************************************************************)
(* advanceClockedDevices c clocks after the state s, followed, for an      *)
(* instruction, by raiseDueVBL.  An uplink byte that falls due while RDRF  *)
(* is set is an error that leaves out everything behind it.                *)
(***************************************************************************)
Advance(s, c, instruction) ==
  \E age \in 0 .. c, response \in Responses, reset \in ResetBytes :
    LET aged  == [s.link EXCEPT !.to = IF s.link.armed THEN @ - c ELSE 0]
        heard == Responded(aged, response)
        due   == FallsDue(heard)
        error == due /\ heard.rdrf
        sent  == IF due THEN Delivered(heard) ELSE heard
        ticks == {ch \in Channels :
                    \/ ch = TIMERC /\ TimerCTicks(s.mfp, c, age)
                    \/ ch = TIMERD /\ TimerDTicks(s.mfp, c, age)
                    \/ ch = ACIA /\ (response # "none" \/ (due /\ ~error))}
        raise == instruction /\ ~error /\ s.toVBL <= c
    IN /\ response # "none" => ~s.link.rdrf
       /\ reset => ~error /\ ~sent.rdrf
       /\ age > 0 => (s.mfp.cStart /\ ~timerC.run) \/ TimerDStarts(s.mfp)
       /\ AdvanceTimerC(s.mfp, c, age)
       /\ AdvanceTimerD(s.mfp, c, age)
       /\ mfp' = [s.mfp EXCEPT !.ipr = @ \cup ticks]
       /\ link' = IF error THEN heard ELSE [Disarmed(sent) EXCEPT !.rdrf = @ \/ reset]
       /\ vblPending' = (s.pending \/ raise)
       /\ toVBL' = IF raise THEN s.toVBL - c + Frame ELSE s.toVBL - c
       /\ toVBL' >= -Late /\ link'.to >= -Late

------------------------------------------------------------------------------
(***************************************************************************)
(* The first lines of Step: a stopped processor idles to the next uplink   *)
(* byte or to the next VBL, whichever is first.                            *)
(***************************************************************************)
Idles == stopped /\ ~vblPending /\ toVBL > 0
UplinkFirst == UplinkDue(link) /\ link.to < toVBL

Idled ==
  IF ~Idles THEN Now
  ELSE IF UplinkFirst
    THEN [Now EXCEPT !.clocks = link.to, !.mfp = Pend(mfp, ACIA), !.link = Delivered(link)]
    ELSE [Now EXCEPT !.clocks = toVBL, !.toVBL = toVBL + Frame, !.pending = TRUE]

(* The uplink byte that would end the idling cannot be delivered: an error. *)
IdleFails == Idles /\ UplinkFirst /\ link.rdrf

(* Mutant of Accepts: the mask blocks one level more. *)
AcceptsAbove(level) == level > mask + 1

(* AcceptVectoredInterruptAt refuses a level that the mask in SR blocks. *)
Accepts(level) == level > mask

TakesMFP == Requests(Idled.mfp) # {} /\ Accepts(6)
TakesVBL == Idled.pending /\ Accepts(4) /\ ~TakesMFP

(***************************************************************************)
(* The interrupt that Step takes cannot be entered.  The stack pointer and *)
(* the memory of the guest decide that, and only an instruction moves      *)
(* them: what fails once while the processor is stopped fails each time.   *)
(***************************************************************************)
EntryFails ==
  \/ TakesMFP /\ HighestRequest(Idled.mfp) \in failing
  \/ TakesVBL /\ VBL \in failing

AcceptMFP ==
  /\ ~IdleFails /\ TakesMFP /\ ~EntryFails
  /\ mask' = 6 /\ stopped' = FALSE /\ failing' = {}
  /\ LET acked == [Idled EXCEPT !.mfp = Acknowledge(@, HighestRequest(@))]
     IN \E c \in AcceptClocks : Advance(acked, Idled.clocks + c, FALSE)
  /\ UNCHANGED resets

AcceptVBL ==
  /\ ~IdleFails /\ TakesVBL /\ ~EntryFails
  /\ mask' = 4 /\ stopped' = FALSE /\ failing' = {}
  /\ \E c \in AcceptClocks :
       Advance([Idled EXCEPT !.pending = FALSE], Idled.clocks + c, FALSE)
  /\ UNCHANGED resets

(* Step returns an error after the idling: all but Clocks has moved. *)
OnlyIdles ==
  /\ mfp' = Idled.mfp /\ link' = Idled.link
  /\ toVBL' = Idled.toVBL /\ vblPending' = Idled.pending
  /\ UNCHANGED <<cpuVars, timerC, timerD, resets>>

(* The entry fails: the interrupt is not acknowledged, the processor not awake. *)
(* While it runs there is no idling, and a failed entry is a stuttering step.  *)
AcceptFails == ~IdleFails /\ EntryFails /\ OnlyIdles

(* The processor stays stopped: Step returns ErrStopped, and idled all the same. *)
StayStopped == ~IdleFails /\ ~TakesMFP /\ ~TakesVBL /\ stopped /\ OnlyIdles

(* The processor executes an instruction, whose effects on the state are s. *)
Executes(s) ==
  /\ ~stopped /\ ~TakesMFP /\ ~TakesVBL
  /\ \E c \in InstrClocks : Advance(s, c, TRUE)

(* An instruction that writes a register of the MFP, or nothing modelled here. *)
Write ==
  /\ \E m \in Written(mfp) : Executes([Now EXCEPT !.mfp = m])
  /\ UNCHANGED <<cpuVars, resets>>

(* An instruction that reads $FFFC02. *)
ReadData ==
  /\ link.rdrf
  /\ Executes([Now EXCEPT !.link.rdrf = FALSE])
  /\ UNCHANGED <<cpuVars, resets>>

(* MOVE to SR, RTE and their like; STOP loads SR and stops. *)
SetMask ==
  /\ Executes(Now)
  /\ mask' \in Masks
  /\ UNCHANGED <<stopped, failing, resets>>

Stop ==
  /\ Executes(Now)
  /\ mask' \in Masks /\ stopped' = TRUE /\ failing' \in FailingSets
  /\ UNCHANGED resets

(* The RESET instruction cold-resets Memory, and not Machine's own fields. *)
ResetDevices ==
  /\ resets < MaxResets
  /\ Executes([Now EXCEPT !.mfp = MfpReset,
                          !.link = [@ EXCEPT !.count = 0, !.rdrf = FALSE]])
  /\ resets' = resets + 1
  /\ UNCHANGED cpuVars

Step == AcceptMFP \/ AcceptVBL \/ AcceptFails \/ StayStopped \/ Write \/ ReadData
          \/ SetMask \/ Stop \/ ResetDevices

(* QueueKey: the front end queues a byte and arms the deadline. *)
QueueKey ==
  /\ link.count < Capacity
  /\ link' = [link EXCEPT !.count = @ + 1, !.armed = TRUE,
                          !.to = IF link.armed THEN @ ELSE ByteTime]
  /\ UNCHANGED <<mfp, cpuVars, vblVars, timerC, timerD, resets>>

(* Machine.Reset while it runs. *)
Reset ==
  /\ mfp' = MfpReset
  /\ stopped' = FALSE /\ mask' = 7 /\ failing' = {}
  /\ vblPending' = FALSE /\ toVBL' = Frame
  /\ timerC' = [run |-> FALSE, to |-> 0, own |-> TRUE]
  /\ timerD' = [run |-> FALSE, to |-> 0]
  /\ link' = EmptyLink
  /\ UNCHANGED resets

Next == Step \/ QueueKey \/ Reset

(***************************************************************************)
(* The session calls Step again and again while it is asked to run.  What  *)
(* a step can be is settled by the state: no step but these is possible    *)
(* while the processor is stopped, and no property asks more of fairness.  *)
(***************************************************************************)
StoppedStep == stopped /\ (AcceptMFP \/ AcceptVBL \/ AcceptFails \/ StayStopped)

Spec == Init /\ [][Next]_vars /\ WF_vars(StoppedStep)

------------------------------------------------------------------------------
TypeOK ==
  /\ mfp.ier \in SUBSET Channels /\ mfp.ipr \in SUBSET Channels
  /\ mfp.isr \in SUBSET Channels /\ mfp.imr \in SUBSET Channels
  /\ stopped \in BOOLEAN /\ mask \in 0 .. 7
  /\ failing \in FailingSets \cup {{}} /\ (failing = {} \/ stopped)
  /\ vblPending \in BOOLEAN /\ toVBL \in -Late .. 2 * Frame
  /\ timerC.run \in BOOLEAN
  /\ timerC.to \in IF timerC.run THEN 1 .. 2 * PeriodC ELSE {0}
  /\ timerD.run \in BOOLEAN
  /\ timerD.to \in IF timerD.run THEN 1 .. PeriodD ELSE {0}
  /\ link.count \in 0 .. Capacity /\ link.armed \in BOOLEAN
  /\ link.to \in Int /\ link.to >= -Late /\ link.rdrf \in BOOLEAN
  /\ resets \in 0 .. MaxResets

(***************************************************************************)
(* An uplink byte whose time has passed is waiting for RDRF and nothing    *)
(* else.  It is what keeps the unsigned subtraction in Step, the deadline  *)
(* minus Clocks, from wrapping when the processor stops.                   *)
(***************************************************************************)
OverdueOnlyBehindRdrf == UplinkDue(link) /\ link.to <= 0 => link.rdrf

(***************************************************************************)
(* A channel goes into service only over channels of lower priority, also  *)
(* when a handler lowers the mask before it ends its interrupt.            *)
(***************************************************************************)
ServiceNestsUpwards ==
  [][\A ch \in mfp'.isr \ mfp.isr : \A s \in mfp.isr : s < ch]_vars

(***************************************************************************)
(* A timer that the program stopped does not become pending any more, not  *)
(* even for a deadline that passed in the step of the stop; nor does one   *)
(* that was never started.  Timer C is never stopped but by a RESET.       *)
(***************************************************************************)
TimersPendOnlyWhileOn ==
  [][/\ TIMERC \in mfp'.ipr \ mfp.ipr => mfp'.cStart \/ resets' > 0
     /\ TIMERD \in mfp'.ipr \ mfp.ipr => mfp'.dStart]_vars

(***************************************************************************)
(* Specs 069 and 099 say that the RESET instruction stops the timers and   *)
(* that a reset clears their deadlines: Timer C does not become pending in *)
(* a step that finds it stopped and leaves it stopped.                     *)
(***************************************************************************)
ResetStopsTimerC ==
  [][(TIMERC \in mfp'.ipr \ mfp.ipr) => mfp.cStart \/ mfp'.cStart]_vars

(***************************************************************************)
(* Once the boot code has taken Timer D out of the controller (stage 7 of  *)
(* its stop sequence), channel 4 is neither enabled, pending nor in        *)
(* service, whatever was in flight when the sequence began.                *)
(***************************************************************************)
TimerDIsQuiet ==
  mfp.stopStage = 7 => TIMERD \notin mfp.ier \cup mfp.ipr \cup mfp.isr

(***************************************************************************)
(* The four stage counters, the enable register and the timers tell one    *)
(* story: each sequence starts after the one before it ended, and IERB     *)
(* and the start flags are what the stage reached has made of them.        *)
(***************************************************************************)
BootStagesAgree ==
  /\ mfp.systemStage > 0 => mfp.aciaStage = 5
  /\ mfp.stopStage > 0 => mfp.systemStage = 8
  /\ mfp.usartStage > 0 => mfp.stopStage = 7
  /\ ACIA \in mfp.ier <=> mfp.aciaStage >= 4
  /\ TIMERD \in mfp.ier <=> (mfp.systemStage >= 6 /\ mfp.stopStage = 0)
  /\ mfp.cStart <=> mfp.c = 5
  /\ mfp.dStart <=> mfp.d # 0
  /\ timerD.run => mfp.d = 2

(* The link cannot deliver: an uplink byte is due and RDRF is set. *)
Overrun == UplinkDue(link) /\ link.rdrf

(***************************************************************************)
(* A processor stopped with a mask that lets the VBL through wakes up,     *)
(* unless the uplink is in overrun, which the code leaves unmodelled and   *)
(* fails at every step, or the interrupt that Step takes cannot be         *)
(* entered, which fails at every step too.                                 *)
(***************************************************************************)
StopWakes == (stopped /\ mask < 4) ~> (~stopped \/ Overrun \/ EntryFails)
==============================================================================
