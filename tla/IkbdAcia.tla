------------------------------ MODULE IkbdAcia ------------------------------
(***************************************************************************)
(* The serial link between the 68000 and the keyboard processor (IKBD), as *)
(* internal/st models it: the transmit register and shift register of the  *)
(* ACIA, the scripted protocols the transmitted bytes drive (reset, clock  *)
(* request, set clock, clock readback, recurring clock poll, the four      *)
(* mouse commands), the receive register RDR with its three sources, and   *)
(* the deadlines in Machine that decide when a source may use it.          *)
(*                                                                         *)
(* Clock values are abstracted: a deadline is either armed or not, and an  *)
(* armed deadline may fall due at any moment.  Bytes that IKBD sends are   *)
(* abstracted to who sent them and their position.                         *)
(***************************************************************************)
EXTENDS Integers, Sequences

CONSTANTS
  HostBytes,       \* bytes the program may write to $FFFC02
  SetClockPacket,  \* ikbdSetClockPacket, seven bytes in the code
  ResponseLength,  \* len(ikbdClockResponse), 7 in the code
  ByteTicks,       \* serial ticks of one transmitted byte, 10 in the code
  Motions,         \* mouse events <<dx, dy, left, right>> the front end sends
  KeyEvents,       \* key bytes QueueKey may queue: scan code and direction
  MinDelta, MaxDelta, \* what one packet byte holds, -128 and 127 in the code
  AccumBound,      \* bound of the motion accumulators (int in the code)
  Capacity,        \* ikbdUplinkCapacity, 6 in the code
  MaxResets,       \* bound: RESET instructions of a behaviour, 0 or 1
  MaxPolls         \* bound of ikbdClockPollRequestCount (uint32)

ASSUME PacketAssumption == SetClockPacket \in Seq(0 .. 255) /\ Len(SetClockPacket) > 1
ASSUME LengthAssumption == ResponseLength \in Nat \ {0} /\ ByteTicks \in Nat \ {0}
ASSUME BoundAssumption == MaxPolls \in Nat /\ Capacity \in Nat /\ MaxResets \in 0 .. 1
ASSUME DeltaAssumption == MinDelta \in Int /\ MaxDelta \in Int /\ AccumBound \in Nat
ASSUME HostAssumption == HostBytes \subseteq 0 .. 255
ASSUME FrontEndAssumption ==
  /\ \A m \in Motions : m[3] \in BOOLEAN /\ m[4] \in BOOLEAN
  /\ \A key \in KeyEvents : key[1] \notin {"response", "reset"}

RESET1 == 128   \* $80, first byte of the IKBD reset command
RESET2 == 1     \* $01, second byte
ASK    == 28    \* $1C, interrogate time of day

Rounds == 1 .. 3   \* 1 first clock request, 2 readback after set clock, 3 poll
RESETTER == 0   \* the senders that are no round: the reset response
UPLINK   == 4   \* and the uplink queue

VARIABLES
  control,         \* ikbdACIAControl; configured once it is $96 (150)
  tdr, txPending, tdre,   \* ikbdACIATDR, TXPending, status bit 1
  shift, ticks,           \* ikbdACIATXShift, TXShiftTicks
  cmd,             \* the command assembler: opcode, remaining, params
  mode,            \* what the mouse commands set
  resetHandled,    \* ikbdResetCommandHandled
  handled,         \* per round: request transmitted (poll: request count)
  setWritten, setCompleted,  \* ikbdSetClockWriteCount, CompleteCount
  readbackWritten, pollWritten,  \* a readback or poll request is in the ACIA
  rdr, rdrf,       \* ikbdACIARDR, status bits 0 and 7
  gpip4,           \* mfpGPIPIn bit 4, low while the ACIA interrupts
  active, delivered, reads, completes,  \* per round: the response stream
  uplinkActive,    \* ikbdUplinkActive
  resetRead, staleReads,  \* ikbdResetResponseRead, ikbdStaleRDRReads
  queue,           \* the uplink bytes, see IkbdUplinkRing
  mouse,           \* accumulators and buttons
  floppy,          \* what the other boot stages have reached
  round, responseDue, resetDue, uplinkDue, pollScheduled, \* Machine's deadlines
  wasReset         \* history: a RESET instruction was executed

txVars == <<control, tdr, txPending, tdre, shift, ticks>>
cmdVars == <<cmd, mode>>
hostVars == <<resetHandled, handled, setWritten, setCompleted,
              readbackWritten, pollWritten>>
rxVars == <<rdr, rdrf, gpip4, active, delivered, reads, completes,
            uplinkActive, resetRead, staleReads>>
upVars == <<queue, mouse>>
dueVars == <<round, responseDue, resetDue, uplinkDue, pollScheduled>>
vars == <<txVars, cmdVars, hostVars, rxVars, upVars, dueVars, floppy, wasReset>>

NoCommand == [opcode |-> 0, remaining |-> 0, params |-> << >>]
NoMode == [relative |-> FALSE, yUp |-> FALSE, threshold1 |-> FALSE, action |-> FALSE]
StillMouse == [x |-> 0, y |-> 0, left |-> FALSE, right |-> FALSE]
NotProbed == [probed |-> FALSE, vblComplete |-> FALSE]
NoByte == <<"none">>

configured == control = 150
complete(r) == completes[r] > 0
SetClockComplete == setCompleted = Len(SetClockPacket)

Init ==
  /\ control = 0
  /\ tdr = 0 /\ txPending = FALSE /\ tdre = FALSE /\ shift = 0 /\ ticks = 0
  /\ cmd = NoCommand /\ mode = NoMode
  /\ resetHandled = FALSE
  /\ handled = [r \in Rounds |-> 0]
  /\ setWritten = 0 /\ setCompleted = 0
  /\ readbackWritten = FALSE /\ pollWritten = FALSE
  /\ rdr = NoByte /\ rdrf = FALSE /\ gpip4 = "low"
  /\ active = [r \in Rounds |-> FALSE]
  /\ delivered = [r \in Rounds |-> 0]
  /\ reads = [r \in Rounds |-> << >>]
  /\ completes = [r \in Rounds |-> 0]
  /\ uplinkActive = FALSE /\ resetRead = FALSE /\ staleReads = 0
  /\ queue = << >> /\ mouse = StillMouse
  /\ floppy = NotProbed
  /\ round = 0 /\ responseDue = FALSE /\ resetDue = FALSE /\ uplinkDue = FALSE
  /\ pollScheduled = 0
  /\ wasReset = FALSE

------------------------------------------------------------------------------
(* Writes of the control register: $03 master reset, then $96. *)
WriteControl ==
  /\ \/ /\ control = 0
        /\ control' = 3
        /\ tdre' = TRUE
     \/ /\ control = 3
        /\ control' = 150
        /\ UNCHANGED tdre
  /\ UNCHANGED <<tdr, txPending, shift, ticks, cmdVars, hostVars, rxVars,
                 upVars, dueVars, floppy, wasReset>>

(* ikbdCommandParamLength: the four commands the assembler knows. *)
ParamLength == [op \in {8, 16, 7, 11} |->
                  CASE op \in {8, 16} -> 0 [] op = 7 -> 1 [] op = 11 -> 2]

AcceptsCommandByte(v) == cmd.remaining # 0 \/ v \in DOMAIN ParamLength

(* applyIKBDCommand: what a complete command leaves behind. *)
Applied(opcode, params) ==
  CASE opcode = 8  -> [mode EXCEPT !.relative = TRUE]
    [] opcode = 16 -> [mode EXCEPT !.yUp = TRUE]
    [] opcode = 7  -> [mode EXCEPT !.action = TRUE]
    [] opcode = 11 -> [mode EXCEPT !.threshold1 = (params = <<1, 1>>)]

(* ikbdTakeCommandByte *)
TakeCommandByte(v) ==
  LET opcode == IF cmd.remaining # 0 THEN cmd.opcode ELSE v
      params == IF cmd.remaining # 0 THEN Append(cmd.params, v) ELSE << >>
      left   == IF cmd.remaining # 0 THEN cmd.remaining - 1 ELSE ParamLength[v]
  IN IF left = 0
       THEN cmd' = NoCommand /\ mode' = Applied(opcode, params)
       ELSE /\ cmd' = [opcode |-> opcode, remaining |-> left, params |-> params]
            /\ UNCHANGED mode

(***************************************************************************)
(* The bytes the scripted protocols are waiting for.                       *)
(***************************************************************************)
ValidReset(v) == \/ v = RESET1 /\ tdr = 0 /\ ticks = 0
                 \/ v = RESET2 /\ tdr = RESET1 /\ ticks # 0
ValidClockRequest(v) ==
  v = ASK /\ tdr = RESET2 /\ ticks = 0 /\ floppy.probed
    /\ resetRead /\ staleReads = 0 /\ handled[1] = 0
ValidSetClock(v) ==
  complete(1) /\ ~SetClockComplete /\ setWritten < Len(SetClockPacket)
    /\ v = SetClockPacket[setWritten + 1]
ValidReadback(v) ==
  v = ASK /\ setWritten = Len(SetClockPacket) /\ setCompleted = Len(SetClockPacket) - 1
    /\ ticks # 0 /\ ~readbackWritten

(* Mutant of ValidPoll: a poll may be requested before the last one was read. *)
ValidPollOverlapping(v) ==
  v = ASK /\ complete(2) /\ floppy.vblComplete /\ ticks = 0 /\ ~pollWritten

ValidPoll(v) ==
  v = ASK /\ complete(2) /\ floppy.vblComplete /\ ticks = 0
    /\ ~pollWritten /\ ~active[3] /\ handled[3] = completes[3]

ProtocolByte(v) == \/ ValidReset(v) \/ ValidClockRequest(v) \/ ValidSetClock(v)
                   \/ ValidReadback(v) \/ ValidPoll(v)

(***************************************************************************)
(* A write of $FFFC02 that does not fault.  A byte one of the protocols    *)
(* waits for is theirs; any other byte goes to the command assembler.      *)
(***************************************************************************)
WriteData(v) ==
  /\ configured /\ tdre /\ ~txPending
  /\ ProtocolByte(v) \/ AcceptsCommandByte(v)
  /\ tdr' = v /\ txPending' = TRUE /\ tdre' = FALSE
  /\ IF ProtocolByte(v) THEN UNCHANGED cmdVars ELSE TakeCommandByte(v)
  /\ LET set  == ValidSetClock(v)
         back == ~set /\ ValidReadback(v)
         poll == ~set /\ ~back /\ ValidPoll(v)
     IN /\ poll => handled[3] < MaxPolls
        /\ setWritten' = IF set THEN setWritten + 1 ELSE setWritten
        /\ readbackWritten' = (readbackWritten \/ back)
        /\ pollWritten' = (pollWritten \/ poll)
        /\ delivered' = IF poll THEN [delivered EXCEPT ![3] = 0] ELSE delivered
        /\ reads' = IF poll THEN [reads EXCEPT ![3] = << >>] ELSE reads
  /\ UNCHANGED <<control, shift, ticks, resetHandled, handled, setCompleted,
                 rdr, rdrf, gpip4, active, completes, uplinkActive,
                 resetRead, staleReads, upVars, dueVars, floppy, wasReset>>

(* Mutant of TicksLeft: the uint8 counter is decremented unconditionally. *)
TicksLeftUnguarded == ticks - 1

TicksLeft == IF ticks = 0 THEN 0 ELSE ticks - 1

(* advanceDueACIAClocks: the round whose response the tick has scheduled. *)
ScheduledRound(request, readback, poll) ==
  CASE request -> 1 [] readback -> 2
    [] poll /\ handled[3] + 1 > pollScheduled -> 3
    [] OTHER -> 0

(***************************************************************************)
(* One serial tick of the transmitter (advanceIKBDACIAClock) and what      *)
(* advanceDueACIAClocks schedules when it completed a request.  The byte   *)
(* that leaves the shift register is compared with what the protocols are  *)
(* waiting for, in the order of the code.                                  *)
(***************************************************************************)
BitTick ==
  LET done     == ticks = 1
      reset    == done /\ shift = RESET2 /\ ~resetHandled
      request  == done /\ ~reset /\ shift = ASK /\ handled[1] = 0
      readback == done /\ ~reset /\ ~request /\ shift = ASK
                    /\ SetClockComplete /\ handled[2] = 0
      poll     == done /\ ~reset /\ ~request /\ ~readback /\ shift = ASK
                    /\ pollWritten /\ complete(2) /\ floppy.vblComplete
      setByte  == done /\ ~reset /\ ~request /\ ~readback /\ ~poll
                    /\ complete(1) /\ setCompleted < setWritten
                    /\ shift = SetClockPacket[setCompleted + 1]
      left     == TicksLeft
      load     == left = 0 /\ txPending
      newRound == ScheduledRound(request, readback, poll)
  IN /\ ticks # 0 \/ txPending
     /\ ticks' = IF load THEN ByteTicks ELSE left
     /\ shift' = IF load THEN tdr ELSE shift
     /\ txPending' = (txPending /\ ~load)
     /\ tdre' = (tdre \/ load)
     /\ resetHandled' = (resetHandled \/ reset)
     /\ resetDue' = (resetDue \/ reset)
     /\ handled' = [handled EXCEPT ![1] = IF request THEN 1 ELSE @,
                                   ![2] = IF readback THEN 1 ELSE @,
                                   ![3] = IF poll THEN @ + 1 ELSE @]
     /\ pollWritten' = (pollWritten /\ ~poll)
     /\ setCompleted' = IF setByte THEN setCompleted + 1 ELSE setCompleted
     /\ round' = IF newRound # 0 THEN newRound ELSE round
     /\ responseDue' = (responseDue \/ newRound # 0)
     /\ pollScheduled' = IF newRound = 3 THEN handled[3] + 1 ELSE pollScheduled
     /\ UNCHANGED <<control, tdr, cmdVars, setWritten, readbackWritten, rxVars,
                    upVars, uplinkDue, floppy, wasReset>>

------------------------------------------------------------------------------
(* A byte enters RDR: RDRF, the interrupt flag and the line GPIP4.  The     *)
(* pending bit it sets in the interrupt controller is in module Machine.   *)
Receive(byte) ==
  /\ rdr' = byte
  /\ rdrf' = TRUE
  /\ gpip4' = "low"

ValidRound(r) ==
  CASE r = 1 -> handled[1] # 0
    [] r = 2 -> handled[2] # 0
    [] r = 3 -> handled[3] > completes[3]
    [] OTHER -> FALSE

(* Mutant of RdrFree: the response is delivered over an unread byte. *)
RdrFreeAlways == TRUE

RdrFree == ~rdrf

(* Mutants of LastByte: the deadline is cleared one byte late, or early. *)
LastByteLate(r) == delivered[r] = ResponseLength
LastByteEarly(r) == delivered[r] + 2 = ResponseLength

LastByte(r) == delivered[r] + 1 = ResponseLength

(***************************************************************************)
(* The response loop of advanceClockedDevices: nextIKBDClockResponse and   *)
(* deliverIKBDClockResponse.  The byte waits while RDRF is set.  The last  *)
(* byte clears the response deadline and the uplink deadline.              *)
(***************************************************************************)
DeliverResponse ==
  LET r == round
      last == LastByte(r)
  IN /\ responseDue /\ configured /\ RdrFree
     /\ ValidRound(r)
     /\ delivered[r] < ResponseLength
     /\ active' = [active EXCEPT ![r] = TRUE]
     /\ delivered' = [delivered EXCEPT ![r] = @ + 1]
     /\ Receive(<<"response", r, delivered[r] + 1>>)
     /\ responseDue' = ~last
     /\ uplinkDue' = (uplinkDue /\ ~last)
     /\ UNCHANGED <<txVars, cmdVars, hostVars, reads, completes, uplinkActive,
                    resetRead, staleReads, upVars, round, resetDue,
                    pollScheduled, floppy, wasReset>>

(* Mutant of MoreQueued: only one byte is sent for each event queued. *)
MoreQueuedNever == FALSE

(* The uplink deadline stays armed while bytes are queued. *)
MoreQueued == Tail(queue) # << >>

(***************************************************************************)
(* deliverIKBDUplinkByte, called when the uplink deadline falls due.  With *)
(* RDRF set it returns an error and changes nothing.                       *)
(***************************************************************************)
DeliverUplink ==
  /\ uplinkDue /\ queue # << >>
  /\ configured /\ ~rdrf
  /\ Receive(Head(queue))
  /\ queue' = Tail(queue)
  /\ uplinkActive' = TRUE
  /\ uplinkDue' = MoreQueued
  /\ UNCHANGED <<txVars, cmdVars, hostVars, active, delivered, reads, completes,
                 resetRead, staleReads, mouse, round, responseDue, resetDue,
                 pollScheduled, floppy, wasReset>>

(* Mutant of ResetEnters: the response is put over an unread byte. *)
ResetEntersAlways == configured

ResetEnters == configured /\ ~rdrf

(***************************************************************************)
(* deliverIKBDResetResponse at its deadline: $F1 enters RDR without an     *)
(* edge on GPIP4, and is lost when RDRF is still set.                      *)
(***************************************************************************)
DeliverReset ==
  /\ resetDue
  /\ resetDue' = FALSE
  /\ IF ResetEnters
       THEN rdr' = <<"reset">> /\ rdrf' = TRUE
       ELSE UNCHANGED <<rdr, rdrf>>
  /\ UNCHANGED <<txVars, cmdVars, hostVars, gpip4, active, delivered,
                 reads, completes, uplinkActive, resetRead, staleReads, upVars,
                 round, responseDue, uplinkDue, pollScheduled, floppy, wasReset>>

(* A stream has delivered a byte the host has not read. *)
Outstanding(r) == active[r] /\ Len(reads[r]) < delivered[r]

(***************************************************************************)
(* Whom a read of RDR is credited to: the readback, the poll, the first    *)
(* clock request, the uplink, and otherwise the reset response.            *)
(***************************************************************************)
Owner ==
  IF Outstanding(2) THEN 2
  ELSE IF Outstanding(3) THEN 3
  ELSE IF Outstanding(1) THEN 1
  ELSE IF uplinkActive THEN UPLINK ELSE RESETTER

(* Mutant of Credited: the deactivation is tested against the bytes delivered. *)
CreditedEarly(r) == Len(reads[r]) + 1 = delivered[r]

(* The read that completes a response. *)
Credited(r) == Len(reads[r]) + 1 = ResponseLength

CreditResponse(r) ==
  LET last == Credited(r)
  IN /\ reads' = [reads EXCEPT ![r] = Append(@, rdr)]
     /\ active' = [active EXCEPT ![r] = @ /\ ~last]
     /\ completes' = [completes EXCEPT ![r] = IF last THEN @ + 1 ELSE @]
     /\ UNCHANGED <<uplinkActive, resetRead, staleReads>>

(* A read of $FFFC02 while RDRF is set. *)
ReadData ==
  /\ configured /\ rdrf
  /\ rdrf' = FALSE
  /\ gpip4' = "high"
  /\ \/ Owner \in Rounds /\ CreditResponse(Owner)
     \/ /\ Owner = UPLINK
        /\ uplinkActive' = FALSE
        /\ UNCHANGED <<reads, active, completes, resetRead, staleReads>>
     \/ /\ Owner = RESETTER
        /\ resetRead' = TRUE
        /\ staleReads' = 1
        /\ UNCHANGED <<reads, active, completes, uplinkActive>>
  /\ UNCHANGED <<txVars, cmdVars, hostVars, rdr, delivered, upVars,
                 dueVars, floppy, wasReset>>

(* The one read that is allowed after the reset response was read. *)
ReadStale ==
  /\ configured /\ ~rdrf /\ staleReads # 0
  /\ staleReads' = staleReads - 1
  /\ UNCHANGED <<txVars, cmdVars, hostVars, rdr, rdrf, gpip4, active,
                 delivered, reads, completes, uplinkActive, resetRead, upVars,
                 dueVars, floppy, wasReset>>

------------------------------------------------------------------------------
InRange(d) == MinDelta <= d /\ d <= MaxDelta

MouseReady == mode.relative /\ mode.yUp /\ mode.threshold1

(***************************************************************************)
(* QueueMouseMotion of Memory and Machine.  The accumulators and the       *)
(* buttons are updated before the two checks that may refuse the packet;   *)
(* the call then returns an error and leaves them updated.                 *)
(***************************************************************************)
QueueMouseMotion(dx, dy, left, right) ==
  LET x == mouse.x + dx
      y == mouse.y + dy
      changed == left # mouse.left \/ right # mouse.right
      packet == << <<"header", left, right>>, <<"dx", x>>, <<"dy", y>> >>
      sends == /\ x # 0 \/ y # 0 \/ changed
               /\ InRange(x) /\ InRange(y)
               /\ Len(queue) + 3 <= Capacity
  IN /\ MouseReady
     /\ x \in -AccumBound .. AccumBound /\ y \in -AccumBound .. AccumBound
     /\ mouse' = [x |-> IF sends THEN 0 ELSE x, y |-> IF sends THEN 0 ELSE y,
                  left |-> left, right |-> right]
     /\ queue' = IF sends THEN queue \o packet ELSE queue
     /\ uplinkDue' = (uplinkDue \/ sends \/
                        (queue # << >> /\ x = 0 /\ y = 0 /\ ~changed))
     /\ UNCHANGED <<txVars, cmdVars, hostVars, rxVars, round, responseDue,
                    resetDue, pollScheduled, floppy, wasReset>>

(* QueueKey of Memory and Machine. *)
QueueKey(key) ==
  /\ Len(queue) < Capacity
  /\ queue' = Append(queue, key)
  /\ uplinkDue' = TRUE
  /\ UNCHANGED <<txVars, cmdVars, hostVars, rxVars, mouse, round, responseDue,
                 resetDue, pollScheduled, floppy, wasReset>>

(***************************************************************************)
(* The boot stages outside the link that the protocols wait for: drive     *)
(* select and target scan finished, then the first flopvbl() pass.         *)
(***************************************************************************)
FloppyProgress ==
  /\ \/ ~floppy.probed /\ floppy' = [floppy EXCEPT !.probed = TRUE]
     \/ /\ floppy.probed /\ complete(2) /\ ~floppy.vblComplete
        /\ floppy' = [floppy EXCEPT !.vblComplete = TRUE]
  /\ UNCHANGED <<txVars, cmdVars, hostVars, rxVars, upVars, dueVars, wasReset>>

(***************************************************************************)
(* The RESET instruction: M68KReset cold-resets Memory.  The deadlines and *)
(* the poll counter of Machine keep their values, except that the device   *)
(* advance after the instruction clears the uplink deadline of an empty    *)
(* queue.  GPIP4 keeps its level.                                          *)
(***************************************************************************)
M68KReset ==
  /\ ~wasReset /\ MaxResets = 1
  /\ wasReset' = TRUE
  /\ control' = 0
  /\ tdr' = 0 /\ txPending' = FALSE /\ tdre' = FALSE /\ shift' = 0 /\ ticks' = 0
  /\ cmd' = NoCommand /\ mode' = NoMode
  /\ resetHandled' = FALSE
  /\ handled' = [r \in Rounds |-> 0]
  /\ setWritten' = 0 /\ setCompleted' = 0
  /\ readbackWritten' = FALSE /\ pollWritten' = FALSE
  /\ rdr' = NoByte /\ rdrf' = FALSE
  /\ active' = [r \in Rounds |-> FALSE]
  /\ delivered' = [r \in Rounds |-> 0]
  /\ reads' = [r \in Rounds |-> << >>]
  /\ completes' = [r \in Rounds |-> 0]
  /\ uplinkActive' = FALSE /\ resetRead' = FALSE /\ staleReads' = 0
  /\ queue' = << >> /\ mouse' = StillMouse
  /\ floppy' = NotProbed
  /\ uplinkDue' = FALSE
  /\ UNCHANGED <<gpip4, round, responseDue, resetDue, pollScheduled>>

------------------------------------------------------------------------------
Host == WriteControl \/ (\E v \in HostBytes : WriteData(v)) \/ ReadData \/ ReadStale
Device == BitTick \/ DeliverResponse \/ DeliverUplink \/ DeliverReset
FrontEnd == \/ \E m \in Motions : QueueMouseMotion(m[1], m[2], m[3], m[4])
            \/ \E key \in KeyEvents : QueueKey(key)

Next == Host \/ Device \/ FrontEnd \/ FloppyProgress \/ M68KReset

(***************************************************************************)
(* Every deadline of Machine is compared with a clock that each step of    *)
(* the processor advances, so an armed deadline falls due; a response that *)
(* finds RDRF set is tried again by every later step, before the uplink,   *)
(* which is strong fairness.  The host reads RDR: each byte interrupts.    *)
(***************************************************************************)
Fairness ==
  /\ WF_vars(BitTick)
  /\ SF_vars(DeliverResponse)
  /\ SF_vars(DeliverUplink)
  /\ WF_vars(DeliverReset)
  /\ WF_vars(ReadData)

Spec == Init /\ [][Next]_vars /\ Fairness
------------------------------------------------------------------------------
(* Every variable keeps the values the code's fields can have. *)
Byte == {<<"response", r, i>> : r \in Rounds, i \in 1 .. ResponseLength}
          \cup {<<"header", l, r>> : l \in BOOLEAN, r \in BOOLEAN}
          \cup {<<axis, d>> : axis \in {"dx", "dy"}, d \in MinDelta .. MaxDelta}
          \cup KeyEvents \cup {<<"reset">>, NoByte}

TransmitType ==
  /\ control \in {0, 3, 150}
  /\ tdr \in HostBytes \cup {0} /\ shift \in HostBytes \cup {0}
  /\ txPending \in BOOLEAN /\ tdre \in BOOLEAN /\ ticks \in 0 .. ByteTicks
  /\ cmd.remaining \in 0 .. 2 /\ cmd.params \in Seq(HostBytes)

HostType ==
  /\ resetHandled \in BOOLEAN /\ readbackWritten \in BOOLEAN /\ pollWritten \in BOOLEAN
  /\ handled \in [Rounds -> 0 .. MaxPolls + 1]
  /\ setWritten \in 0 .. Len(SetClockPacket) /\ setCompleted \in 0 .. setWritten

StreamType ==
  /\ completes \in [Rounds -> 0 .. MaxPolls + 1]
  /\ active \in [Rounds -> BOOLEAN]
  /\ delivered \in [Rounds -> 0 .. ResponseLength]
  /\ reads \in [Rounds -> Seq(Byte)]

ReceiveType ==
  /\ rdr \in Byte /\ rdrf \in BOOLEAN /\ gpip4 \in {"low", "high"}
  /\ uplinkActive \in BOOLEAN /\ resetRead \in BOOLEAN /\ staleReads \in 0 .. 1
  /\ queue \in Seq(Byte)

DueType ==
  /\ round \in 0 .. 3 /\ responseDue \in BOOLEAN /\ resetDue \in BOOLEAN
  /\ uplinkDue \in BOOLEAN /\ pollScheduled \in 0 .. MaxPolls
  /\ floppy \in [probed : BOOLEAN, vblComplete : BOOLEAN]
  /\ wasReset \in BOOLEAN

TypeOK == TransmitType /\ HostType /\ StreamType /\ ReceiveType /\ DueType

(* Who sent a byte, in the terms of Owner. *)
Sender(byte) == CASE byte[1] = "response" -> byte[2]
                  [] byte[1] = "reset" -> RESETTER
                  [] OTHER -> UPLINK

(***************************************************************************)
(* The byte in RDR is credited to the source that sent it, although the    *)
(* read handler never sees the sender: it infers it from counters and      *)
(* flags that the three sources keep separately.  While RDRF is clear no   *)
(* source believes it has a byte waiting.                                  *)
(***************************************************************************)
ReadsGoToTheSender ==
  IF rdrf
  THEN /\ Owner = Sender(rdr)
       /\ \A r \in Rounds : Outstanding(r) => Owner = r
       /\ uplinkActive => Owner = UPLINK
  ELSE ~uplinkActive /\ \A r \in Rounds : ~Outstanding(r)

(***************************************************************************)
(* What the host has read of each response is a prefix of that response,   *)
(* whatever mouse and key bytes came in between, and the response counts   *)
(* as complete only when it was read to its end.                           *)
(***************************************************************************)
ResponsesArriveWhole ==
  \A r \in Rounds :
    /\ Len(reads[r]) <= delivered[r]
    /\ \A i \in 1 .. Len(reads[r]) : reads[r][i] = <<"response", r, i>>
    /\ active[r] => Len(reads[r]) < ResponseLength
    /\ complete(r) /\ r # 3 => Len(reads[r]) = ResponseLength

(***************************************************************************)
(* The recurring poll runs one round at a time: the host's request, the    *)
(* transmission and the seven reads of the answer never overlap with the   *)
(* next request, and no request is answered twice or left behind.          *)
(***************************************************************************)
PollsDoNotOverlap ==
  /\ handled[3] - completes[3] \in {0, 1}
  /\ pollWritten => handled[3] = completes[3] /\ ~active[3] /\ delivered[3] = 0
  /\ pollWritten => (shift = ASK /\ ticks # 0) \/ (tdr = ASK /\ txPending)
  /\ active[3] => handled[3] = completes[3] + 1

(***************************************************************************)
(* Until a RESET instruction, a response is scheduled only when the        *)
(* previous one has been delivered: Machine has one round and one deadline *)
(* for the three of them.                                                  *)
(***************************************************************************)
OneResponseAtATime ==
  [][round' # round /\ ~wasReset' => ~responseDue]_vars

(* A byte of a poll is in flight. *)
PollOutstanding == pollWritten \/ handled[3] > completes[3]

(***************************************************************************)
(* Until a RESET instruction, a request for the time that the host wrote   *)
(* is answered and the answer is read: first request, readback and poll.   *)
(***************************************************************************)
RequestsAreAnswered ==
  /\ (handled[1] = 1) ~> (complete(1) \/ wasReset)
  /\ readbackWritten ~> (complete(2) \/ wasReset)
  /\ \A n \in 0 .. MaxPolls - 1 :
       (PollOutstanding /\ completes[3] = n) ~> (completes[3] > n \/ wasReset)

(***************************************************************************)
(* Spec 142 says a queued byte is sent every ten bit times: a queue that   *)
(* is not empty does not wait for ever once the link is configured.        *)
(***************************************************************************)
UplinkNeverStalls ==
  []<>(queue = << >> \/ ~configured) \/ []<><<DeliverUplink>>_vars

(***************************************************************************)
(* Specs 142 and 143 say every change of a button makes a packet.          *)
(***************************************************************************)
ButtonChangesAreSent ==
  [][(mouse'.left # mouse.left \/ mouse'.right # mouse.right) /\ wasReset' = wasReset
       => Len(queue') = Len(queue) + 3]_vars
==============================================================================
