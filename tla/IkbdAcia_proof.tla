--------------------------- MODULE IkbdAcia_proof ---------------------------
(***************************************************************************)
(* Proofs about the keyboard link of IkbdAcia: for every alphabet of the   *)
(* host, every set-clock packet, responses and byte times of every length, *)
(* every queue capacity, any keys and motions, and a RESET.                *)
(***************************************************************************)
EXTENDS IkbdAcia, SequenceTheorems, TLAPS

(* What is waiting in the uplink queue is the uplink's. *)
QueueIsUplink == \A i \in 1 .. Len(queue) : Sender(queue[i]) = UPLINK

(* RDR is in one source's hands: the source that sent it, while RDRF is set. *)
Held(s) == (uplinkActive <=> s = UPLINK) /\ \A r \in Rounds : Outstanding(r) <=> s = r

OneHolder ==
  /\ rdrf => Sender(rdr) \in 0 .. 4 /\ Held(Sender(rdr))
  /\ ~rdrf => Held(RESETTER)

(* A stream has been read up to the byte in RDR. *)
StreamInStep(r) ==
  \/ delivered[r] = Len(reads[r])
  \/ /\ active[r] /\ rdrf
     /\ delivered[r] = Len(reads[r]) + 1
     /\ rdr = <<"response", r, delivered[r]>>

StreamInOrder(r) == \A i \in 1 .. Len(reads[r]) : reads[r][i] = <<"response", r, i>>

StreamEnds(r) ==
  /\ active[r] => Len(reads[r]) < ResponseLength
  /\ complete(r) /\ r # 3 => Len(reads[r]) = ResponseLength

Streams == \A r \in Rounds : StreamInStep(r) /\ StreamInOrder(r) /\ StreamEnds(r)

(* The stages of the boot come one after another. *)
Stages ==
  /\ \A r \in 1 .. 2 : handled[r] = 0 => delivered[r] = 0
  /\ handled[2] # 0 => complete(1)
  /\ setWritten > 0 => complete(1)
  /\ handled[3] # 0 => complete(2)
  /\ pollWritten => complete(2) /\ floppy.vblComplete

(* The first two rounds run once, the polls as often as the bound lets them. *)
Counted ==
  /\ handled[1] <= 1 /\ handled[2] <= 1 /\ handled[3] <= MaxPolls
  /\ pollWritten => handled[3] < MaxPolls

(* What is scheduled is a response that was asked for and has bytes left. *)
Scheduled ==
  ~wasReset /\ responseDue =>
    round \in Rounds /\ ValidRound(round) /\ delivered[round] < ResponseLength

IInv == /\ TypeOK /\ QueueIsUplink /\ OneHolder /\ Streams
        /\ Stages /\ Counted /\ PollsDoNotOverlap /\ Scheduled

-----------------------------------------------------------------------------
(* Bytes and their senders. *)

LEMMA Bytes ==
  /\ \A r \in Rounds, i \in 1 .. ResponseLength : <<"response", r, i>> \in Byte
  /\ \A l, r \in BOOLEAN : <<"header", l, r>> \in Byte
  /\ \A d \in MinDelta .. MaxDelta : <<"dx", d>> \in Byte /\ <<"dy", d>> \in Byte
  /\ KeyEvents \subseteq Byte /\ <<"reset">> \in Byte /\ NoByte \in Byte
  BY DEF Byte

LEMMA Senders ==
  /\ \A r, i : Sender(<<"response", r, i>>) = r
  /\ Sender(<<"reset">>) = RESETTER
  /\ \A l, r : Sender(<<"header", l, r>>) = UPLINK
  /\ \A d : Sender(<<"dx", d>>) = UPLINK /\ Sender(<<"dy", d>>) = UPLINK
  /\ \A key \in KeyEvents : Sender(key) = UPLINK
  BY FrontEndAssumption DEF Sender, RESETTER, UPLINK

LEMMA StillAFunction ==
  ASSUME NEW S, NEW T, NEW f \in [S -> T], NEW x, NEW y \in T
  PROVE  [f EXCEPT ![x] = y] \in [S -> T]
  BY Zenon

LEMMA NoBytes == ASSUME NEW S PROVE << >> \in Seq(S) /\ Len(<< >>) = 0
  BY EmptySeq

LEMMA PacketLength == Len(SetClockPacket) \in Nat /\ Len(SetClockPacket) > 1
  BY PacketAssumption, LenProperties

(* The state of a cold reset, which the RESET instruction comes back to. *)
LEMMA ColdTypes ==
  /\ 0 \in 0 .. ByteTicks /\ 0 \in HostBytes \cup {0}
  /\ NoCommand.remaining \in 0 .. 2 /\ NoCommand.params \in Seq(HostBytes)
  /\ [r \in Rounds |-> 0] \in [Rounds -> 0 .. MaxPolls + 1]
  /\ [r \in Rounds |-> 0] \in [Rounds -> 0 .. ResponseLength]
  /\ [r \in Rounds |-> FALSE] \in [Rounds -> BOOLEAN]
  /\ [r \in Rounds |-> << >>] \in [Rounds -> Seq(Byte)]
  /\ NotProbed \in [probed : BOOLEAN, vblComplete : BOOLEAN]
  /\ 0 \in 0 .. Len(SetClockPacket) /\ 0 \in 0 .. 0 /\ 0 \in 0 .. 1
  /\ 0 \in 0 .. 3 /\ 0 \in 0 .. MaxPolls
<1>1. /\ 0 \in 0 .. ByteTicks /\ 0 \in 0 .. ResponseLength /\ 0 \in 0 .. MaxPolls
      /\ 0 \in 0 .. MaxPolls + 1 /\ 0 \in 0 .. Len(SetClockPacket)
      /\ 0 \in 0 .. 0 /\ 0 \in 0 .. 1 /\ 0 \in 0 .. 2 /\ 0 \in 0 .. 3
  BY PacketLength, LengthAssumption, BoundAssumption
<1>2. NoCommand.remaining = 0 /\ NoCommand.params = << >>
  BY DEF NoCommand
<1>3. NotProbed \in [probed : BOOLEAN, vblComplete : BOOLEAN]
  BY Zenon DEF NotProbed
<1> QED BY Zenon, <1>1, <1>2, <1>3, NoBytes

LEMMA OwnerOfHolder ==
  ASSUME NEW s \in 0 .. 4, Held(s)
  PROVE  Owner = s
  BY DEF Held, Owner, Rounds, RESETTER, UPLINK

-----------------------------------------------------------------------------
LEMMA InitInv == Init => IInv
<1> SUFFICES ASSUME Init PROVE IInv
  OBVIOUS
<1>1. TransmitType
  BY Zenon, ColdTypes DEF Init, TransmitType
<1>2. HostType
  BY Zenon, ColdTypes DEF Init, HostType
<1>3. StreamType
  BY Zenon, ColdTypes DEF Init, StreamType
<1>4. ReceiveType
  BY Zenon, ColdTypes, NoBytes, Bytes DEF Init, ReceiveType
<1>5. DueType
  BY Zenon, ColdTypes DEF Init, DueType
<1>6. QueueIsUplink /\ OneHolder
  BY DEF Init, QueueIsUplink, OneHolder, Held, Outstanding, RESETTER, UPLINK
<1>7. Streams
  BY LengthAssumption DEF Init, Streams, StreamInStep, StreamInOrder, StreamEnds, complete
<1>8. Stages /\ Counted /\ PollsDoNotOverlap /\ Scheduled
  BY BoundAssumption DEF Init, Stages, Counted, PollsDoNotOverlap, Scheduled, Rounds
<1> QED BY <1>1, <1>2, <1>3, <1>4, <1>5, <1>6, <1>7, <1>8 DEF IInv, TypeOK

(* The RESET instruction takes everything but Machine's deadlines back. *)
LEMMA ResetInv == IInv /\ M68KReset => IInv'
<1> SUFFICES ASSUME IInv, M68KReset PROVE IInv'
  OBVIOUS
<1>1. TransmitType'
  BY Zenon, ColdTypes DEF M68KReset, TransmitType
<1>2. HostType'
  BY Zenon, ColdTypes DEF M68KReset, HostType
<1>3. StreamType'
  BY Zenon, ColdTypes DEF M68KReset, StreamType
<1>4. ReceiveType'
  BY Zenon, ColdTypes, NoBytes, Bytes DEF M68KReset, ReceiveType, IInv, TypeOK
<1>5. DueType'
  BY Zenon, ColdTypes DEF M68KReset, DueType, IInv, TypeOK
<1>6. QueueIsUplink' /\ OneHolder'
  BY DEF M68KReset, QueueIsUplink, OneHolder, Held, Outstanding, RESETTER, UPLINK
<1>7. Streams'
  BY LengthAssumption DEF M68KReset, Streams, StreamInStep, StreamInOrder, StreamEnds, complete
<1>8. Stages' /\ Counted' /\ PollsDoNotOverlap' /\ Scheduled'
  BY BoundAssumption DEF M68KReset, Stages, Counted, PollsDoNotOverlap, Scheduled, Rounds
<1> QED BY <1>1, <1>2, <1>3, <1>4, <1>5, <1>6, <1>7, <1>8 DEF IInv, TypeOK

-----------------------------------------------------------------------------
(* What a step leaves alone stays true. *)

LEMMA StreamsStill ==
  OneHolder /\ Streams /\ UNCHANGED rxVars => OneHolder' /\ Streams'
  BY DEF OneHolder, Held, Outstanding, Streams, StreamInStep, StreamInOrder, StreamEnds,
         complete, rxVars

LEMMA ScheduledStill ==
  Scheduled /\ UNCHANGED <<wasReset, round, responseDue, handled, completes, delivered>> => Scheduled'
  BY DEF Scheduled, ValidRound

LEMMA StagesStill ==
  Stages /\ Counted /\ UNCHANGED <<handled, delivered, completes, setWritten, pollWritten, floppy>>
    => Stages' /\ Counted'
  BY DEF Stages, Counted, complete

LEMMA PollsStill ==
  PollsDoNotOverlap /\ UNCHANGED <<handled, completes, pollWritten, active, delivered,
                                   shift, ticks, tdr, txPending>>
    => PollsDoNotOverlap'
  BY DEF PollsDoNotOverlap

LEMMA TransmitStill == TransmitType /\ UNCHANGED <<txVars, cmd>> => TransmitType'
  BY DEF TransmitType, txVars

LEMMA HostStill == HostType /\ UNCHANGED hostVars => HostType'
  BY DEF HostType, hostVars

LEMMA StreamTypeStill ==
  StreamType /\ UNCHANGED <<completes, active, delivered, reads>> => StreamType'
  BY DEF StreamType

LEMMA ReceiveStill ==
  ReceiveType /\ QueueIsUplink /\ UNCHANGED <<rxVars, queue>> => ReceiveType' /\ QueueIsUplink'
  BY DEF ReceiveType, QueueIsUplink, rxVars

LEMMA DueStill == DueType /\ UNCHANGED <<dueVars, floppy, wasReset>> => DueType'
  BY DEF DueType, dueVars

LEMMA StutterInv == IInv /\ UNCHANGED vars => IInv'
  BY Zenon, StreamsStill, ScheduledStill, StagesStill, PollsStill, TransmitStill, HostStill,
     StreamTypeStill, ReceiveStill, DueStill
     DEF IInv, TypeOK, vars, txVars, cmdVars, hostVars, rxVars, upVars, dueVars

LEMMA ControlInv == IInv /\ WriteControl => IInv'
<1> SUFFICES ASSUME IInv, WriteControl PROVE IInv'
  OBVIOUS
<1>1. TransmitType'
  BY ZenonT(60) DEF IInv, TypeOK, TransmitType, WriteControl, cmdVars
<1> QED BY Zenon, <1>1, StreamsStill, ScheduledStill, StagesStill, PollsStill, HostStill,
          StreamTypeStill, ReceiveStill, DueStill
          DEF IInv, TypeOK, WriteControl, hostVars, rxVars, upVars, dueVars

LEMMA StaleInv == IInv /\ ReadStale => IInv'
<1> SUFFICES ASSUME IInv, ReadStale PROVE IInv'
  OBVIOUS
<1>1. ReceiveType' /\ QueueIsUplink'
  BY DEF IInv, TypeOK, ReceiveType, QueueIsUplink, ReadStale, upVars
<1>2. OneHolder' /\ Streams'
  BY DEF ReadStale, IInv, OneHolder, Held, Outstanding, Streams, StreamInStep, StreamInOrder,
         StreamEnds, complete
<1> QED BY Zenon, <1>1, <1>2, ScheduledStill, StagesStill, PollsStill, TransmitStill, HostStill,
          StreamTypeStill, DueStill
          DEF IInv, TypeOK, ReadStale, txVars, cmdVars, hostVars, dueVars

LEMMA StageSet ==
  ASSUME NEW f \in [probed : BOOLEAN, vblComplete : BOOLEAN]
  PROVE  /\ [f EXCEPT !.probed = TRUE] \in [probed : BOOLEAN, vblComplete : BOOLEAN]
         /\ [f EXCEPT !.vblComplete = TRUE] \in [probed : BOOLEAN, vblComplete : BOOLEAN]
         /\ f.vblComplete => [f EXCEPT !.probed = TRUE].vblComplete
         /\ [f EXCEPT !.vblComplete = TRUE].vblComplete
<1>1. /\ [f EXCEPT !.probed = TRUE].vblComplete = f.vblComplete
      /\ [f EXCEPT !.vblComplete = TRUE].vblComplete = TRUE
  BY SMT
<1> QED BY Zenon, <1>1

LEMMA FloppyInv == IInv /\ FloppyProgress => IInv'
<1> SUFFICES ASSUME IInv, FloppyProgress PROVE IInv'
  OBVIOUS
<1>1. /\ floppy' \in [probed : BOOLEAN, vblComplete : BOOLEAN]
      /\ floppy.vblComplete => floppy'.vblComplete
  <2>1. /\ floppy \in [probed : BOOLEAN, vblComplete : BOOLEAN]
        /\ \/ floppy' = [floppy EXCEPT !.probed = TRUE]
           \/ floppy' = [floppy EXCEPT !.vblComplete = TRUE]
    BY Zenon DEF IInv, TypeOK, DueType, FloppyProgress
  <2> QED BY ZenonT(60), <2>1, StageSet
<1>2. DueType'
  BY <1>1 DEF IInv, TypeOK, DueType, FloppyProgress, dueVars
<1>3. Stages' /\ Counted'
  BY <1>1 DEF IInv, Stages, Counted, complete, FloppyProgress, hostVars, rxVars
<1> QED BY Zenon, <1>2, <1>3, StreamsStill, ScheduledStill, PollsStill, TransmitStill, HostStill,
          StreamTypeStill, ReceiveStill
          DEF IInv, TypeOK, FloppyProgress, txVars, cmdVars, hostVars, rxVars, upVars, dueVars

-----------------------------------------------------------------------------
(* The front end. *)

LEMMA Queued ==
  ASSUME queue \in Seq(Byte), QueueIsUplink, NEW p \in Seq(Byte),
         \A i \in 1 .. Len(p) : Sender(p[i]) = UPLINK, queue' = queue \o p
  PROVE  queue' \in Seq(Byte) /\ QueueIsUplink'
<1>1. Len(queue) \in Nat /\ Len(p) \in Nat
  BY LenProperties
<1>2. /\ queue' \in Seq(Byte) /\ Len(queue') = Len(queue) + Len(p)
      /\ \A i \in 1 .. Len(queue) + Len(p) : queue'[i] = IF i <= Len(queue) THEN queue[i]
                                                       ELSE p[i - Len(queue)]
  BY ConcatProperties
<1>3. ASSUME NEW i \in 1 .. Len(queue') PROVE Sender(queue'[i]) = UPLINK
  <2>1. CASE i <= Len(queue)
    BY <1>1, <1>2, <2>1 DEF QueueIsUplink
  <2>2. CASE ~ (i <= Len(queue))
    <3>1. i - Len(queue) \in 1 .. Len(p) /\ queue'[i] = p[i - Len(queue)]
      BY <1>1, <1>2, <2>2
    <3> QED BY <3>1
  <2> QED BY <2>1, <2>2
<1> QED BY <1>2, <1>3 DEF QueueIsUplink

LEMMA KeyInv == ASSUME NEW key \in KeyEvents PROVE IInv /\ QueueKey(key) => IInv'
<1> SUFFICES ASSUME IInv, QueueKey(key) PROVE IInv'
  OBVIOUS
<1>1. <<key>> \in Seq(Byte) /\ \A i \in 1 .. Len(<<key>>) : Sender(<<key>>[i]) = UPLINK
  BY Bytes, Senders
<1>2. queue \in Seq(Byte)
  BY Zenon DEF IInv, TypeOK, ReceiveType
<1>3. queue' = queue \o <<key>>
  BY <1>2 DEF QueueKey
<1>4. queue' \in Seq(Byte) /\ QueueIsUplink'
  BY Zenon, <1>1, <1>2, <1>3, Queued DEF IInv
<1>5. ReceiveType'
  BY Zenon, <1>4 DEF IInv, TypeOK, ReceiveType, QueueKey, rxVars
<1>6. DueType'
  BY Zenon DEF IInv, TypeOK, DueType, QueueKey
<1> QED BY Zenon, <1>4, <1>5, <1>6, StreamsStill, ScheduledStill, StagesStill, PollsStill,
          TransmitStill, HostStill, StreamTypeStill
          DEF IInv, TypeOK, QueueKey, txVars, cmdVars, hostVars, rxVars, dueVars

LEMMA MotionInv ==
  ASSUME NEW m \in Motions
  PROVE  IInv /\ QueueMouseMotion(m[1], m[2], m[3], m[4]) => IInv'
<1> SUFFICES ASSUME IInv, QueueMouseMotion(m[1], m[2], m[3], m[4]) PROVE IInv'
  OBVIOUS
<1> DEFINE x == mouse.x + m[1]
           y == mouse.y + m[2]
           packet == << <<"header", m[3], m[4]>>, <<"dx", x>>, <<"dy", y>> >>
<1>1. m[3] \in BOOLEAN /\ m[4] \in BOOLEAN
  BY Zenon, FrontEndAssumption
<1>2. queue \in Seq(Byte)
  BY Zenon DEF IInv, TypeOK, ReceiveType
<1>3. /\ x \in -AccumBound .. AccumBound /\ y \in -AccumBound .. AccumBound
      /\ queue' = queue \/ (InRange(x) /\ InRange(y) /\ queue' = queue \o packet)
      /\ uplinkDue' \in BOOLEAN
      /\ UNCHANGED <<txVars, cmdVars, hostVars, rxVars, round, responseDue,
                    resetDue, pollScheduled, floppy, wasReset>>
  BY Zenon DEF QueueMouseMotion, IInv, TypeOK, DueType
<1>4. queue' \in Seq(Byte) /\ QueueIsUplink'
  <2>1. CASE queue' = queue
    BY Zenon, <1>2, <2>1 DEF IInv, QueueIsUplink
  <2>2. CASE InRange(x) /\ InRange(y) /\ queue' = queue \o packet
    <3>1. x \in MinDelta .. MaxDelta /\ y \in MinDelta .. MaxDelta
      BY SMT, <1>3, <2>2, DeltaAssumption DEF InRange
    <3> HIDE DEF x, y
    <3>2. packet \in Seq(Byte)
      <4>1. <<"header", m[3], m[4]>> \in Byte /\ <<"dx", x>> \in Byte /\ <<"dy", y>> \in Byte
        BY Zenon, <1>1, <3>1, Bytes
      <4> QED BY <4>1
    <3>3. \A i \in 1 .. Len(packet) : Sender(packet[i]) = UPLINK
      <4>1. /\ Sender(<<"header", m[3], m[4]>>) = UPLINK
            /\ Sender(<<"dx", x>>) = UPLINK /\ Sender(<<"dy", y>>) = UPLINK
        BY Zenon, Senders
      <4>2. Len(packet) = 3 /\ \A i \in 1 .. 3 : i = 1 \/ i = 2 \/ i = 3
        OBVIOUS
      <4> QED BY <4>1, <4>2
    <3> HIDE DEF packet
    <3> QED BY Zenon, <1>2, <2>2, <3>2, <3>3, Queued DEF IInv
  <2> QED BY Zenon, <1>3, <2>1, <2>2
<1>5. ReceiveType'
  BY Zenon, <1>3, <1>4 DEF IInv, TypeOK, ReceiveType, rxVars
<1>6. DueType'
  BY Zenon, <1>3 DEF IInv, TypeOK, DueType
<1> QED BY Zenon, <1>3, <1>4, <1>5, <1>6, StreamsStill, ScheduledStill, StagesStill, PollsStill,
          TransmitStill, HostStill, StreamTypeStill
          DEF IInv, TypeOK, txVars, cmdVars, hostVars, rxVars

-----------------------------------------------------------------------------
(* A byte enters RDR, which nobody holds. *)

LEMMA EmptyInStep ==
  ASSUME IInv, ~rdrf
  PROVE  /\ \A r \in Rounds : delivered[r] = Len(reads[r]) /\ ~Outstanding(r)
         /\ ~uplinkActive
<1>1. Held(RESETTER)
  BY Zenon DEF IInv, OneHolder
<1> QED BY <1>1 DEF IInv, Streams, StreamInStep, Held, Rounds, RESETTER, UPLINK

LEMMA UplinkInv == IInv /\ DeliverUplink => IInv'
<1> SUFFICES ASSUME IInv, DeliverUplink PROVE IInv'
  OBVIOUS
<1>1. /\ queue \in Seq(Byte) /\ queue # << >> /\ queue' = Tail(queue)
      /\ rdr' = Head(queue) /\ rdrf' = TRUE /\ gpip4' = "low" /\ uplinkActive' = TRUE
      /\ ~rdrf
      /\ UNCHANGED <<active, delivered, reads, completes>>
  BY Zenon DEF IInv, TypeOK, ReceiveType, DeliverUplink, Receive
<1>2. /\ rdr' \in Byte /\ queue' \in Seq(Byte) /\ Head(queue) = queue[1]
      /\ Len(queue) \in Nat /\ Len(queue) # 0 /\ Len(queue') = Len(queue) - 1
      /\ \A i \in 1 .. Len(queue') : queue'[i] = queue[i + 1]
  BY <1>1, HeadTailProperties, LenProperties, EmptySeq
<1>3. Sender(rdr') = UPLINK /\ QueueIsUplink'
  BY <1>1, <1>2 DEF IInv, QueueIsUplink
<1>4. ReceiveType'
  BY Zenon, <1>1, <1>2 DEF IInv, TypeOK, ReceiveType, DeliverUplink
<1>5. DueType'
  BY Zenon DEF IInv, TypeOK, DueType, DeliverUplink, MoreQueued
<1>6. Held(UPLINK)'
  BY <1>1, EmptyInStep DEF Held, Outstanding, Rounds, UPLINK
<1>7. OneHolder'
  BY <1>1, <1>3, <1>6 DEF OneHolder, UPLINK
<1>8. Streams'
  BY <1>1, EmptyInStep DEF IInv, Streams, StreamInStep, StreamInOrder, StreamEnds, complete
<1> QED BY Zenon, <1>3, <1>4, <1>5, <1>7, <1>8, ScheduledStill, StagesStill, PollsStill,
          TransmitStill, HostStill, StreamTypeStill
          DEF IInv, TypeOK, DeliverUplink, txVars, cmdVars, hostVars

LEMMA ResponseToResetInv == IInv /\ DeliverReset => IInv'
<1> SUFFICES ASSUME IInv, DeliverReset PROVE IInv'
  OBVIOUS
<1>1. UNCHANGED <<active, delivered, reads, completes, uplinkActive, gpip4, resetRead,
                  staleReads, queue>>
  BY Zenon DEF DeliverReset, upVars
<1>2. \/ ~rdrf /\ rdr' = <<"reset">> /\ rdrf' = TRUE
      \/ UNCHANGED <<rdr, rdrf>>
  BY Zenon DEF DeliverReset, ResetEnters
<1>3. DueType'
  BY Zenon DEF IInv, TypeOK, DueType, DeliverReset
<1>4. ReceiveType' /\ QueueIsUplink'
  BY Zenon, <1>1, <1>2, Bytes DEF IInv, TypeOK, ReceiveType, QueueIsUplink
<1>5. OneHolder' /\ Streams'
  <2>1. CASE UNCHANGED <<rdr, rdrf>>
    BY Zenon, <1>1, <2>1, StreamsStill DEF IInv, rxVars
  <2>2. CASE ~rdrf /\ rdr' = <<"reset">> /\ rdrf' = TRUE
    <3>1. Held(RESETTER)' /\ Sender(rdr') = RESETTER
      BY <1>1, <2>2, EmptyInStep, Senders DEF Held, Outstanding, Rounds, UPLINK, RESETTER
    <3>2. OneHolder'
      BY <2>2, <3>1 DEF OneHolder, RESETTER
    <3>3. Streams'
      BY <1>1, <2>2, EmptyInStep DEF IInv, Streams, StreamInStep, StreamInOrder, StreamEnds, complete
    <3> QED BY <3>2, <3>3
  <2> QED BY Zenon, <1>2, <2>1, <2>2
<1> QED BY Zenon, <1>3, <1>4, <1>5, ScheduledStill, StagesStill, PollsStill,
          TransmitStill, HostStill, StreamTypeStill
          DEF IInv, TypeOK, DeliverReset, txVars, cmdVars, hostVars

LEMMA ResponseInv == IInv /\ DeliverResponse => IInv'
<1> SUFFICES ASSUME IInv, DeliverResponse PROVE IInv'
  OBVIOUS
<1> DEFINE r == round
<1>1. /\ ~rdrf /\ ValidRound(r) /\ delivered[r] < ResponseLength
      /\ active' = [active EXCEPT ![r] = TRUE]
      /\ delivered' = [delivered EXCEPT ![r] = @ + 1]
      /\ rdr' = <<"response", r, delivered[r] + 1>> /\ rdrf' = TRUE /\ gpip4' = "low"
      /\ responseDue' = ~LastByte(r) /\ uplinkDue' = (uplinkDue /\ ~LastByte(r))
      /\ UNCHANGED <<txVars, cmdVars, hostVars, reads, completes, uplinkActive,
                    resetRead, staleReads, upVars, round, resetDue,
                    pollScheduled, floppy, wasReset>>
  BY Zenon DEF DeliverResponse, Receive, RdrFree
<1>2. StreamType
  BY Zenon DEF IInv, TypeOK
<1>3. r \in Rounds
  BY <1>1 DEF ValidRound, Rounds, IInv, TypeOK, DueType
<1>4. /\ delivered[r] \in Nat /\ delivered[r] = Len(reads[r])
      /\ \A q \in Rounds : Len(reads[q]) \in Nat
      /\ delivered[r] + 1 \in 0 .. ResponseLength /\ delivered[r] + 1 \in 1 .. ResponseLength
  <2>1. \A q \in Rounds : reads[q] \in Seq(Byte)
    BY Zenon, <1>2 DEF StreamType
  <2> QED BY <2>1, <1>1, <1>2, <1>3, EmptyInStep, LengthAssumption, LenProperties DEF StreamType
<1>5. StreamType'
  BY Zenon, <1>1, <1>2, <1>3, <1>4, StillAFunction DEF StreamType
<1>6. ReceiveType' /\ QueueIsUplink'
  BY Zenon, <1>1, <1>3, <1>4, Bytes DEF IInv, TypeOK, ReceiveType, QueueIsUplink, upVars
<1>7. DueType'
  BY Zenon, <1>1 DEF IInv, TypeOK, DueType
<1> HIDE DEF r
<1>8. /\ delivered'[r] = delivered[r] + 1 /\ active'[r] = TRUE
      /\ \A q \in Rounds \ {r} : delivered'[q] = delivered[q] /\ active'[q] = active[q]
  BY <1>1, <1>2, <1>3 DEF StreamType
<1>9. OneHolder'
  <2>1. Sender(rdr') = r
    BY Zenon, <1>1, Senders
  <2>2. \A q \in Rounds : Outstanding(q)' <=> q = r
    BY <1>1, <1>3, <1>4, <1>8, EmptyInStep DEF Outstanding
  <2> QED BY <1>1, <1>3, <2>1, <2>2, EmptyInStep DEF OneHolder, Held, Rounds, UPLINK
<1>10. Streams'
  <2>1. ASSUME NEW q \in Rounds PROVE StreamInStep(q)'
    BY <1>1, <1>3, <1>4, <1>8, EmptyInStep DEF StreamInStep
  <2>2. ASSUME NEW q \in Rounds PROVE StreamInOrder(q)'
    BY Zenon, <1>1 DEF IInv, Streams, StreamInOrder
  <2>3. ASSUME NEW q \in Rounds PROVE StreamEnds(q)'
    BY <1>1, <1>3, <1>4, <1>8 DEF IInv, Streams, StreamEnds, complete
  <2> QED BY Zenon, <2>1, <2>2, <2>3 DEF Streams
<1>11. Stages' /\ Counted'
  BY <1>1, <1>3, <1>8 DEF IInv, Stages, Counted, complete, ValidRound, hostVars, Rounds
<1>12. PollsDoNotOverlap'
  <2>1. UNCHANGED <<handled, completes, pollWritten, shift, ticks, tdr, txPending>>
    BY Zenon, <1>1 DEF hostVars, txVars
  <2>2. r = 3 => handled[3] > completes[3] /\ handled[3] \in Nat /\ completes[3] \in Nat
    BY <1>1, <1>2, BoundAssumption DEF ValidRound, StreamType, Rounds, IInv, TypeOK, HostType
  <2> QED BY <2>1, <2>2, <1>3, <1>8 DEF PollsDoNotOverlap, IInv, Rounds
<1>13. Scheduled'
  <2>1. responseDue' => delivered[r] + 1 # ResponseLength
    BY Zenon, <1>1 DEF LastByte
  <2>2. round' = r /\ r' = r
    BY Zenon, <1>1 DEF r
  <2>3. ValidRound(r)'
    BY SMT, <1>1 DEF ValidRound, hostVars, r
  <2>4. responseDue' => delivered'[r] < ResponseLength
    BY SMT, <1>4, <1>8, <2>1, LengthAssumption
  <2> QED BY Zenon, <1>3, <2>2, <2>3, <2>4 DEF Scheduled, ValidRound
<1> QED BY Zenon, <1>1, <1>5, <1>6, <1>7, <1>9, <1>10, <1>11, <1>12, <1>13, TransmitStill, HostStill
          DEF IInv, TypeOK, txVars, cmdVars, hostVars

-----------------------------------------------------------------------------
(* The host reads RDR: the byte goes to the source that holds it. *)

LEMMA BetweenIsBelow == \A n \in Nat : \A i \in 1 .. n : i <= n
  OBVIOUS

LEMMA CreditInv ==
  ASSUME IInv, ReadData, NEW r \in Rounds, Owner = r, CreditResponse(r)
  PROVE  IInv'
<1>1. /\ rdrf /\ rdrf' = FALSE /\ gpip4' = "high"
      /\ reads' = [reads EXCEPT ![r] = Append(@, rdr)]
      /\ active' = [active EXCEPT ![r] = @ /\ ~Credited(r)]
      /\ completes' = [completes EXCEPT ![r] = IF Credited(r) THEN @ + 1 ELSE @]
      /\ UNCHANGED <<uplinkActive, resetRead, staleReads>>
      /\ UNCHANGED <<txVars, cmdVars, hostVars, rdr, delivered, upVars,
                    dueVars, floppy, wasReset>>
  BY Zenon DEF ReadData, CreditResponse
<1>2. StreamType
  BY Zenon DEF IInv, TypeOK
<1>3. Held(r) /\ Sender(rdr) = r
  BY <1>1, OwnerOfHolder DEF IInv, OneHolder
<1>4. /\ \A q \in Rounds : Outstanding(q) <=> q = r
      /\ ~uplinkActive
  BY <1>3 DEF Held, Rounds, UPLINK
<1>5. /\ \A q \in Rounds : /\ reads[q] \in Seq(Byte) /\ Len(reads[q]) \in Nat
                           /\ delivered[q] \in Nat /\ delivered[q] <= ResponseLength
      /\ rdr \in Byte
  <2>1. \A q \in Rounds : reads[q] \in Seq(Byte)
    BY Zenon, <1>2 DEF StreamType
  <2>2. \A q \in Rounds : delivered[q] \in 0 .. ResponseLength
    BY Zenon, <1>2 DEF StreamType
  <2>3. rdr \in Byte
    BY Zenon DEF IInv, TypeOK, ReceiveType
  <2> QED BY <2>1, <2>2, <2>3, LengthAssumption, LenProperties
<1>6. active[r] /\ delivered[r] = Len(reads[r]) + 1 /\ rdr = <<"response", r, delivered[r]>>
  BY <1>4, <1>5 DEF IInv, Streams, StreamInStep, Outstanding
<1>7. /\ reads'[r] = Append(reads[r], rdr) /\ Len(reads'[r]) = Len(reads[r]) + 1
      /\ reads'[r] \in Seq(Byte)
      /\ \A i \in 1 .. Len(reads'[r]) : reads'[r][i] = IF i <= Len(reads[r]) THEN reads[r][i] ELSE rdr
      /\ \A q \in Rounds \ {r} : reads'[q] = reads[q]
  <2>1. reads'[r] = Append(reads[r], rdr) /\ \A q \in Rounds \ {r} : reads'[q] = reads[q]
    BY Zenon, <1>1, <1>2 DEF StreamType
  <2> QED BY <2>1, <1>5, AppendProperties
<1>8. /\ active'[r] <=> Len(reads[r]) + 1 # ResponseLength
      /\ \A q \in Rounds \ {r} : active'[q] = active[q]
  BY Zenon, <1>1, <1>2, <1>6 DEF StreamType, Credited
<1>9. /\ completes'[r] = IF Len(reads[r]) + 1 = ResponseLength THEN completes[r] + 1 ELSE completes[r]
      /\ \A q \in Rounds \ {r} : completes'[q] = completes[q]
  BY Zenon, <1>1, <1>2 DEF StreamType, Credited
<1>10. \A q \in Rounds : completes[q] \in Nat /\ handled[q] \in Nat
  BY BoundAssumption, <1>2 DEF StreamType, IInv, TypeOK, HostType
<1>11. r # 3 => completes[r] = 0
  BY <1>6, <1>10 DEF IInv, Streams, StreamEnds, complete
<1>12. r = 3 => handled[3] = completes[3] + 1 /\ completes[3] + 1 <= MaxPolls /\ ~pollWritten
  BY <1>6, <1>10, BoundAssumption DEF IInv, PollsDoNotOverlap, Counted
<1>13. StreamType'
  <2>1. completes'[r] \in 0 .. MaxPolls + 1
    <3>1. completes[r] \in 0 .. MaxPolls + 1 /\ (completes[r] = 0 \/ completes[r] + 1 <= MaxPolls)
      BY Zenon, <1>2, <1>11, <1>12 DEF StreamType
    <3> QED BY <3>1, <1>9, BoundAssumption
  <2>2. completes' \in [Rounds -> 0 .. MaxPolls + 1]
    BY Zenon, <1>1, <1>2, <2>1, <1>9 DEF StreamType
  <2>3. reads' \in [Rounds -> Seq(Byte)]
    BY Zenon, <1>1, <1>2, <1>7 DEF StreamType
  <2>4. active' \in [Rounds -> BOOLEAN]
    BY Zenon, <1>1, <1>2, StillAFunction DEF StreamType
  <2> QED BY Zenon, <1>1, <1>2, <2>2, <2>3, <2>4 DEF StreamType
<1>14. ReceiveType' /\ QueueIsUplink'
  BY Zenon, <1>1 DEF IInv, TypeOK, ReceiveType, QueueIsUplink, upVars
<1>15. OneHolder'
  <2>1. \A q \in Rounds : ~Outstanding(q)'
    BY <1>1, <1>4, <1>5, <1>6, <1>7, <1>8 DEF Outstanding
  <2> QED BY <1>1, <1>4, <2>1 DEF OneHolder, Held, Rounds, RESETTER, UPLINK
<1>16. Streams'
  <2>1. ASSUME NEW q \in Rounds PROVE StreamInStep(q)'
    BY <1>1, <1>4, <1>5, <1>6, <1>7, <1>8 DEF IInv, Streams, StreamInStep, Outstanding
  <2>2. ASSUME NEW q \in Rounds PROVE StreamInOrder(q)'
    <3>1. CASE q = r
      <4>1. \A i \in 1 .. Len(reads[r]) : reads[r][i] = <<"response", r, i>>
        BY Zenon DEF IInv, Streams, StreamInOrder
      <4>2. ASSUME NEW i \in 1 .. Len(reads'[r]) PROVE reads'[r][i] = <<"response", r, i>>
        <5>1. i \in 1 .. Len(reads[r]) \/ (~(i <= Len(reads[r])) /\ i = delivered[r])
          BY <1>5, <1>6, <1>7
        <5> QED BY Zenon, <1>5, <1>6, <1>7, <4>1, <5>1, BetweenIsBelow
      <4> QED BY Zenon, <3>1, <4>2 DEF StreamInOrder
    <3>2. CASE q # r
      BY <1>7, <3>2 DEF IInv, Streams, StreamInOrder
    <3> QED BY <3>1, <3>2
  <2>3. ASSUME NEW q \in Rounds PROVE StreamEnds(q)'
    <3>1. StreamEnds(q) /\ completes[q] \in Nat
      BY Zenon, <1>10 DEF IInv, Streams
    <3>2. CASE q = r
      <4>1. Len(reads[r]) < ResponseLength
        BY Zenon, <1>6, <3>1, <3>2 DEF StreamEnds
      <4>2. active'[r] => Len(reads'[r]) < ResponseLength
        BY SMT, <1>5, <1>7, <1>8, <4>1, LengthAssumption
      <4>3. completes'[r] > 0 /\ r # 3 => Len(reads'[r]) = ResponseLength
        BY SMT, <1>5, <1>7, <1>9, <1>11
      <4> QED BY Zenon, <3>2, <4>2, <4>3 DEF StreamEnds, complete
    <3>3. CASE q # r
      BY Zenon, <1>7, <1>8, <1>9, <3>1, <3>3 DEF StreamEnds, complete
    <3> QED BY <3>2, <3>3
  <2> QED BY Zenon, <2>1, <2>2, <2>3 DEF Streams
<1>17. Stages' /\ Counted'
  BY <1>1, <1>9, <1>10 DEF IInv, Stages, Counted, complete, hostVars, Rounds
<1>18. PollsDoNotOverlap'
  <2>1. UNCHANGED <<handled, delivered, pollWritten, shift, ticks, tdr, txPending>>
    BY Zenon, <1>1 DEF hostVars, txVars
  <2>2. CASE r = 3
    <3>1. /\ completes'[3] = IF Len(reads[3]) + 1 = ResponseLength THEN completes[3] + 1
                                                                  ELSE completes[3]
          /\ active'[3] <=> Len(reads[3]) + 1 # ResponseLength
          /\ handled[3] = completes[3] + 1 /\ ~pollWritten /\ completes[3] \in Nat
      BY SMT, <2>2, <1>8, <1>9, <1>10, <1>12
    <3>2. /\ handled[3] - completes'[3] \in {0, 1}
          /\ active'[3] => handled[3] = completes'[3] + 1
      BY SMT, <3>1
    <3> QED BY Zenon, <2>1, <3>1, <3>2 DEF PollsDoNotOverlap
  <2>3. CASE r # 3
    <3>1. completes'[3] = completes[3] /\ active'[3] = active[3]
      BY SMT, <2>3, <1>8, <1>9 DEF Rounds
    <3> QED BY Zenon, <2>1, <3>1 DEF PollsDoNotOverlap, IInv
  <2> QED BY Zenon, <2>2, <2>3
<1>19. Scheduled'
  <2>1. UNCHANGED <<handled, delivered, wasReset, round, responseDue>>
    BY Zenon, <1>1 DEF hostVars, dueVars
  <2>2. delivered[round] < ResponseLength /\ round = r => Len(reads[r]) + 1 # ResponseLength
    BY <1>5, <1>6
  <2> QED BY <2>1, <2>2, <1>9 DEF IInv, Scheduled, ValidRound
<1> QED BY Zenon, <1>1, <1>13, <1>14, <1>15, <1>16, <1>17, <1>18, <1>19, TransmitStill, HostStill,
          DueStill DEF IInv, TypeOK, cmdVars

LEMMA ReadInv == IInv /\ ReadData => IInv'
<1> SUFFICES ASSUME IInv, ReadData PROVE IInv'
  OBVIOUS
<1>1. CASE Owner \in Rounds /\ CreditResponse(Owner)
  <2>1. PICK r \in Rounds : r = Owner
    BY Zenon, <1>1
  <2> QED BY Zenon, <1>1, <2>1, CreditInv
<1>2. CASE Owner = UPLINK \/ Owner = RESETTER
  <2>1. Sender(rdr) \in 0 .. 4 /\ Held(Sender(rdr)) /\ Owner = Sender(rdr)
    BY OwnerOfHolder DEF ReadData, IInv, OneHolder
  <2>2. \A q \in Rounds : ~Outstanding(q)
    BY <1>2, <2>1 DEF Held, Rounds, UPLINK, RESETTER
  <2>3. /\ UNCHANGED <<rdr, active, delivered, reads, completes, queue>>
        /\ rdrf' = FALSE /\ gpip4' = "high" /\ uplinkActive' \in BOOLEAN
        /\ resetRead' \in BOOLEAN /\ staleReads' \in 0 .. 1
    <3>1. UPLINK \notin Rounds /\ RESETTER \notin Rounds /\ 1 \in 0 .. 1
      BY DEF Rounds, UPLINK, RESETTER
    <3> QED BY Zenon, <1>2, <3>1 DEF ReadData, upVars, IInv, TypeOK, ReceiveType
  <2>4. ~uplinkActive'
    <3>1. CASE Owner = UPLINK
      BY <3>1 DEF ReadData, Rounds, UPLINK, RESETTER
    <3>2. CASE Owner = RESETTER
      BY <3>2, <2>1 DEF ReadData, Held, Rounds, UPLINK, RESETTER
    <3> QED BY <3>1, <3>2, <1>2
  <2>5. ReceiveType' /\ QueueIsUplink'
    BY Zenon, <2>3 DEF IInv, TypeOK, ReceiveType, QueueIsUplink
  <2>6. OneHolder'
    BY <2>2, <2>3, <2>4 DEF OneHolder, Held, Outstanding, Rounds, RESETTER, UPLINK
  <2>7. Streams'
    <3>1. ASSUME NEW q \in Rounds PROVE delivered[q] = Len(reads[q])
      <4>1. reads[q] \in Seq(Byte) /\ delivered[q] \in 0 .. ResponseLength
        BY Zenon DEF IInv, TypeOK, StreamType
      <4>2. Len(reads[q]) \in Nat
        BY <4>1, LenProperties
      <4> QED BY <2>2, <4>1, <4>2, LengthAssumption DEF IInv, Streams, StreamInStep, Outstanding
    <3> QED BY Zenon, <2>3, <3>1 DEF IInv, Streams, StreamInStep, StreamInOrder, StreamEnds, complete
  <2> QED BY Zenon, <2>3, <2>5, <2>6, <2>7, ScheduledStill, StagesStill, PollsStill,
             TransmitStill, HostStill, StreamTypeStill, DueStill
             DEF IInv, TypeOK, ReadData, txVars, cmdVars, hostVars, dueVars
<1> QED BY Zenon, <1>1, <1>2 DEF ReadData

-----------------------------------------------------------------------------
(* The host writes a byte to the transmitter. *)

LEMMA CommandTaken ==
  ASSUME TransmitType, NEW v \in HostBytes, AcceptsCommandByte(v), TakeCommandByte(v)
  PROVE  cmd'.remaining \in 0 .. 2 /\ cmd'.params \in Seq(HostBytes)
<1> DEFINE params == IF cmd.remaining # 0 THEN Append(cmd.params, v) ELSE << >>
           left   == IF cmd.remaining # 0 THEN cmd.remaining - 1 ELSE ParamLength[v]
<1>1. params \in Seq(HostBytes)
  BY NoBytes, AppendProperties DEF TransmitType
<1>2. left \in 0 .. 2
  BY DEF TransmitType, AcceptsCommandByte, ParamLength
<1>3. \/ cmd' = NoCommand
      \/ cmd'.remaining = left /\ cmd'.params = params
  <2>1. \/ cmd' = NoCommand
        \/ \E op : cmd' = [opcode |-> op, remaining |-> left, params |-> params]
    BY Zenon DEF TakeCommandByte
  <2> HIDE DEF left, params
  <2>2. \A op : /\ [opcode |-> op, remaining |-> left, params |-> params].remaining = left
                /\ [opcode |-> op, remaining |-> left, params |-> params].params = params
    OBVIOUS
  <2> QED BY Zenon, <2>1, <2>2
<1> HIDE DEF left, params
<1> QED BY Zenon, <1>1, <1>2, <1>3, ColdTypes

LEMMA WriteInv == ASSUME NEW v \in HostBytes PROVE IInv /\ WriteData(v) => IInv'
<1> SUFFICES ASSUME IInv, WriteData(v) PROVE IInv'
  OBVIOUS
<1> DEFINE set  == ValidSetClock(v)
           back == ~set /\ ValidReadback(v)
           poll == ~set /\ ~back /\ ValidPoll(v)
<1>1. /\ tdre /\ ~txPending
      /\ tdr' = v /\ txPending' = TRUE /\ tdre' = FALSE
      /\ poll => handled[3] < MaxPolls
      /\ setWritten' = IF set THEN setWritten + 1 ELSE setWritten
      /\ readbackWritten' = (readbackWritten \/ back)
      /\ pollWritten' = (pollWritten \/ poll)
      /\ delivered' = IF poll THEN [delivered EXCEPT ![3] = 0] ELSE delivered
      /\ reads' = IF poll THEN [reads EXCEPT ![3] = << >>] ELSE reads
  BY Zenon DEF WriteData
<1>2. UNCHANGED <<control, shift, ticks, resetHandled, handled, setCompleted,
                 rdr, rdrf, gpip4, active, completes, uplinkActive,
                 resetRead, staleReads, upVars, dueVars, floppy, wasReset>>
  BY Zenon DEF WriteData
<1>3. cmd'.remaining \in 0 .. 2 /\ cmd'.params \in Seq(HostBytes)
  <2>1. \/ UNCHANGED cmdVars
        \/ AcceptsCommandByte(v) /\ TakeCommandByte(v)
    BY Zenon DEF WriteData
  <2>2. CASE UNCHANGED cmdVars
    BY Zenon, <2>2 DEF cmdVars, IInv, TypeOK, TransmitType
  <2>3. CASE AcceptsCommandByte(v) /\ TakeCommandByte(v)
    BY Zenon, <2>3, CommandTaken DEF IInv, TypeOK
  <2> QED BY Zenon, <2>1, <2>2, <2>3
<1>4. /\ set => complete(1) /\ setWritten < Len(SetClockPacket)
      /\ poll => /\ v = ASK /\ complete(2) /\ floppy.vblComplete
                /\ ~pollWritten /\ ~active[3] /\ handled[3] = completes[3]
  BY Zenon DEF ValidSetClock, ValidPoll
<1> HIDE DEF set, back, poll
<1>5. StreamType /\ HostType
  BY Zenon DEF IInv, TypeOK
<1>6. TransmitType'
  BY Zenon, <1>1, <1>2, <1>3 DEF IInv, TypeOK, TransmitType
<1>7. HostType'
  <2>1. setWritten' \in 0 .. Len(SetClockPacket) /\ setCompleted' \in 0 .. setWritten'
    BY <1>1, <1>2, <1>4, <1>5, PacketLength DEF HostType
  <2>2. readbackWritten' \in BOOLEAN /\ pollWritten' \in BOOLEAN
    BY Zenon, <1>1
  <2> QED BY Zenon, <1>2, <1>5, <2>1, <2>2 DEF HostType
<1>8. 3 \in Rounds /\ 0 \in 0 .. ResponseLength /\ 0 < ResponseLength
  BY LengthAssumption DEF Rounds
<1>9. /\ \A q \in Rounds \ {3} : delivered'[q] = delivered[q] /\ reads'[q] = reads[q]
      /\ poll => delivered'[3] = 0 /\ reads'[3] = << >>
      /\ ~poll => delivered'[3] = delivered[3] /\ reads'[3] = reads[3]
  BY Zenon, <1>1, <1>5, <1>8 DEF StreamType
<1>10. StreamType'
  BY Zenon, <1>1, <1>2, <1>5, <1>8, NoBytes, StillAFunction DEF StreamType
<1>11. ReceiveType' /\ QueueIsUplink' /\ DueType'
  BY Zenon, <1>2 DEF IInv, TypeOK, ReceiveType, DueType, QueueIsUplink, upVars, dueVars
<1>12. OneHolder'
  <2>1. \A q \in Rounds : Outstanding(q)' <=> Outstanding(q)
    <3>1. \A q \in Rounds \ {3} : Outstanding(q)' <=> Outstanding(q)
      BY Zenon, <1>2, <1>9 DEF Outstanding
    <3>2. Outstanding(3)' <=> Outstanding(3)
      BY Zenon, <1>2, <1>4, <1>9 DEF Outstanding
    <3> QED BY Zenon, <3>1, <3>2
  <2> QED BY Zenon, <1>2, <2>1 DEF IInv, OneHolder, Held
<1>13. Streams'
  <2>1. ASSUME NEW q \in Rounds, ~(poll /\ q = 3)
        PROVE  StreamInStep(q)' /\ StreamInOrder(q)' /\ StreamEnds(q)'
    <3>1. delivered'[q] = delivered[q] /\ reads'[q] = reads[q]
      BY Zenon, <1>9, <2>1
    <3>2. StreamInStep(q) /\ StreamInOrder(q) /\ StreamEnds(q)
      BY Zenon DEF IInv, Streams
    <3> QED BY SMT, <1>2, <3>1, <3>2 DEF StreamInStep, StreamInOrder, StreamEnds, complete
  <2>2. ASSUME poll
        PROVE  StreamInStep(3)' /\ StreamInOrder(3)' /\ StreamEnds(3)'
    BY <1>2, <1>4, <1>8, <1>9, <2>2 DEF StreamInStep, StreamInOrder, StreamEnds, complete
  <2> QED BY Zenon, <2>1, <2>2 DEF Streams
<1>14. Stages' /\ Counted'
  <2>1. \A q \in 1 .. 2 : handled'[q] = 0 => delivered'[q] = 0
    BY <1>2, <1>9 DEF IInv, Stages, Rounds
  <2>2. setWritten' > 0 => complete(1)
    BY <1>1, <1>4, <1>5 DEF IInv, Stages
  <2>3. pollWritten' => complete(2) /\ floppy.vblComplete /\ handled[3] < MaxPolls
    BY Zenon, <1>1, <1>4 DEF IInv, Stages, Counted
  <2> QED BY Zenon, <1>2, <2>1, <2>2, <2>3 DEF IInv, Stages, Counted, complete
<1>15. PollsDoNotOverlap'
  <2>1. CASE poll
    BY Zenon, <1>1, <1>2, <1>4, <1>9, <2>1 DEF IInv, PollsDoNotOverlap
  <2>2. CASE ~poll
    <3>1. (pollWritten' <=> pollWritten) /\ delivered'[3] = delivered[3]
      BY Zenon, <1>1, <1>9, <2>2
    <3> QED BY Zenon, <1>1, <1>2, <3>1 DEF IInv, PollsDoNotOverlap
  <2> QED BY Zenon, <2>1, <2>2
<1>16. Scheduled'
  <2>1. UNCHANGED <<wasReset, round, responseDue, handled, completes>>
    BY Zenon, <1>2 DEF dueVars
  <2>2. ASSUME ~wasReset, responseDue PROVE delivered'[round] < ResponseLength
    <3>1. round \in Rounds /\ delivered[round] < ResponseLength
      BY Zenon, <2>2 DEF IInv, Scheduled
    <3>2. CASE round = 3
      BY Zenon, <1>8, <1>9, <3>1, <3>2
    <3>3. CASE round # 3
      BY Zenon, <1>9, <3>1, <3>3
    <3> QED BY Zenon, <3>2, <3>3
  <2> QED BY Zenon, <2>1, <2>2 DEF IInv, Scheduled, ValidRound
<1> QED BY Zenon, <1>6, <1>7, <1>10, <1>11, <1>12, <1>13, <1>14, <1>15, <1>16 DEF IInv, TypeOK

-----------------------------------------------------------------------------
(* One tick of the transmitter. *)

LEMMA TickInv == IInv /\ BitTick => IInv'
<1> SUFFICES ASSUME IInv, BitTick PROVE IInv'
  OBVIOUS
<1> DEFINE done     == ticks = 1
           reset    == done /\ shift = RESET2 /\ ~resetHandled
           request  == done /\ ~reset /\ shift = ASK /\ handled[1] = 0
           readback == done /\ ~reset /\ ~request /\ shift = ASK
                         /\ SetClockComplete /\ handled[2] = 0
           poll     == done /\ ~reset /\ ~request /\ ~readback /\ shift = ASK
                         /\ pollWritten /\ complete(2) /\ floppy.vblComplete
           setByte  == done /\ ~reset /\ ~request /\ ~readback /\ ~poll
                         /\ complete(1) /\ setCompleted < setWritten
                         /\ shift = SetClockPacket[setCompleted + 1]
           load     == TicksLeft = 0 /\ txPending
           newRound == ScheduledRound(request, readback, poll)
<1>1. /\ ticks' = IF load THEN ByteTicks ELSE TicksLeft
      /\ shift' = IF load THEN tdr ELSE shift
      /\ txPending' = (txPending /\ ~load)
      /\ tdre' = (tdre \/ load)
      /\ resetHandled' = (resetHandled \/ reset)
      /\ resetDue' = (resetDue \/ reset)
      /\ pollWritten' = (pollWritten /\ ~poll)
      /\ setCompleted' = IF setByte THEN setCompleted + 1 ELSE setCompleted
      /\ round' = IF newRound # 0 THEN newRound ELSE round
      /\ responseDue' = (responseDue \/ newRound # 0)
      /\ pollScheduled' = IF newRound = 3 THEN handled[3] + 1 ELSE pollScheduled
  BY Zenon DEF BitTick
<1>2. handled' = [handled EXCEPT ![1] = IF request THEN 1 ELSE @,
                                ![2] = IF readback THEN 1 ELSE @,
                                ![3] = IF poll THEN @ + 1 ELSE @]
  BY Zenon DEF BitTick
<1>3. UNCHANGED <<control, tdr, cmdVars, setWritten, readbackWritten, rxVars,
                 upVars, uplinkDue, floppy, wasReset>>
  BY Zenon DEF BitTick
<1>4. StreamType /\ HostType /\ TransmitType /\ DueType /\ Stages /\ Counted /\ PollsDoNotOverlap
  BY Zenon DEF IInv, TypeOK
<1>5. /\ \A r \in Rounds : handled[r] \in Nat /\ completes[r] \in Nat /\ delivered[r] \in Nat
                           /\ Len(reads[r]) \in Nat
      /\ ResponseLength \in Nat \ {0} /\ ticks \in Nat
  <2>1. \A q \in Rounds : reads[q] \in Seq(Byte)
    BY Zenon, <1>4 DEF StreamType
  <2> QED BY <1>4, <2>1, LengthAssumption, BoundAssumption, LenProperties
          DEF StreamType, HostType, TransmitType
<1>6. /\ handled'[1] = IF request THEN 1 ELSE handled[1]
      /\ handled'[2] = IF readback THEN 1 ELSE handled[2]
      /\ handled'[3] = IF poll THEN handled[3] + 1 ELSE handled[3]
      /\ DOMAIN handled' = Rounds
  <2> HIDE DEF request, readback, poll
  <2> QED BY <1>2, <1>4 DEF HostType, Rounds
<1>7. UNCHANGED <<rdr, rdrf, gpip4, active, delivered, reads, completes, uplinkActive,
                  resetRead, staleReads, queue, mouse>>
  BY Zenon, <1>3 DEF rxVars, upVars
(* What each outcome of the tick says of the stages. *)
<1>8. request => handled[1] = 0 /\ delivered[1] = 0 /\ handled[2] = 0 /\ ~pollWritten
  <2>1. handled[1] = 0 => delivered[1] = 0 /\ ~complete(1)
    BY <1>4, <1>5 DEF Stages, Rounds, IInv, Streams, StreamInStep, StreamEnds, complete
  <2>2. pollWritten => handled[2] # 0
    BY <1>4, <1>5 DEF Stages, Rounds, IInv, Streams, StreamInStep, StreamEnds, complete
  <2> QED BY Zenon, <1>4, <2>1, <2>2 DEF Stages
<1>9. readback => /\ handled[2] = 0 /\ delivered[2] = 0 /\ complete(1) /\ handled[1] # 0
                  /\ ~request /\ ~pollWritten
  <2>1. readback => handled[2] = 0 /\ SetClockComplete /\ ~request /\ handled[1] # 0
    BY Zenon
  <2> HIDE DEF readback, request
  <2>2. SetClockComplete => setWritten > 0
    BY <1>4, PacketLength DEF SetClockComplete, HostType
  <2>3. pollWritten => handled[2] # 0
    BY <1>4, <1>5 DEF Stages, Rounds, IInv, Streams, StreamInStep, StreamEnds, complete
  <2>4. handled[2] = 0 => delivered[2] = 0
    BY <1>4 DEF Stages
  <2> QED BY Zenon, <1>4, <2>1, <2>2, <2>3, <2>4 DEF Stages
<1>10. poll => /\ pollWritten /\ ~request /\ ~readback /\ handled[3] = completes[3]
               /\ ~active[3] /\ delivered[3] = 0 /\ complete(2) /\ handled[3] < MaxPolls
  BY Zenon, <1>4 DEF PollsDoNotOverlap, Counted
<1>11. pollWritten /\ done /\ shift = ASK => poll
  <2>1. pollWritten => complete(2) /\ floppy.vblComplete
    BY Zenon, <1>4 DEF Stages
  <2>2. complete(2) => handled[2] # 0
    BY <1>4, <1>5 DEF Stages, Rounds, IInv, Streams, StreamInStep, StreamEnds, complete
  <2>3. handled[2] # 0 => handled[1] # 0
    <3>1. complete(1) => handled[1] # 0
      BY <1>4, <1>5 DEF Stages, Rounds, IInv, Streams, StreamInStep, StreamEnds, complete
    <3> QED BY Zenon, <1>4, <3>1 DEF Stages
  <2>4. ASK # RESET2
    BY DEF ASK, RESET2
  <2> QED BY Zenon, <2>1, <2>2, <2>3, <2>4
<1>12. newRound \in 0 .. 3 /\ (newRound = 1 => request) /\ (newRound = 2 => readback)
         /\ (newRound = 3 => poll)
  <2> HIDE DEF request, readback, poll
  <2> QED BY DEF ScheduledRound
<1>13. setByte => setCompleted < setWritten
  BY Zenon
<1> HIDE DEF reset, request, readback, poll, setByte, newRound
<1>14. TransmitType'
  <2>1. ticks' \in 0 .. ByteTicks /\ shift' \in HostBytes \cup {0}
    <3> HIDE DEF load
    <3>1. TicksLeft \in 0 .. ByteTicks
      BY <1>4, LengthAssumption DEF TicksLeft, TransmitType
    <3>2. ByteTicks \in 0 .. ByteTicks
      BY LengthAssumption
    <3> QED BY Zenon, <1>1, <1>4, <3>1, <3>2 DEF TransmitType
  <2>2. txPending' \in BOOLEAN /\ tdre' \in BOOLEAN
    BY Zenon, <1>1
  <2> QED BY Zenon, <1>3, <1>4, <2>1, <2>2 DEF TransmitType, cmdVars
<1>15. HostType'
  <2>1. handled' \in [Rounds -> 0 .. MaxPolls + 1]
    <3>1. /\ handled'[1] \in 0 .. MaxPolls + 1 /\ handled'[2] \in 0 .. MaxPolls + 1
          /\ handled'[3] \in 0 .. MaxPolls + 1
      <4>1. /\ handled[1] \in Nat /\ handled[2] \in Nat /\ handled[3] \in Nat
            /\ handled[1] <= 1 /\ handled[2] <= 1 /\ handled[3] <= MaxPolls
        BY <1>4, <1>5 DEF Counted, Rounds
      <4>2. handled'[3] \in 0 .. MaxPolls + 1
        BY SMT, <1>6, <4>1, BoundAssumption
      <4> QED BY SMT, <1>6, <4>1, <4>2, BoundAssumption
    <3> QED BY <1>2, <1>4, <1>6, <3>1 DEF HostType, Rounds
  <2>2. setCompleted' \in 0 .. setWritten
    BY <1>1, <1>4, <1>13, PacketLength DEF HostType
  <2>3. resetHandled' \in BOOLEAN /\ pollWritten' \in BOOLEAN
    BY Zenon, <1>1
  <2> QED BY Zenon, <1>3, <1>4, <2>1, <2>2, <2>3 DEF HostType
<1>16. StreamType' /\ ReceiveType' /\ QueueIsUplink'
  BY Zenon, <1>3, <1>4, <1>7, StreamTypeStill, ReceiveStill DEF IInv, TypeOK, rxVars
<1>17. DueType'
  <2>1. round' \in 0 .. 3 /\ pollScheduled' \in 0 .. MaxPolls
    BY <1>1, <1>4, <1>5, <1>10, <1>12, BoundAssumption DEF DueType, Rounds
  <2>2. responseDue' \in BOOLEAN /\ resetDue' \in BOOLEAN
    BY Zenon, <1>1
  <2> QED BY Zenon, <1>3, <1>4, <2>1, <2>2 DEF DueType
<1>18. OneHolder' /\ Streams'
  BY Zenon, <1>3, StreamsStill DEF IInv
<1>19. Stages' /\ Counted'
  <2>1. (\A r \in 1 .. 2 : handled'[r] = 0 => delivered'[r] = 0)
    BY <1>4, <1>6, <1>7, <1>8, <1>9 DEF Stages
  <2>2. handled'[2] # 0 => complete(1)
    BY Zenon, <1>4, <1>6, <1>9 DEF Stages
  <2>3. pollWritten' => pollWritten /\ ~poll
    BY Zenon, <1>1
  <2>4. handled'[1] <= 1 /\ handled'[2] <= 1 /\ handled'[3] <= MaxPolls
    <3>1. handled[3] \in Nat /\ handled[1] <= 1 /\ handled[2] <= 1 /\ handled[3] <= MaxPolls
      BY SMT, <1>4, <1>5 DEF Counted, Rounds
    <3> QED BY SMT, <1>6, <1>10, <3>1, BoundAssumption
  <2>5. handled'[3] # 0 => complete(2)
    BY Zenon, <1>4, <1>6, <1>10 DEF Stages
  <2>6. ~pollWritten'  \/ handled'[3] < MaxPolls
    BY Zenon, <1>4, <1>6, <2>3 DEF Counted
  <2> QED BY Zenon, <1>3, <1>4, <1>6, <1>7, <2>1, <2>2, <2>3, <2>4, <2>5, <2>6
          DEF Stages, Counted, complete
<1>20. PollsDoNotOverlap'
  <2>1. handled'[3] - completes'[3] \in {0, 1}
    BY <1>4, <1>5, <1>6, <1>7, <1>10 DEF PollsDoNotOverlap, Rounds
  <2>2. pollWritten' => pollWritten /\ ~poll
    BY Zenon, <1>1
  <2>3. pollWritten' => handled'[3] = completes'[3] /\ ~active'[3] /\ delivered'[3] = 0
    BY Zenon, <1>4, <1>6, <1>7, <2>2 DEF PollsDoNotOverlap
  <2>4. pollWritten' => (shift' = ASK /\ ticks' # 0) \/ (tdr' = ASK /\ txPending')
    <3>1. ASSUME pollWritten'
          PROVE  (shift = ASK /\ ticks # 0 /\ ~done) \/ (tdr = ASK /\ txPending)
      BY Zenon, <1>4, <1>11, <2>2, <3>1 DEF PollsDoNotOverlap
    <3>2. ASSUME shift = ASK, ticks # 0, ~done
          PROVE  shift' = ASK /\ ticks' # 0
      <4>1. TicksLeft # 0
        BY <1>5, <3>2 DEF TicksLeft
      <4> QED BY Zenon, <1>1, <3>2, <4>1
    <3>3. ASSUME tdr = ASK, txPending
          PROVE  (shift' = ASK /\ ticks' # 0) \/ (tdr' = ASK /\ txPending')
      <4>1. ByteTicks # 0
        BY LengthAssumption
      <4> QED BY Zenon, <1>1, <1>3, <3>3, <4>1
    <3> QED BY Zenon, <3>1, <3>2, <3>3
  <2>5. active'[3] => handled'[3] = completes'[3] + 1
    BY Zenon, <1>4, <1>6, <1>7, <1>10 DEF PollsDoNotOverlap
  <2> QED BY Zenon, <2>1, <2>3, <2>4, <2>5 DEF PollsDoNotOverlap
<1>21. Scheduled'
  <2>1. CASE newRound = 0
    <3>1. /\ round' = round /\ (responseDue' => responseDue) /\ wasReset' = wasReset
      BY Zenon, <1>1, <1>3, <2>1
    <3>2. ASSUME ~wasReset, responseDue
          PROVE  ValidRound(round)' /\ delivered'[round] < ResponseLength /\ round \in Rounds
      BY SMTT(30), <3>1, <3>2, <1>5, <1>6, <1>7 DEF IInv, Scheduled, ValidRound, Rounds
    <3> QED BY Zenon, <3>1, <3>2 DEF Scheduled, ValidRound
  <2>2. CASE newRound # 0
    <3>1. round' = newRound /\ newRound \in Rounds
      BY <1>1, <1>12, <2>2 DEF Rounds
    <3>2. ValidRound(round)'
      <4>1. CASE newRound = 1
        BY SMT, <4>1, <3>1, <1>6, <1>12 DEF ValidRound
      <4>2. CASE newRound = 2
        BY SMT, <4>2, <3>1, <1>6, <1>12 DEF ValidRound
      <4>3. CASE newRound = 3
        <5>1. handled'[3] = handled[3] + 1 /\ handled[3] = completes'[3] /\ handled[3] \in Nat
          BY <4>3, <1>5, <1>6, <1>7, <1>10, <1>12 DEF Rounds
        <5> QED BY SMT, <4>3, <3>1, <5>1 DEF ValidRound
      <4> QED BY <1>12, <2>2, <4>1, <4>2, <4>3
    <3>3. delivered'[newRound] < ResponseLength
      <4>1. delivered[newRound] = 0
        <5>1. newRound = 1 \/ newRound = 2 \/ newRound = 3
          BY SMT, <1>12, <2>2
        <5>2. /\ newRound = 1 => delivered[1] = 0
              /\ newRound = 2 => delivered[2] = 0
              /\ newRound = 3 => delivered[3] = 0
          BY Zenon, <1>8, <1>9, <1>10, <1>12
        <5> QED BY SMT, <5>1, <5>2
      <4> QED BY SMT, <4>1, <1>5, <1>7
    <3> QED BY Zenon, <3>1, <3>2, <3>3 DEF Scheduled, ValidRound
  <2> QED BY Zenon, <2>1, <2>2
<1> QED BY Zenon, <1>14, <1>15, <1>16, <1>17, <1>18, <1>19, <1>20, <1>21 DEF IInv, TypeOK

(* A tick schedules a response only when the one before was delivered. *)
LEMMA TickSchedules ==
  IInv /\ BitTick => (round' # round /\ ~wasReset' => ~responseDue)
<1> SUFFICES ASSUME IInv, BitTick, round' # round, ~wasReset', responseDue
             PROVE  FALSE
  OBVIOUS
<1>1. /\ round \in Rounds /\ ValidRound(round) /\ delivered[round] < ResponseLength
  BY Zenon DEF IInv, Scheduled, BitTick
<1>2. \/ handled[1] = 0
      \/ SetClockComplete /\ handled[2] = 0
      \/ pollWritten /\ complete(2)
  <2>1. ASSUME NEW a, NEW b, NEW c, ScheduledRound(a, b, c) # 0
        PROVE  a \/ b \/ c
    BY <2>1 DEF ScheduledRound
  <2> QED BY Zenon, <2>1 DEF BitTick
<1>3. /\ \A r \in Rounds : /\ Len(reads[r]) \in Nat /\ delivered[r] \in Nat
                           /\ completes[r] \in Nat /\ handled[r] \in Nat
                           /\ Len(reads[r]) <= delivered[r]
      /\ ResponseLength \in Nat \ {0}
  <2>1. \A q \in Rounds : reads[q] \in Seq(Byte)
    BY Zenon DEF IInv, TypeOK, StreamType
  <2>2. \A q \in Rounds : Len(reads[q]) \in Nat
    BY <2>1, LenProperties
  <2> QED BY <2>2, LengthAssumption, BoundAssumption
          DEF IInv, TypeOK, StreamType, HostType, Streams, StreamInStep
<1>4. \A r \in 1 .. 2 : complete(r) => handled[r] # 0 /\ delivered[r] >= ResponseLength
  BY SMTT(30), <1>3 DEF IInv, Stages, Streams, StreamEnds, complete, Rounds
<1>5. SetClockComplete => complete(1)
  <2>1. SetClockComplete => setWritten > 0
    BY PacketLength DEF SetClockComplete, IInv, TypeOK, HostType
  <2> QED BY Zenon, <2>1 DEF IInv, Stages
<1>6. (handled[2] # 0 => complete(1)) /\ (handled[1] = 0 => handled[2] = 0)
  BY <1>4 DEF IInv, Stages
<1>7. round = 1 => ~complete(1) /\ handled[1] # 0
  BY <1>1, <1>3, <1>4 DEF ValidRound
<1>8. round = 2 => ~complete(2) /\ handled[2] # 0
  BY <1>1, <1>3, <1>4 DEF ValidRound
<1>9. round = 3 => handled[3] # completes[3] /\ handled[3] # 0
  BY SMTT(30), <1>1, <1>3 DEF ValidRound, Rounds
<1>10. /\ handled[3] # 0 => complete(2)
       /\ pollWritten => handled[3] = completes[3]
  BY Zenon DEF IInv, Stages, PollsDoNotOverlap
<1>11. round = 1 \/ round = 2 \/ round = 3
  BY SMT, <1>1 DEF Rounds
<1>12. (complete(1) => handled[1] # 0) /\ (complete(2) => handled[2] # 0)
  BY SMT, <1>4
<1> QED BY Zenon, <1>2, <1>5, <1>6, <1>7, <1>8, <1>9, <1>10, <1>11, <1>12

-----------------------------------------------------------------------------
LEMMA NextInv == IInv /\ [Next]_vars => IInv'
<1> SUFFICES ASSUME IInv, [Next]_vars PROVE IInv'
  OBVIOUS
<1>1. CASE Host
  BY Zenon, <1>1, ControlInv, WriteInv, ReadInv, StaleInv DEF Host
<1>2. CASE Device
  BY Zenon, <1>2, TickInv, ResponseInv, UplinkInv, ResponseToResetInv DEF Device
<1>3. CASE FrontEnd
  BY Zenon, <1>3, MotionInv, KeyInv DEF FrontEnd
<1> QED BY Zenon, <1>1, <1>2, <1>3, FloppyInv, ResetInv, StutterInv DEF Next

(* The invariant of every behaviour. *)
THEOREM Invariant == Spec => []IInv
<1>1. Init => IInv
  BY InitInv
<1>2. IInv /\ [Next]_vars => IInv'
  BY NextInv
<1> QED BY <1>1, <1>2, PTL DEF Spec

(* Every field keeps its type, whatever the host writes. *)
THEOREM TypeCorrect == Spec => []TypeOK
<1>1. IInv => TypeOK
  BY Zenon DEF IInv
<1> QED BY <1>1, Invariant, PTL

(* A byte read from RDR is credited to the source that sent it, through    *)
(* every interleaving of responses, mouse packets, keys and a RESET.       *)
THEOREM CreditedToTheSender == Spec => []ReadsGoToTheSender
<1>1. ASSUME IInv PROVE ReadsGoToTheSender
  <2>1. CASE rdrf
    <3>1. Sender(rdr) \in 0 .. 4 /\ Held(Sender(rdr))
      BY Zenon, <1>1, <2>1 DEF IInv, OneHolder
    <3>2. Owner = Sender(rdr)
      BY Zenon, <3>1, OwnerOfHolder
    <3> QED BY Zenon, <2>1, <3>1, <3>2 DEF ReadsGoToTheSender, Held
  <2>2. CASE ~rdrf
    BY <1>1, <2>2, EmptyInStep DEF ReadsGoToTheSender
  <2> QED BY <2>1, <2>2
<1> QED BY <1>1, Invariant, PTL

(* What was read of a response is a prefix of it, and complete at the end. *)
THEOREM ResponsesWhole == Spec => []ResponsesArriveWhole
<1>1. ASSUME IInv PROVE ResponsesArriveWhole
  <2>1. ASSUME NEW r \in Rounds PROVE Len(reads[r]) <= delivered[r]
    <3>1. reads[r] \in Seq(Byte)
      BY Zenon, <1>1 DEF IInv, TypeOK, StreamType
    <3>2. Len(reads[r]) \in Nat
      BY <3>1, LenProperties
    <3> QED BY <1>1, <3>2 DEF IInv, Streams, StreamInStep
  <2> QED BY Zenon, <1>1, <2>1 DEF IInv, Streams, StreamInOrder, StreamEnds, ResponsesArriveWhole
<1> QED BY <1>1, Invariant, PTL

(* No response is scheduled while bytes of another are to come. *)
THEOREM OneAtATime == Spec => OneResponseAtATime
<1>1. ASSUME IInv, [Next]_vars
      PROVE  [round' # round /\ ~wasReset' => ~responseDue]_vars
  <2>1. CASE BitTick
    BY Zenon, <1>1, <2>1, TickSchedules
  <2>2. CASE ~BitTick
    <3>1. UNCHANGED round
      <4>1. CASE Host
        BY Zenon, <4>1 DEF Host, WriteControl, WriteData, ReadData, ReadStale, dueVars
      <4>2. CASE Device
        BY Zenon, <2>2, <4>2 DEF Device, DeliverResponse, DeliverUplink, DeliverReset
      <4>3. CASE FrontEnd
        BY Zenon, <4>3 DEF FrontEnd, QueueMouseMotion, QueueKey
      <4>4. CASE FloppyProgress \/ M68KReset \/ UNCHANGED vars
        BY Zenon, <4>4 DEF FloppyProgress, M68KReset, vars, dueVars
      <4> QED BY Zenon, <1>1, <4>1, <4>2, <4>3, <4>4 DEF Next
    <3> QED BY Zenon, <3>1
  <2> QED BY Zenon, <2>1, <2>2
<1> QED BY <1>1, Invariant, PTL DEF Spec, OneResponseAtATime

(* Polls run one at a time, for every bound on their number. *)
THEOREM PollsInTurn == Spec => []PollsDoNotOverlap
<1>1. IInv => PollsDoNotOverlap
  BY Zenon DEF IInv
<1> QED BY <1>1, Invariant, PTL

=============================================================================
