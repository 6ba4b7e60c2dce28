---------------------------- MODULE Machine_proof ----------------------------
(***************************************************************************)
(* Proofs about the scheduler and the interrupt controller of Machine, for *)
(* every length of the frame, the byte and the periods, every duration of  *)
(* an instruction, every program of register writes and masks, and resets. *)
(***************************************************************************)
EXTENDS Machine, TLAPS

(* The register file of the MFP. *)
MfpType ==
  [ier : SUBSET Channels, ipr : SUBSET Channels, isr : SUBSET Channels, imr : SUBSET Channels,
   soft : BOOLEAN, c : {0, 5}, d : 0 .. 2, cStart : BOOLEAN, dStart : BOOLEAN,
   tcdr : BOOLEAN, tddr : {0, 2}, midi : BOOLEAN,
   ucr : BOOLEAN, rsr : BOOLEAN, tsr : BOOLEAN,
   aciaStage : 0 .. 5, systemStage : 0 .. 8, stopStage : 0 .. 7, usartStage : 0 .. 7]

(* The stages in order, and the registers as the stages have left them. *)
Boot(m) ==
  /\ m.systemStage > 0 => m.aciaStage = 5
  /\ m.stopStage > 0 => m.systemStage = 8
  /\ m.usartStage > 0 => m.stopStage = 7
  /\ ACIA \in m.ier <=> m.aciaStage >= 4
  /\ TIMERD \in m.ier <=> (m.systemStage >= 6 /\ m.stopStage = 0)
  /\ m.cStart <=> m.c = 5
  /\ m.dStart <=> m.d # 0

(* Timer D leaves the controller in three writes: delay, pending, service. *)
Leaves(m) ==
  /\ m.stopStage >= 3 => m.d # 2
  /\ m.stopStage >= 6 => TIMERD \notin m.ipr
  /\ m.stopStage = 7 => TIMERD \notin m.isr

(***************************************************************************)
(* A processor that latched its VBL while it stays stopped does not wake:  *)
(* the mask blocks what waits, or the interrupt it takes cannot be entered *)
(* and never can.                                                          *)
(***************************************************************************)
Quiet == Requests(mfp) = {} \/ mask >= 6

Blocked == IF Quiet THEN mask >= 4 \/ VBL \in failing ELSE HighestRequest(mfp) \in failing

Asleep == stopped /\ vblPending /\ Blocked

Clocks ==
  /\ toVBL >= -Late /\ toVBL <= Frame + Frame /\ (toVBL <= Frame \/ Asleep)
  /\ timerC.to \in IF timerC.run THEN 1 .. 2 * PeriodC ELSE {0}
  /\ timerD.to \in IF timerD.run THEN 1 .. PeriodD ELSE {0}

Links == [count : 0 .. Capacity, armed : BOOLEAN, to : Int, rdrf : BOOLEAN]

(* An armed deadline of an empty queue has not passed. *)
Uplink ==
  /\ link.to >= -Late
  /\ OverdueOnlyBehindRdrf
  /\ link.armed /\ link.count = 0 => link.to > 0

Good(m) == m \in MfpType /\ Boot(m) /\ Leaves(m)

(* An interrupt is out of reach for a stopped processor only. *)
Reachable == failing \in FailingSets \cup {{}} /\ (failing = {} \/ stopped)

IInv ==
  /\ Good(mfp) /\ Reachable
  /\ timerC \in [run : BOOLEAN, to : Int, own : BOOLEAN]
  /\ timerD \in [run : BOOLEAN, to : Int]
  /\ link \in Links
  /\ stopped \in BOOLEAN /\ mask \in 0 .. 7 /\ vblPending \in BOOLEAN /\ toVBL \in Int
  /\ resets \in 0 .. MaxResets
  /\ timerD.run => mfp.d = 2
  /\ resets = 0 => (timerC.run => mfp.cStart)
  /\ Clocks /\ Uplink

-----------------------------------------------------------------------------
(* The writes of the MFP's registers, one by one. *)

(* What a write may make of the register file. *)
Follows(m, n) ==
  /\ Good(n)
  /\ m.d = 2 => n.d = 2 \/ ~n.dStart
  /\ m.cStart => n.cStart
  /\ n.isr \subseteq m.isr /\ n.ipr \subseteq m.ipr

(* The stages. *)
LEMMA Numbers ==
  /\ \A n \in 0 .. 5 : n \in 0 .. 8 /\ n \in 0 .. 7
  /\ 0 \in 0 .. 2 /\ 1 \in 0 .. 2 /\ 2 \in 0 .. 2
  /\ 1 \in 0 .. 5 /\ 2 \in 0 .. 5 /\ 3 \in 0 .. 5 /\ 4 \in 0 .. 5 /\ 5 \in 0 .. 5
  /\ 6 \in 0 .. 8 /\ 7 \in 0 .. 8 /\ 8 \in 0 .. 8
  /\ 6 \in 0 .. 7 /\ 7 \in 0 .. 7
  OBVIOUS

LEMMA FollowsItself == ASSUME NEW m, Good(m) PROVE Follows(m, m)
  BY Zenon DEF Follows

LEMMA MIDIFollows == ASSUME NEW m, Good(m) PROVE Follows(m, WriteMIDI(m))
<1>1. WriteMIDI(m) \in MfpType
  BY Zenon DEF Good, MfpType, WriteMIDI
<1>2. Boot(WriteMIDI(m)) /\ Leaves(WriteMIDI(m))
  BY DEF Good, MfpType, Boot, Leaves, WriteMIDI
<1> QED BY <1>1, <1>2 DEF Follows, Good, MfpType, WriteMIDI

LEMMA IERBFollows ==
  ASSUME NEW m, Good(m), NEW v \in SUBSET Channels
  PROVE  Follows(m, WriteIERB(m, v))
<1>1. WriteIERB(m, v) \in MfpType
  <2>1. \/ WriteIERB(m, v) = [m EXCEPT !.ier = v]
        \/ WriteIERB(m, v) = [m EXCEPT !.aciaStage = 1]
        \/ WriteIERB(m, v) = [m EXCEPT !.ier = v, !.aciaStage = 4]
        \/ WriteIERB(m, v) = [m EXCEPT !.systemStage = 1]
        \/ WriteIERB(m, v) = [m EXCEPT !.ier = v, !.systemStage = 6]
        \/ WriteIERB(m, v) = [m EXCEPT !.ier = v, !.stopStage = 1]
        \/ WriteIERB(m, v) = [m EXCEPT !.stopStage = 5]
        \/ WriteIERB(m, v) = m
    BY SMT DEF WriteIERB
  <2>3. [m EXCEPT !.ier = v] \in MfpType
    BY Zenon, Numbers DEF Good, MfpType
  <2>4. [m EXCEPT !.aciaStage = 1] \in MfpType
    BY Zenon, Numbers DEF Good, MfpType
  <2>5. [m EXCEPT !.ier = v, !.aciaStage = 4] \in MfpType
    BY Zenon, Numbers DEF Good, MfpType
  <2>6. [m EXCEPT !.systemStage = 1] \in MfpType
    BY Zenon, Numbers DEF Good, MfpType
  <2>7. [m EXCEPT !.ier = v, !.systemStage = 6] \in MfpType
    BY Zenon, Numbers DEF Good, MfpType
  <2>8. [m EXCEPT !.ier = v, !.stopStage = 1] \in MfpType
    BY Zenon, Numbers DEF Good, MfpType
  <2>9. [m EXCEPT !.stopStage = 5] \in MfpType
    BY Zenon, Numbers DEF Good, MfpType
  <2> QED BY Zenon, <2>1, <2>3, <2>4, <2>5, <2>6, <2>7, <2>8, <2>9 DEF Good
<1>2. Boot(WriteIERB(m, v)) /\ Leaves(WriteIERB(m, v))
  <2>1. Boot(WriteIERB(m, v))
    BY DEF Good, MfpType, Boot, WriteIERB, Channels, TIMERC, TIMERD, ACIA
  <2>2. Leaves(WriteIERB(m, v))
    BY DEF Good, MfpType, Boot, Leaves, WriteIERB, Channels, TIMERC, TIMERD, ACIA
  <2> QED BY Zenon, <2>1, <2>2
<1> QED BY <1>1, <1>2 DEF Follows, Good, MfpType, WriteIERB

LEMMA IPRBFollows ==
  ASSUME NEW m, Good(m), NEW v \in SUBSET Channels
  PROVE  Follows(m, WriteIPRB(m, v))
<1> DEFINE a == IF m.aciaStage = 1 /\ v = Channels \ {ACIA} THEN 2 ELSE m.aciaStage
           y == IF m.systemStage = 1 /\ v = Channels \ {TIMERD} THEN 2 ELSE m.systemStage
           p == IF m.stopStage = 5 /\ v = Channels \ {TIMERD} THEN 6 ELSE m.stopStage
<1>1. WriteIPRB(m, v) \in MfpType
  <2>1. /\ m.ipr \cap v \in SUBSET Channels
        /\ a \in 0 .. 5 /\ y \in 0 .. 8 /\ p \in 0 .. 7
    BY DEF Good, MfpType
  <2>2. WriteIPRB(m, v) = [m EXCEPT !.ipr = m.ipr \cap v, !.aciaStage = a, !.systemStage = y,
                                    !.stopStage = p]
    BY SMT DEF WriteIPRB, Good, MfpType
  <2> HIDE DEF a, y, p
  <2> QED BY ZenonT(60), <2>1, <2>2 DEF Good, MfpType
<1>2. Boot(WriteIPRB(m, v)) /\ Leaves(WriteIPRB(m, v))
  BY DEF Good, MfpType, Boot, Leaves, WriteIPRB, Channels, TIMERC, TIMERD, ACIA
<1> QED BY ZenonT(60), <1>1, <1>2 DEF Follows, Good, MfpType, WriteIPRB

LEMMA ISRBFollows ==
  ASSUME NEW m, Good(m), NEW v \in SUBSET Channels
  PROVE  Follows(m, WriteISRB(m, v))
<1> DEFINE a == IF m.aciaStage = 2 /\ v = Channels \ {ACIA} THEN 3 ELSE m.aciaStage
           y == IF m.systemStage = 2 /\ v = Channels \ {TIMERD} THEN 3 ELSE m.systemStage
           p == IF m.stopStage = 6 /\ v = Channels \ {TIMERD} THEN 7 ELSE m.stopStage
<1>1. WriteISRB(m, v) \in MfpType
  <2>1. /\ m.isr \cap v \in SUBSET Channels
        /\ a \in 0 .. 5 /\ y \in 0 .. 8 /\ p \in 0 .. 7
    BY DEF Good, MfpType
  <2>2. WriteISRB(m, v) = [m EXCEPT !.isr = m.isr \cap v, !.aciaStage = a, !.systemStage = y,
                                    !.stopStage = p]
    BY SMT DEF WriteISRB, Good, MfpType
  <2> HIDE DEF a, y, p
  <2> QED BY ZenonT(60), <2>1, <2>2 DEF Good, MfpType
<1>2. Boot(WriteISRB(m, v)) /\ Leaves(WriteISRB(m, v))
  BY DEF Good, MfpType, Boot, Leaves, WriteISRB, Channels, TIMERC, TIMERD, ACIA
<1> QED BY ZenonT(60), <1>1, <1>2 DEF Follows, Good, MfpType, WriteISRB

LEMMA IMRBFollows ==
  ASSUME NEW m, Good(m), NEW v \in SUBSET Channels
  PROVE  Follows(m, WriteIMRB(m, v))
<1> DEFINE a == IF m.aciaStage = 4 /\ v = {TIMERC, ACIA} THEN 5 ELSE m.aciaStage
           y == IF m.systemStage = 6 /\ v = Channels THEN 7 ELSE m.systemStage
<1>1. WriteIMRB(m, v) \in MfpType
  <2>1. a \in 0 .. 5 /\ y \in 0 .. 8
    BY DEF Good, MfpType
  <2>2. \/ WriteIMRB(m, v) = [m EXCEPT !.imr = v, !.aciaStage = a, !.systemStage = y]
        \/ WriteIMRB(m, v) = [m EXCEPT !.imr = v, !.stopStage = 2]
        \/ WriteIMRB(m, v) = [m EXCEPT !.stopStage = 4]
        \/ WriteIMRB(m, v) = m
    BY SMT DEF WriteIMRB, Good, MfpType
  <2> HIDE DEF a, y
  <2>3. [m EXCEPT !.imr = v, !.aciaStage = a, !.systemStage = y] \in MfpType
    BY Zenon, Numbers, <2>1, <2>2 DEF Good, MfpType
  <2>4. [m EXCEPT !.imr = v, !.stopStage = 2] \in MfpType
    BY Zenon, Numbers, <2>1, <2>2 DEF Good, MfpType
  <2>5. [m EXCEPT !.stopStage = 4] \in MfpType
    BY Zenon, Numbers, <2>1, <2>2 DEF Good, MfpType
  <2> QED BY Zenon, <2>1, <2>2, <2>3, <2>4, <2>5 DEF Good
<1>2. Boot(WriteIMRB(m, v)) /\ Leaves(WriteIMRB(m, v))
  BY DEF Good, MfpType, Boot, Leaves, WriteIMRB, Channels, TIMERC, TIMERD, ACIA
<1> QED BY ZenonT(60), <1>1, <1>2 DEF Follows, Good, MfpType, WriteIMRB

LEMMA VRFollows ==
  ASSUME NEW m, Good(m), NEW v \in BOOLEAN
  PROVE  Follows(m, WriteVR(m, v))
<1>1. WriteVR(m, v) \in MfpType
  <2>1. \/ WriteVR(m, v) = [m EXCEPT !.soft = TRUE]
        \/ WriteVR(m, v) = [m EXCEPT !.soft = FALSE, !.isr = {}]
        \/ WriteVR(m, v) = m
    BY Zenon DEF WriteVR
  <2>2. {} \in SUBSET Channels
    OBVIOUS
  <2>3. [m EXCEPT !.soft = TRUE] \in MfpType
    BY Zenon, Numbers, <2>1, <2>2 DEF Good, MfpType
  <2>4. [m EXCEPT !.soft = FALSE, !.isr = {}] \in MfpType
    BY Zenon, Numbers, <2>1, <2>2 DEF Good, MfpType
  <2> QED BY Zenon, <2>1, <2>2, <2>3, <2>4 DEF Good
<1>2. Boot(WriteVR(m, v)) /\ Leaves(WriteVR(m, v))
  BY DEF Good, MfpType, Boot, Leaves, WriteVR
<1> QED BY <1>1, <1>2 DEF Follows, Good, MfpType, WriteVR

LEMMA TCDCRFollows ==
  ASSUME NEW m, Good(m), NEW d \in 0 .. 2
  PROVE  Follows(m, WriteTCDCR(m, 5, d))
<1>1. WriteTCDCR(m, 5, d) \in MfpType
  <2>1. \/ WriteTCDCR(m, 5, d) = [m EXCEPT !.c = 5, !.cStart = TRUE]
        \/ WriteTCDCR(m, 5, d) = [m EXCEPT !.usartStage = 1]
        \/ WriteTCDCR(m, 5, d) = [m EXCEPT !.d = 1, !.dStart = TRUE, !.usartStage = 3]
        \/ WriteTCDCR(m, 5, d) = [m EXCEPT !.d = 1, !.dStart = TRUE]
        \/ WriteTCDCR(m, 5, d) = [m EXCEPT !.d = 0, !.dStart = FALSE, !.systemStage = 4]
        \/ WriteTCDCR(m, 5, d) = [m EXCEPT !.d = 2, !.dStart = TRUE, !.systemStage = 8]
        \/ WriteTCDCR(m, 5, d) = [m EXCEPT !.d = 0, !.dStart = FALSE, !.stopStage = 3]
        \/ WriteTCDCR(m, 5, d) = m
    BY SMT DEF WriteTCDCR
  <2>3. [m EXCEPT !.c = 5, !.cStart = TRUE] \in MfpType
    BY Zenon, Numbers DEF Good, MfpType
  <2>4. [m EXCEPT !.usartStage = 1] \in MfpType
    BY Zenon, Numbers DEF Good, MfpType
  <2>5. [m EXCEPT !.d = 1, !.dStart = TRUE, !.usartStage = 3] \in MfpType
    BY Zenon, Numbers DEF Good, MfpType
  <2>6. [m EXCEPT !.d = 1, !.dStart = TRUE] \in MfpType
    BY Zenon, Numbers DEF Good, MfpType
  <2>7. [m EXCEPT !.d = 0, !.dStart = FALSE, !.systemStage = 4] \in MfpType
    BY Zenon, Numbers DEF Good, MfpType
  <2>8. [m EXCEPT !.d = 2, !.dStart = TRUE, !.systemStage = 8] \in MfpType
    BY Zenon, Numbers DEF Good, MfpType
  <2>9. [m EXCEPT !.d = 0, !.dStart = FALSE, !.stopStage = 3] \in MfpType
    BY Zenon, Numbers DEF Good, MfpType
  <2> QED BY Zenon, <2>1, <2>3, <2>4, <2>5, <2>6, <2>7, <2>8, <2>9 DEF Good
<1>2. Boot(WriteTCDCR(m, 5, d)) /\ Leaves(WriteTCDCR(m, 5, d))
  <2> DEFINE w == WriteTCDCR(m, 5, d)
  <2>1. /\ w.cStart <=> w.c = 5
        /\ w.dStart <=> w.d # 0
    BY DEF Good, MfpType, Boot, WriteTCDCR
  <2>2. /\ w.systemStage > 0 => w.aciaStage = 5
        /\ w.stopStage > 0 => w.systemStage = 8
        /\ w.usartStage > 0 => w.stopStage = 7
    BY DEF Good, MfpType, Boot, WriteTCDCR
  <2>3. /\ ACIA \in w.ier <=> w.aciaStage >= 4
        /\ TIMERD \in w.ier <=> (w.systemStage >= 6 /\ w.stopStage = 0)
    <3>1. w.ier = m.ier /\ w.aciaStage = m.aciaStage
      BY DEF Good, MfpType, WriteTCDCR
    <3>2. /\ m.systemStage >= 6 /\ m.stopStage = 0 <=> w.systemStage >= 6 /\ w.stopStage = 0
      BY DEF Good, MfpType, Boot, WriteTCDCR
    <3> QED BY Zenon, <3>1, <3>2 DEF Good, Boot
  <2>4. w.stopStage >= 3 => w.d # 2
    BY DEF Good, MfpType, Boot, Leaves, WriteTCDCR
  <2>5. /\ w.stopStage >= 6 => m.stopStage >= 6
        /\ w.stopStage = 7 => m.stopStage = 7
        /\ w.ipr = m.ipr /\ w.isr = m.isr
    BY DEF Good, MfpType, WriteTCDCR
  <2> QED BY Zenon, <2>1, <2>2, <2>3, <2>4, <2>5 DEF Good, Boot, Leaves
<1>3. WriteTCDCR(m, 5, d).isr = m.isr /\ WriteTCDCR(m, 5, d).ipr = m.ipr
  BY Zenon DEF Good, MfpType, WriteTCDCR
<1>4. m.d = 2 => WriteTCDCR(m, 5, d).d = 2 \/ ~WriteTCDCR(m, 5, d).dStart
  BY DEF Good, MfpType, WriteTCDCR
<1>5. m.cStart => WriteTCDCR(m, 5, d).cStart
  BY DEF Good, MfpType, WriteTCDCR
<1> QED BY Zenon, <1>1, <1>2, <1>3, <1>4, <1>5 DEF Follows, Good

LEMMA DataFollows ==
  ASSUME NEW m, Good(m), NEW v \in {0, 2}
  PROVE  Follows(m, WriteTCDR(m)) /\ Follows(m, WriteTDDR(m, v))
<1> DEFINE y == IF m.systemStage = 4 /\ v = 0 THEN 5 ELSE m.systemStage
<1>1. WriteTCDR(m) \in MfpType
  BY ZenonT(60) DEF Good, MfpType, WriteTCDR
<1>2. WriteTDDR(m, v) \in MfpType
  <2>1. \/ WriteTDDR(m, v) = [m EXCEPT !.tddr = v, !.systemStage = y]
        \/ WriteTDDR(m, v) = [m EXCEPT !.tddr = 2, !.usartStage = 2]
        \/ WriteTDDR(m, v) = m
    BY SMT DEF WriteTDDR, Good, MfpType
  <2>2. y \in 0 .. 8 /\ 2 \in {0, 2}
    BY DEF Good, MfpType
  <2> HIDE DEF y
  <2>3. [m EXCEPT !.tddr = v, !.systemStage = y] \in MfpType
    BY Zenon, Numbers, <2>1, <2>2 DEF Good, MfpType
  <2>4. [m EXCEPT !.tddr = 2, !.usartStage = 2] \in MfpType
    BY Zenon, Numbers, <2>1, <2>2 DEF Good, MfpType
  <2> QED BY Zenon, <2>1, <2>2, <2>3, <2>4 DEF Good
<1>3. /\ Boot(WriteTCDR(m)) /\ Leaves(WriteTCDR(m))
      /\ Boot(WriteTDDR(m, v)) /\ Leaves(WriteTDDR(m, v))
  BY DEF Good, MfpType, Boot, Leaves, WriteTCDR, WriteTDDR
<1> QED BY <1>1, <1>2, <1>3 DEF Follows, Good, MfpType, WriteTCDR, WriteTDDR

LEMMA USARTFollows == ASSUME NEW m, Good(m) PROVE Follows(m, WriteUSART(m))
<1>1. WriteUSART(m) \in MfpType
  <2>1. \/ WriteUSART(m) = [m EXCEPT !.ucr = TRUE]
        \/ WriteUSART(m) = [m EXCEPT !.rsr = TRUE]
        \/ WriteUSART(m) = [m EXCEPT !.tsr = TRUE]
        \/ WriteUSART(m) = [m EXCEPT !.usartStage = 4]
        \/ WriteUSART(m) = [m EXCEPT !.usartStage = 5]
        \/ WriteUSART(m) = [m EXCEPT !.usartStage = 6]
        \/ WriteUSART(m) = [m EXCEPT !.usartStage = 7]
        \/ WriteUSART(m) = m
    BY SMT DEF WriteUSART
  <2>3. [m EXCEPT !.ucr = TRUE] \in MfpType
    BY Zenon, Numbers DEF Good, MfpType
  <2>4. [m EXCEPT !.rsr = TRUE] \in MfpType
    BY Zenon, Numbers DEF Good, MfpType
  <2>5. [m EXCEPT !.tsr = TRUE] \in MfpType
    BY Zenon, Numbers DEF Good, MfpType
  <2>6. [m EXCEPT !.usartStage = 4] \in MfpType
    BY Zenon, Numbers DEF Good, MfpType
  <2>7. [m EXCEPT !.usartStage = 5] \in MfpType
    BY Zenon, Numbers DEF Good, MfpType
  <2>8. [m EXCEPT !.usartStage = 6] \in MfpType
    BY Zenon, Numbers DEF Good, MfpType
  <2>9. [m EXCEPT !.usartStage = 7] \in MfpType
    BY Zenon, Numbers DEF Good, MfpType
  <2> QED BY Zenon, <2>1, <2>3, <2>4, <2>5, <2>6, <2>7, <2>8, <2>9 DEF Good
<1>2. Boot(WriteUSART(m)) /\ Leaves(WriteUSART(m))
  BY DEF Good, MfpType, Boot, Leaves, WriteUSART
<1> QED BY <1>1, <1>2 DEF Follows, Good, MfpType, WriteUSART

LEMMA WrittenFollows ==
  ASSUME NEW m, Good(m), NEW n \in Written(m)
  PROVE  Follows(m, n)
<1>1. /\ EnableValues \subseteq SUBSET Channels /\ ClearValues \subseteq SUBSET Channels
      /\ TimerDValues \subseteq 0 .. 2 /\ TDDRValues \subseteq {0, 2}
  BY ValueAssumption DEF TDDRValues
<1>2. \/ n = m \/ n = WriteMIDI(m) \/ n = WriteTCDR(m) \/ n = WriteUSART(m)
      \/ \E v \in EnableValues : n = WriteIERB(m, v) \/ n = WriteIMRB(m, v)
      \/ \E v \in ClearValues : n = WriteIPRB(m, v) \/ n = WriteISRB(m, v)
      \/ \E s \in BOOLEAN : n = WriteVR(m, s)
      \/ \E d \in TimerDValues : n = WriteTCDCR(m, 5, d)
      \/ \E v \in TDDRValues : n = WriteTDDR(m, v)
  BY Zenon DEF Written
<1>3. 0 \in {0, 2}
  OBVIOUS
<1> QED BY Zenon, <1>1, <1>2, <1>3, FollowsItself, MIDIFollows, IERBFollows, IPRBFollows, ISRBFollows,
          IMRBFollows, VRFollows, TCDCRFollows, DataFollows, USARTFollows

-----------------------------------------------------------------------------
(* The controller. *)

LEMMA ResetIsGood == Good(MfpReset) /\ MfpReset.isr = {} /\ MfpReset.ipr = {}
                       /\ ~MfpReset.dStart /\ ~MfpReset.cStart
<1>1. MfpReset \in MfpType
  BY DEF MfpReset, MfpType, Channels
<1>2. Boot(MfpReset) /\ Leaves(MfpReset)
  BY DEF MfpReset, Boot, Leaves, TIMERD, ACIA
<1>3. MfpReset.isr = {} /\ MfpReset.ipr = {} /\ ~MfpReset.dStart /\ ~MfpReset.cStart
  BY DEF MfpReset
<1> QED BY Zenon, <1>1, <1>2, <1>3 DEF Good

(* Channels become pending, Timer D only before it left the controller. *)
LEMMA PendIsGood ==
  ASSUME NEW m, Good(m), NEW C \in SUBSET Channels, m.stopStage >= 6 => TIMERD \notin C
  PROVE  LET n == [m EXCEPT !.ipr = @ \cup C]
         IN  /\ Good(n)
             /\ n.isr = m.isr /\ n.ipr = m.ipr \cup C
             /\ n.d = m.d /\ n.dStart = m.dStart /\ n.cStart = m.cStart
<1> DEFINE p == m.ipr \cup C
           n == [m EXCEPT !.ipr = p]
<1>1. p \in SUBSET Channels
  BY DEF Good, MfpType
<1>2. n \in MfpType
  <2> HIDE DEF p
  <2> QED BY Zenon, <1>1 DEF Good, MfpType
<1>3. /\ n.isr = m.isr /\ n.ipr = p /\ n.d = m.d /\ n.dStart = m.dStart /\ n.cStart = m.cStart
      /\ n.systemStage = m.systemStage /\ n.aciaStage = m.aciaStage /\ n.stopStage = m.stopStage
      /\ n.usartStage = m.usartStage /\ n.ier = m.ier /\ n.c = m.c
  <2> HIDE DEF p
  <2> QED BY Zenon DEF Good, MfpType
<1>4. Boot(n)
  <2> HIDE DEF n, p
  <2> QED BY Zenon, <1>3 DEF Good, Boot
<1>5. Leaves(n)
  <2> SUFFICES TIMERD \in p => m.stopStage < 6
    <3> HIDE DEF n, p
    <3> QED BY <1>3 DEF Good, Leaves, MfpType
  <2> QED BY DEF Good, Leaves, MfpType
<1> QED BY Zenon, <1>2, <1>3, <1>4, <1>5 DEF Good

(* The request taken is one of those there are. *)
LEMMA HighestIsOne ==
  ASSUME NEW m, Requests(m) # {}
  PROVE  HighestRequest(m) \in Requests(m)
<1>1. Requests(m) \subseteq {4, 5, 6}
  BY DEF Requests, Channels
<1>2. \E ch \in Requests(m) : \A other \in Requests(m) : other <= ch
  <2> HIDE DEF Requests
  <2>1. CASE 6 \in Requests(m)
    BY <1>1, <2>1
  <2>2. CASE 6 \notin Requests(m) /\ 5 \in Requests(m)
    BY <1>1, <2>2
  <2>3. CASE 6 \notin Requests(m) /\ 5 \notin Requests(m)
    BY <1>1, <2>3
  <2> QED BY Zenon, <2>1, <2>2, <2>3
<1> QED BY Zenon, <1>2 DEF HighestRequest

LEMMA AcknowledgeIsGood ==
  ASSUME NEW m, Good(m), NEW ch \in Requests(m)
  PROVE  LET n == Acknowledge(m, ch)
         IN  /\ Good(n)
             /\ n.isr \subseteq m.isr \cup {ch} /\ n.ipr \subseteq m.ipr
             /\ n.d = m.d /\ n.dStart = m.dStart /\ n.cStart = m.cStart
<1> DEFINE p == m.ipr \ {ch}
           i == IF m.soft THEN m.isr \cup {ch} ELSE m.isr
           n == [m EXCEPT !.ipr = p, !.isr = i]
<1>1. ch \in Channels /\ ch \in m.ier /\ ch \in m.ipr
  BY Zenon DEF Requests, Serviceable
<1>2. p \in SUBSET Channels /\ i \in SUBSET Channels /\ i \subseteq m.isr \cup {ch} /\ p \subseteq m.ipr
  BY <1>1 DEF Good, MfpType
<1>3. Acknowledge(m, ch) = n
  BY Zenon DEF Acknowledge
<1>4. n \in MfpType
  <2> HIDE DEF p, i
  <2> QED BY Zenon, <1>2 DEF Good, MfpType
<1>5. /\ n.isr = i /\ n.ipr = p /\ n.d = m.d /\ n.dStart = m.dStart /\ n.cStart = m.cStart
      /\ n.systemStage = m.systemStage /\ n.aciaStage = m.aciaStage /\ n.stopStage = m.stopStage
      /\ n.usartStage = m.usartStage /\ n.ier = m.ier /\ n.c = m.c
  <2> HIDE DEF p, i
  <2> QED BY Zenon DEF Good, MfpType
<1>6. Boot(n)
  <2> HIDE DEF n, p, i
  <2> QED BY Zenon, <1>5 DEF Good, Boot
<1>7. Leaves(n)
  <2>1. m.stopStage = 7 => TIMERD # ch
    BY <1>1 DEF Good, Boot, MfpType
  <2>2. m.stopStage = 7 => TIMERD \notin i
    BY <2>1 DEF Good, Leaves
  <2>3. m.stopStage >= 6 => TIMERD \notin p
    BY DEF Good, Leaves
  <2> HIDE DEF n, p, i
  <2> QED BY Zenon, <2>2, <2>3, <1>5 DEF Good, Leaves
<1> QED BY Zenon, <1>2, <1>3, <1>4, <1>5, <1>6, <1>7 DEF Good

-----------------------------------------------------------------------------
(* The deadlines. *)

LEMMA ModuloRange ==
  ASSUME NEW n \in Nat, NEW p \in Nat \ {0}
  PROVE  n % p \in 0 .. (p - 1)
  OBVIOUS

(* The deadline after one that has passed is within a period. *)
LEMMA NextTickRange ==
  ASSUME NEW t \in Int, NEW p \in Nat \ {0}
  PROVE  /\ t > 0 => NextTick(t, p) = t
         /\ t <= 0 => NextTick(t, p) \in 1 .. p
<1>1. ASSUME t <= 0 PROVE NextTick(t, p) \in 1 .. p
  <2>1. -t \in Nat
    BY <1>1
  <2>2. (-t) % p \in 0 .. (p - 1)
    BY Zenon, <2>1, ModuloRange
  <2>3. NextTick(t, p) = p - ((-t) % p)
    BY <1>1 DEF NextTick
  <2> HIDE DEF NextTick
  <2> DEFINE r == (-t) % p
  <2> HIDE DEF r
  <2>4. r \in 0 .. (p - 1) /\ NextTick(t, p) = p - r
    BY Zenon, <2>2, <2>3 DEF r
  <2> QED BY <2>4
<1> QED BY <1>1 DEF NextTick

(* What a response makes of a link. *)
LEMMA RespondedType ==
  ASSUME NEW l \in Links, NEW response \in {"none", "byte", "last"}
  PROVE  /\ Responded(l, response) \in Links
         /\ response # "none" => Responded(l, response).rdrf
<1>1. ASSUME response = "none" PROVE Responded(l, response) = l
  BY <1>1 DEF Responded
<1>2. ASSUME response = "byte" PROVE Responded(l, response) = [l EXCEPT !.rdrf = TRUE]
  BY <1>2 DEF Responded
<1>3. ASSUME response = "last"
      PROVE  Responded(l, response) = [l EXCEPT !.rdrf = TRUE, !.armed = FALSE, !.to = 0]
  BY <1>3 DEF Responded
<1>4. [l EXCEPT !.rdrf = TRUE] \in Links /\ [l EXCEPT !.rdrf = TRUE].rdrf
  BY DEF Links
<1>5. /\ [l EXCEPT !.rdrf = TRUE, !.armed = FALSE, !.to = 0] \in Links
      /\ [l EXCEPT !.rdrf = TRUE, !.armed = FALSE, !.to = 0].rdrf
  <2>1. 0 \in Int
    OBVIOUS
  <2> QED BY Zenon, <2>1 DEF Links
<1> QED BY Zenon, <1>1, <1>2, <1>3, <1>4, <1>5

(* An instruction or an acceptance starts from a moment like this. *)
Moment(s) ==
  /\ Good(s.mfp) /\ s.link \in Links /\ s.toVBL \in Int /\ s.pending \in BOOLEAN
  /\ mfp.d = 2 => s.mfp.d = 2 \/ ~s.mfp.dStart

(* What advanceClockedDevices leaves, whatever the moment it starts from.  *)
Advanced(s) ==
  /\ Good(mfp') /\ mfp'.isr = s.mfp.isr
  /\ TIMERC \in mfp'.ipr => TIMERC \in s.mfp.ipr \/ timerC.run \/ s.mfp.cStart
  /\ TIMERD \in mfp'.ipr => TIMERD \in s.mfp.ipr \/ mfp'.dStart
  /\ mfp'.cStart = s.mfp.cStart /\ mfp'.dStart = s.mfp.dStart
  /\ timerC' \in [run : BOOLEAN, to : Int, own : BOOLEAN]
  /\ timerC'.to \in IF timerC'.run THEN 1 .. 2 * PeriodC ELSE {0}
  /\ timerC'.run => timerC.run \/ s.mfp.cStart
  /\ timerD' \in [run : BOOLEAN, to : Int]
  /\ timerD'.to \in IF timerD'.run THEN 1 .. PeriodD ELSE {0}
  /\ timerD'.run => mfp'.d = 2
  /\ link' \in Links /\ Uplink'
  /\ vblPending' \in BOOLEAN /\ toVBL' \in Int /\ -Late <= toVBL' /\ toVBL' <= Frame

LEMMA TimerCAdvances ==
  ASSUME NEW m, Good(m), NEW c \in Nat, NEW age \in 0 .. c,
         timerC \in [run : BOOLEAN, to : Int, own : BOOLEAN],
         timerC.to \in IF timerC.run THEN 1 .. 2 * PeriodC ELSE {0},
         AdvanceTimerC(m, c, age)
  PROVE  /\ timerC' \in [run : BOOLEAN, to : Int, own : BOOLEAN]
         /\ timerC'.to \in IF timerC'.run THEN 1 .. 2 * PeriodC ELSE {0}
         /\ timerC'.run => timerC.run \/ m.cStart
<1> DEFINE starts == ~timerC.run /\ m.cStart
           to == IF starts THEN PeriodC - age ELSE timerC.to - c
           own == m.cStart /\ (starts \/ timerC.own)
<1>1. CASE ~timerC.run /\ ~m.cStart
  BY Zenon, <1>1 DEF AdvanceTimerC
<1>2. CASE timerC.run \/ m.cStart
  <2>1. /\ own \in BOOLEAN /\ to \in Int /\ to <= 2 * PeriodC
        /\ PeriodC \in Nat \ {0}
    <3>1. own \in BOOLEAN
      BY DEF Good, MfpType
    <3>2. to \in Int /\ to <= 2 * PeriodC /\ PeriodC \in Nat \ {0}
      BY ClockAssumption, <1>2
    <3> QED BY Zenon, <3>1, <3>2
  <2>2. PICK next \in IF own \/ to > 0 THEN {NextTick(to, PeriodC)} ELSE 1 .. 2 * PeriodC :
          timerC' = [run |-> TRUE, to |-> next, own |-> own]
    BY Zenon, <1>2 DEF AdvanceTimerC
  <2> HIDE DEF own, to
  <2>3. NextTick(to, PeriodC) \in 1 .. 2 * PeriodC
    <3>1. CASE to > 0
      BY <3>1, <2>1, NextTickRange DEF NextTick
    <3>2. CASE to <= 0
      <4>1. NextTick(to, PeriodC) \in 1 .. PeriodC
        BY Zenon, <3>2, <2>1, NextTickRange
      <4> QED BY <4>1, <2>1
    <3> QED BY <3>1, <3>2, <2>1
  <2>4. next \in 1 .. 2 * PeriodC /\ next \in Int
    BY <2>2, <2>3, <2>1
  <2> QED BY <2>1, <2>2, <2>4, <1>2
<1> QED BY Zenon, <1>1, <1>2

LEMMA TimerDAdvances ==
  ASSUME NEW m, Good(m), NEW c \in Nat, NEW age \in 0 .. c,
         timerD \in [run : BOOLEAN, to : Int],
         timerD.to \in IF timerD.run THEN 1 .. PeriodD ELSE {0},
         timerD.run => m.d = 2 \/ ~m.dStart,
         AdvanceTimerD(m, c, age)
  PROVE  /\ timerD' \in [run : BOOLEAN, to : Int]
         /\ timerD'.to \in IF timerD'.run THEN 1 .. PeriodD ELSE {0}
         /\ timerD'.run => m.d = 2
<1>1. CASE TimerDStarts(m)
  <2>1. timerD' = [run |-> TRUE, to |-> NextTick(PeriodD - age, PeriodD)]
    BY Zenon, <1>1 DEF AdvanceTimerD
  <2>2. PeriodD - age \in Int /\ PeriodD - age <= PeriodD /\ PeriodD \in Nat \ {0}
    BY ClockAssumption
  <2>3. NextTick(PeriodD - age, PeriodD) \in 1 .. PeriodD
    BY <2>2, NextTickRange
  <2>4. m.d = 2
    BY Zenon, <1>1 DEF TimerDStarts
  <2> QED BY <2>1, <2>2, <2>3, <2>4
<1>2. CASE ~TimerDStarts(m) /\ TimerDKeepsRunning(m)
  <2>1. timerD' = [run |-> TRUE, to |-> NextTick(timerD.to - c, PeriodD)]
    BY Zenon, <1>2 DEF AdvanceTimerD
  <2>2. m.d = 2 /\ timerD.run
    BY Zenon, <1>2 DEF TimerDKeepsRunning
  <2>3. timerD.to - c \in Int /\ timerD.to - c <= PeriodD /\ PeriodD \in Nat \ {0}
    BY ClockAssumption, <2>2
  <2>4. NextTick(timerD.to - c, PeriodD) \in 1 .. PeriodD
    BY <2>3, NextTickRange
  <2> QED BY <2>1, <2>2, <2>3, <2>4
<1>3. CASE ~TimerDStarts(m) /\ ~TimerDKeepsRunning(m)
  <2>1. timerD' = [run |-> FALSE, to |-> 0]
    BY Zenon, <1>3 DEF AdvanceTimerD
  <2> QED BY <2>1
<1> QED BY Zenon, <1>1, <1>2, <1>3

(* The parts of Advance, by the names they have in it. *)
Aged(s, c) == [s.link EXCEPT !.to = IF s.link.armed THEN @ - c ELSE 0]

Heard(s, c, response) == Responded(Aged(s, c), response)

Fails(heard) == FallsDue(heard) /\ heard.rdrf

Sent(heard) == IF FallsDue(heard) THEN Delivered(heard) ELSE heard

Ticks(s, c, age, response, heard) ==
  {ch \in Channels :
     \/ ch = TIMERC /\ TimerCTicks(s.mfp, c, age)
     \/ ch = TIMERD /\ TimerDTicks(s.mfp, c, age)
     \/ ch = ACIA /\ (response # "none" \/ (FallsDue(heard) /\ ~Fails(heard)))}

Raises(s, c, instruction, heard) == instruction /\ ~Fails(heard) /\ s.toVBL <= c

LEMMA AdvanceParts ==
  ASSUME NEW s, NEW c, NEW instruction, Advance(s, c, instruction)
  PROVE  \E age \in 0 .. c, response \in Responses, reset \in ResetBytes :
           LET heard == Heard(s, c, response)
           IN  /\ AdvanceTimerC(s.mfp, c, age)
               /\ AdvanceTimerD(s.mfp, c, age)
               /\ mfp' = [s.mfp EXCEPT !.ipr = @ \cup Ticks(s, c, age, response, heard)]
               /\ link' = IF Fails(heard) THEN heard
                          ELSE [Disarmed(Sent(heard)) EXCEPT !.rdrf = @ \/ reset]
               /\ vblPending' = (s.pending \/ Raises(s, c, instruction, heard))
               /\ toVBL' = IF Raises(s, c, instruction, heard)
                           THEN s.toVBL - c + Frame ELSE s.toVBL - c
               /\ toVBL' >= -Late /\ link'.to >= -Late
<1>1. PICK age \in 0 .. c, response \in Responses, reset \in ResetBytes :
        LET aged  == [s.link EXCEPT !.to = IF s.link.armed THEN @ - c ELSE 0]
            heard == Responded(aged, response)
            due   == FallsDue(heard)
            error == due /\ heard.rdrf
            sent  == IF due THEN Delivered(heard) ELSE heard
            ticks == {ch \in Channels :
                        \/ ch = TIMERC /\ TimerCTicks(s.mfp, c, age)
                        \/ ch = TIMERD /\ TimerDTicks(s.mfp, c, age)
                        \/ ch = ACIA /\ (response # "none" \/ (due /\ ~error))}
            raise == instruction /\ ~error /\ s.toVBL <= c
        IN /\ response # "none" => ~s.link.rdrf
           /\ reset => ~error /\ ~sent.rdrf
           /\ age > 0 => (s.mfp.cStart /\ ~timerC.run) \/ TimerDStarts(s.mfp)
           /\ AdvanceTimerC(s.mfp, c, age)
           /\ AdvanceTimerD(s.mfp, c, age)
           /\ mfp' = [s.mfp EXCEPT !.ipr = @ \cup ticks]
           /\ link' = IF error THEN heard ELSE [Disarmed(sent) EXCEPT !.rdrf = @ \/ reset]
           /\ vblPending' = (s.pending \/ raise)
           /\ toVBL' = IF raise THEN s.toVBL - c + Frame ELSE s.toVBL - c
           /\ toVBL' >= -Late /\ link'.to >= -Late
  BY Zenon DEF Advance
<1> QED BY Zenon, <1>1 DEF Aged, Heard, Fails, Sent, Ticks, Raises

(* The link when a delivery has been tried. *)
LEMMA Disarms ==
  ASSUME NEW l \in Links, NEW reset \in BOOLEAN
  PROVE  LET n == [Disarmed(l) EXCEPT !.rdrf = @ \/ reset]
         IN  /\ n \in Links
             /\ n.count = l.count /\ n.rdrf = (l.rdrf \/ reset)
             /\ l.count = 0 => ~n.armed
             /\ l.count # 0 => n.armed = l.armed /\ n.to = l.to
<1> DEFINE r == l.rdrf \/ reset
<1>1. r \in BOOLEAN /\ 0 \in Int
  OBVIOUS
<1>2. CASE l.count = 0
  <2>1. Disarmed(l) = [l EXCEPT !.armed = FALSE, !.to = 0]
    BY Zenon, <1>2 DEF Disarmed
  <2>2. [Disarmed(l) EXCEPT !.rdrf = @ \/ reset] = [l EXCEPT !.armed = FALSE, !.to = 0, !.rdrf = r]
    BY Zenon, <2>1 DEF Links
  <2>3. LET n == [l EXCEPT !.armed = FALSE, !.to = 0, !.rdrf = r]
        IN  n \in Links /\ n.count = l.count /\ n.rdrf = r /\ ~n.armed
    <3> HIDE DEF r
    <3> QED BY Zenon, <1>1 DEF Links
  <2> QED BY Zenon, <1>2, <2>2, <2>3
<1>3. CASE l.count # 0
  <2>1. [Disarmed(l) EXCEPT !.rdrf = @ \/ reset] = [l EXCEPT !.rdrf = r]
    BY Zenon, <1>3 DEF Disarmed
  <2>2. LET n == [l EXCEPT !.rdrf = r]
        IN  n \in Links /\ n.count = l.count /\ n.rdrf = r /\ n.armed = l.armed /\ n.to = l.to
    <3> HIDE DEF r
    <3> QED BY Zenon, <1>1 DEF Links
  <2> QED BY Zenon, <1>3, <2>1, <2>2
<1> QED BY Zenon, <1>2, <1>3

LEMMA DeliveredType ==
  ASSUME NEW l \in Links, l.count > 0
  PROVE  /\ Delivered(l) \in Links
         /\ Delivered(l).rdrf /\ Delivered(l).armed = l.armed
         /\ Delivered(l).count = l.count - 1 /\ Delivered(l).to = l.to + ByteTime
<1> DEFINE n == l.count - 1
           t == l.to + ByteTime
<1>1. n \in 0 .. Capacity /\ t \in Int
  BY ClockAssumption, LimitAssumption DEF Links
<1>2. Delivered(l) = [l EXCEPT !.count = n, !.rdrf = TRUE, !.to = t]
  BY Zenon DEF Delivered
<1> HIDE DEF n, t
<1>3. LET d == [l EXCEPT !.count = n, !.rdrf = TRUE, !.to = t]
      IN  d \in Links /\ d.rdrf /\ d.armed = l.armed /\ d.count = n /\ d.to = t
  BY Zenon, <1>1 DEF Links
<1> QED BY Zenon, <1>2, <1>3 DEF n, t

LEMMA LinkAdvances ==
  ASSUME NEW heard \in Links, NEW reset \in BOOLEAN,
         link' = IF Fails(heard) THEN heard
                 ELSE [Disarmed(Sent(heard)) EXCEPT !.rdrf = @ \/ reset],
         link'.to >= -Late
  PROVE  link' \in Links /\ Uplink'
<1>1. CASE Fails(heard)
  BY <1>1 DEF Fails, FallsDue, UplinkDue, Links, Uplink, OverdueOnlyBehindRdrf
<1>2. CASE ~Fails(heard)
  <2> DEFINE l == Sent(heard)
  <2>1. l \in Links /\ (l.rdrf \/ ~FallsDue(l))
    <3>1. CASE FallsDue(heard)
      <4>1. heard.count > 0
        BY Zenon, <3>1 DEF FallsDue, UplinkDue
      <4> QED BY Zenon, <3>1, <4>1, DeliveredType DEF Sent
    <3>2. CASE ~FallsDue(heard)
      BY Zenon, <3>2 DEF Sent
    <3> QED BY Zenon, <3>1, <3>2
  <2>2. /\ link' \in Links
        /\ link'.count = l.count /\ link'.rdrf = (l.rdrf \/ reset)
        /\ l.count = 0 => ~link'.armed
        /\ l.count # 0 => link'.armed = l.armed /\ link'.to = l.to
    <3> DEFINE n == [Disarmed(l) EXCEPT !.rdrf = @ \/ reset]
    <3>1. link' = n
      BY Zenon, <1>2
    <3> HIDE DEF l
    <3>2. /\ n \in Links
          /\ n.count = l.count /\ n.rdrf = (l.rdrf \/ reset)
          /\ l.count = 0 => ~n.armed
          /\ l.count # 0 => n.armed = l.armed /\ n.to = l.to
      BY Zenon, <2>1, Disarms
    <3> HIDE DEF n
    <3> QED BY Zenon, <3>1, <3>2
  <2> HIDE DEF l
  <2> QED BY <2>1, <2>2 DEF FallsDue, UplinkDue, Links, Uplink, OverdueOnlyBehindRdrf
<1> QED BY Zenon, <1>1, <1>2

(* Timer D ticks only while it runs with a start. *)
LEMMA TimerDTicksOnlyOn ==
  ASSUME NEW m, NEW c, NEW age, TimerDTicks(m, c, age)
  PROVE  m.dStart /\ (m.d = 2 \/ timerD.run)
  BY Zenon DEF TimerDTicks, TimerDStarts, TimerDKeepsRunning

LEMMA TimerCTicksOnlyOn ==
  ASSUME NEW m, NEW c, NEW age, TimerCTicks(m, c, age)
  PROVE  m.cStart \/ timerC.run
  BY Zenon DEF TimerCTicks

LEMMA AdvanceKeeps ==
  ASSUME IInv, NEW s, Moment(s), NEW c \in Nat, NEW instruction \in BOOLEAN,
         s.toVBL - c <= Frame, Advance(s, c, instruction)
  PROVE  Advanced(s)
<1>1. PICK age \in 0 .. c, response \in Responses, reset \in ResetBytes :
        LET heard == Heard(s, c, response)
        IN  /\ AdvanceTimerC(s.mfp, c, age)
            /\ AdvanceTimerD(s.mfp, c, age)
            /\ mfp' = [s.mfp EXCEPT !.ipr = @ \cup Ticks(s, c, age, response, heard)]
            /\ link' = IF Fails(heard) THEN heard
                       ELSE [Disarmed(Sent(heard)) EXCEPT !.rdrf = @ \/ reset]
            /\ vblPending' = (s.pending \/ Raises(s, c, instruction, heard))
            /\ toVBL' = IF Raises(s, c, instruction, heard)
                        THEN s.toVBL - c + Frame ELSE s.toVBL - c
            /\ toVBL' >= -Late /\ link'.to >= -Late
  BY Zenon, AdvanceParts
<1> DEFINE heard == Heard(s, c, response)
           ticks == Ticks(s, c, age, response, heard)
<1>2. heard \in Links
  <2>1. Aged(s, c) \in Links
    BY DEF Moment, Links, Aged
  <2>2. response \in {"none", "byte", "last"}
    BY Zenon, ResponseAssumption
  <2> QED BY Zenon, <2>1, <2>2, RespondedType DEF Heard
<1>3. link' \in Links /\ Uplink'
  <2>1. reset \in BOOLEAN
    BY Zenon, ResponseAssumption
  <2> HIDE DEF heard
  <2> QED BY Zenon, <1>1, <1>2, <2>1, LinkAdvances DEF heard
<1>4. /\ timerC' \in [run : BOOLEAN, to : Int, own : BOOLEAN]
      /\ timerC'.to \in IF timerC'.run THEN 1 .. 2 * PeriodC ELSE {0}
      /\ timerC'.run => timerC.run \/ s.mfp.cStart
  BY Zenon, <1>1, TimerCAdvances DEF IInv, Clocks, Moment
<1>5. timerD.run => s.mfp.d = 2 \/ ~s.mfp.dStart
  BY Zenon DEF IInv, Moment
<1>6. /\ timerD' \in [run : BOOLEAN, to : Int]
      /\ timerD'.to \in IF timerD'.run THEN 1 .. PeriodD ELSE {0}
      /\ timerD'.run => s.mfp.d = 2
  BY Zenon, <1>1, <1>5, TimerDAdvances DEF IInv, Clocks, Moment
<1>7. /\ ticks \in SUBSET Channels
      /\ TIMERC \in ticks => s.mfp.cStart \/ timerC.run
      /\ TIMERD \in ticks => s.mfp.dStart /\ s.mfp.d = 2
  <2>1. TIMERC \in ticks => TimerCTicks(s.mfp, c, age)
    BY SMT DEF Ticks, TIMERC, TIMERD, ACIA
  <2>2. TIMERD \in ticks => TimerDTicks(s.mfp, c, age)
    BY SMT DEF Ticks, TIMERC, TIMERD, ACIA
  <2>3. ticks \in SUBSET Channels
    BY Zenon DEF Ticks
  <2> HIDE DEF ticks
  <2> QED BY Zenon, <2>1, <2>2, <2>3, <1>5, TimerCTicksOnlyOn, TimerDTicksOnlyOn
<1>8. /\ Good(mfp') /\ mfp'.isr = s.mfp.isr /\ mfp'.ipr = s.mfp.ipr \cup ticks
      /\ mfp'.d = s.mfp.d /\ mfp'.dStart = s.mfp.dStart /\ mfp'.cStart = s.mfp.cStart
  <2>1. Good(s.mfp)
    BY Zenon DEF Moment
  <2>2. s.mfp.stopStage >= 6 => TIMERD \notin ticks
    <3> HIDE DEF ticks
    <3> QED BY <1>7, <2>1 DEF Good, Leaves, MfpType
  <2>3. mfp' = [s.mfp EXCEPT !.ipr = @ \cup ticks]
    BY Zenon, <1>1
  <2> HIDE DEF ticks
  <2> QED BY ZenonT(60), <1>7, <2>1, <2>2, <2>3, PendIsGood
<1>9. vblPending' \in BOOLEAN
  BY Zenon, <1>1 DEF Moment, Raises
<1>10. toVBL' \in Int /\ -Late <= toVBL' /\ toVBL' <= Frame
  <2>1. \/ toVBL' = s.toVBL - c
        \/ toVBL' = s.toVBL - c + Frame /\ s.toVBL <= c
    BY Zenon, <1>1 DEF Raises
  <2>2. toVBL' >= -Late
    BY Zenon, <1>1
  <2> QED BY <2>1, <2>2, ClockAssumption, LimitAssumption DEF Moment
<1>11. /\ TIMERC \in mfp'.ipr => TIMERC \in s.mfp.ipr \/ timerC.run \/ s.mfp.cStart
       /\ TIMERD \in mfp'.ipr => TIMERD \in s.mfp.ipr \/ mfp'.dStart
  <2> HIDE DEF ticks
  <2> QED BY Zenon, <1>7, <1>8
<1>12. timerD'.run => mfp'.d = 2
  BY Zenon, <1>6, <1>8
<1> QED BY Zenon, <1>3, <1>4, <1>6, <1>8, <1>9, <1>10, <1>11, <1>12 DEF Advanced

-----------------------------------------------------------------------------
(* The steps of the machine.  What each of them has to show: *)

Nests == \A ch \in mfp'.isr \ mfp.isr : \A t \in mfp.isr : t < ch

Pends ==
  /\ TIMERC \in mfp'.ipr \ mfp.ipr => mfp'.cStart \/ resets' > 0
  /\ TIMERD \in mfp'.ipr \ mfp.ipr => mfp'.dStart

Result == IInv' /\ Nests /\ Pends

(* A step that ends with the devices' advance, in the terms of where the   *)
(* advance started.                                                        *)
LEMMA AdvancedResult ==
  ASSUME IInv, NEW s, Advanced(s),
         stopped' \in BOOLEAN, mask' \in 0 .. 7, resets' \in 0 .. MaxResets, Reachable',
         resets' = 0 => resets = 0 /\ (mfp.cStart => s.mfp.cStart),
         \A ch \in s.mfp.isr \ mfp.isr : \A t \in mfp.isr : t < ch,
         TIMERC \in s.mfp.ipr => TIMERC \in mfp.ipr,
         TIMERD \in s.mfp.ipr => TIMERD \in mfp.ipr
  PROVE  Result
<1>1. resets' = 0 => (timerC'.run => mfp'.cStart)
  BY Zenon DEF Advanced, IInv
<1>2. Clocks'
  BY ClockAssumption DEF Advanced, Clocks
<1>3. IInv'
  BY Zenon, <1>1, <1>2 DEF Advanced, IInv
<1>4. Nests
  BY Zenon DEF Advanced, Nests
<1>5. TIMERC \in mfp'.ipr \ mfp.ipr => mfp'.cStart \/ resets' > 0
  <2>1. resets' = 0 \/ resets' > 0
    BY LimitAssumption
  <2> QED BY Zenon, <2>1 DEF Advanced, IInv
<1>6. TIMERD \in mfp'.ipr \ mfp.ipr => mfp'.dStart
  BY Zenon DEF Advanced
<1> QED BY Zenon, <1>3, <1>4, <1>5, <1>6 DEF Result, Pends

LEMMA NowIsAMoment ==
  ASSUME IInv
  PROVE  /\ Moment(Now) /\ Now.mfp = mfp /\ Now.link = link /\ Now.toVBL = toVBL
         /\ Now.pending = vblPending /\ Now.clocks = 0
  BY Zenon DEF Now, Moment, IInv

(* Idling delivers a byte or latches the VBL, and takes the time until then. *)
LEMMA IdledFacts ==
  ASSUME IInv, ~IdleFails
  PROVE  /\ Moment(Idled) /\ Idled.clocks \in Nat
         /\ Idled.mfp.isr = mfp.isr /\ Idled.mfp.cStart = mfp.cStart
         /\ TIMERC \in Idled.mfp.ipr => TIMERC \in mfp.ipr
         /\ TIMERD \in Idled.mfp.ipr => TIMERD \in mfp.ipr
         /\ ~Idles => Idled = Now
         /\ Idles => /\ Idled.toVBL - Idled.clocks <= Frame
                     /\ \/ Idled.toVBL = toVBL
                        \/ Idled.toVBL = toVBL + Frame /\ Idled.pending
                     /\ \/ Idled.link = link
                        \/ Idled.link.to > 0
<1>1. CASE ~Idles
  <2>1. Idled = Now
    BY Zenon, <1>1 DEF Idled
  <2>2. Now.clocks \in Nat
    BY DEF Now
  <2> QED BY Zenon, <1>1, <2>1, <2>2, NowIsAMoment
<1>2. CASE Idles
  <2>1. toVBL \in Int /\ toVBL > 0 /\ toVBL <= Frame /\ Frame \in Nat
    <3>1. ~Asleep
      BY Zenon, <1>2 DEF Idles, Asleep
    <3> QED BY Zenon, <3>1, <1>2, ClockAssumption DEF Idles, IInv, Clocks
  <2>2. CASE UplinkFirst
    <3>1. UplinkDue(link) /\ link.to < toVBL /\ ~link.rdrf
      BY Zenon, <2>2, <1>2 DEF UplinkFirst, IdleFails
    <3>2. link \in Links /\ link.to \in Int /\ link.count > 0
      BY Zenon, <3>1 DEF IInv, UplinkDue, Links
    <3>3. link.to > 0
      BY <3>1, <3>2 DEF IInv, Uplink, OverdueOnlyBehindRdrf
    <3>4. Idled = [Now EXCEPT !.clocks = link.to, !.mfp = Pend(mfp, ACIA), !.link = Delivered(link)]
      BY Zenon, <1>2, <2>2 DEF Idled
    <3>5. /\ Idled.clocks = link.to /\ Idled.mfp = [mfp EXCEPT !.ipr = @ \cup {ACIA}]
          /\ Idled.link = Delivered(link) /\ Idled.toVBL = toVBL /\ Idled.pending = vblPending
      BY Zenon, <3>4 DEF Now, Pend
    <3>6. {ACIA} \in SUBSET Channels /\ TIMERD \notin {ACIA} /\ TIMERC \notin {ACIA}
      BY DEF ACIA, TIMERC, TIMERD, Channels
    <3>7. /\ Good(Idled.mfp)
          /\ Idled.mfp.isr = mfp.isr /\ Idled.mfp.ipr = mfp.ipr \cup {ACIA}
          /\ Idled.mfp.d = mfp.d /\ Idled.mfp.cStart = mfp.cStart
      <4>1. Good(mfp)
        BY Zenon DEF IInv
      <4>2. LET n == [mfp EXCEPT !.ipr = @ \cup {ACIA}]
            IN  /\ Good(n)
                /\ n.isr = mfp.isr /\ n.ipr = mfp.ipr \cup {ACIA}
                /\ n.d = mfp.d /\ n.dStart = mfp.dStart /\ n.cStart = mfp.cStart
        BY Zenon, <4>1, <3>6, PendIsGood
      <4> QED BY Zenon, <3>5, <4>2
    <3>8. Delivered(link) \in Links /\ Delivered(link).to = link.to + ByteTime
      BY Zenon, <3>2, DeliveredType
    <3>9. /\ toVBL - link.to <= Frame /\ link.to \in Nat
          /\ link.to + ByteTime > 0
      BY <2>1, <3>2, <3>3, ClockAssumption
    <3>10. Moment(Idled)
      BY Zenon, <3>5, <3>7, <3>8 DEF Moment, IInv
    <3> QED BY Zenon, <1>2, <3>5, <3>6, <3>7, <3>8, <3>9, <3>10
  <2>3. CASE ~UplinkFirst
    <3>1. Idled = [Now EXCEPT !.clocks = toVBL, !.toVBL = toVBL + Frame, !.pending = TRUE]
      BY Zenon, <1>2, <2>3 DEF Idled
    <3>2. /\ Idled.clocks = toVBL /\ Idled.mfp = mfp /\ Idled.link = link
          /\ Idled.toVBL = toVBL + Frame /\ Idled.pending
      BY Zenon, <3>1 DEF Now
    <3>3. toVBL + Frame \in Int /\ toVBL \in Nat /\ toVBL + Frame - toVBL <= Frame
      BY <2>1
    <3>4. Idled.pending = TRUE
      BY Zenon, <3>1 DEF Now
    <3>5. Moment(Idled)
      BY Zenon, <3>2, <3>3, <3>4 DEF Moment, IInv
    <3>6. Idled.toVBL - Idled.clocks <= Frame /\ Idled.clocks \in Nat
      BY <3>2, <2>1
    <3>7. /\ Idled.mfp.isr = mfp.isr /\ Idled.mfp.cStart = mfp.cStart
          /\ Idled.mfp.ipr = mfp.ipr
      BY Zenon, <3>2
    <3> QED BY Zenon, <1>2, <3>2, <3>5, <3>6, <3>7
  <2> QED BY Zenon, <2>2, <2>3
<1> QED BY Zenon, <1>1, <1>2

(* Nothing that can be accepted leaves the VBL asleep. *)
LEMMA AwakeWhenTaken ==
  ASSUME IInv, ~IdleFails, TakesMFP \/ TakesVBL, ~EntryFails, NEW c \in Nat
  PROVE  Idled.toVBL - (Idled.clocks + c) <= Frame
<1>1. Idled.toVBL \in Int /\ Idled.clocks \in Nat /\ Frame \in Nat
  BY Zenon, IdledFacts, ClockAssumption DEF Moment
<1>2. CASE Idles
  BY <1>1, <1>2, IdledFacts
<1>3. CASE ~Idles
  <2>1. Idled.mfp = mfp /\ Idled.toVBL = toVBL /\ Idled.pending = vblPending
    BY Zenon, <1>3, IdledFacts, NowIsAMoment
  <2>2. mask \in 0 .. 7 /\ toVBL \in Int /\ (toVBL <= Frame \/ Asleep)
    BY Zenon DEF IInv, Clocks
  <2>3. Quiet <=> ~TakesMFP
    BY <2>1, <2>2 DEF TakesMFP, Accepts, Quiet
  <2>4. (mask < 4 /\ VBL \notin failing) \/ TakesMFP
    BY <2>2, <2>3 DEF TakesVBL, Accepts, EntryFails
  <2>5. ~Asleep
    <3>1. TakesMFP => HighestRequest(mfp) \notin failing
      BY Zenon, <2>1 DEF EntryFails
    <3>2. ~TakesMFP => ~(mask >= 4) /\ VBL \notin failing
      BY <2>2, <2>4
    <3> QED BY Zenon, <2>3, <3>1, <3>2 DEF Asleep, Blocked
  <2> QED BY <1>1, <2>1, <2>2, <2>5
<1> QED BY Zenon, <1>2, <1>3

LEMMA AcceptMFPResult == ASSUME IInv, AcceptMFP PROVE Result
<1>1. /\ ~IdleFails /\ TakesMFP /\ ~EntryFails
      /\ mask' = 6 /\ stopped' = FALSE /\ failing' = {} /\ resets' = resets
      /\ \E c \in AcceptClocks :
           Advance([Idled EXCEPT !.mfp = Acknowledge(@, HighestRequest(@))], Idled.clocks + c, FALSE)
  BY Zenon DEF AcceptMFP
<1> DEFINE ch == HighestRequest(Idled.mfp)
           m  == Acknowledge(Idled.mfp, ch)
           s  == [Idled EXCEPT !.mfp = m]
<1>2. PICK c \in AcceptClocks : Advance(s, Idled.clocks + c, FALSE)
  BY Zenon, <1>1
<1>3. /\ ch \in Requests(Idled.mfp) /\ \A t \in Idled.mfp.isr : t < ch
  <2>1. ch \in Requests(Idled.mfp)
    BY Zenon, <1>1, HighestIsOne DEF TakesMFP
  <2> QED BY Zenon, <2>1 DEF Requests, Serviceable
<1>4. Moment(Idled) /\ Idled.clocks \in Nat /\ Idled.mfp.isr = mfp.isr
  BY Zenon, <1>1, IdledFacts
<1>5. /\ Good(m)
      /\ m.isr \subseteq Idled.mfp.isr \cup {ch} /\ m.ipr \subseteq Idled.mfp.ipr
      /\ m.d = Idled.mfp.d /\ m.dStart = Idled.mfp.dStart /\ m.cStart = Idled.mfp.cStart
  <2> HIDE DEF ch
  <2> QED BY Zenon, <1>3, <1>4, AcknowledgeIsGood DEF Moment
<1>6. /\ s.mfp = m /\ s.link = Idled.link /\ s.toVBL = Idled.toVBL /\ s.pending = Idled.pending
  <2> HIDE DEF m
  <2>1. Idled.clocks \in Nat /\ DOMAIN Idled = {"clocks", "mfp", "link", "toVBL", "pending"}
    BY <1>4 DEF Idled, Now
  <2> QED BY <2>1
<1>7. Moment(s)
  <2> HIDE DEF s, m, ch
  <2> QED BY Zenon, <1>4, <1>5, <1>6 DEF Moment
<1>8. s.toVBL - (Idled.clocks + c) <= Frame /\ Idled.clocks + c \in Nat
  <2> HIDE DEF s, m, ch
  <2>1. c \in Nat
    BY ClockAssumption
  <2>2. Idled.toVBL - (Idled.clocks + c) <= Frame
    BY Zenon, <1>1, <2>1, AwakeWhenTaken
  <2> QED BY <1>4, <1>6, <2>1, <2>2
<1>9. Advanced(s)
  <2> HIDE DEF s, m, ch
  <2> QED BY Zenon, <1>2, <1>7, <1>8, AdvanceKeeps
<1>10. /\ stopped' \in BOOLEAN /\ mask' \in 0 .. 7 /\ resets' \in 0 .. MaxResets
       /\ Reachable'
  <2>1. 4 \in 0 .. 7 /\ 6 \in 0 .. 7
    OBVIOUS
  <2> QED BY Zenon, <1>1, <2>1 DEF IInv, Reachable
<1>11. /\ \A k \in s.mfp.isr \ mfp.isr : \A t \in mfp.isr : t < k
       /\ resets' = 0 => resets = 0 /\ (mfp.cStart => s.mfp.cStart)
       /\ TIMERC \in s.mfp.ipr => TIMERC \in mfp.ipr
       /\ TIMERD \in s.mfp.ipr => TIMERD \in mfp.ipr
  <2> HIDE DEF s, m, ch
  <2>1. /\ Idled.mfp.isr = mfp.isr /\ Idled.mfp.cStart = mfp.cStart
        /\ TIMERC \in Idled.mfp.ipr => TIMERC \in mfp.ipr
        /\ TIMERD \in Idled.mfp.ipr => TIMERD \in mfp.ipr
    BY Zenon, <1>1, IdledFacts
  <2> QED BY Zenon, <1>1, <1>3, <1>5, <1>6, <2>1
<1> HIDE DEF s, m, ch
<1> QED BY Zenon, <1>9, <1>10, <1>11, AdvancedResult

LEMMA AcceptVBLResult == ASSUME IInv, AcceptVBL PROVE Result
<1> DEFINE s == [Idled EXCEPT !.pending = FALSE]
<1>1. /\ ~IdleFails /\ TakesVBL /\ ~EntryFails
      /\ mask' = 4 /\ stopped' = FALSE /\ failing' = {} /\ resets' = resets
      /\ \E c \in AcceptClocks : Advance(s, Idled.clocks + c, FALSE)
  BY Zenon DEF AcceptVBL
<1>2. PICK c \in AcceptClocks : Advance(s, Idled.clocks + c, FALSE)
  BY Zenon, <1>1
<1>3. /\ Moment(Idled) /\ Idled.clocks \in Nat
      /\ Idled.mfp.isr = mfp.isr /\ Idled.mfp.cStart = mfp.cStart
      /\ TIMERC \in Idled.mfp.ipr => TIMERC \in mfp.ipr
      /\ TIMERD \in Idled.mfp.ipr => TIMERD \in mfp.ipr
  BY Zenon, <1>1, IdledFacts
<1>4. /\ s.mfp = Idled.mfp /\ s.link = Idled.link /\ s.toVBL = Idled.toVBL /\ s.pending = FALSE
  <2>1. DOMAIN Idled = {"clocks", "mfp", "link", "toVBL", "pending"}
    BY DEF Idled, Now
  <2> QED BY <2>1
<1> HIDE DEF s
<1>5. Moment(s)
  BY Zenon, <1>3, <1>4 DEF Moment
<1>6. s.toVBL - (Idled.clocks + c) <= Frame /\ Idled.clocks + c \in Nat
  <2>1. c \in Nat
    BY ClockAssumption
  <2>2. Idled.toVBL - (Idled.clocks + c) <= Frame
    BY Zenon, <1>1, <2>1, AwakeWhenTaken
  <2> QED BY <1>3, <1>4, <2>1, <2>2
<1>7. Advanced(s)
  BY Zenon, <1>2, <1>5, <1>6, AdvanceKeeps
<1>8. /\ stopped' \in BOOLEAN /\ mask' \in 0 .. 7 /\ resets' \in 0 .. MaxResets
      /\ Reachable'
  <2>1. 4 \in 0 .. 7 /\ 6 \in 0 .. 7
    OBVIOUS
  <2> QED BY Zenon, <1>1, <2>1 DEF IInv, Reachable
<1> QED BY Zenon, <1>1, <1>3, <1>4, <1>7, <1>8, AdvancedResult

(* The stop and the latch of a processor that nothing wakes are the same   *)
(* before and after.                                                       *)
LEMMA SleepsOn ==
  ASSUME mfp' = mfp, stopped' = stopped, mask' = mask, failing' = failing,
         vblPending' = vblPending
  PROVE  Asleep => Asleep'
<1>1. (Requests(mfp))' = Requests(mfp) /\ (HighestRequest(mfp))' = HighestRequest(mfp)
  BY Zenon DEF Requests, Serviceable, HighestRequest
<1> QED BY Zenon, <1>1 DEF Asleep, Blocked, Quiet

(* What idling leaves to a processor that takes no interrupt, or cannot    *)
(* enter the one it takes, keeps it asleep.                                *)
LEMMA FallsAsleep ==
  ASSUME IInv, stopped, OnlyIdles, Idled.pending, EntryFails \/ (~TakesMFP /\ ~TakesVBL)
  PROVE  Asleep'
<1>1. /\ mfp' = Idled.mfp /\ vblPending' = Idled.pending
      /\ stopped' = stopped /\ mask' = mask /\ failing' = failing
  BY Zenon DEF OnlyIdles, cpuVars
<1>2. /\ (Requests(mfp))' = Requests(Idled.mfp)
      /\ (HighestRequest(mfp))' = HighestRequest(Idled.mfp)
  BY Zenon, <1>1 DEF Requests, Serviceable, HighestRequest
<1>3. mask \in 0 .. 7
  BY Zenon DEF IInv
<1>4. Quiet' <=> ~TakesMFP
  BY <1>1, <1>2, <1>3 DEF Quiet, TakesMFP, Accepts
<1>5. TakesVBL <=> ~TakesMFP /\ ~(mask >= 4)
  BY <1>3 DEF TakesVBL, Accepts
<1>6. Blocked'
  <2>1. CASE TakesMFP
    BY Zenon, <2>1, <1>1, <1>2, <1>4 DEF EntryFails, TakesVBL, Blocked
  <2>2. CASE ~TakesMFP
    BY Zenon, <2>2, <1>1, <1>4, <1>5 DEF EntryFails, Blocked
  <2> QED BY Zenon, <2>1, <2>2
<1> QED BY Zenon, <1>1, <1>6 DEF Asleep

(* An entry fails while the processor is stopped. *)
LEMMA FailsOnlyStopped == ASSUME IInv, EntryFails PROVE stopped
  BY Zenon DEF IInv, Reachable, EntryFails

(* Only idling happens; a latched VBL stays asleep. *)
LEMMA OnlyIdlesResult == ASSUME IInv, StayStopped \/ AcceptFails PROVE Result
<1>1. /\ ~IdleFails /\ stopped /\ OnlyIdles /\ (EntryFails \/ (~TakesMFP /\ ~TakesVBL))
      /\ mfp' = Idled.mfp /\ link' = Idled.link
      /\ toVBL' = Idled.toVBL /\ vblPending' = Idled.pending
      /\ stopped' = stopped /\ mask' = mask /\ failing' = failing
      /\ timerC' = timerC /\ timerD' = timerD /\ resets' = resets
  BY Zenon, FailsOnlyStopped DEF StayStopped, AcceptFails, OnlyIdles, cpuVars
<1>2. /\ Moment(Idled)
      /\ Idled.mfp.isr = mfp.isr /\ Idled.mfp.cStart = mfp.cStart
      /\ TIMERC \in Idled.mfp.ipr => TIMERC \in mfp.ipr
      /\ TIMERD \in Idled.mfp.ipr => TIMERD \in mfp.ipr
  BY Zenon, <1>1, IdledFacts
<1>3. Nests /\ Pends
  BY Zenon, <1>1, <1>2 DEF Nests, Pends
<1>4. timerD'.run => mfp'.d = 2
  <2>1. Idled.mfp.d = mfp.d
    BY Zenon DEF Idled, Now, Pend, IInv, Good, MfpType
  <2> QED BY Zenon, <1>1, <2>1 DEF IInv
<1>5. Clocks' /\ Uplink'
  <2>1. CASE ~Idles
    <3>1. mfp' = mfp /\ link' = link /\ toVBL' = toVBL /\ vblPending' = vblPending
      BY Zenon, <1>1, <2>1, IdledFacts, NowIsAMoment
    <3>2. Clocks /\ Uplink
      BY Zenon DEF IInv
    <3>3. Asleep => Asleep'
      <4>1. /\ mfp' = mfp /\ vblPending' = vblPending /\ stopped' = stopped
            /\ mask' = mask /\ failing' = failing
        BY Zenon, <1>1, <3>1
      <4> QED BY Zenon, <4>1, SleepsOn
    <3>4. Clocks'
      BY Zenon, <1>1, <3>1, <3>2, <3>3 DEF Clocks
    <3> QED BY Zenon, <1>1, <3>1, <3>2, <3>4 DEF Uplink, OverdueOnlyBehindRdrf, UplinkDue
  <2>2. CASE Idles
    <3>1. /\ Idled.toVBL = toVBL \/ (Idled.toVBL = toVBL + Frame /\ Idled.pending)
          /\ Idled.link = link \/ Idled.link.to > 0
      BY Zenon, <1>1, <2>2, IdledFacts
    <3>2. toVBL \in Int /\ toVBL > 0 /\ toVBL <= Frame /\ Frame \in Nat /\ Late \in Nat
      <4>1. ~Asleep
        BY Zenon, <2>2 DEF Idles, Asleep
      <4> QED BY Zenon, <4>1, <2>2, ClockAssumption, LimitAssumption DEF Idles, IInv, Clocks
    <3>3. Idled.pending => Asleep'
      BY Zenon, <1>1, FallsAsleep
    <3>4. toVBL' >= -Late /\ toVBL' <= Frame + Frame /\ (toVBL' <= Frame \/ Asleep')
      BY <1>1, <3>1, <3>2, <3>3
    <3>5. Clocks'
      BY Zenon, <1>1, <3>4 DEF Clocks, IInv
    <3>6. Uplink'
      <4>1. CASE link' = link
        BY Zenon, <4>1 DEF IInv, Uplink, OverdueOnlyBehindRdrf, UplinkDue
      <4>2. CASE link'.to > 0
        <5>1. link'.to \in Int
          BY Zenon, <1>1, <1>2 DEF Moment, Links
        <5> QED BY <4>2, <5>1, <3>2 DEF Uplink, OverdueOnlyBehindRdrf
      <4> QED BY Zenon, <1>1, <3>1, <4>1, <4>2
    <3> QED BY Zenon, <3>5, <3>6
  <2> QED BY Zenon, <2>1, <2>2
<1>6. IInv'
  BY Zenon, <1>1, <1>2, <1>4, <1>5 DEF IInv, Moment, Reachable
<1> QED BY Zenon, <1>3, <1>6 DEF Result

(* An instruction, in the terms of what it makes of the state. *)
LEMMA ExecutesResult ==
  ASSUME IInv, NEW s, Moment(s), Executes(s), s.toVBL = toVBL,
         stopped' \in BOOLEAN, mask' \in 0 .. 7, resets' \in 0 .. MaxResets, Reachable',
         resets' = 0 => resets = 0 /\ (mfp.cStart => s.mfp.cStart),
         s.mfp.isr \subseteq mfp.isr, s.mfp.ipr \subseteq mfp.ipr
  PROVE  Result
<1>1. PICK c \in InstrClocks : Advance(s, c, TRUE)
  BY Zenon DEF Executes
<1>2. c \in Nat
  BY Zenon, ClockAssumption
<1>3. s.toVBL - c <= Frame
  <2>1. ~Asleep
    BY Zenon DEF Executes, Asleep
  <2>2. toVBL \in Int /\ toVBL <= Frame /\ Frame \in Nat
    BY Zenon, <2>1, ClockAssumption DEF IInv, Clocks
  <2> QED BY <1>2, <2>2
<1>4. Advanced(s)
  BY Zenon, <1>1, <1>2, <1>3, AdvanceKeeps
<1> QED BY Zenon, <1>4, AdvancedResult

LEMMA WriteResult == ASSUME IInv, Write PROVE Result
<1>1. PICK m \in Written(mfp) : Executes([Now EXCEPT !.mfp = m])
  BY Zenon DEF Write
<1>2. stopped' = stopped /\ mask' = mask /\ failing' = failing /\ resets' = resets
  BY Zenon DEF Write, cpuVars
<1>3. Follows(mfp, m)
  BY Zenon, WrittenFollows DEF IInv
<1> DEFINE s == [Now EXCEPT !.mfp = m]
<1>4. /\ s.mfp = m /\ s.link = link /\ s.toVBL = toVBL /\ s.pending = vblPending
  BY Zenon DEF Now
<1> HIDE DEF s
<1>5. Moment(s)
  BY Zenon, <1>3, <1>4 DEF Moment, IInv, Follows
<1>6. Executes(s)
  BY Zenon, <1>1 DEF s
<1>7. /\ resets' = 0 => resets = 0 /\ (mfp.cStart => s.mfp.cStart)
      /\ s.mfp.isr \subseteq mfp.isr /\ s.mfp.ipr \subseteq mfp.ipr
  BY Zenon, <1>2, <1>3, <1>4 DEF Follows
<1>8. stopped' \in BOOLEAN /\ mask' \in 0 .. 7 /\ resets' \in 0 .. MaxResets /\ Reachable'
  BY Zenon, <1>2 DEF IInv, Reachable
<1> QED BY Zenon, <1>4, <1>5, <1>6, <1>7, <1>8, ExecutesResult

LEMMA ReadDataResult == ASSUME IInv, ReadData PROVE Result
<1> DEFINE s == [Now EXCEPT !.link.rdrf = FALSE]
<1>1. /\ Executes(s) /\ stopped' = stopped /\ mask' = mask /\ failing' = failing
      /\ resets' = resets
  BY Zenon DEF ReadData, cpuVars
<1>2. /\ s.mfp = mfp /\ s.link = [link EXCEPT !.rdrf = FALSE]
      /\ s.toVBL = toVBL /\ s.pending = vblPending
  BY Zenon DEF Now
<1> HIDE DEF s
<1>3. [link EXCEPT !.rdrf = FALSE] \in Links
  BY Zenon DEF IInv, Links
<1>4. Moment(s)
  BY Zenon, <1>2, <1>3 DEF Moment, IInv
<1>5. /\ stopped' \in BOOLEAN /\ mask' \in 0 .. 7 /\ resets' \in 0 .. MaxResets /\ Reachable'
      /\ resets' = 0 => resets = 0 /\ (mfp.cStart => s.mfp.cStart)
      /\ s.mfp.isr \subseteq mfp.isr /\ s.mfp.ipr \subseteq mfp.ipr
  BY Zenon, <1>1, <1>2 DEF IInv, Reachable
<1> QED BY Zenon, <1>1, <1>2, <1>4, <1>5, ExecutesResult

(* A new mask, with or without a STOP, changes nothing else. *)
LEMMA SetMaskResult == ASSUME IInv, SetMask \/ Stop PROVE Result
<1>1. /\ Executes(Now) /\ mask' \in Masks /\ resets' = resets
      /\ \/ stopped' = stopped /\ failing' = failing
         \/ stopped' = TRUE /\ failing' \in FailingSets
  BY Zenon DEF SetMask, Stop
<1>2. /\ stopped' \in BOOLEAN /\ mask' \in 0 .. 7 /\ resets' \in 0 .. MaxResets /\ Reachable'
  <2>1. Reachable'
    BY <1>1 DEF IInv, Reachable
  <2>2. mask' \in 0 .. 7
    BY Zenon, <1>1, MaskAssumption
  <2> QED BY Zenon, <1>1, <2>1, <2>2 DEF IInv
<1>3. /\ Moment(Now) /\ Now.toVBL = toVBL /\ Now.mfp = mfp
  BY Zenon, NowIsAMoment
<1>4. /\ resets' = 0 => resets = 0 /\ (mfp.cStart => Now.mfp.cStart)
      /\ Now.mfp.isr \subseteq mfp.isr /\ Now.mfp.ipr \subseteq mfp.ipr
  BY Zenon, <1>1, <1>3
<1> QED BY Zenon, <1>1, <1>2, <1>3, <1>4, ExecutesResult

LEMMA ResetDevicesResult == ASSUME IInv, ResetDevices PROVE Result
<1> DEFINE l == [link EXCEPT !.count = 0, !.rdrf = FALSE]
           s == [Now EXCEPT !.mfp = MfpReset, !.link = [@ EXCEPT !.count = 0, !.rdrf = FALSE]]
<1>1. /\ Executes(s) /\ stopped' = stopped /\ mask' = mask /\ failing' = failing
      /\ resets' = resets + 1 /\ resets < MaxResets
  BY Zenon DEF ResetDevices, cpuVars
<1>2. /\ s.mfp = MfpReset /\ s.link = l /\ s.toVBL = toVBL /\ s.pending = vblPending
  BY Zenon DEF Now
<1> HIDE DEF s
<1>3. l \in Links
  <2>1. 0 \in 0 .. Capacity
    BY LimitAssumption
  <2> QED BY Zenon, <2>1 DEF IInv, Links
<1>4. Moment(s)
  <2> HIDE DEF l
  <2> QED BY Zenon, <1>2, <1>3, ResetIsGood DEF Moment, IInv
<1>5. /\ resets' \in 0 .. MaxResets /\ resets' # 0
  BY <1>1, LimitAssumption DEF IInv
<1>6. /\ stopped' \in BOOLEAN /\ mask' \in 0 .. 7 /\ Reachable'
      /\ s.mfp.isr \subseteq mfp.isr /\ s.mfp.ipr \subseteq mfp.ipr
  BY Zenon, <1>1, <1>2, ResetIsGood DEF IInv, Reachable
<1> QED BY Zenon, <1>1, <1>2, <1>4, <1>5, <1>6, ExecutesResult

(* The front end arms a deadline that was not armed, a byte time away. *)
LEMMA QueueKeyResult == ASSUME IInv, QueueKey PROVE Result
<1>1. /\ mfp' = mfp /\ stopped' = stopped /\ mask' = mask /\ failing' = failing
      /\ vblPending' = vblPending /\ toVBL' = toVBL
      /\ timerC' = timerC /\ timerD' = timerD /\ resets' = resets
      /\ link.count < Capacity
      /\ link' = [link EXCEPT !.count = @ + 1, !.armed = TRUE,
                              !.to = IF link.armed THEN @ ELSE ByteTime]
  BY Zenon DEF QueueKey, cpuVars, vblVars
<1> DEFINE n == link.count + 1
           t == IF link.armed THEN link.to ELSE ByteTime
<1>2. /\ link.count \in 0 .. Capacity /\ link.armed \in BOOLEAN /\ link.to \in Int
      /\ link.rdrf \in BOOLEAN
  BY Zenon DEF IInv, Links
<1>3. n \in 0 .. Capacity /\ t \in Int
  BY <1>1, <1>2, ClockAssumption, LimitAssumption
<1>4. link' = [link EXCEPT !.count = n, !.armed = TRUE, !.to = t]
  BY Zenon, <1>1
<1>5. /\ link' \in Links
      /\ link'.count = n /\ link'.to = t /\ link'.rdrf = link.rdrf
  <2> HIDE DEF n, t
  <2> QED BY Zenon, <1>3, <1>4 DEF IInv, Links
<1>6. Uplink'
  <2>1. /\ link.to >= -Late
        /\ link.armed /\ link.count > 0 /\ link.to <= 0 => link.rdrf
        /\ link.armed /\ link.count = 0 => link.to > 0
    BY Zenon DEF IInv, Uplink, OverdueOnlyBehindRdrf, UplinkDue
  <2>2. link'.to >= -Late /\ link'.count # 0 /\ (link'.to <= 0 => link'.rdrf)
    BY <1>2, <1>5, <2>1, ClockAssumption, LimitAssumption
  <2> QED BY Zenon, <2>2 DEF Uplink, OverdueOnlyBehindRdrf
<1>7. Clocks'
  BY Zenon, <1>1, SleepsOn DEF IInv, Clocks
<1>8. IInv'
  BY Zenon, <1>1, <1>5, <1>6, <1>7 DEF IInv, Reachable
<1> QED BY Zenon, <1>1, <1>8 DEF Result, Nests, Pends

(* Both the initial state and Machine.Reset. *)
Fresh ==
  /\ mfp = MfpReset /\ stopped = FALSE /\ mask = 7 /\ failing = {}
  /\ vblPending = FALSE /\ toVBL = Frame
  /\ timerC = [run |-> FALSE, to |-> 0, own |-> TRUE]
  /\ timerD = [run |-> FALSE, to |-> 0]
  /\ link = EmptyLink /\ resets \in 0 .. MaxResets

LEMMA FreshIsFine == Fresh => IInv
<1> SUFFICES ASSUME Fresh PROVE IInv
  OBVIOUS
<1> USE DEF Fresh
<1>1. /\ timerC \in [run : BOOLEAN, to : Int, own : BOOLEAN] /\ ~timerC.run /\ timerC.to = 0
      /\ timerD \in [run : BOOLEAN, to : Int] /\ ~timerD.run /\ timerD.to = 0
  OBVIOUS
<1>2. link \in Links /\ link.to = 0 /\ link.count = 0 /\ ~link.armed
  BY LimitAssumption DEF EmptyLink, Links
<1>3. toVBL \in Int /\ mask \in 0 .. 7
  BY ClockAssumption
<1>4. Clocks
  BY <1>1, ClockAssumption, LimitAssumption DEF Clocks
<1>5. Uplink
  BY <1>2, LimitAssumption DEF Uplink, OverdueOnlyBehindRdrf, UplinkDue
<1> QED BY Zenon, <1>1, <1>2, <1>3, <1>4, <1>5, ResetIsGood DEF IInv, Reachable

LEMMA ResetResult == ASSUME IInv, Reset PROVE Result
<1>1. IInv'
  <2>1. /\ mfp' = MfpReset /\ stopped' = FALSE /\ mask' = 7 /\ failing' = {}
        /\ vblPending' = FALSE
        /\ toVBL' = Frame /\ timerC' = [run |-> FALSE, to |-> 0, own |-> TRUE]
        /\ timerD' = [run |-> FALSE, to |-> 0] /\ link' = EmptyLink
        /\ resets' \in 0 .. MaxResets
    BY Zenon DEF Reset, IInv
  <2>2. Fresh' => IInv'
    BY FreshIsFine, PTL
  <2> QED BY Zenon, <2>1, <2>2 DEF Fresh
<1> QED BY Zenon, <1>1, ResetIsGood DEF Reset, Result, Nests, Pends

LEMMA StepResult == ASSUME IInv, Next PROVE Result
  BY Zenon, AcceptMFPResult, AcceptVBLResult, OnlyIdlesResult, WriteResult, ReadDataResult,
     SetMaskResult, ResetDevicesResult, QueueKeyResult, ResetResult DEF Next, Step

(* Without a step nothing becomes pending or goes into service. *)
LEMMA StutterResult == ASSUME IInv, UNCHANGED vars PROVE Result
<1>1. /\ mfp' = mfp /\ stopped' = stopped /\ mask' = mask /\ failing' = failing
      /\ vblPending' = vblPending /\ toVBL' = toVBL
      /\ timerC' = timerC /\ timerD' = timerD /\ link' = link /\ resets' = resets
  BY Zenon DEF vars, cpuVars, vblVars
<1>2. Clocks' /\ Uplink'
  BY Zenon, <1>1, SleepsOn DEF IInv, Clocks, Uplink, OverdueOnlyBehindRdrf, UplinkDue
<1>3. IInv'
  BY Zenon, <1>1, <1>2 DEF IInv, Reachable
<1> QED BY Zenon, <1>1, <1>3 DEF Result, Nests, Pends

-----------------------------------------------------------------------------
(* The theorems. *)

(* The invariant holds from the start and survives every step. *)
THEOREM Invariant == Spec => []IInv
<1>1. Init => IInv
  <2>1. 0 \in 0 .. MaxResets
    BY LimitAssumption
  <2> QED BY Zenon, <2>1, FreshIsFine DEF Init, Fresh
<1>2. IInv /\ [Next]_vars => IInv'
  BY Zenon, StepResult, StutterResult DEF Result
<1> QED BY <1>1, <1>2, PTL DEF Spec

(* Registers, deadlines and the queue keep their ranges, for every frame   *)
(* length, byte time, period and duration.                                 *)
THEOREM TypeCorrect == Spec => []TypeOK
<1>1. IInv => TypeOK
  <2> SUFFICES ASSUME IInv PROVE TypeOK
    OBVIOUS
  <2>1. /\ mfp.ier \in SUBSET Channels /\ mfp.ipr \in SUBSET Channels
        /\ mfp.isr \in SUBSET Channels /\ mfp.imr \in SUBSET Channels
    BY Zenon DEF IInv, Good, MfpType
  <2>2. toVBL \in -Late .. 2 * Frame
    BY ClockAssumption, LimitAssumption DEF IInv, Clocks
  <2>3. /\ stopped \in BOOLEAN /\ mask \in 0 .. 7 /\ vblPending \in BOOLEAN
        /\ failing \in FailingSets \cup {{}} /\ (failing = {} \/ stopped)
        /\ resets \in 0 .. MaxResets /\ timerC.run \in BOOLEAN /\ timerD.run \in BOOLEAN
        /\ timerC.to \in IF timerC.run THEN 1 .. 2 * PeriodC ELSE {0}
        /\ timerD.to \in IF timerD.run THEN 1 .. PeriodD ELSE {0}
    BY Zenon DEF IInv, Clocks, Reachable
  <2>4. /\ link.count \in 0 .. Capacity /\ link.armed \in BOOLEAN
        /\ link.to \in Int /\ link.to >= -Late /\ link.rdrf \in BOOLEAN
    BY Zenon DEF IInv, Uplink, Links
  <2> QED BY Zenon, <2>1, <2>2, <2>3, <2>4 DEF TypeOK
<1> QED BY <1>1, Invariant, PTL

(* An uplink byte whose time has passed waits for RDRF and nothing else,   *)
(* so the idle time that Step subtracts never wraps.                       *)
THEOREM NoWrap == Spec => []OverdueOnlyBehindRdrf
<1>1. IInv => OverdueOnlyBehindRdrf
  BY Zenon DEF IInv, Uplink
<1> QED BY <1>1, Invariant, PTL

(* After its stop sequence Timer D is neither enabled, pending nor in      *)
(* service.                                                                *)
THEOREM StaysQuiet == Spec => []TimerDIsQuiet
<1>1. IInv => TimerDIsQuiet
  BY DEF IInv, Good, Boot, Leaves, MfpType, TimerDIsQuiet
<1> QED BY <1>1, Invariant, PTL

(* Stage counters, enables and timers tell one story. *)
THEOREM StagesAgree == Spec => []BootStagesAgree
<1>1. IInv => BootStagesAgree
  BY Zenon DEF IInv, Good, Boot, BootStagesAgree
<1> QED BY <1>1, Invariant, PTL

(* A channel goes into service only over lower ones. *)
THEOREM NestsUpwards == Spec => ServiceNestsUpwards
<1>1. IInv /\ [Next]_vars => [\A ch \in mfp'.isr \ mfp.isr : \A s \in mfp.isr : s < ch]_vars
  BY Zenon, StepResult DEF Result, Nests
<1> QED BY <1>1, Invariant, PTL DEF Spec, ServiceNestsUpwards

(* A timer becomes pending only while it is on. *)
THEOREM PendOnlyWhileOn == Spec => TimersPendOnlyWhileOn
<1>1. IInv /\ [Next]_vars =>
        [/\ TIMERC \in mfp'.ipr \ mfp.ipr => mfp'.cStart \/ resets' > 0
         /\ TIMERD \in mfp'.ipr \ mfp.ipr => mfp'.dStart]_vars
  BY Zenon, StepResult DEF Result, Pends
<1> QED BY <1>1, Invariant, PTL DEF Spec, TimersPendOnlyWhileOn

=============================================================================
