---------------------------- MODULE Floppy_proof ----------------------------
(***************************************************************************)
(* Proofs about the floppy scripts of Floppy, for every number of ACSI     *)
(* targets.                                                                *)
(***************************************************************************)
EXTENDS Floppy, TLAPS

(* The address bytes a media check has had, by the phase it is in. *)
BytesCounted ==
  /\ media.phase \in {"SectorSelector", "SectorData", "TrackSelector", "DriveSelector",
                      "DriveRead", "DriveWrite", "AddressLow"} => media.bytes = 0
  /\ media.phase = "AddressMiddle" => media.bytes = 1
  /\ media.phase = "AddressHigh" => media.bytes = 2

(* Passes and checks begin when the probes and the drive selects are over. *)
PassesComeLast ==
  media.phase # "Idle" \/ vbl.stage # 0 => fdc.init = 14 /\ psg.stage = 9

(* No pass begins within a check, and a check begins when the pass is over. *)
ChecksAreAlone == media.phase # "Idle" => vbl.stage = 8

(* What a pass has in hand: the port it found, until it is put back. *)
PortRemembered ==
  /\ vbl.stage = 1 => psg.porta = before /\ before \in EntryPorts
  /\ vbl.stage \in 2 .. 7 => vbl.entry = before

(* The scan has tried the targets up to the present one. *)
ScanCounts ==
  /\ acsi.stage = 0 => acsi.target = -1 /\ acsi.attempts = {}
  /\ acsi.stage = 1 => acsi.target >= 0 /\ acsi.attempts = 0 .. acsi.target - 1
  /\ acsi.stage \in 2 .. 5 => acsi.target >= 0 /\ acsi.attempts = 0 .. acsi.target
  /\ acsi.stage = 5 => acsi.target = LastTarget

TInv == TypeOK /\ BytesCounted

------------------------------------------------------------------------------
(* The links of the script of the mode, and of the FDC registers, one by one. *)
ModeChain ==
  { <<"SectorSelector", "SectorData">>, <<"DMAResetRead", "DMAResetWrite">>,
    <<"DMAResetWrite", "Count">>, <<"CommandSelector", "ReadBusy">>,
    <<"TimeoutSelector", "ForceInterrupt">>, <<"SeekDataSelector", "SeekData">>,
    <<"SeekCommandSelector", "SeekBusy">>, <<"SeekIRQ", "StatusRead">> }

DataChain ==
  { <<"TrackSelector", "DriveSelector">>, <<"SectorData", "AddressLow">>,
    <<"Count", "CommandSelector">>, <<"ReadBusy", "TimeoutSelector">>,
    <<"ForceInterrupt", "SeekDataSelector">>, <<"SeekData", "SeekCommandSelector">>,
    <<"SeekBusy", "SeekBusy">> }

LEMMA ModeLinks ==
  ASSUME NEW p \in DOMAIN MediaModeSteps
  PROVE  <<p, MediaModeSteps[p][3]>> \in ModeChain
  BY DEF MediaModeSteps, ModeChain

LEMMA DataLinks ==
  ASSUME NEW p \in DOMAIN MediaDataSteps
  PROVE  <<p, MediaDataSteps[p][3]>> \in DataChain
  BY DEF MediaDataSteps, DataChain

(* The same links with the mode each one sets, or the mode each one waits for. *)
ModeScript ==
  { <<"SectorSelector", "sector", "SectorData">>, <<"DMAResetRead", "toggle", "DMAResetWrite">>,
    <<"DMAResetWrite", "count", "Count">>, <<"CommandSelector", "command", "ReadBusy">>,
    <<"TimeoutSelector", "command", "ForceInterrupt">>,
    <<"SeekDataSelector", "data", "SeekData">>,
    <<"SeekCommandSelector", "command", "SeekBusy">>, <<"SeekIRQ", "command", "StatusRead">> }

LEMMA ModeScripts ==
  ASSUME NEW p \in DOMAIN MediaModeSteps
  PROVE  <<p, MediaModeSteps[p][2], MediaModeSteps[p][3]>> \in ModeScript
  BY DEF MediaModeSteps, ModeScript

LEMMA PhaseNames ==
  Phases = {"Idle", "DriveSelector", "DriveRead", "DriveWrite", "AddressLow", "AddressMiddle",
            "AddressHigh", "StatusRead", "SectorSelector", "DMAResetRead", "DMAResetWrite",
            "CommandSelector", "TimeoutSelector", "SeekDataSelector", "SeekCommandSelector",
            "SeekIRQ", "TrackSelector", "SectorData", "Count", "ReadBusy", "ForceInterrupt",
            "SeekData", "SeekBusy"}
  BY DEF Phases, MediaModeSteps, MediaDataSteps

------------------------------------------------------------------------------

LEMMA PortMembers ==
  /\ SOUND \in Registers /\ MIXER \in Registers /\ PORTA \in Registers
  /\ 0 \in PortValues /\ 3 \in PortValues /\ 5 \in PortValues /\ 7 \in PortValues
  /\ DRIVE0 \in PortValues /\ DRIVE1 \in PortValues /\ NODRIVE \in PortValues
  /\ EntryPorts \subseteq PortValues /\ 0 \in DriveStages
  BY DEF Registers, PortValues, EntryPorts, DRIVE0, DRIVE1, NODRIVE, DriveStages

LEMMA VblMembers == \A i \in 0 .. 8 : i \in VblStages
  BY DEF VblStages

LEMMA CheckMembers == 0 \in Triples /\ 1 \in Triples /\ 2 \in Triples /\ 3 \in Triples
  BY DEF Triples

LEMMA DmaMembers ==
  /\ "command" \in Modes /\ "track" \in Modes /\ "sector" \in Modes /\ "acsi" \in Modes
  /\ "acsiData" \in Modes /\ "count" \in Modes /\ "toggle" \in Modes
  /\ 0 \in Triples /\ 1 \in Triples /\ 2 \in Triples /\ 3 \in Triples
  BY DEF Modes, Triples

LEMMA AcsiMembers ==
  0 \in AcsiStages /\ 1 \in AcsiStages /\ 2 \in AcsiStages
    /\ 3 \in AcsiStages /\ 4 \in AcsiStages /\ 5 \in AcsiStages
  BY DEF AcsiStages

LEMMA FdcMembers ==
  /\ 0 \in FdcCommands /\ RESTORE \in FdcCommands /\ SEEK \in FdcCommands
  /\ READ \in FdcCommands /\ FORCE \in FdcCommands
  /\ 0 \in FdcStatuses /\ 128 \in FdcStatuses /\ 129 \in FdcStatuses
  /\ 132 \in FdcStatuses /\ 228 \in FdcStatuses /\ 229 \in FdcStatuses
  /\ 0 \in InitStages /\ 1 \in InitStages /\ 5 \in InitStages /\ 12 \in InitStages
  BY DEF FdcCommands, FdcStatuses, InitStages

(* What the FDC's commands and status reads leave is a state of the FDC. *)
LEMMA ClearedTyped == ASSUME fdc \in FdcType PROVE Cleared \in FdcType
<1>1. 228 \in FdcStatuses
  BY FdcMembers
<1> QED
  BY ZenonT(60), <1>1 DEF Cleared, FdcType

LEMMA IssuedTyped ==
  ASSUME fdc \in FdcType, NEW c \in FdcCommands, NEW s \in FdcStatuses, NEW t \in BOOLEAN
  PROVE  Issued(c, s, t) \in FdcType
  BY DEF Issued, FdcType

LEMMA PendingTyped ==
  ASSUME NEW f \in FdcType
  PROVE  [f EXCEPT !.restore = TRUE] \in FdcType /\ [f EXCEPT !.seek = TRUE] \in FdcType
  BY DEF FdcType

LEMMA TypeIBoolean == fdc \in FdcType => fdc.typeI \in BOOLEAN
  BY DEF FdcType

(* A step keeps the types, and the count of the address bytes. *)
LEMMA TypeStep == TInv /\ [Next]_vars => TInv'
<1> SUFFICES ASSUME TInv, [Next]_vars
             PROVE  TInv'
  OBVIOUS
<1>1. psg \in PsgType /\ vbl \in VblType /\ media \in MediaType /\ dma \in DmaType
        /\ acsi \in AcsiType /\ fdc \in FdcType /\ BytesCounted
  BY DEF TInv, TypeOK
<1>2. CASE SelectForMedia
  <2>1. PORTA \in Registers
    BY PortMembers
  <2>2. psg' \in PsgType
    BY <1>1, <1>2, <2>1 DEF SelectForMedia, PsgType
  <2>3. "DriveRead" \in Phases /\ 0 \in Triples
    BY PhaseNames, CheckMembers
  <2>4. media' \in MediaType
    BY <1>1, <1>2, <2>3 DEF SelectForMedia, MediaType
  <2>5. media.phase = "DriveSelector" /\ media'.phase = "DriveRead" /\ media'.bytes = media.bytes
    BY <1>1, <1>2 DEF SelectForMedia, MediaSelects, MediaType
  <2>6. BytesCounted'
    BY <1>1, <2>5 DEF BytesCounted
  <2> QED
    BY <1>2, <2>2, <2>4, <2>6 DEF TInv, TypeOK, SelectForMedia
<1>3. CASE StartVblPass
  <2>1. PORTA \in Registers
    BY PortMembers
  <2>2. psg' \in PsgType
    BY <1>1, <1>3, <2>1 DEF StartVblPass, PsgType
  <2>3. 1 \in VblStages
    BY VblMembers
  <2>4. vbl' \in VblType
    BY <1>1, <1>3, <2>3 DEF StartVblPass, VblType
  <2> QED
    BY <1>3, <2>2, <2>4 DEF TInv, TypeOK, StartVblPass, BytesCounted, VblMayStart
<1>4. CASE SelectForVblExit
  <2>1. PORTA \in Registers
    BY PortMembers
  <2>2. psg' \in PsgType
    BY <1>1, <1>4, <2>1 DEF SelectForVblExit, PsgType
  <2>3. 6 \in VblStages
    BY VblMembers
  <2>4. vbl' \in VblType
    BY <1>1, <1>4, <2>3 DEF SelectForVblExit, VblType
  <2> QED
    BY <1>4, <2>2, <2>4 DEF TInv, TypeOK, SelectForVblExit, BytesCounted
<1>5. CASE SelectForDrive
  <2>1. psg.stage + 1 \in DriveStages
    BY <1>5 DEF SelectForDrive, DriveReady, DriveStages
  <2>2. PORTA \in Registers
    BY PortMembers
  <2>3. psg' \in PsgType
    BY <1>1, <1>5, <2>1, <2>2 DEF SelectForDrive, PsgType
  <2> QED
    BY <1>5, <2>3 DEF TInv, TypeOK, SelectForDrive, BytesCounted
<1>6. CASE SelectOther
  <2>1. SOUND \in Registers /\ MIXER \in Registers /\ PORTA \in Registers
    BY PortMembers
  <2>2. psg' \in PsgType
    BY <1>1, <1>6, <2>1 DEF SelectOther, PsgType
  <2> QED
    BY <1>6, <2>2 DEF TInv, TypeOK, SelectOther, BytesCounted
<1>7. CASE ReadForDrive
  <2>1. psg.stage + 1 \in DriveStages
    BY <1>7 DEF ReadForDrive, DriveReady, DriveStages
  <2>2. psg' \in PsgType
    BY <1>1, <1>7, <2>1 DEF ReadForDrive, PsgType
  <2> QED
    BY <1>7, <2>2 DEF TInv, TypeOK, ReadForDrive, BytesCounted
<1>8. CASE ReadForMedia
  <2>1. "DriveWrite" \in Phases /\ 0 \in Triples
    BY PhaseNames, CheckMembers
  <2>2. media' \in MediaType
    BY <1>1, <1>8, <2>1 DEF ReadForMedia, MediaType
  <2>3. media.phase = "DriveRead" /\ media'.phase = "DriveWrite" /\ media'.bytes = media.bytes
    BY <1>1, <1>8 DEF ReadForMedia, MediaReads, MediaType
  <2>4. BytesCounted'
    BY <1>1, <2>3 DEF BytesCounted
  <2> QED
    BY <1>8, <2>2, <2>4 DEF TInv, TypeOK, ReadForMedia
<1>9. CASE ReadForVbl
  <2>1. 2 \in VblStages /\ 7 \in VblStages
    BY VblMembers
  <2>2. vbl' \in VblType
    BY <1>1, <1>9, <2>1 DEF ReadForVbl, VblType
  <2> QED
    BY <1>9, <2>2 DEF TInv, TypeOK, ReadForVbl, BytesCounted
<1>10. CASE WriteForMedia
  <2>1. DRIVE0 \in PortValues
    BY PortMembers
  <2>2. psg' \in PsgType
    BY <1>1, <1>10, <2>1 DEF WriteForMedia, PsgType
  <2>3. "SectorSelector" \in Phases /\ 0 \in Triples
    BY PhaseNames, CheckMembers
  <2>4. media' \in MediaType
    BY <1>1, <1>10, <2>3 DEF WriteForMedia, MediaType
  <2>5. media.phase = "DriveWrite" /\ media'.phase = "SectorSelector" /\ media'.bytes = media.bytes
    BY <1>1, <1>10 DEF WriteForMedia, MediaWrites, MediaType
  <2>6. BytesCounted'
    BY <1>1, <2>5 DEF BytesCounted
  <2> QED
    BY <1>10, <2>2, <2>4, <2>6 DEF TInv, TypeOK, WriteForMedia
<1>11. CASE Deselect
  <2>1. NODRIVE \in PortValues
    BY PortMembers
  <2>2. psg' \in PsgType
    BY <1>1, <1>11, <2>1 DEF Deselect, PsgType
  <2>3. 8 \in VblStages
    BY VblMembers
  <2>4. vbl' \in VblType
    BY <1>1, <1>11, <2>3 DEF Deselect, VblType
  <2> QED
    BY <1>11, <2>2, <2>4 DEF TInv, TypeOK, Deselect, BytesCounted
<1>12. CASE WriteForDrive
  <2>1. psg.stage + 1 \in DriveStages
    BY <1>12 DEF WriteForDrive, DriveReady, DriveStages
  <2>2. DriveTo(psg.stage) \in PortValues
    BY PortMembers DEF DriveTo
  <2>3. psg' \in PsgType
    BY <1>1, <1>12, <2>1, <2>2 DEF WriteForDrive, PsgType
  <2> QED
    BY <1>12, <2>3 DEF TInv, TypeOK, WriteForDrive, BytesCounted
<1>13. CASE InitPort
  <2>1. 7 \in PortValues
    BY PortMembers
  <2>2. psg' \in PsgType
    BY <1>1, <1>13, <2>1 DEF InitPort, PsgType
  <2> QED
    BY <1>13, <2>2 DEF TInv, TypeOK, InitPort, BytesCounted
<1>14. CASE StartFirstCheck
  <2>1. "TrackSelector" \in Phases /\ 0 \in Triples
    BY PhaseNames, CheckMembers
  <2>2. media' \in MediaType
    BY <1>1, <1>14, <2>1 DEF StartFirstCheck, MediaType
  <2>3. BytesCounted'
    BY <1>1, <1>14 DEF StartFirstCheck, MediaType, BytesCounted
  <2>4. "track" \in Modes
    BY DmaMembers
  <2>5. dma' \in DmaType
    BY <1>1, <1>14, <2>4 DEF StartFirstCheck, DmaType
  <2> QED
    BY <1>14, <2>2, <2>3, <2>5 DEF TInv, TypeOK, StartFirstCheck
<1>15. CASE BorrowPass
  <2>1. 8 \in VblStages
    BY VblMembers
  <2>2. vbl' \in VblType
    BY <1>1, <1>15, <2>1 DEF BorrowPass, VblType
  <2>3. "SectorData" \in Phases /\ 0 \in Triples
    BY PhaseNames, CheckMembers
  <2>4. media' \in MediaType
    BY <1>1, <1>15, <2>3 DEF BorrowPass, MediaType, BorrowedCheck, NoCheck
  <2>5. BytesCounted'
    BY <1>1, <1>15 DEF BorrowPass, MediaType, BorrowedCheck, NoCheck, BytesCounted
  <2>6. "sector" \in Modes
    BY DmaMembers
  <2>7. dma' \in DmaType
    BY <1>1, <1>15, <2>6 DEF BorrowPass, DmaType
  <2> QED
    BY <1>15, <2>2, <2>4, <2>5, <2>7 DEF TInv, TypeOK, BorrowPass
<1>16. CASE ReadStatusForMedia
  <2>1. "Idle" \in Phases /\ 0 \in Triples
    BY PhaseNames, CheckMembers
  <2>2. media' \in MediaType
    BY <1>1, <1>16, <2>1 DEF ReadStatusForMedia, MediaType, NoCheck
  <2>3. BytesCounted'
    BY <1>1, <1>16 DEF ReadStatusForMedia, MediaType, NoCheck, BytesCounted
  <2>4. Cleared \in FdcType
    BY <1>1, ClearedTyped
  <2>5. fdc' \in FdcType
    BY <1>16, <2>4 DEF ReadStatusForMedia
  <2> QED
    BY <1>16, <2>2, <2>3, <2>5 DEF TInv, TypeOK, ReadStatusForMedia
<1>17. CASE SelectStatusForVbl
  <2>1. 4 \in VblStages
    BY VblMembers
  <2>2. vbl' \in VblType
    BY <1>1, <1>17, <2>1 DEF SelectStatusForVbl, VblType
  <2>3. "command" \in Modes
    BY DmaMembers
  <2>4. dma' \in DmaType
    BY <1>1, <1>17, <2>3 DEF SelectStatusForVbl, DmaType
  <2> QED
    BY <1>17, <2>2, <2>4 DEF TInv, TypeOK, SelectStatusForVbl, BytesCounted
<1>18. CASE ReadStatusForVbl
  <2>1. 5 \in VblStages
    BY VblMembers
  <2>2. vbl' \in VblType
    BY <1>1, <1>18, <2>1 DEF ReadStatusForVbl, VblType
  <2>3. Cleared \in FdcType
    BY <1>1, ClearedTyped
  <2>4. fdc' \in FdcType
    BY <1>18, <2>3 DEF ReadStatusForVbl
  <2> QED
    BY <1>18, <2>2, <2>4 DEF TInv, TypeOK, ReadStatusForVbl, BytesCounted
<1>19. CASE ResetCounter
  <2>1. "toggle" \in Modes /\ "count" \in Modes /\ 1 \in Triples /\ 2 \in Triples /\ 3 \in Triples
    BY DmaMembers
  <2>2. dma' \in DmaType
    BY <1>1, <1>19, <2>1 DEF ResetCounter, DmaType
  <2> QED
    BY <1>19, <2>2 DEF TInv, TypeOK, ResetCounter, BytesCounted
<1>20. CASE SelectTarget
  <2>1. "acsi" \in Modes
    BY DmaMembers
  <2>2. dma' \in DmaType
    BY <1>1, <1>20, <2>1 DEF SelectTarget, DmaType
  <2>3. acsi.target + 1 \in Targets
    BY <1>1, <1>20, TargetAssumption DEF SelectTarget, Targets, AcsiType
  <2>4. 1 \in AcsiStages
    BY AcsiMembers
  <2>5. acsi' \in AcsiType
    BY <1>1, <1>20, <2>3, <2>4 DEF SelectTarget, AcsiType
  <2> QED
    BY <1>20, <2>2, <2>5 DEF TInv, TypeOK, SelectTarget, BytesCounted
<1>21. CASE CommandTarget
  <2>1. 2 \in AcsiStages /\ acsi.target \in Targets
    BY <1>21, AcsiMembers DEF CommandTarget, Targets
  <2>2. acsi' \in AcsiType
    BY <1>1, <1>21, <2>1 DEF CommandTarget, AcsiType
  <2> QED
    BY <1>21, <2>2 DEF TInv, TypeOK, CommandTarget, BytesCounted
<1>22. CASE AwaitTarget
  <2>1. "acsiData" \in Modes
    BY DmaMembers
  <2>2. dma' \in DmaType
    BY <1>1, <1>22, <2>1 DEF AwaitTarget, DmaType
  <2>3. 3 \in AcsiStages
    BY AcsiMembers
  <2>4. acsi' \in AcsiType
    BY <1>1, <1>22, <2>3 DEF AwaitTarget, AcsiType
  <2> QED
    BY <1>22, <2>2, <2>4 DEF TInv, TypeOK, AwaitTarget, BytesCounted
<1>23. CASE LeaveTarget
  <2>1. "command" \in Modes /\ 0 \in Triples
    BY DmaMembers
  <2>2. dma' \in DmaType
    BY <1>1, <1>23, <2>1 DEF LeaveTarget, DmaType
  <2>3. 4 \in AcsiStages /\ 5 \in AcsiStages
    BY AcsiMembers
  <2>4. acsi' \in AcsiType
    BY <1>1, <1>23, <2>3 DEF LeaveTarget, AcsiType
  <2> QED
    BY <1>23, <2>2, <2>4 DEF TInv, TypeOK, LeaveTarget, BytesCounted
<1>24. CASE StartProbe
  <2>1. "command" \in Modes
    BY DmaMembers
  <2>2. dma' \in DmaType
    BY <1>1, <1>24, <2>1 DEF StartProbe, DmaType
  <2>3. 1 \in InitStages
    BY FdcMembers
  <2>4. fdc' \in FdcType
    BY <1>1, <1>24, <2>3 DEF StartProbe, FdcType
  <2> QED
    BY <1>24, <2>2, <2>4 DEF TInv, TypeOK, StartProbe, BytesCounted
<1>25. CASE WriteModeForProbe
  <2>1. ProbeModeSteps[fdc.init][2] \in Modes
    BY <1>25 DEF WriteModeForProbe, ProbeModeSteps, Modes
  <2>2. dma' \in DmaType
    BY <1>1, <1>25, <2>1 DEF WriteModeForProbe, DmaType
  <2>3. fdc.init + 1 \in InitStages
    BY <1>25 DEF WriteModeForProbe, ProbeModeSteps, InitStages
  <2>4. fdc' \in FdcType
    BY <1>1, <1>25, <2>3 DEF WriteModeForProbe, FdcType
  <2> QED
    BY <1>25, <2>2, <2>4 DEF TInv, TypeOK, WriteModeForProbe, BytesCounted
<1>26. CASE WriteDataForProbe
  <2>1. /\ Issued(FORCE, 128, TRUE) \in FdcType
        /\ Issued(RESTORE, 129, TRUE) \in FdcType
        /\ Issued(SEEK, 229, TRUE) \in FdcType
    BY <1>1, FdcMembers, IssuedTyped
  <2>2. [Issued(RESTORE, 129, TRUE) EXCEPT !.restore = TRUE] \in FdcType
    BY <2>1, PendingTyped
  <2>3. [Issued(SEEK, 229, TRUE) EXCEPT !.seek = TRUE] \in FdcType
    BY <2>1, PendingTyped
  <2>4. fdc.init + 1 \in InitStages
    BY <1>26 DEF WriteDataForProbe, InitStages
  <2>5. \A f \in FdcType : [f EXCEPT !.init = fdc.init + 1] \in FdcType
    BY <2>4 DEF FdcType
  <2>6. ASSUME fdc.init = 1 PROVE fdc' \in FdcType
    <3>1. fdc' = [Issued(FORCE, 128, TRUE)
                    EXCEPT !.init = fdc.init + 1]
      BY <1>26, <2>6 DEF WriteDataForProbe
    <3>2. [Issued(FORCE, 128, TRUE)
            EXCEPT !.init = fdc.init + 1] \in FdcType
      BY <2>1, <2>5
    <3> QED
      BY <3>1, <3>2
  <2>7. ASSUME fdc.init = 3 PROVE fdc' \in FdcType
    <3>1. fdc' = [[Issued(RESTORE, 129, TRUE) EXCEPT !.restore = TRUE]
                    EXCEPT !.init = fdc.init + 1]
      BY <1>26, <2>7 DEF WriteDataForProbe
    <3>2. [[Issued(RESTORE, 129, TRUE) EXCEPT !.restore = TRUE]
            EXCEPT !.init = fdc.init + 1] \in FdcType
      BY <2>2, <2>5
    <3> QED
      BY <3>1, <3>2
  <2>8. ASSUME fdc.init = 8 PROVE fdc' \in FdcType
    BY <1>1, <1>26, <2>5, <2>8 DEF WriteDataForProbe
  <2>9. ASSUME fdc.init = 10 PROVE fdc' \in FdcType
    <3>1. fdc' = [[Issued(SEEK, 229, TRUE) EXCEPT !.seek = TRUE]
                    EXCEPT !.init = fdc.init + 1]
      BY <1>26, <2>9 DEF WriteDataForProbe
    <3>2. [[Issued(SEEK, 229, TRUE) EXCEPT !.seek = TRUE]
            EXCEPT !.init = fdc.init + 1] \in FdcType
      BY <2>3, <2>5
    <3> QED
      BY <3>1, <3>2
  <2>10. fdc' \in FdcType
    BY <1>26, <2>6, <2>7, <2>8, <2>9 DEF WriteDataForProbe
  <2> QED
    BY <1>26, <2>10 DEF TInv, TypeOK, WriteDataForProbe, BytesCounted
<1>27. CASE ReadStatusForProbe
  <2>1. Cleared \in FdcType /\ Cleared.init = fdc.init
    BY <1>1, ClearedTyped DEF Cleared, FdcType
  <2>2. fdc.init + 1 \in InitStages
    BY <1>1, <1>27 DEF ReadStatusForProbe, FdcType, InitStages
  <2>3. fdc' \in FdcType
    BY <1>27, <2>1, <2>2 DEF ReadStatusForProbe, FdcType
  <2> QED
    BY <1>27, <2>3 DEF TInv, TypeOK, ReadStatusForProbe, BytesCounted
<1>28. CASE CompleteRestore
  <2>1. 132 \in FdcStatuses /\ 5 \in InitStages
    BY FdcMembers
  <2>2. fdc' \in FdcType
    BY ZenonT(60), <1>1, <1>28, <2>1 DEF CompleteRestore, FdcType
  <2> QED
    BY <1>28, <2>2 DEF TInv, TypeOK, CompleteRestore, BytesCounted
<1>29. CASE CompleteSeek
  <2>1. "SeekIRQ" \in Phases /\ 0 \in Triples
    BY PhaseNames, CheckMembers
  <2>2. media' \in MediaType
    BY <1>1, <1>29, <2>1 DEF CompleteSeek, MediaType
  <2>3. BytesCounted'
    BY <1>1, <1>29 DEF CompleteSeek, MediaType, BytesCounted
  <2>4. 228 \in FdcStatuses /\ 12 \in InitStages
    BY FdcMembers
  <2>5. \A i \in InitStages :
          [fdc EXCEPT !.status = 228, !.irq = TRUE, !.seek = FALSE, !.init = i] \in FdcType
    BY ZenonT(60), <1>1, <2>4 DEF FdcType
  <2>6. (IF SeekIsForMedia THEN fdc.init ELSE 12) \in InitStages
    BY <1>1, <2>4 DEF FdcType
  <2>7. fdc' \in FdcType
    BY <1>29, <2>5, <2>6 DEF CompleteSeek
  <2> QED
    BY <1>29, <2>2, <2>3, <2>7 DEF TInv, TypeOK, CompleteSeek
<1>30. CASE ReadbackCompletes
  <2> QED
    BY <1>30 DEF TInv, TypeOK, ReadbackCompletes, BytesCounted
<1>31. CASE Reset
  <2>1. SOUND \in Registers /\ 0 \in PortValues /\ 0 \in DriveStages
    BY PortMembers
  <2>2. psg' \in PsgType
    BY <1>1, <1>31, <2>1 DEF Reset, PsgType, PsgReset
  <2>3. 0 \in VblStages
    BY VblMembers
  <2>4. vbl' \in VblType
    BY <1>1, <1>31, <2>3 DEF Reset, VblType, VblReset
  <2>5. "Idle" \in Phases /\ 0 \in Triples
    BY PhaseNames, CheckMembers
  <2>6. media' \in MediaType
    BY <1>1, <1>31, <2>5 DEF Reset, MediaType, NoCheck
  <2>7. BytesCounted'
    BY <1>1, <1>31 DEF Reset, MediaType, NoCheck, BytesCounted
  <2>8. 0 \in Triples
    BY DmaMembers
  <2>9. dma' \in DmaType
    BY <1>1, <1>31, <2>8 DEF Reset, DmaType, DmaReset
  <2>10. 0 \in AcsiStages
    BY AcsiMembers
  <2>11. acsi' \in AcsiType
    BY <1>1, <1>31, <2>10 DEF Reset, AcsiType, AcsiReset
  <2>12. 0 \in FdcCommands /\ 0 \in FdcStatuses /\ 0 \in InitStages
    BY FdcMembers
  <2>13. fdc' \in FdcType
    BY <1>1, <1>31, <2>12 DEF Reset, FdcType, FdcReset
  <2> QED
    BY <1>31, <2>2, <2>4, <2>6, <2>7, <2>9, <2>11, <2>13 DEF TInv, TypeOK, Reset
<1>32. ASSUME NEW v \in EntryPorts, ChooseDrive(v)
      PROVE  TInv'
  <2>1. v \in PortValues
    BY <1>32, PortMembers
  <2>2. psg' \in PsgType
    BY <1>1, <1>32, <2>1 DEF ChooseDrive, PsgType
  <2>3. 3 \in VblStages
    BY VblMembers
  <2>4. vbl' \in VblType
    BY <1>1, <1>32, <2>3 DEF ChooseDrive, VblType
  <2> QED
    BY <1>32, <2>2, <2>4 DEF TInv, TypeOK, ChooseDrive, BytesCounted
<1>33. ASSUME NEW v \in EntryPorts, EndVblPass(v)
      PROVE  TInv'
  <2>1. v \in PortValues
    BY <1>33, PortMembers
  <2>2. psg' \in PsgType
    BY <1>1, <1>33, <2>1 DEF EndVblPass, PsgType
  <2>3. 8 \in VblStages
    BY VblMembers
  <2>4. vbl' \in VblType
    BY <1>1, <1>33, <2>3 DEF EndVblPass, VblType
  <2> QED
    BY <1>33, <2>2, <2>4 DEF TInv, TypeOK, EndVblPass, BytesCounted
<1>34. ASSUME NEW mode \in Modes, WriteModeForMedia(mode)
      PROVE  TInv'
  <2>1. <<media.phase, MediaModeSteps[media.phase][3]>> \in ModeChain
    BY <1>34, ModeLinks DEF WriteModeForMedia, MediaTakesMode
  <2>2. MediaModeSteps[media.phase][3] \in Phases
    BY <2>1, PhaseNames DEF ModeChain
  <2>3. media' \in MediaType
    BY <1>1, <1>34, <2>2 DEF WriteModeForMedia, MediaType
  <2>4. BytesCounted'
    BY <1>1, <1>34, <2>1 DEF WriteModeForMedia, MediaType, BytesCounted, ModeChain
  <2>5. dma' \in DmaType
    BY <1>1, <1>34 DEF WriteModeForMedia, DmaType
  <2> QED
    BY <1>34, <2>3, <2>4, <2>5 DEF TInv, TypeOK, WriteModeForMedia
<1>35. ASSUME NEW v \in {0, 1, READ, FORCE, SEEK}, WriteDataForMedia(v)
      PROVE  TInv'
  <2>1. <<media.phase, MediaDataSteps[media.phase][3]>> \in DataChain
    BY <1>35, DataLinks DEF WriteDataForMedia, MediaTakesData
  <2>2. MediaDataSteps[media.phase][3] \in Phases
    BY <2>1, PhaseNames DEF DataChain
  <2>3. media' \in MediaType
    BY <1>1, <1>35, <2>2 DEF WriteDataForMedia, MediaType
  <2>4. BytesCounted'
    BY <1>1, <1>35, <2>1 DEF WriteDataForMedia, MediaType, BytesCounted, DataChain
  <2>5. /\ Issued(READ, 129, FALSE) \in FdcType
        /\ Issued(FORCE, 128, fdc.typeI) \in FdcType
        /\ Issued(SEEK, 229, TRUE) \in FdcType
    BY ZenonT(60), <1>1, FdcMembers, IssuedTyped, TypeIBoolean
  <2>6. [Issued(SEEK, 229, TRUE) EXCEPT !.seek = TRUE] \in FdcType
    BY <2>5, PendingTyped
  <2>7. fdc' \in FdcType
    BY <1>1, <1>35, <2>5, <2>6 DEF WriteDataForMedia
  <2> QED
    BY <1>35, <2>3, <2>4, <2>7 DEF TInv, TypeOK, WriteDataForMedia
<1>36. ASSUME NEW i \in 1 .. 3, WriteAddress(i)
      PROVE  TInv'
  <2>1. /\ 3 \in Triples
        /\ 1 \in Triples
        /\ 2 \in Triples
        /\ "AddressMiddle" \in Phases
        /\ "AddressHigh" \in Phases
        /\ "DMAResetRead" \in Phases
    BY PhaseNames, CheckMembers
  <2>2. ASSUME media.phase # "Idle"
        PROVE  media'.bytes = i /\ media' \in MediaType
                 /\ media'.phase = IF i = 3 THEN "DMAResetRead" ELSE AddressPhases[i + 1]
    <3>1. media.phase = AddressPhases[i] /\ media.bytes + 1 = i
      BY <1>1, <1>36, <2>2 DEF WriteAddress, AddressPhases, BytesCounted
    <3>2. media' = [media EXCEPT !.bytes = media.bytes + 1,
                     !.phase = IF i = 3 THEN "DMAResetRead" ELSE AddressPhases[i + 1]]
      BY <1>1, <1>36, <2>2 DEF WriteAddress, MediaType
    <3>3. i \in Triples /\ (IF i = 3 THEN "DMAResetRead" ELSE AddressPhases[i + 1]) \in Phases
      BY <2>1 DEF AddressPhases
    <3> QED
      BY <1>1, <3>1, <3>2, <3>3 DEF MediaType
  <2>3. media' \in MediaType
    BY <1>1, <1>36, <2>2 DEF WriteAddress
  <2>4. BytesCounted'
    BY <1>1, <1>36, <2>2 DEF WriteAddress, AddressPhases, BytesCounted
  <2>5. dma.address \in Triples /\ i \in Triples
    BY <1>1, <2>1 DEF DmaType
  <2>6. dma' \in DmaType
    BY <1>1, <1>36, <2>5 DEF WriteAddress, DmaType
  <2> QED
    BY <1>36, <2>3, <2>4, <2>6 DEF TInv, TypeOK, WriteAddress
<1>37. CASE UNCHANGED vars
  BY <1>37 DEF vars, TInv, TypeOK, BytesCounted
<1> QED
  BY <1>2, <1>3, <1>4, <1>5, <1>6, <1>7, <1>8, <1>9, <1>10, <1>11, <1>12, <1>13, <1>14,
     <1>15, <1>16, <1>17, <1>18, <1>19, <1>20, <1>21, <1>22, <1>23, <1>24, <1>25, <1>26,
     <1>27, <1>28, <1>29, <1>30, <1>31, <1>32, <1>33, <1>34, <1>35, <1>36, <1>37 DEF Next,
     PortAccesses, MediaAccesses, VblAccesses, Scan, ProbeAccesses, Device

(***************************************************************************)
(* The module's invariants, from the types and the facts named above.      *)
(***************************************************************************)
(* The scan goes from target to target and ends behind the last one. *)
LEMMA ScanStep == TypeOK /\ ScanCounts /\ [Next]_vars => ScanCounts'
<1> SUFFICES ASSUME TypeOK, ScanCounts, [Next]_vars
             PROVE  ScanCounts'
  OBVIOUS
<1> USE TargetAssumption
<1>1. acsi \in AcsiType
  BY DEF TypeOK
<1>2. CASE SelectTarget
  <2>1. acsi'.stage = 1 /\ acsi'.target = acsi.target + 1 /\ acsi'.attempts = acsi.attempts
    BY <1>1, <1>2 DEF SelectTarget, AcsiType
  <2>2. CASE acsi.stage = 0
    <3>1. acsi.target = -1 /\ acsi.attempts = {}
      BY <2>2 DEF ScanCounts
    <3>2. acsi'.target = 0 /\ acsi'.attempts = 0 .. acsi'.target - 1
      BY <2>1, <3>1
    <3> QED
      BY <2>1, <3>2 DEF ScanCounts
  <2>3. CASE acsi.stage = 4
    <3>1. acsi.target \in Nat /\ acsi.attempts = 0 .. acsi.target
      BY <1>1, <2>3 DEF ScanCounts, AcsiType, Targets
    <3> QED
      BY <2>1, <3>1 DEF ScanCounts
  <2> QED
    BY <1>2, <2>2, <2>3 DEF SelectTarget
<1>3. CASE CommandTarget
  BY <1>1, <1>3 DEF CommandTarget, ScanCounts, AcsiType, Targets
<1>4. CASE AwaitTarget
  BY <1>1, <1>4 DEF AwaitTarget, ScanCounts, AcsiType, Targets
<1>5. CASE LeaveTarget
  BY <1>1, <1>5 DEF LeaveTarget, ScanEnds, ScanCounts, AcsiType, Targets
<1>6. CASE Reset
  BY <1>1, <1>6 DEF Reset, AcsiReset, ScanCounts, AcsiType, Targets
<1>7. CASE UNCHANGED acsi
  BY <1>7 DEF ScanCounts
<1> QED
  BY <1>2, <1>3, <1>4, <1>5, <1>6, <1>7 DEF Next, PortAccesses, MediaAccesses,
     VblAccesses, Scan, ProbeAccesses, Device, vars, SelectForMedia, StartVblPass,
     SelectForVblExit, SelectForDrive, SelectOther, ReadForDrive, ReadForMedia, ReadForVbl,
     WriteForMedia, Deselect, WriteForDrive, InitPort, StartFirstCheck, BorrowPass,
     ReadStatusForMedia, SelectStatusForVbl, ReadStatusForVbl, ResetCounter, StartProbe,
     WriteModeForProbe, WriteDataForProbe, ReadStatusForProbe, CompleteRestore,
     CompleteSeek, ReadbackCompletes, ChooseDrive, EndVblPass, WriteModeForMedia,
     WriteDataForMedia, WriteAddress

(* A pending restore or seek is the one its script has just given. *)
PendingOwned ==
  /\ fdc.restore => fdc.init = 4
  /\ fdc.seek => fdc.init = 11 \/ media.phase = "SeekBusy"

(* What BootStageGoesForward says of one step. *)
GoesForward ==
  fdc'.init # fdc.init => \/ fdc'.init = fdc.init + 1
                          \/ fdc.init = 14 /\ fdc'.init = 1 /\ fdc'.probe = 1
                          \/ fdc' = FdcReset

(* A completion moves on the stage that gave the command, or none. *)
LEMMA BootStep ==
  TypeOK /\ PassesComeLast /\ PendingOwned /\ [Next]_vars
    => PassesComeLast' /\ PendingOwned' /\ GoesForward
<1> SUFFICES ASSUME TypeOK, PassesComeLast, PendingOwned, [Next]_vars
             PROVE  PassesComeLast' /\ PendingOwned' /\ GoesForward
  OBVIOUS
<1>1. psg \in PsgType /\ vbl \in VblType /\ media \in MediaType /\ fdc \in FdcType
  BY DEF TypeOK
<1>2. CASE SelectForMedia
  BY <1>1, <1>2 DEF SelectForMedia, MediaSelects, PsgType, VblType, MediaType, FdcType,
     PassesComeLast, PendingOwned, GoesForward
<1>3. CASE StartVblPass
  BY <1>1, <1>3 DEF StartVblPass, VblMayStart, PsgType, VblType, MediaType, FdcType,
     PassesComeLast, PendingOwned, GoesForward
<1>4. CASE SelectForVblExit
  BY <1>1, <1>4 DEF SelectForVblExit, PsgType, VblType, MediaType, FdcType,
     PassesComeLast, PendingOwned, GoesForward
<1>5. CASE SelectForDrive
  BY <1>1, <1>5 DEF SelectForDrive, DriveReady, PsgType, VblType, MediaType, FdcType,
     PassesComeLast, PendingOwned, GoesForward
<1>6. CASE SelectOther
  BY <1>1, <1>6 DEF SelectOther, PsgType, VblType, MediaType, FdcType, PassesComeLast,
     PendingOwned, GoesForward
<1>7. CASE ReadForDrive
  BY <1>1, <1>7 DEF ReadForDrive, DriveReady, PsgType, VblType, MediaType, FdcType,
     PassesComeLast, PendingOwned, GoesForward
<1>8. CASE ReadForMedia
  BY <1>1, <1>8 DEF ReadForMedia, MediaReads, PsgType, VblType, MediaType, FdcType,
     PassesComeLast, PendingOwned, GoesForward
<1>9. CASE ReadForVbl
  BY <1>1, <1>9 DEF ReadForVbl, PsgType, VblType, MediaType, FdcType, PassesComeLast,
     PendingOwned, GoesForward
<1>10. CASE WriteForMedia
  BY <1>1, <1>10 DEF WriteForMedia, MediaWrites, PsgType, VblType, MediaType, FdcType,
     PassesComeLast, PendingOwned, GoesForward
<1>11. CASE Deselect
  BY <1>1, <1>11 DEF Deselect, PsgType, VblType, MediaType, FdcType, PassesComeLast,
     PendingOwned, GoesForward
<1>12. CASE WriteForDrive
  BY <1>1, <1>12 DEF WriteForDrive, DriveReady, PsgType, VblType, MediaType, FdcType,
     PassesComeLast, PendingOwned, GoesForward
<1>13. CASE InitPort
  BY <1>1, <1>13 DEF InitPort, PsgType, VblType, MediaType, FdcType, PassesComeLast,
     PendingOwned, GoesForward
<1>14. CASE StartFirstCheck
  BY <1>1, <1>14 DEF StartFirstCheck, PsgType, VblType, MediaType, FdcType,
     PassesComeLast, PendingOwned, GoesForward
<1>15. CASE BorrowPass
  BY <1>1, <1>15 DEF BorrowPass, Borrows, BorrowedCheck, NoCheck, PsgType, VblType,
     MediaType, FdcType, PassesComeLast, PendingOwned, GoesForward
<1>16. CASE ReadStatusForMedia
  BY <1>1, <1>16 DEF ReadStatusForMedia, MediaReadsStatus, Cleared, NoCheck, PsgType,
     VblType, MediaType, FdcType, PassesComeLast, PendingOwned, GoesForward
<1>17. CASE SelectStatusForVbl
  BY <1>1, <1>17 DEF SelectStatusForVbl, PsgType, VblType, MediaType, FdcType,
     PassesComeLast, PendingOwned, GoesForward
<1>18. CASE ReadStatusForVbl
  BY <1>1, <1>18 DEF ReadStatusForVbl, VblReads, Cleared, PsgType, VblType, MediaType,
     FdcType, PassesComeLast, PendingOwned, GoesForward
<1>19. CASE ResetCounter
  BY <1>1, <1>19 DEF ResetCounter, PsgType, VblType, MediaType, FdcType, PassesComeLast,
     PendingOwned, GoesForward
<1>20. CASE SelectTarget
  BY <1>1, <1>20 DEF SelectTarget, PsgType, VblType, MediaType, FdcType, PassesComeLast,
     PendingOwned, GoesForward
<1>21. CASE CommandTarget
  BY <1>1, <1>21 DEF CommandTarget, PsgType, VblType, MediaType, FdcType,
     PassesComeLast, PendingOwned, GoesForward
<1>22. CASE AwaitTarget
  BY <1>1, <1>22 DEF AwaitTarget, PsgType, VblType, MediaType, FdcType, PassesComeLast,
     PendingOwned, GoesForward
<1>23. CASE LeaveTarget
  BY <1>1, <1>23 DEF LeaveTarget, PsgType, VblType, MediaType, FdcType, PassesComeLast,
     PendingOwned, GoesForward
<1>24. CASE StartProbe
  <2>1. media.phase = "Idle" /\ vbl.stage = 0 /\ media' = media /\ vbl' = vbl
        /\ fdc.init \in {0, 14}
    BY <1>1, <1>24 DEF StartProbe, Alone, PassesComeLast
  <2>2. ~fdc.restore /\ ~fdc.seek
    BY <2>1 DEF PendingOwned
  <2>3. fdc'.init = 1 /\ ~fdc'.restore /\ ~fdc'.seek /\ (fdc.init = 14 => fdc'.probe = 1)
    <3>1. CASE fdc.init = 0 /\ fdc' = [fdc EXCEPT !.probe = 0, !.init = 1]
      BY <1>1, <2>2, <3>1 DEF FdcType
    <3>2. CASE fdc' = [fdc EXCEPT !.probe = 1, !.init = 1, !.restore = FALSE, !.seek = FALSE]
      BY <1>1, <3>2 DEF FdcType
    <3> QED
      BY <1>24, <3>1, <3>2 DEF StartProbe
  <2> QED
    BY <2>1, <2>2, <2>3 DEF PassesComeLast, PendingOwned, GoesForward
<1>25. CASE WriteModeForProbe
  BY <1>1, <1>25 DEF WriteModeForProbe, ProbeModeSteps, Alone, PsgType, VblType,
     MediaType, FdcType, PassesComeLast, PendingOwned, GoesForward
<1>26. CASE WriteDataForProbe
  BY <1>1, <1>26 DEF WriteDataForProbe, Issued, Alone, PsgType, VblType, MediaType,
     FdcType, PassesComeLast, PendingOwned, GoesForward
<1>27. CASE ReadStatusForProbe
  BY <1>1, <1>27 DEF ReadStatusForProbe, Cleared, PsgType, VblType, MediaType, FdcType,
     PassesComeLast, PendingOwned, GoesForward
<1>28. CASE CompleteRestore
  BY <1>1, <1>28 DEF CompleteRestore, PsgType, VblType, MediaType, FdcType,
     PassesComeLast, PendingOwned, GoesForward
<1>29. CASE CompleteSeek
  BY <1>1, <1>29 DEF CompleteSeek, SeekIsForMedia, PsgType, VblType, MediaType, FdcType,
     PassesComeLast, PendingOwned, GoesForward
<1>30. CASE ReadbackCompletes
  BY <1>1, <1>30 DEF ReadbackCompletes, PsgType, VblType, MediaType, FdcType,
     PassesComeLast, PendingOwned, GoesForward
<1>31. CASE Reset
  BY <1>1, <1>31 DEF Reset, PsgReset, VblReset, FdcReset, NoCheck, PsgType, VblType,
     MediaType, FdcType, PassesComeLast, PendingOwned, GoesForward
<1>32. ASSUME NEW v \in EntryPorts, ChooseDrive(v)
      PROVE  PassesComeLast' /\ PendingOwned' /\ GoesForward
  BY <1>1, <1>32 DEF ChooseDrive, PsgType, VblType, MediaType, FdcType, PassesComeLast,
     PendingOwned, GoesForward
<1>33. ASSUME NEW v \in EntryPorts, EndVblPass(v)
      PROVE  PassesComeLast' /\ PendingOwned' /\ GoesForward
  BY <1>1, <1>33 DEF EndVblPass, PsgType, VblType, MediaType, FdcType, PassesComeLast,
     PendingOwned, GoesForward
<1>34. ASSUME NEW mode \in Modes, WriteModeForMedia(mode)
      PROVE  PassesComeLast' /\ PendingOwned' /\ GoesForward
  BY <1>1, <1>34, ModeLinks DEF WriteModeForMedia, MediaTakesMode, ModeChain, PsgType,
     VblType, MediaType, FdcType, PassesComeLast, PendingOwned, GoesForward
<1>35. ASSUME NEW v \in {0, 1, READ, FORCE, SEEK}, WriteDataForMedia(v)
      PROVE  PassesComeLast' /\ PendingOwned' /\ GoesForward
  BY <1>1, <1>35, DataLinks DEF WriteDataForMedia, MediaTakesData, Issued, DataChain,
     PsgType, VblType, MediaType, FdcType, PassesComeLast, PendingOwned, GoesForward
<1>36. ASSUME NEW i \in 1 .. 3, WriteAddress(i)
      PROVE  PassesComeLast' /\ PendingOwned' /\ GoesForward
  BY <1>1, <1>36 DEF WriteAddress, AddressPhases, PsgType, VblType, MediaType, FdcType,
     PassesComeLast, PendingOwned, GoesForward
<1>37. CASE UNCHANGED vars
  BY <1>37 DEF vars, PsgType, VblType, MediaType, FdcType, PassesComeLast, PendingOwned,
     GoesForward
<1> QED
  BY <1>2, <1>3, <1>4, <1>5, <1>6, <1>7, <1>8, <1>9, <1>10, <1>11, <1>12, <1>13, <1>14,
     <1>15, <1>16, <1>17, <1>18, <1>19, <1>20, <1>21, <1>22, <1>23, <1>24, <1>25, <1>26,
     <1>27, <1>28, <1>29, <1>30, <1>31, <1>32, <1>33, <1>34, <1>35, <1>36, <1>37 DEF
     Next, PortAccesses, MediaAccesses, VblAccesses, Scan, ProbeAccesses, Device

(* A pass that has begun has the port, the mode and the drive it goes on with. *)
PassWaits ==
  /\ psg.stage # 0 => psg.ports
  /\ vbl.stage \in {1, 2, 6, 7} => psg.sel = PORTA
  /\ vbl.stage = 1 => readback /\ psg.porta \in EntryPorts
  /\ vbl.stage = 2 => psg.porta = vbl.entry /\ vbl.entry \in EntryPorts
  /\ vbl.stage \in 3 .. 7 => vbl.drive \in {0, 1} /\ psg.porta = TargetPort
  /\ vbl.stage = 4 => dma.mode = "command"

(* A check that has begun has the mode, and later the FDC, its phase waits for. *)
CheckWaits ==
  /\ media.phase \in {"TrackSelector", "DriveSelector", "DriveRead", "DriveWrite",
                      "SectorSelector"} => dma.mode = "track" /\ media.first
  /\ media.phase \in {"DriveRead", "DriveWrite"} => psg.sel = PORTA /\ psg.porta = DRIVE1
  /\ media.phase \in {"SectorData", "AddressLow", "AddressMiddle", "AddressHigh",
                      "DMAResetRead"} => dma.mode = "sector"
  /\ media.phase = "DMAResetRead" => media.bytes = 3
  /\ media.phase = "DMAResetWrite" => dma.mode = "toggle"
  /\ media.phase \in {"Count", "CommandSelector"} => dma.mode = "count"
  /\ media.phase \in {"SeekData", "SeekCommandSelector"} => dma.mode = "data"
  /\ media.phase \in {"ReadBusy", "TimeoutSelector", "ForceInterrupt", "SeekDataSelector",
                      "SeekBusy", "SeekIRQ", "StatusRead"} => dma.mode = "command"
  /\ media.phase \in {"TimeoutSelector", "ForceInterrupt"} => ReadIsOpen
  /\ media.phase = "SeekBusy" /\ fdc.seek => fdc.typeI
  /\ media.phase \in {"SeekIRQ", "StatusRead"} => Answered

(* A pass that has begun keeps what it goes on with: no other script runs in it. *)
LEMMA PassStep ==
  Overlap = FALSE /\ TypeOK /\ PassesComeLast /\ ChecksAreAlone /\ PassWaits /\ [Next]_vars
    => PassWaits'
<1> SUFFICES ASSUME Overlap = FALSE, TypeOK, PassesComeLast, ChecksAreAlone,
                    PassWaits, [Next]_vars
             PROVE  PassWaits'
  OBVIOUS
<1>1. psg \in PsgType /\ vbl \in VblType /\ media \in MediaType /\ dma \in DmaType
  BY DEF TypeOK
<1>2. /\ vbl'.drive = vbl.drive => TargetPort' = TargetPort
      /\ TargetPort # 0
  BY DEF TargetPort, DRIVE0, DRIVE1
<1>3. ASSUME psg' = psg, vbl' = vbl, readback => readback',
              vbl.stage = 4 => dma'.mode = dma.mode
       PROVE  PassWaits'
  BY <1>2, <1>3 DEF PassWaits
<1>4. CASE SelectForMedia
  BY <1>1, <1>2, <1>4 DEF SelectForMedia, MediaSelects, PsgType, VblType, MediaType, DmaType,
     PassesComeLast, ChecksAreAlone, PassWaits
<1>5. CASE StartVblPass
  BY <1>1, <1>2, <1>5 DEF StartVblPass, VblMayStart, PsgType, VblType, MediaType, DmaType,
     PassesComeLast, ChecksAreAlone, PassWaits
<1>6. CASE SelectForVblExit
  <2>1. psg'.sel = PORTA /\ psg'.porta = psg.porta /\ psg'.ports = psg.ports
          /\ psg'.stage = psg.stage /\ vbl.stage = 5 /\ vbl'.stage = 6
          /\ readback' = readback /\ vbl'.drive = vbl.drive
    BY <1>1, <1>6 DEF SelectForVblExit, VblType, PsgType
  <2> QED
    BY <1>2, <2>1 DEF PassWaits
<1>7. CASE SelectForDrive
  BY <1>1, <1>2, <1>7 DEF SelectForDrive, DriveReady, PsgType, VblType, MediaType, DmaType,
     PassesComeLast, ChecksAreAlone, PassWaits
<1>8. CASE SelectOther
  <2>1. vbl' = vbl /\ dma' = dma /\ readback' = readback /\ psg'.porta = psg.porta
          /\ psg'.ports = psg.ports /\ psg'.stage = psg.stage
    BY <1>1, <1>8 DEF SelectOther, PsgType
  <2>2. ASSUME vbl.stage \in {1, 2, 6, 7} PROVE psg'.sel = PORTA
    <3>1. PortAccess /\ psg.sel = PORTA /\ psg.ports
      BY <2>2, <1>1 DEF PortAccess, PassWaits, PassesComeLast, VblType
    <3> QED
      BY <1>1, <1>8, <3>1 DEF SelectOther, PsgType, PORTA, SOUND, MIXER
  <2> QED
    BY <1>2, <2>1, <2>2 DEF PassWaits
<1>9. CASE ReadForDrive
  BY <1>1, <1>2, <1>9 DEF ReadForDrive, DriveReady, PsgType, VblType, MediaType, DmaType,
     PassesComeLast, ChecksAreAlone, PassWaits
<1>10. CASE ReadForMedia
  BY <1>1, <1>2, <1>10 DEF ReadForMedia, MediaReads, PsgType, VblType, MediaType, DmaType,
     PassesComeLast, ChecksAreAlone, PassWaits
<1>11. CASE ReadForVbl
  <2>1. psg' = psg /\ dma' = dma /\ readback' = readback /\ psg.sel = PORTA
          /\ vbl'.drive = vbl.drive
    BY <1>1, <1>11 DEF ReadForVbl, VblType
  <2>2. CASE vbl.stage = 1
    <3>1. vbl'.stage = 2 /\ vbl'.entry = psg.porta
      <4>1. vbl' = [vbl EXCEPT !.entry = psg.porta, !.stage = 2]
        BY <1>11, <2>2 DEF ReadForVbl
      <4> QED
        BY <1>1, <4>1 DEF VblType
    <3> QED
      BY <2>1, <2>2, <3>1 DEF PassWaits
  <2>3. CASE vbl.stage = 6
    <3>1. vbl'.stage = 7
      BY <1>1, <1>11, <2>3 DEF ReadForVbl, VblType
    <3> QED
      BY <1>2, <2>1, <2>3, <3>1 DEF PassWaits
  <2> QED
    BY <1>11, <2>2, <2>3 DEF ReadForVbl
<1>12. CASE WriteForMedia
  BY <1>1, <1>2, <1>12 DEF WriteForMedia, MediaWrites, PsgType, VblType, MediaType, DmaType,
     PassesComeLast, ChecksAreAlone, PassWaits
<1>13. CASE Deselect
  BY <1>1, <1>2, <1>13 DEF Deselect, PsgType, VblType, MediaType, DmaType, PassesComeLast,
     ChecksAreAlone, PassWaits
<1>14. CASE WriteForDrive
  BY <1>1, <1>2, <1>14 DEF WriteForDrive, DriveReady, PsgType, VblType, MediaType, DmaType,
     PassesComeLast, ChecksAreAlone, PassWaits
<1>15. CASE InitPort
  <2>1. vbl' = vbl /\ dma' = dma /\ readback' = readback /\ psg'.sel = psg.sel
          /\ psg'.stage = psg.stage /\ (psg.ports => psg'.ports)
    BY <1>1, <1>15 DEF InitPort, PsgType
  <2>2. psg'.porta = psg.porta \/ (psg.porta = 0 /\ psg.ports)
    BY <1>1, <1>15 DEF InitPort, PsgType
  <2>3. ASSUME psg.porta = 0 PROVE vbl.stage \notin {1} \cup 3 .. 7
    BY <2>3, <1>2 DEF PassWaits, EntryPorts, DRIVE0, DRIVE1, NODRIVE
  <2>4. ASSUME psg.porta = 0, vbl.stage = 2 PROVE FALSE
    BY <2>4 DEF PassWaits, EntryPorts, DRIVE0, DRIVE1, NODRIVE
  <2> QED
    BY <1>2, <2>1, <2>2, <2>3, <2>4 DEF PassWaits
<1>16. CASE StartFirstCheck
  BY <1>1, <1>2, <1>16 DEF StartFirstCheck, PsgType, VblType, MediaType, DmaType,
     PassesComeLast, ChecksAreAlone, PassWaits
<1>17. CASE BorrowPass
  BY <1>1, <1>2, <1>17 DEF BorrowPass, Borrows, BorrowedCheck, NoCheck, PsgType, VblType,
     MediaType, DmaType, PassesComeLast, ChecksAreAlone, PassWaits
<1>18. CASE ReadStatusForMedia
  BY <1>1, <1>2, <1>18 DEF ReadStatusForMedia, MediaReadsStatus, Cleared, NoCheck, PsgType,
     VblType, MediaType, DmaType, PassesComeLast, ChecksAreAlone, PassWaits
<1>19. CASE SelectStatusForVbl
  <2>1. psg' = psg /\ dma'.mode = "command" /\ vbl.stage = 3 /\ vbl'.stage = 4
          /\ readback' = readback /\ vbl'.drive = vbl.drive
    BY <1>1, <1>19 DEF SelectStatusForVbl, VblType, DmaType
  <2> QED
    BY <1>2, <2>1 DEF PassWaits
<1>20. CASE ReadStatusForVbl
  <2>1. psg' = psg /\ dma' = dma /\ readback' = readback /\ vbl.stage = 4 /\ vbl'.stage = 5
          /\ vbl'.drive = vbl.drive
    BY <1>1, <1>20 DEF ReadStatusForVbl, VblReads, VblType
  <2> QED
    BY <1>2, <2>1 DEF PassWaits
<1>21. CASE ResetCounter
  BY <1>21, <1>3 DEF ResetCounter, Alone, InPass
<1>22. CASE SelectTarget
  BY <1>22, <1>3 DEF SelectTarget, Alone, InPass
<1>23. CASE CommandTarget
  BY <1>23, <1>3 DEF CommandTarget
<1>24. CASE AwaitTarget
  BY <1>24, <1>3 DEF AwaitTarget, Alone, InPass
<1>25. CASE LeaveTarget
  BY <1>25, <1>3 DEF LeaveTarget, Alone, InPass
<1>26. CASE StartProbe
  BY <1>1, <1>2, <1>26 DEF StartProbe, Alone, PsgType, VblType, MediaType, DmaType,
     PassesComeLast, ChecksAreAlone, PassWaits
<1>27. CASE WriteModeForProbe
  BY <1>1, <1>2, <1>27 DEF WriteModeForProbe, ProbeModeSteps, Alone, PsgType, VblType,
     MediaType, DmaType, PassesComeLast, ChecksAreAlone, PassWaits
<1>28. CASE WriteDataForProbe
  BY <1>1, <1>2, <1>28 DEF WriteDataForProbe, Issued, Alone, PsgType, VblType, MediaType,
     DmaType, PassesComeLast, ChecksAreAlone, PassWaits
<1>29. CASE ReadStatusForProbe
  BY <1>1, <1>2, <1>29 DEF ReadStatusForProbe, Cleared, PsgType, VblType, MediaType, DmaType,
     PassesComeLast, ChecksAreAlone, PassWaits
<1>30. CASE CompleteRestore
  BY <1>30, <1>3 DEF CompleteRestore
<1>31. CASE CompleteSeek
  BY <1>31, <1>3 DEF CompleteSeek
<1>32. CASE ReadbackCompletes
  BY <1>32, <1>3 DEF ReadbackCompletes
<1>33. CASE Reset
  BY <1>1, <1>2, <1>33 DEF Reset, PsgReset, VblReset, FdcReset, NoCheck, PsgType, VblType,
     MediaType, DmaType, PassesComeLast, ChecksAreAlone, PassWaits
<1>34. ASSUME NEW v \in EntryPorts, ChooseDrive(v)
      PROVE  PassWaits'
  <2>1. /\ psg.stage = 9 /\ psg'.sel = psg.sel /\ psg'.porta = v /\ psg'.ports = psg.ports
        /\ psg'.stage = psg.stage /\ v \in {DRIVE0, DRIVE1} /\ readback' = readback
        /\ vbl'.stage = 3 /\ vbl'.drive = IF v = DRIVE0 THEN 0 ELSE 1
    BY <1>1, <1>34 DEF ChooseDrive, VblType, PsgType
  <2>2. TargetPort' = v
    BY <2>1 DEF TargetPort
  <2> QED
    BY <2>1, <2>2 DEF PassWaits
<1>35. ASSUME NEW v \in EntryPorts, EndVblPass(v)
      PROVE  PassWaits'
  BY <1>1, <1>2, <1>35 DEF EndVblPass, PsgType, VblType, MediaType, DmaType, PassesComeLast,
     ChecksAreAlone, PassWaits
<1>36. ASSUME NEW mode \in Modes, WriteModeForMedia(mode)
      PROVE  PassWaits'
  BY <1>1, <1>2, <1>36, ModeLinks DEF WriteModeForMedia, MediaTakesMode, ModeChain, PsgType,
     VblType, MediaType, DmaType, PassesComeLast, ChecksAreAlone, PassWaits
<1>37. ASSUME NEW v \in {0, 1, READ, FORCE, SEEK}, WriteDataForMedia(v)
      PROVE  PassWaits'
  BY <1>1, <1>2, <1>37, DataLinks DEF WriteDataForMedia, MediaTakesData, Issued, DataChain,
     PsgType, VblType, MediaType, DmaType, PassesComeLast, ChecksAreAlone, PassWaits
<1>38. ASSUME NEW i \in 1 .. 3, WriteAddress(i)
      PROVE  PassWaits'
  <2>1. dma'.mode = dma.mode
    BY <1>1, <1>38 DEF WriteAddress, DmaType
  <2> QED
    BY <1>38, <1>3, <2>1 DEF WriteAddress
<1>39. CASE UNCHANGED vars
  BY <1>39, <1>3 DEF vars
<1> QED
  BY <1>4, <1>5, <1>6, <1>7, <1>8, <1>9, <1>10, <1>11, <1>12, <1>13, <1>14, <1>15, <1>16,
     <1>17, <1>18, <1>19, <1>20, <1>21, <1>22, <1>23, <1>24, <1>25, <1>26, <1>27, <1>28,
     <1>29, <1>30, <1>31, <1>32, <1>33, <1>34, <1>35, <1>36, <1>37, <1>38, <1>39 DEF
     Next, PortAccesses, MediaAccesses, VblAccesses, Scan, ProbeAccesses, Device

(***************************************************************************)
(* A check that has begun finds what it waits for: the scripts of the boot *)
(* are over, a pass does not begin within it, and the only completion that *)
(* can still come is the one of its own seek.                              *)
(***************************************************************************)
LEMMA CheckStep ==
  Overlap = FALSE /\ TInv /\ PassesComeLast /\ ChecksAreAlone /\ FdcIsConsistent
      /\ PassWaits /\ CheckWaits /\ [Next]_vars
    => CheckWaits'
<1> SUFFICES ASSUME Overlap = FALSE, TInv, PassesComeLast, ChecksAreAlone, FdcIsConsistent,
                    PassWaits, CheckWaits, [Next]_vars
             PROVE  CheckWaits'
  OBVIOUS
<1>1. psg \in PsgType /\ vbl \in VblType /\ media \in MediaType /\ dma \in DmaType
        /\ fdc \in FdcType /\ BytesCounted
  BY DEF TInv, TypeOK
<1>2. media'.phase = "Idle" => CheckWaits'
  BY DEF CheckWaits
<1>3. CASE media' = media /\ dma' = dma /\ psg' = psg /\ fdc' = fdc /\ gpip5' = gpip5
  BY <1>3 DEF CheckWaits, ReadIsOpen, Answered
<1>4. CASE media.phase = "Idle"
  <2>1. CASE StartFirstCheck
    BY <1>1, <2>1 DEF StartFirstCheck, DmaType, CheckWaits
  <2>2. CASE BorrowPass
    BY <1>1, <2>2 DEF BorrowPass, BorrowedCheck, NoCheck, DmaType, CheckWaits
  <2>3. CASE media' = media
    BY <1>2, <1>4, <2>3
  <2>4. CASE CompleteSeek
    BY <1>4, <2>3, <2>4 DEF CompleteSeek, SeekIsForMedia
  <2>5. CASE media' = NoCheck
    BY <1>2, <2>5 DEF NoCheck
  <2>6. ASSUME NEW mode \in Modes PROVE ~WriteModeForMedia(mode)
    BY <1>4 DEF WriteModeForMedia, MediaTakesMode, MediaModeSteps
  <2>7. ASSUME NEW v \in {0, 1, READ, FORCE, SEEK} PROVE ~WriteDataForMedia(v)
    BY <1>4 DEF WriteDataForMedia, MediaTakesData, MediaDataSteps
  <2>8. ~SelectForMedia /\ ~ReadForMedia /\ ~WriteForMedia
    BY <1>4 DEF SelectForMedia, MediaSelects, ReadForMedia, MediaReads, WriteForMedia, MediaWrites
  <2> QED
    BY <1>4, <2>1, <2>2, <2>3, <2>4, <2>5, <2>6, <2>7, <2>8 DEF Next, PortAccesses,
       MediaAccesses, VblAccesses, Scan, ProbeAccesses, Device, vars, StartVblPass,
       SelectForVblExit, SelectForDrive, SelectOther, ReadForDrive, ReadForVbl, Deselect,
       WriteForDrive, InitPort, ReadStatusForMedia, SelectStatusForVbl, ReadStatusForVbl,
       ResetCounter, SelectTarget, CommandTarget, AwaitTarget, LeaveTarget, StartProbe,
       WriteModeForProbe, WriteDataForProbe, ReadStatusForProbe, CompleteRestore,
       ReadbackCompletes, Reset, ChooseDrive, EndVblPass, WriteAddress
<1>5. CASE media.phase # "Idle"
  <2>1. vbl.stage = 8 /\ fdc.init = 14 /\ psg.stage = 9 /\ psg.ports /\ ~Alone
    BY <1>5 DEF ChecksAreAlone, PassesComeLast, PassWaits, Alone
  <2>2. CASE SelectForMedia
    <3>1. media.phase = "DriveSelector" /\ psg.porta = DRIVE1 /\ dma' = dma
            /\ media'.phase = "DriveRead" /\ media'.first = media.first
            /\ psg'.sel = PORTA /\ psg'.porta = psg.porta
      BY <1>1, <2>2 DEF SelectForMedia, MediaSelects, MediaType, PsgType
    <3> QED
      BY <3>1 DEF CheckWaits
  <2>3. CASE ReadForMedia
    <3>1. media.phase = "DriveRead" /\ dma' = dma /\ psg' = psg
            /\ media'.phase = "DriveWrite" /\ media'.first = media.first
      BY <1>1, <2>3 DEF ReadForMedia, MediaReads, MediaType
    <3> QED
      BY <3>1 DEF CheckWaits
  <2>4. CASE WriteForMedia
    <3>1. media.phase = "DriveWrite" /\ dma' = dma
            /\ media'.phase = "SectorSelector" /\ media'.first = media.first
      BY <1>1, <2>4 DEF WriteForMedia, MediaWrites, MediaType
    <3> QED
      BY <3>1 DEF CheckWaits
  <2>5. ASSUME media' = media, dma' = dma, fdc' = fdc, gpip5' = gpip5,
               media.phase \in {"DriveRead", "DriveWrite"} => psg' = psg
        PROVE  CheckWaits'
    BY <2>5 DEF CheckWaits, ReadIsOpen, Answered
  <2>6. CASE SelectOther
    <3>1. media.phase \in {"DriveRead", "DriveWrite"}
            => PortAccess /\ psg.sel = PORTA /\ psg.porta # 0
      BY DEF PortAccess, CheckWaits, DRIVE1
    <3>2. media.phase \notin {"DriveRead", "DriveWrite"}
      BY <2>1, <2>6, <3>1 DEF SelectOther, PORTA, SOUND
    <3> QED
      BY <2>5, <2>6, <3>2 DEF SelectOther
  <2>7. CASE InitPort
    <3>1. psg.porta = 0
      BY <2>1, <2>7 DEF InitPort
    <3>2. media.phase \notin {"DriveRead", "DriveWrite"}
      BY <3>1 DEF CheckWaits, DRIVE1
    <3> QED
      BY <2>5, <2>7, <3>2 DEF InitPort
  <2>8. CASE CompleteSeek
    <3>1. SeekIsForMedia
      BY <2>1, <2>8 DEF CompleteSeek, FdcIsConsistent, SeekIsForMedia
    <3>2. media'.phase = "SeekIRQ" /\ dma' = dma /\ dma.mode = "command" /\ gpip5' = "low"
      BY <1>1, <2>8, <3>1 DEF CompleteSeek, SeekIsForMedia, MediaType, CheckWaits
    <3>3. fdc.typeI
      BY <2>8, <3>1 DEF CompleteSeek, SeekIsForMedia, CheckWaits
    <3>4. fdc'.typeI /\ fdc'.irq
      BY <1>1, <2>8, <3>3 DEF CompleteSeek, FdcType
    <3> QED
      BY <3>2, <3>4 DEF CheckWaits, Answered
  <2>9. CASE ReadStatusForMedia \/ Reset
    BY <1>2, <2>9 DEF ReadStatusForMedia, Reset, NoCheck
  <2>10. ASSUME NEW mode \in Modes, WriteModeForMedia(mode)
         PROVE  CheckWaits'
    <3>1. media.phase \in DOMAIN MediaModeSteps /\ mode = MediaModeSteps[media.phase][2]
            /\ fdc' = fdc /\ gpip5' = gpip5
      BY <2>10 DEF WriteModeForMedia, MediaTakesMode
    <3>2. <<media.phase, mode, MediaModeSteps[media.phase][3]>> \in ModeScript
      BY <3>1, ModeScripts
    <3>3. media'.phase = MediaModeSteps[media.phase][3] /\ media'.bytes = media.bytes
            /\ dma'.mode = mode
      BY <1>1, <2>10 DEF WriteModeForMedia, MediaType, DmaType
    <3>4. media.phase = "TimeoutSelector" => ReadIsOpen
      BY <2>10 DEF WriteModeForMedia, MediaTakesMode
    <3>5. media.phase = "SeekIRQ" => Answered
      BY <2>10 DEF WriteModeForMedia, MediaTakesMode
    <3>6. media.phase # "SeekBusy" /\ ~fdc.seek
      BY <2>1, <3>2 DEF FdcIsConsistent, ModeScript
    <3>7. (ReadIsOpen => ReadIsOpen') /\ (Answered => Answered')
      BY <3>1 DEF ReadIsOpen, Answered
    <3>8. <<media.phase, dma'.mode, media'.phase>> \in ModeScript
      BY <3>2, <3>3
    <3> QED
      BY <3>1, <3>4, <3>5, <3>7, <3>8, <3>6 DEF CheckWaits, ModeScript
  <2>11. ASSUME NEW v \in {0, 1, READ, FORCE, SEEK}, WriteDataForMedia(v)
         PROVE  CheckWaits'
    <3>1. media.phase \in DOMAIN MediaDataSteps /\ dma' = dma /\ psg' = psg
      BY <2>11 DEF WriteDataForMedia, MediaTakesData
    <3>2. <<media.phase, MediaDataSteps[media.phase][3]>> \in DataChain
      BY <3>1, DataLinks
    <3>3. media'.phase = MediaDataSteps[media.phase][3] /\ media'.first = media.first
      BY <1>1, <2>11 DEF WriteDataForMedia, MediaType
    <3>4. <<media.phase, media'.phase>> \in DataChain
      BY <3>2, <3>3
    <3>5. ASSUME media.phase = "ReadBusy" PROVE ReadIsOpen'
      <4>1. fdc' = Issued(READ, 129, FALSE)
        BY <2>11, <3>5 DEF WriteDataForMedia
      <4> QED
        BY <1>1, <4>1 DEF ReadIsOpen, Issued, FdcType
    <3>6. ASSUME media.phase = "SeekBusy" PROVE fdc'.typeI
      <4>1. fdc' = [Issued(SEEK, 229, TRUE) EXCEPT !.seek = TRUE]
        BY <2>11, <3>6 DEF WriteDataForMedia
      <4> QED
        BY <1>1, <4>1 DEF Issued, FdcType
    <3>7. media'.phase \in {"DriveSelector", "AddressLow", "CommandSelector",
             "SeekDataSelector", "SeekCommandSelector"} \/ media.phase \in {"ReadBusy", "SeekBusy"}
      BY <3>4 DEF DataChain
    <3>8. CASE media.phase = "ReadBusy"
      BY <3>1, <3>4, <3>5, <3>8 DEF CheckWaits, DataChain
    <3>9. CASE media.phase = "SeekBusy"
      BY <3>1, <3>4, <3>6, <3>9 DEF CheckWaits, DataChain
    <3> QED
      BY <3>1, <3>3, <3>4, <3>7, <3>8, <3>9 DEF CheckWaits, DataChain
  <2>12. ASSUME NEW i \in 1 .. 3, WriteAddress(i)
         PROVE  CheckWaits'
    <3>1. media.phase = AddressPhases[i] /\ fdc' = fdc /\ psg' = psg
      BY <1>5, <2>12 DEF WriteAddress
    <3>2. dma'.mode = dma.mode
      BY <1>1, <2>12 DEF WriteAddress, DmaType
    <3>3. media'.bytes = media.bytes + 1
            /\ media'.phase = IF i = 3 THEN "DMAResetRead" ELSE AddressPhases[i + 1]
      BY <1>1, <1>5, <2>12 DEF WriteAddress, MediaType
    <3>4. i = 3 => media.bytes = 2
      BY <1>1, <3>1 DEF AddressPhases, BytesCounted
    <3>5. dma.mode = "sector"
      BY <3>1 DEF CheckWaits, AddressPhases
    <3>6. media'.phase \in {"AddressMiddle", "AddressHigh", "DMAResetRead"}
      BY <3>3 DEF AddressPhases
    <3>7. media'.phase = "DMAResetRead" => i = 3
      BY <3>3 DEF AddressPhases
    <3>8. media'.phase = "DMAResetRead" => media'.bytes = 3
      BY <3>3, <3>4, <3>7
    <3> QED
      BY <3>2, <3>5, <3>6, <3>8 DEF CheckWaits
  <2>13. ~StartVblPass /\ ~SelectForVblExit /\ ~ReadForVbl /\ ~Deselect /\ ~BorrowPass
           /\ ~SelectStatusForVbl /\ ~ReadStatusForVbl
    BY <2>1 DEF StartVblPass, SelectForVblExit, ReadForVbl, Deselect, BorrowPass,
       SelectStatusForVbl, ReadStatusForVbl, VblReads
  <2>14. ASSUME NEW v \in EntryPorts PROVE ~ChooseDrive(v) /\ ~EndVblPass(v)
    BY <2>1 DEF ChooseDrive, EndVblPass
  <2>15. ~SelectForDrive /\ ~ReadForDrive /\ ~WriteForDrive
    BY <2>1 DEF SelectForDrive, ReadForDrive, WriteForDrive, DriveReady
  <2>16. ~Scan
    BY <1>5 DEF Scan, ResetCounter, SelectTarget, CommandTarget, AwaitTarget, LeaveTarget, Alone
  <2>17. ~StartFirstCheck /\ ~StartProbe /\ ~WriteModeForProbe /\ ~WriteDataForProbe
    BY <1>5 DEF StartFirstCheck, StartProbe, WriteModeForProbe, WriteDataForProbe, Alone
  <2>18. ~ReadStatusForProbe /\ ~CompleteRestore
    BY <2>1 DEF ReadStatusForProbe, CompleteRestore, FdcIsConsistent
  <2>19. CASE ReadbackCompletes \/ UNCHANGED vars
    BY <1>3, <2>19 DEF ReadbackCompletes, vars
  <2> QED
    BY <2>2, <2>3, <2>4, <2>6, <2>7, <2>8, <2>9, <2>10, <2>11, <2>12, <2>13, <2>14, <2>15,
       <2>16, <2>17, <2>18, <2>19 DEF Next, PortAccesses, MediaAccesses, VblAccesses,
       ProbeAccesses, Device
<1> QED
  BY <1>4, <1>5

(* The stages of boot, the FDC and its interrupt line keep together. *)
LEMMA FdcStep ==
  TypeOK /\ PassesComeLast /\ ChecksAreAlone /\ FdcIsConsistent /\ [Next]_vars
    => PassesComeLast' /\ FdcIsConsistent'
<1> SUFFICES ASSUME TypeOK, PassesComeLast, ChecksAreAlone, FdcIsConsistent, [Next]_vars
             PROVE  PassesComeLast' /\ FdcIsConsistent'
  OBVIOUS
<1>1. psg \in PsgType /\ vbl \in VblType /\ media \in MediaType /\ fdc \in FdcType
        /\ gpip5 \in {"low", "high"}
  BY DEF TypeOK
<1>2. CASE SelectForMedia
  BY <1>1, <1>2 DEF SelectForMedia, MediaSelects, PsgType, MediaType, PassesComeLast,
     FdcIsConsistent
<1>3. CASE StartVblPass
  BY <1>1, <1>3 DEF StartVblPass, VblMayStart, PsgType, VblType, PassesComeLast,
     FdcIsConsistent
<1>4. CASE SelectForVblExit
  BY <1>1, <1>4 DEF SelectForVblExit, PsgType, VblType, PassesComeLast, FdcIsConsistent
<1>5. CASE SelectForDrive
  BY <1>1, <1>5 DEF SelectForDrive, DriveReady, PsgType, PassesComeLast, FdcIsConsistent
<1>6. CASE SelectOther
  BY <1>1, <1>6 DEF SelectOther, PsgType, PassesComeLast, FdcIsConsistent
<1>7. CASE ReadForDrive
  BY <1>1, <1>7 DEF ReadForDrive, DriveReady, PsgType, PassesComeLast, FdcIsConsistent
<1>8. CASE ReadForMedia
  BY <1>1, <1>8 DEF ReadForMedia, MediaReads, MediaType, PassesComeLast, FdcIsConsistent
<1>9. CASE ReadForVbl
  BY <1>1, <1>9 DEF ReadForVbl, VblType, PassesComeLast, FdcIsConsistent
<1>10. CASE WriteForMedia
  BY <1>1, <1>10 DEF WriteForMedia, MediaWrites, PsgType, MediaType, PassesComeLast,
     FdcIsConsistent
<1>11. CASE Deselect
  BY <1>1, <1>11 DEF Deselect, PsgType, VblType, PassesComeLast, FdcIsConsistent
<1>12. CASE WriteForDrive
  BY <1>1, <1>12 DEF WriteForDrive, DriveReady, PsgType, PassesComeLast, FdcIsConsistent
<1>13. CASE InitPort
  BY <1>1, <1>13 DEF InitPort, PsgType, PassesComeLast, FdcIsConsistent
<1>14. CASE StartFirstCheck
  BY <1>1, <1>14 DEF StartFirstCheck, MediaType, PassesComeLast, FdcIsConsistent
<1>15. CASE BorrowPass
  BY <1>1, <1>15 DEF BorrowPass, BorrowedCheck, Borrows, NoCheck, VblType, MediaType,
     PassesComeLast, FdcIsConsistent
<1>16. CASE ReadStatusForMedia
  BY <1>1, <1>16 DEF ReadStatusForMedia, Cleared, MediaReadsStatus, Answered, NoCheck,
     MediaType, FdcType, PassesComeLast, FdcIsConsistent
<1>17. CASE SelectStatusForVbl
  BY <1>1, <1>17 DEF SelectStatusForVbl, VblType, PassesComeLast, FdcIsConsistent
<1>18. CASE ReadStatusForVbl
  <2>1. fdc.init = 14 /\ psg.stage = 9 /\ ~fdc.restore
    BY <1>18 DEF ReadStatusForVbl, VblReads, PassesComeLast, FdcIsConsistent
  <2>2. ~fdc.seek
    BY <1>18, <2>1 DEF ReadStatusForVbl, VblReads, FdcIsConsistent, ChecksAreAlone
  <2>3. fdc'.init = 14 /\ ~fdc'.restore /\ fdc'.irq = FALSE /\ fdc'.seek = fdc.seek
    BY <1>1, <1>18, <2>1 DEF ReadStatusForVbl, Cleared, FdcType
  <2> QED
    BY <1>18, <2>1, <2>2, <2>3 DEF ReadStatusForVbl, PassesComeLast, FdcIsConsistent
<1>19. CASE ResetCounter
  BY <1>1, <1>19 DEF ResetCounter, PassesComeLast, FdcIsConsistent
<1>20. CASE SelectTarget
  BY <1>1, <1>20 DEF SelectTarget, PassesComeLast, FdcIsConsistent
<1>21. CASE CommandTarget
  BY <1>1, <1>21 DEF CommandTarget, PassesComeLast, FdcIsConsistent
<1>22. CASE AwaitTarget
  BY <1>1, <1>22 DEF AwaitTarget, PassesComeLast, FdcIsConsistent
<1>23. CASE LeaveTarget
  BY <1>1, <1>23 DEF LeaveTarget, PassesComeLast, FdcIsConsistent
<1>24. CASE StartProbe
  <2>1. media.phase = "Idle" /\ vbl.stage = 0 /\ fdc.init \in {0, 14}
    BY <1>1, <1>24 DEF StartProbe, Alone, PassesComeLast
  <2>2. ~fdc.irq /\ ~fdc.restore /\ ~fdc.seek
    BY <2>1 DEF FdcIsConsistent
  <2>3. ~fdc'.irq /\ ~fdc'.restore /\ ~fdc'.seek
    BY <1>1, <1>24, <2>2 DEF StartProbe, FdcType
  <2> QED
    BY <1>24, <2>1, <2>2, <2>3 DEF StartProbe, PassesComeLast, FdcIsConsistent
<1>25. CASE WriteModeForProbe
  BY <1>1, <1>25 DEF WriteModeForProbe, ProbeModeSteps, Alone, FdcType, PassesComeLast,
     FdcIsConsistent
<1>26. CASE WriteDataForProbe
  BY <1>1, <1>26 DEF WriteDataForProbe, Issued, Alone, FdcType, PassesComeLast,
     FdcIsConsistent
<1>27. CASE ReadStatusForProbe
  BY <1>1, <1>27 DEF ReadStatusForProbe, Cleared, Answered, FdcType, PassesComeLast,
     FdcIsConsistent
<1>28. CASE CompleteRestore
  BY <1>1, <1>28 DEF CompleteRestore, FdcType, PassesComeLast, FdcIsConsistent
<1>29. CASE CompleteSeek
  BY <1>1, <1>29 DEF CompleteSeek, SeekIsForMedia, MediaType, FdcType, PassesComeLast,
     FdcIsConsistent
<1>30. CASE ReadbackCompletes
  BY <1>1, <1>30 DEF ReadbackCompletes, PassesComeLast, FdcIsConsistent
<1>31. CASE Reset
  BY <1>1, <1>31 DEF Reset, PsgReset, VblReset, FdcReset, NoCheck, PsgType, VblType,
     MediaType, FdcType, PassesComeLast, FdcIsConsistent
<1>32. ASSUME NEW v \in EntryPorts, ChooseDrive(v)
      PROVE  PassesComeLast' /\ FdcIsConsistent'
  BY <1>1, <1>32 DEF ChooseDrive, PsgType, VblType, PassesComeLast, FdcIsConsistent
<1>33. ASSUME NEW v \in EntryPorts, EndVblPass(v)
      PROVE  PassesComeLast' /\ FdcIsConsistent'
  BY <1>1, <1>33 DEF EndVblPass, PsgType, VblType, PassesComeLast, FdcIsConsistent
<1>34. ASSUME NEW mode \in Modes, WriteModeForMedia(mode)
      PROVE  PassesComeLast' /\ FdcIsConsistent'
  BY <1>1, <1>34, ModeLinks DEF WriteModeForMedia, MediaTakesMode, ModeChain, MediaType,
     PassesComeLast, FdcIsConsistent
<1>35. ASSUME NEW v \in {0, 1, READ, FORCE, SEEK}, WriteDataForMedia(v)
      PROVE  PassesComeLast' /\ FdcIsConsistent'
  BY <1>1, <1>35, DataLinks DEF WriteDataForMedia, MediaTakesData, Issued, DataChain,
     MediaType, FdcType, PassesComeLast, FdcIsConsistent
<1>36. ASSUME NEW i \in 1 .. 3, WriteAddress(i)
      PROVE  PassesComeLast' /\ FdcIsConsistent'
  BY <1>1, <1>36 DEF WriteAddress, AddressPhases, MediaType, PassesComeLast,
     FdcIsConsistent
<1>37. CASE UNCHANGED vars
  BY <1>37 DEF vars, PassesComeLast, FdcIsConsistent
<1> QED
  BY <1>2, <1>3, <1>4, <1>5, <1>6, <1>7, <1>8, <1>9, <1>10, <1>11, <1>12, <1>13, <1>14,
     <1>15, <1>16, <1>17, <1>18, <1>19, <1>20, <1>21, <1>22, <1>23, <1>24, <1>25, <1>26,
     <1>27, <1>28, <1>29, <1>30, <1>31, <1>32, <1>33, <1>34, <1>35, <1>36, <1>37 DEF Next,
     PortAccesses, MediaAccesses, VblAccesses, Scan, ProbeAccesses, Device

(* A driver that does not overlap its passes and checks keeps them apart. *)
LEMMA DriveStep ==
  Overlap = FALSE /\ TypeOK /\ PassesComeLast /\ ChecksAreAlone /\ CheckKeepsItsDrive
      /\ PortRemembered /\ [Next]_vars
    => ChecksAreAlone' /\ CheckKeepsItsDrive' /\ PortRemembered'
<1> SUFFICES ASSUME Overlap = FALSE, TypeOK, PassesComeLast, ChecksAreAlone,
                    CheckKeepsItsDrive, PortRemembered, [Next]_vars
             PROVE  ChecksAreAlone' /\ CheckKeepsItsDrive' /\ PortRemembered'
  OBVIOUS
<1>1. psg \in PsgType /\ vbl \in VblType /\ media \in MediaType
  BY DEF TypeOK
<1>2. CASE SelectForMedia
  BY <1>1, <1>2 DEF SelectForMedia, MediaSelects, PsgType, MediaType, PassesComeLast,
     ChecksAreAlone, CheckKeepsItsDrive, PortRemembered
<1>3. CASE StartVblPass
  BY <1>1, <1>3 DEF StartVblPass, VblMayStart, Alone, InPass, PsgType, VblType,
     PassesComeLast, ChecksAreAlone, CheckKeepsItsDrive, PortRemembered
<1>4. CASE SelectForVblExit
  BY <1>1, <1>4 DEF SelectForVblExit, PsgType, VblType, PassesComeLast, ChecksAreAlone,
     CheckKeepsItsDrive, PortRemembered
<1>5. CASE SelectForDrive
  BY <1>1, <1>5 DEF SelectForDrive, DriveReady, PsgType, PassesComeLast, ChecksAreAlone,
     CheckKeepsItsDrive, PortRemembered
<1>6. CASE SelectOther
  BY <1>1, <1>6 DEF SelectOther, PsgType, PassesComeLast, ChecksAreAlone,
     CheckKeepsItsDrive, PortRemembered
<1>7. CASE ReadForDrive
  BY <1>1, <1>7 DEF ReadForDrive, DriveReady, PsgType, PassesComeLast, ChecksAreAlone,
     CheckKeepsItsDrive, PortRemembered
<1>8. CASE ReadForMedia
  BY <1>1, <1>8 DEF ReadForMedia, MediaReads, MediaType, PassesComeLast, ChecksAreAlone,
     CheckKeepsItsDrive, PortRemembered
<1>9. CASE ReadForVbl
  <2>1. CASE vbl.stage = 1
    <3>1. vbl'.stage = 2 /\ vbl'.entry = before /\ psg' = psg
      <4>1. vbl' = [vbl EXCEPT !.entry = psg.porta, !.stage = 2] /\ psg' = psg
        BY <1>9, <2>1 DEF ReadForVbl
      <4>2. psg.porta = before
        BY <2>1 DEF PortRemembered
      <4> QED
        BY <1>1, <4>1, <4>2 DEF VblType
    <3> QED
      BY <1>9, <2>1, <3>1 DEF ReadForVbl, ChecksAreAlone, CheckKeepsItsDrive, PortRemembered
  <2>2. CASE vbl.stage = 6
    <3>1. vbl'.stage = 7 /\ vbl'.entry = before /\ psg' = psg
      BY <1>1, <1>9, <2>2 DEF ReadForVbl, VblType, PortRemembered
    <3> QED
      BY <1>9, <2>2, <3>1 DEF ReadForVbl, ChecksAreAlone, CheckKeepsItsDrive, PortRemembered
  <2> QED
    BY <1>9, <2>1, <2>2 DEF ReadForVbl
<1>10. CASE WriteForMedia
  BY <1>1, <1>10 DEF WriteForMedia, MediaWrites, PsgType, MediaType, PassesComeLast,
     ChecksAreAlone, CheckKeepsItsDrive, PortRemembered
<1>11. CASE Deselect
  BY <1>1, <1>11 DEF Deselect, PsgType, VblType, PassesComeLast, ChecksAreAlone,
     CheckKeepsItsDrive, PortRemembered
<1>12. CASE WriteForDrive
  BY <1>1, <1>12 DEF WriteForDrive, DriveReady, PsgType, PassesComeLast, ChecksAreAlone,
     CheckKeepsItsDrive, PortRemembered
<1>13. CASE InitPort
  <2>1. vbl' = vbl /\ media' = media /\ before' = before
    BY <1>13 DEF InitPort
  <2>2. psg'.porta = psg.porta \/ psg.porta = 0
    BY <1>1, <1>13 DEF InitPort, PsgType
  <2>3. psg.porta # 0 => psg'.porta = psg.porta
    BY <2>2
  <2> QED
    BY <2>1, <2>3 DEF ChecksAreAlone, CheckKeepsItsDrive, PortRemembered, EntryPorts,
       DRIVE0, DRIVE1, NODRIVE
<1>14. CASE StartFirstCheck
  BY <1>1, <1>14 DEF StartFirstCheck, MediaType, PassesComeLast, ChecksAreAlone,
     CheckKeepsItsDrive, PortRemembered
<1>15. CASE BorrowPass
  BY <1>1, <1>15 DEF BorrowPass, BorrowedCheck, Borrows, NoCheck, VblType, MediaType,
     PassesComeLast, ChecksAreAlone, CheckKeepsItsDrive, PortRemembered
<1>16. CASE ReadStatusForMedia
  BY <1>1, <1>16 DEF ReadStatusForMedia, Cleared, MediaReadsStatus, Answered, NoCheck,
     MediaType, PassesComeLast, ChecksAreAlone, CheckKeepsItsDrive, PortRemembered
<1>17. CASE SelectStatusForVbl
  BY <1>1, <1>17 DEF SelectStatusForVbl, VblType, PassesComeLast, ChecksAreAlone,
     CheckKeepsItsDrive, PortRemembered
<1>18. CASE ReadStatusForVbl
  BY <1>1, <1>18 DEF ReadStatusForVbl, Cleared, VblReads, VblType, PassesComeLast,
     ChecksAreAlone, CheckKeepsItsDrive, PortRemembered
<1>19. CASE ResetCounter
  BY <1>1, <1>19 DEF ResetCounter, PassesComeLast, ChecksAreAlone, CheckKeepsItsDrive,
     PortRemembered
<1>20. CASE SelectTarget
  BY <1>1, <1>20 DEF SelectTarget, PassesComeLast, ChecksAreAlone, CheckKeepsItsDrive,
     PortRemembered
<1>21. CASE CommandTarget
  BY <1>1, <1>21 DEF CommandTarget, PassesComeLast, ChecksAreAlone, CheckKeepsItsDrive,
     PortRemembered
<1>22. CASE AwaitTarget
  BY <1>1, <1>22 DEF AwaitTarget, PassesComeLast, ChecksAreAlone, CheckKeepsItsDrive,
     PortRemembered
<1>23. CASE LeaveTarget
  BY <1>1, <1>23 DEF LeaveTarget, PassesComeLast, ChecksAreAlone, CheckKeepsItsDrive,
     PortRemembered
<1>24. CASE StartProbe
  BY <1>1, <1>24 DEF StartProbe, Alone, PassesComeLast, ChecksAreAlone,
     CheckKeepsItsDrive, PortRemembered
<1>25. CASE WriteModeForProbe
  BY <1>1, <1>25 DEF WriteModeForProbe, ProbeModeSteps, Alone, PassesComeLast,
     ChecksAreAlone, CheckKeepsItsDrive, PortRemembered
<1>26. CASE WriteDataForProbe
  BY <1>1, <1>26 DEF WriteDataForProbe, Issued, Alone, PassesComeLast, ChecksAreAlone,
     CheckKeepsItsDrive, PortRemembered
<1>27. CASE ReadStatusForProbe
  BY <1>1, <1>27 DEF ReadStatusForProbe, Cleared, Answered, PassesComeLast,
     ChecksAreAlone, CheckKeepsItsDrive, PortRemembered
<1>28. CASE CompleteRestore
  BY <1>1, <1>28 DEF CompleteRestore, PassesComeLast, ChecksAreAlone,
     CheckKeepsItsDrive, PortRemembered
<1>29. CASE CompleteSeek
  BY <1>1, <1>29 DEF CompleteSeek, SeekIsForMedia, MediaType, PassesComeLast,
     ChecksAreAlone, CheckKeepsItsDrive, PortRemembered
<1>30. CASE ReadbackCompletes
  BY <1>1, <1>30 DEF ReadbackCompletes, PassesComeLast, ChecksAreAlone,
     CheckKeepsItsDrive, PortRemembered
<1>31. CASE Reset
  BY <1>1, <1>31 DEF Reset, PsgReset, VblReset, FdcReset, NoCheck, PsgType, VblType,
     MediaType, PassesComeLast, ChecksAreAlone, CheckKeepsItsDrive, PortRemembered
<1>32. ASSUME NEW v \in EntryPorts, ChooseDrive(v)
      PROVE  ChecksAreAlone' /\ CheckKeepsItsDrive' /\ PortRemembered'
  BY <1>1, <1>32 DEF ChooseDrive, PsgType, VblType, PassesComeLast, ChecksAreAlone,
     CheckKeepsItsDrive, PortRemembered
<1>33. ASSUME NEW v \in EntryPorts, EndVblPass(v)
      PROVE  ChecksAreAlone' /\ CheckKeepsItsDrive' /\ PortRemembered'
  BY <1>1, <1>33 DEF EndVblPass, PsgType, VblType, PassesComeLast, ChecksAreAlone,
     CheckKeepsItsDrive, PortRemembered
<1>34. ASSUME NEW mode \in Modes, WriteModeForMedia(mode)
      PROVE  ChecksAreAlone' /\ CheckKeepsItsDrive' /\ PortRemembered'
  BY <1>1, <1>34, ModeLinks DEF WriteModeForMedia, MediaTakesMode, ModeChain, MediaType,
     PassesComeLast, ChecksAreAlone, CheckKeepsItsDrive, PortRemembered
<1>35. ASSUME NEW v \in {0, 1, READ, FORCE, SEEK}, WriteDataForMedia(v)
      PROVE  ChecksAreAlone' /\ CheckKeepsItsDrive' /\ PortRemembered'
  BY <1>1, <1>35, DataLinks DEF WriteDataForMedia, MediaTakesData, Issued, DataChain,
     MediaType, PassesComeLast, ChecksAreAlone, CheckKeepsItsDrive, PortRemembered
<1>36. ASSUME NEW i \in 1 .. 3, WriteAddress(i)
      PROVE  ChecksAreAlone' /\ CheckKeepsItsDrive' /\ PortRemembered'
  BY <1>1, <1>36 DEF WriteAddress, AddressPhases, MediaType, PassesComeLast,
     ChecksAreAlone, CheckKeepsItsDrive, PortRemembered
<1>37. CASE UNCHANGED vars
  BY <1>37 DEF vars, ChecksAreAlone, CheckKeepsItsDrive, PortRemembered
<1> QED
  BY <1>2, <1>3, <1>4, <1>5, <1>6, <1>7, <1>8, <1>9, <1>10, <1>11, <1>12, <1>13, <1>14,
     <1>15, <1>16, <1>17, <1>18, <1>19, <1>20, <1>21, <1>22, <1>23, <1>24, <1>25, <1>26,
     <1>27, <1>28, <1>29, <1>30, <1>31, <1>32, <1>33, <1>34, <1>35, <1>36, <1>37 DEF Next,
     PortAccesses, MediaAccesses, VblAccesses, Scan, ProbeAccesses, Device

------------------------------------------------------------------------------
LEMMA InitTyped == Init => TInv /\ PassesComeLast /\ ScanCounts
<1> SUFFICES ASSUME Init
             PROVE  TInv /\ PassesComeLast /\ ScanCounts
  OBVIOUS
<1>1. psg \in PsgType
  <2>1. SOUND \in Registers /\ 0 \in PortValues /\ 0 \in DriveStages
    BY PortMembers
  <2> QED
    BY <2>1 DEF Init, PsgReset, PsgType
<1>2. vbl \in VblType
  <2>1. 0 \in VblStages
    BY VblMembers
  <2> QED
    BY <2>1 DEF Init, VblReset, VblType
<1>3. media \in MediaType
  <2>1. "Idle" \in Phases /\ 0 \in Triples
    BY PhaseNames, CheckMembers
  <2> QED
    BY <2>1 DEF Init, NoCheck, MediaType
<1>4. dma \in DmaType /\ acsi \in AcsiType
  <2>1. 0 \in Triples /\ 0 \in AcsiStages
    BY CheckMembers, AcsiMembers
  <2> QED
    BY <2>1 DEF Init, DmaReset, DmaType, AcsiReset, AcsiType
<1>5. fdc \in FdcType
  <2>1. 0 \in FdcCommands /\ 0 \in FdcStatuses /\ 0 \in InitStages
    BY FdcMembers
  <2> QED
    BY <2>1 DEF Init, FdcReset, FdcType
<1>6. BytesCounted /\ PassesComeLast /\ ScanCounts
  BY DEF Init, NoCheck, VblReset, AcsiReset, BytesCounted, PassesComeLast, ScanCounts
<1> QED
  BY <1>1, <1>2, <1>3, <1>4, <1>5, <1>6 DEF TInv, TypeOK, Init

(* Every variable keeps its type: the scripts stay on their tables. *)
THEOREM TypeCorrect == Spec => []TypeOK
<1>1. Init => TInv
  BY InitTyped
<1>2. TInv /\ [Next]_vars => TInv'
  BY TypeStep
<1>3. TInv => TypeOK
  BY DEF TInv
<1> QED
  BY <1>1, <1>2, <1>3, PTL DEF Spec

(***************************************************************************)
(* Whatever the driver overlaps, the ACSI scan of the boot is over only    *)
(* when every target has been tried, for every number of targets.          *)
(***************************************************************************)
THEOREM ScanIsComplete == Spec => []ScanCoversTheBus
<1>1. Init => TInv /\ ScanCounts
  BY InitTyped
<1>2. TInv /\ ScanCounts /\ [Next]_vars => (TInv /\ ScanCounts)'
  BY TypeStep, ScanStep DEF TInv
<1>3. ScanCounts => ScanCoversTheBus
  BY DEF ScanCounts, ScanCoversTheBus
<1> QED
  BY <1>1, <1>2, <1>3, PTL DEF Spec

(* The inductive invariant of a driver that does not overlap its accesses. *)
IInv ==
  /\ TInv /\ PassesComeLast /\ ChecksAreAlone
  /\ FdcIsConsistent /\ CheckKeepsItsDrive /\ PortRemembered
  /\ PassWaits /\ CheckWaits

LEMMA Invariance == ASSUME Overlap = FALSE PROVE Spec => []IInv
<1>1. Init => IInv
  <2>1. Init => ChecksAreAlone /\ CheckKeepsItsDrive /\ PortRemembered
    BY DEF Init, NoCheck, VblReset, ChecksAreAlone, CheckKeepsItsDrive, PortRemembered
  <2>2. Init => FdcIsConsistent
    BY DEF Init, FdcReset, FdcIsConsistent
  <2>3. Init => PassWaits /\ CheckWaits
    BY DEF Init, PsgReset, VblReset, NoCheck, PassWaits, CheckWaits
  <2> QED
    BY <2>1, <2>2, <2>3, InitTyped DEF IInv
<1>2. IInv /\ [Next]_vars => IInv'
  <2> SUFFICES ASSUME IInv, [Next]_vars
               PROVE  IInv'
    OBVIOUS
  <2>1. TInv'
    BY TypeStep DEF IInv
  <2>2. PassesComeLast' /\ FdcIsConsistent'
    BY FdcStep DEF IInv, TInv
  <2>3. ChecksAreAlone' /\ CheckKeepsItsDrive' /\ PortRemembered'
    BY DriveStep DEF IInv, TInv
  <2>4. PassWaits' /\ CheckWaits'
    BY PassStep, CheckStep DEF IInv, TInv
  <2> QED
    BY <2>1, <2>2, <2>3, <2>4 DEF IInv
<1> QED
  BY <1>1, <1>2, PTL DEF Spec

(***************************************************************************)
(* With the ROM's driver an interrupt of the FDC is always on its line,    *)
(* a command under way shows busy, and somebody waits for its end.         *)
(***************************************************************************)
THEOREM FdcConsistent == Overlap = FALSE /\ Spec => []FdcIsConsistent
<1> SUFFICES ASSUME Overlap = FALSE PROVE Spec => []FdcIsConsistent
  OBVIOUS
<1>1. Spec => []IInv
  BY Invariance
<1>2. IInv => FdcIsConsistent
  BY DEF IInv
<1> QED
  BY <1>1, <1>2, PTL

(***************************************************************************)
(* With the ROM's driver nothing takes the drive away from a media check,  *)
(* though flopvbl() runs from the VBL interrupt.                           *)
(***************************************************************************)
THEOREM DriveStaysSelected == Overlap = FALSE /\ Spec => []CheckKeepsItsDrive
<1> SUFFICES ASSUME Overlap = FALSE PROVE Spec => []CheckKeepsItsDrive
  OBVIOUS
<1>1. Spec => []IInv
  BY Invariance
<1>2. IInv => CheckKeepsItsDrive
  BY DEF IInv
<1> QED
  BY <1>1, <1>2, PTL

(* With the ROM's driver a pass puts back the port it found. *)
THEOREM PortRestored == Overlap = FALSE /\ Spec => PassRestoresThePort
<1> SUFFICES ASSUME Overlap = FALSE PROVE Spec => PassRestoresThePort
  OBVIOUS
<1>1. Spec => []IInv
  BY Invariance
<1>2. IInv /\ [Next]_vars => [vbl.stage = 7 /\ vbl'.stage = 8 => psg'.porta = before]_vars
  <2> SUFFICES ASSUME IInv, Next, vbl.stage = 7, vbl'.stage = 8
               PROVE  psg'.porta = before
    OBVIOUS
  <2>1. psg \in PsgType /\ vbl \in VblType /\ vbl.entry = before
    BY DEF IInv, TInv, TypeOK, PortRemembered
  <2>2. vbl' # vbl
    OBVIOUS
  <2>3. ~Reset
    BY DEF Reset, VblReset
  <2>4. \/ StartVblPass \/ SelectForVblExit \/ ReadForVbl \/ Deselect \/ BorrowPass
        \/ SelectStatusForVbl \/ ReadStatusForVbl
        \/ \E v \in EntryPorts : ChooseDrive(v) \/ EndVblPass(v)
    BY <2>2, <2>3 DEF Next, PortAccesses, MediaAccesses, VblAccesses, Scan,
       ProbeAccesses, Device, SelectForMedia, SelectForDrive, SelectOther, ReadForDrive,
       ReadForMedia, WriteForMedia, WriteForDrive, InitPort, StartFirstCheck,
       ReadStatusForMedia, ResetCounter, SelectTarget, CommandTarget, AwaitTarget,
       LeaveTarget, StartProbe, WriteModeForProbe, WriteDataForProbe, ReadStatusForProbe,
       CompleteRestore, CompleteSeek, ReadbackCompletes, WriteModeForMedia,
       WriteDataForMedia, WriteAddress
  <2>5. ASSUME NEW v \in EntryPorts PROVE ~ChooseDrive(v)
    BY DEF ChooseDrive
  <2>6. ~StartVblPass /\ ~SelectForVblExit /\ ~ReadForVbl /\ ~Deselect
    BY DEF StartVblPass, VblMayStart, SelectForVblExit, ReadForVbl, Deselect
  <2>7. ~BorrowPass /\ ~SelectStatusForVbl /\ ~ReadStatusForVbl
    BY DEF BorrowPass, SelectStatusForVbl, ReadStatusForVbl, VblReads
  <2>8. \E v \in EntryPorts : EndVblPass(v)
    BY <2>4, <2>5, <2>6, <2>7
  <2> QED
    BY <2>1, <2>8 DEF EndVblPass, Restores, PsgType
<1> QED
  BY <1>1, <1>2, PTL DEF Spec, PassRestoresThePort

(***************************************************************************)
(* The stage of the boot's probes goes forward one by one, whatever the    *)
(* driver overlaps: a completion that comes late never reaches a script    *)
(* other than the one that gave the command.                               *)
(***************************************************************************)
THEOREM BootGoesForward == Spec => BootStageGoesForward
<1>1. Init => TInv /\ PassesComeLast /\ PendingOwned
  BY InitTyped DEF Init, FdcReset, PendingOwned
<1>2. TInv /\ PassesComeLast /\ PendingOwned /\ [Next]_vars
        => (TInv /\ PassesComeLast /\ PendingOwned)'
  BY TypeStep, BootStep DEF TInv
<1>3. TInv /\ PassesComeLast /\ PendingOwned /\ [Next]_vars => [GoesForward]_vars
  BY BootStep DEF TInv
<1> QED
  BY <1>1, <1>2, <1>3, PTL DEF Spec, BootStageGoesForward, GoesForward

(***************************************************************************)
(* With the ROM's driver no pass and no check is ever left waiting for an  *)
(* access the code would refuse: the mode, the port and the FDC are those  *)
(* its next step asks for, whatever ran before it.                         *)
(***************************************************************************)
THEOREM PassesGoOn == Overlap = FALSE /\ Spec => []PassesCanGoOn
<1> SUFFICES ASSUME Overlap = FALSE PROVE Spec => []PassesCanGoOn
  OBVIOUS
<1>1. Spec => []IInv
  BY Invariance
<1>2. IInv => PassesCanGoOn
  <2> SUFFICES ASSUME IInv PROVE PassesCanGoOn
    OBVIOUS
  <2>1. psg \in PsgType /\ media \in MediaType /\ dma \in DmaType /\ BytesCounted
          /\ PassWaits /\ CheckWaits
    BY DEF IInv, TInv, TypeOK
  <2>2. media.phase # "Idle" => psg.stage = 9 /\ psg.ports
    BY <2>1 DEF IInv, PassesComeLast, PassWaits
  <2>3. vbl.stage = 4 => VblReads
    BY <2>1 DEF IInv, PassesComeLast, PassWaits, VblReads
  <2>4. ASSUME media.phase \in DOMAIN MediaModeSteps
        PROVE  \E mode \in Modes : MediaTakesMode(mode)
    <3>1. <<media.phase, MediaModeSteps[media.phase][2], MediaModeSteps[media.phase][3]>>
            \in ModeScript
      BY <2>4, ModeScripts
    <3>2. MediaModeSteps[media.phase][2] \in Modes
      BY <3>1 DEF ModeScript, Modes
    <3>3. dma.mode \in MediaModeSteps[media.phase][1]
      <4>1. media.phase \in {"SectorSelector", "DMAResetRead", "DMAResetWrite",
               "CommandSelector", "TimeoutSelector", "SeekDataSelector",
               "SeekCommandSelector", "SeekIRQ"}
        BY <3>1 DEF ModeScript
      <4>2. dma.mode = CASE media.phase = "SectorSelector" -> "track"
                         [] media.phase = "DMAResetRead" -> "sector"
                         [] media.phase = "DMAResetWrite" -> "toggle"
                         [] media.phase = "CommandSelector" -> "count"
                         [] media.phase = "SeekCommandSelector" -> "data"
                         [] OTHER -> "command"
        BY <2>1, <4>1 DEF CheckWaits
      <4> QED
        BY <4>1, <4>2 DEF MediaModeSteps, Modes
    <3>4. media.phase = "SectorSelector" => dma.mode = SectorSelectorMode
      BY <2>1 DEF CheckWaits, SectorSelectorMode
    <3> QED
      BY <2>1, <2>4, <3>2, <3>3, <3>4 DEF MediaTakesMode, CheckWaits
  <2>5. ASSUME media.phase \in DOMAIN MediaDataSteps
        PROVE  \E v \in {0, 1, READ, FORCE, SEEK} : MediaTakesData(v)
    <3>1. <<media.phase, MediaDataSteps[media.phase][3]>> \in DataChain
      BY <2>5, DataLinks
    <3>2. media.phase \in {"TrackSelector", "SectorData", "Count", "ReadBusy",
                           "ForceInterrupt", "SeekData", "SeekBusy"}
      BY <3>1 DEF DataChain
    <3>3. dma.mode = MediaDataSteps[media.phase][1]
      BY <2>1, <3>2 DEF CheckWaits, MediaDataSteps
    <3>4. MediaDataSteps[media.phase][2] \in {0, 1, READ, FORCE, SEEK}
      BY <3>2 DEF MediaDataSteps
    <3>5. MediaTakesData(MediaDataSteps[media.phase][2])
      BY <2>1, <2>5, <3>3 DEF MediaTakesData, CheckWaits
    <3> QED
      BY <3>4, <3>5
  <2>6. media.phase \in DOMAIN MediaModeSteps \cup DOMAIN MediaDataSteps
                       \cup {"Idle", "DriveSelector", "DriveRead", "DriveWrite",
                            "AddressLow", "AddressMiddle", "AddressHigh", "StatusRead"}
    BY <2>1 DEF MediaType, Phases
  <2>7. media.phase \in {"DriveSelector", "DriveRead", "DriveWrite"}
          => MediaSelects \/ MediaReads \/ MediaWrites(DRIVE0)
               \/ (media.phase = "DriveSelector" /\ psg.porta # DRIVE1)
    BY <2>1, <2>2 DEF CheckWaits, MediaSelects, MediaReads, MediaWrites
  <2>8. media.phase = "StatusRead" => MediaReadsStatus
    BY <2>1 DEF CheckWaits, MediaReadsStatus
  <2> QED
    BY <2>1, <2>3, <2>4, <2>5, <2>6, <2>7, <2>8 DEF BytesCounted, PassWaits, PassesCanGoOn
<1> QED
  BY <1>1, <1>2, PTL
==============================================================================
