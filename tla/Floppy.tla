------------------------------- MODULE Floppy -------------------------------
(***************************************************************************)
(* The floppy side of internal/st/memory.go: port A of the sound chip,     *)
(* which selects a drive, the mode register of the DMA chip, the disk      *)
(* controller (FDC) and the empty ACSI bus.  The code accepts an access    *)
(* only if one of its scripts waits for it: the drive selects and FDC      *)
(* probes of the boot, the reset of the DMA counter and the ACSI scan, the *)
(* flopvbl() pass that checks for a changed disk, and the media check that *)
(* tries to read a sector.  The scripts share all four devices.            *)
(*                                                                         *)
(* An access that no script accepts is a bus fault and changes nothing.    *)
(* DMA modes are named: "command" is $0080, "track" $0082, "sector" $0084, *)
(* "data" $0086, "acsi" $0088, "acsiData" $008A, "count" $0090 and         *)
(* "toggle" $0190.  The delay of the FDC is abstracted: a command that is  *)
(* pending may complete at any moment.  A finished check appends a receipt *)
(* to the ring of FloppyMediaReceipts, which is not repeated here.         *)
(***************************************************************************)
EXTENDS Integers

CONSTANTS
  LastTarget,  \* the last ACSI target, 7 in the code
  Overlap      \* TRUE: flopvbl() also runs within a media check

ASSUME TargetAssumption == LastTarget \in Nat \ {0}
ASSUME OverlapAssumption == Overlap \in BOOLEAN

VARIABLES
  psg,       \* register selected, port directions set, port A, psgDriveStage
  vbl,       \* flopVBLMediaStage, EntryPort, Drive, Complete
  media,     \* floppyMediaPhase, Current.LockedTrack, Current.DMAAddressStage
  locked,    \* floppyMediaLocked
  dma,       \* dmaMode, dmaAddressWriteStage, dmaInitStage
  acsi,      \* acsiStage, acsiTarget, acsiAttemptMask as a set
  fdc,       \* the FDC, its boot stage, and its pending commands
  gpip5,     \* mfpGPIPIn bit 5: low while the FDC interrupts
  readback,  \* ikbdClockReadbackComplete
  before     \* history: port A when the present flopvbl() pass began

vars == <<psg, vbl, media, locked, dma, acsi, fdc, gpip5, readback, before>>

DRIVE1  == 35  \* $23, port A with drive 1 selected
DRIVE0  == 37  \* $25, drive 0
NODRIVE == 39  \* $27, neither

RESTORE == 11  \* $0B
SEEK  == 19    \* $13
READ  == 128   \* $80
FORCE == 208   \* $D0

PORTA == 14    \* the register that is port A
MIXER == 7     \* the register with the port directions
SOUND == 0     \* stands for every other register up to psgSoundRegisterMax

Modes == {"command", "track", "sector", "data", "acsi", "acsiData", "count", "toggle"}

(* The state ColdReset leaves behind. *)
PsgReset  == [sel |-> SOUND, ports |-> FALSE, porta |-> 0, stage |-> 0]
VblReset  == [stage |-> 0, entry |-> 0, drive |-> -1, complete |-> FALSE]
NoCheck   == [phase |-> "Idle", first |-> FALSE, bytes |-> 0]
DmaReset  == [mode |-> "none", address |-> 0, init |-> 0]
AcsiReset == [stage |-> 0, target |-> -1, attempts |-> {}]
FdcReset  == [command |-> 0, status |-> 0, typeI |-> FALSE, irq |-> FALSE,
              init |-> 0, probe |-> -1, restore |-> FALSE, seek |-> FALSE]

Init ==
  /\ psg = PsgReset /\ vbl = VblReset
  /\ media = NoCheck /\ locked = FALSE
  /\ dma = DmaReset /\ acsi = AcsiReset
  /\ fdc = FdcReset /\ gpip5 = "high"
  /\ readback = FALSE
  /\ before = 0

(***************************************************************************)
(* What the ROM's driver does: it starts nothing else within a pass or a   *)
(* check; set_psg_porta runs with interrupts masked; and flopvbl() returns *)
(* at once while a media check is under way, unless Overlap.               *)
(***************************************************************************)
InPass == vbl.stage \in 1 .. 7
Alone == media.phase = "Idle" /\ ~InPass

PortAccess ==
  \/ psg.stage \in {1, 2, 4, 5, 7, 8}
  \/ vbl.stage \in {1, 2, 6, 7}
  \/ media.phase \in {"DriveRead", "DriveWrite"}

(* The FDC takes a command, or its interrupt is cleared by a status read. *)
Issued(command, status, typeI) ==
  [fdc EXCEPT !.command = command, !.status = status, !.typeI = typeI, !.irq = FALSE]

(* Mutant of Cleared: the interrupt is left on. *)
ClearedButIrq == [fdc EXCEPT !.status = 228]

Cleared == [fdc EXCEPT !.status = 228, !.irq = FALSE]

------------------------------------------------------------------------------
(* Port A: the three drive selects of the boot, 7 -> 5 -> 3 -> $23.        *)

DriveFrom(stage) == IF stage <= 2 THEN 7 ELSE IF stage <= 5 THEN 5 ELSE 3
DriveTo(stage)   == IF stage <= 2 THEN 5 ELSE IF stage <= 5 THEN 3 ELSE DRIVE1

(* A boot select waits for its step, the FDC probe or scan before it done. *)
DriveReady(stages) ==
  /\ psg.stage \in stages
  /\ psg.ports /\ psg.porta = DriveFrom(psg.stage)
  /\ psg.stage >= 3 => fdc.init = 14
  /\ psg.stage >= 6 => acsi.stage = 5

(* flopVBLTargetPort, $FF while the drive is not known. *)
TargetPort == CASE vbl.drive = 0 -> DRIVE0 [] vbl.drive = 1 -> DRIVE1 [] OTHER -> 255

(* isFlopVBLEntryPort *)
EntryPorts == {DRIVE1, DRIVE0, NODRIVE}

MediaSelects == media.phase = "DriveSelector" /\ psg.stage = 9 /\ psg.ports /\ psg.porta = DRIVE1

VblMayStart ==
  /\ psg.stage = 9 /\ vbl.stage \in {0, 8}
  /\ readback /\ fdc.init = 14 /\ acsi.stage = 5
  /\ psg.ports /\ psg.porta \in EntryPorts

(* Writes of $FF8800 that select port A, in the order of the code. *)
SelectForMedia ==
  /\ MediaSelects
  /\ psg' = [psg EXCEPT !.sel = PORTA]
  /\ media' = [media EXCEPT !.phase = "DriveRead"]
  /\ UNCHANGED <<vbl, locked, dma, acsi, fdc, gpip5, readback, before>>

StartVblPass ==
  /\ ~MediaSelects /\ VblMayStart /\ (Alone \/ Overlap)
  /\ psg' = [psg EXCEPT !.sel = PORTA]
  /\ vbl' = [vbl EXCEPT !.drive = -1, !.stage = 1]
  /\ before' = psg.porta
  /\ UNCHANGED <<media, locked, dma, acsi, fdc, gpip5, readback>>

SelectForVblExit ==
  /\ ~MediaSelects
  /\ psg.stage = 9 /\ vbl.stage = 5 /\ psg.porta = TargetPort
  /\ psg' = [psg EXCEPT !.sel = PORTA]
  /\ vbl' = [vbl EXCEPT !.stage = 6]
  /\ UNCHANGED <<media, locked, dma, acsi, fdc, gpip5, readback, before>>

SelectForDrive ==
  /\ DriveReady({0, 3, 6})
  /\ psg' = [psg EXCEPT !.sel = PORTA, !.stage = @ + 1]
  /\ UNCHANGED <<vbl, media, locked, dma, acsi, fdc, gpip5, readback, before>>

(* The first selects of the boot, and any sound register from then on. *)
SelectOther ==
  /\ \/ /\ psg.sel = SOUND /\ ~psg.ports /\ psg.porta = 0
        /\ psg' = [psg EXCEPT !.sel = MIXER]
     \/ /\ psg.sel = MIXER /\ psg.ports /\ psg.porta = 0
        /\ psg' = [psg EXCEPT !.sel = PORTA]
     \/ /\ psg.ports
        /\ PortAccess => Overlap
        /\ \E r \in {SOUND, MIXER} : psg' = [psg EXCEPT !.sel = r]
  /\ UNCHANGED <<vbl, media, locked, dma, acsi, fdc, gpip5, readback, before>>

(* Reads of $FF8800 that move a script on; a sound register is just read. *)
MediaReads == media.phase = "DriveRead" /\ psg.stage = 9 /\ psg.sel = PORTA
                /\ psg.ports /\ psg.porta = DRIVE1

ReadForDrive ==
  /\ DriveReady({1, 4, 7}) /\ psg.sel = PORTA
  /\ psg' = [psg EXCEPT !.stage = @ + 1]
  /\ UNCHANGED <<vbl, media, locked, dma, acsi, fdc, gpip5, readback, before>>

ReadForMedia ==
  /\ MediaReads
  /\ media' = [media EXCEPT !.phase = "DriveWrite"]
  /\ UNCHANGED <<psg, vbl, locked, dma, acsi, fdc, gpip5, readback, before>>

ReadForVbl ==
  /\ ~MediaReads /\ psg.stage = 9 /\ psg.sel = PORTA
  /\ \/ /\ vbl.stage = 1 /\ readback /\ psg.porta \in EntryPorts
        /\ vbl' = [vbl EXCEPT !.entry = psg.porta, !.stage = 2]
     \/ /\ vbl.stage = 6 /\ psg.porta = TargetPort
        /\ vbl' = [vbl EXCEPT !.stage = 7]
  /\ UNCHANGED <<psg, media, locked, dma, acsi, fdc, gpip5, readback, before>>

(* Writes of $FF8802, in the order of the code. *)
MediaWrites(v) == media.phase = "DriveWrite" /\ psg.stage = 9 /\ psg.sel = PORTA
                    /\ psg.ports /\ psg.porta = DRIVE1 /\ v = DRIVE0

WriteForMedia ==
  /\ MediaWrites(DRIVE0)
  /\ psg' = [psg EXCEPT !.porta = DRIVE0]
  /\ media' = [media EXCEPT !.phase = "SectorSelector"]
  /\ UNCHANGED <<vbl, locked, dma, acsi, fdc, gpip5, readback, before>>

(* Both drives are deselected: the pass ends without a check. *)
Deselect ==
  /\ psg.stage = 9 /\ vbl.stage = 2 /\ psg.sel = PORTA /\ psg.porta = vbl.entry
  /\ psg' = [psg EXCEPT !.porta = NODRIVE]
  /\ vbl' = [vbl EXCEPT !.stage = 8]
  /\ UNCHANGED <<media, locked, dma, acsi, fdc, gpip5, readback, before>>

(* The value written tells which drive the ROM has chosen for the pass. *)
ChooseDrive(v) ==
  /\ ~MediaWrites(v)
  /\ psg.stage = 9 /\ vbl.stage = 2 /\ psg.sel = PORTA /\ psg.porta = vbl.entry
  /\ v \in {DRIVE0, DRIVE1}
  /\ psg' = [psg EXCEPT !.porta = v]
  /\ vbl' = [vbl EXCEPT !.drive = IF v = DRIVE0 THEN 0 ELSE 1, !.stage = 3]
  /\ UNCHANGED <<media, locked, dma, acsi, fdc, gpip5, readback, before>>

(* Mutant of Restores: the pass may end with any drive selected. *)
RestoresAny(v) == v \in EntryPorts

(* The pass ends only with the port it found. *)
Restores(v) == v = vbl.entry

EndVblPass(v) ==
  /\ ~MediaWrites(v)
  /\ psg.stage = 9 /\ vbl.stage = 7 /\ psg.sel = PORTA /\ psg.porta = TargetPort
  /\ Restores(v)
  /\ psg' = [psg EXCEPT !.porta = v]
  /\ vbl' = [vbl EXCEPT !.stage = 8, !.complete = TRUE]
  /\ UNCHANGED <<media, locked, dma, acsi, fdc, gpip5, readback, before>>

WriteForDrive ==
  /\ DriveReady({2, 5, 8}) /\ psg.sel = PORTA
  /\ psg' = [psg EXCEPT !.porta = DriveTo(psg.stage), !.stage = @ + 1]
  /\ UNCHANGED <<vbl, media, locked, dma, acsi, fdc, gpip5, readback, before>>

InitPort ==
  /\ \/ psg.sel = MIXER /\ ~psg.ports /\ psg' = [psg EXCEPT !.ports = TRUE]
     \/ psg.sel = PORTA /\ psg.ports /\ psg.porta = 0 /\ psg' = [psg EXCEPT !.porta = 7]
  /\ UNCHANGED <<vbl, media, locked, dma, acsi, fdc, gpip5, readback, before>>

PortAccesses ==
  \/ SelectForMedia \/ StartVblPass \/ SelectForVblExit \/ SelectForDrive \/ SelectOther
  \/ ReadForDrive \/ ReadForMedia \/ ReadForVbl
  \/ WriteForMedia \/ Deselect \/ WriteForDrive \/ InitPort
  \/ \E v \in EntryPorts : ChooseDrive(v) \/ EndVblPass(v)

------------------------------------------------------------------------------
(* The script of the media check over the DMA mode and the FDC.            *)

(* Mutant of SectorSelectorMode: the mode the later checks arrive with. *)
SectorSelectorModeLater == "command"

(* floppyMediaSectorSelectorMode *)
SectorSelectorMode == IF media.first THEN "track" ELSE "command"

(* Per phase: the mode a write of the mode finds, the one it sets, the next phase. *)
MediaModeSteps ==
  [SectorSelector   |-> <<Modes, "sector", "SectorData">>,
   DMAResetRead     |-> <<Modes, "toggle", "DMAResetWrite">>,
   DMAResetWrite    |-> <<{"toggle"}, "count", "Count">>,
   CommandSelector  |-> <<{"count"}, "command", "ReadBusy">>,
   TimeoutSelector  |-> <<{"command"}, "command", "ForceInterrupt">>,
   SeekDataSelector |-> <<{"command"}, "data", "SeekData">>,
   SeekCommandSelector |-> <<{"data"}, "command", "SeekBusy">>,
   SeekIRQ          |-> <<{"command"}, "command", "StatusRead">>]

(* Per phase: the mode, the value and the next phase of a write to the FDC. *)
MediaDataSteps ==
  [TrackSelector  |-> <<"track", 0, "DriveSelector">>,
   SectorData     |-> <<"sector", 1, "AddressLow">>,
   Count          |-> <<"count", 1, "CommandSelector">>,
   ReadBusy       |-> <<"command", READ, "TimeoutSelector">>,
   ForceInterrupt |-> <<"command", FORCE, "SeekDataSelector">>,
   SeekData       |-> <<"data", 0, "SeekCommandSelector">>,
   SeekBusy       |-> <<"command", SEEK, "SeekBusy">>]

(* The read command is still running without an answer. *)
ReadIsOpen == fdc.command = READ /\ fdc.status = 129 /\ ~fdc.typeI /\ ~fdc.irq

Answered == fdc.typeI /\ fdc.irq /\ gpip5 = "low"

MediaTakesMode(mode) ==
  /\ media.phase \in DOMAIN MediaModeSteps
  /\ dma.mode \in MediaModeSteps[media.phase][1]
  /\ mode = MediaModeSteps[media.phase][2]
  /\ media.phase = "SectorSelector" => dma.mode = SectorSelectorMode
  /\ media.phase = "DMAResetRead" => media.bytes = 3
  /\ media.phase = "TimeoutSelector" => ReadIsOpen
  /\ media.phase = "SeekIRQ" => Answered

MediaTakesData(v) ==
  /\ media.phase \in DOMAIN MediaDataSteps
  /\ <<dma.mode, v>> = <<MediaDataSteps[media.phase][1], MediaDataSteps[media.phase][2]>>
  /\ media.phase = "ForceInterrupt" => ReadIsOpen

(* The first check of all locks the track, and selects its register. *)
StartFirstCheck ==
  /\ media.phase = "Idle" /\ ~locked
  /\ vbl.stage = 8 /\ vbl.complete
  /\ fdc.init = 14 /\ acsi.stage = 5 /\ psg.stage = 9 /\ dma.mode = "command"
  /\ dma' = [dma EXCEPT !.mode = "track"]
  /\ media' = [phase |-> "TrackSelector", first |-> TRUE, bytes |-> 0]
  /\ UNCHANGED <<psg, vbl, locked, acsi, fdc, gpip5, readback, before>>

WriteModeForMedia(mode) ==
  /\ MediaTakesMode(mode)
  /\ dma' = [dma EXCEPT !.mode = mode]
  /\ media' = [media EXCEPT !.phase = MediaModeSteps[@][3]]
  /\ UNCHANGED <<psg, vbl, locked, acsi, fdc, gpip5, readback, before>>

WriteDataForMedia(v) ==
  /\ MediaTakesData(v)
  /\ media' = [media EXCEPT !.phase = MediaDataSteps[@][3]]
  /\ locked' = (locked \/ media.phase = "TrackSelector")
  /\ fdc' = CASE media.phase = "ReadBusy" -> Issued(READ, 129, FALSE)
              [] media.phase = "ForceInterrupt" -> Issued(FORCE, 128, fdc.typeI)
              [] media.phase = "SeekBusy" -> [Issued(SEEK, 229, TRUE) EXCEPT !.seek = TRUE]
              [] OTHER -> fdc
  /\ gpip5' = IF media.phase \in {"ReadBusy", "ForceInterrupt", "SeekBusy"} THEN "high" ELSE gpip5
  /\ UNCHANGED <<psg, vbl, dma, acsi, readback, before>>

(* Mutant of BorrowedCheck: the address bytes of the last check are kept. *)
BorrowedCheckKeepsBytes == [media EXCEPT !.phase = "SectorData", !.first = FALSE, !.bytes = 3]

BorrowedCheck == [NoCheck EXCEPT !.phase = "SectorData"]

(* Mutant of Borrows: whichever drive the pass has chosen. *)
BorrowsAnyDrive == media.phase = "Idle" /\ locked

Borrows == media.phase = "Idle" /\ locked /\ psg.porta = DRIVE0

(***************************************************************************)
(* A later check begins like a flopvbl() pass of drive 0 and is told apart *)
(* from it here: it borrows the pass, which then has not taken place.      *)
(***************************************************************************)
BorrowPass ==
  /\ vbl.stage = 3 /\ psg.stage = 9 /\ Borrows
  /\ dma' = [dma EXCEPT !.mode = "sector"]
  /\ media' = BorrowedCheck
  /\ vbl' = [vbl EXCEPT !.stage = 8]
  /\ UNCHANGED <<psg, locked, acsi, fdc, gpip5, readback, before>>

SelectStatusForVbl ==
  /\ ~MediaTakesMode("command")
  /\ vbl.stage = 3 /\ psg.stage = 9 /\ fdc.init = 14 /\ psg.porta = TargetPort
  /\ dma' = [dma EXCEPT !.mode = "command"]
  /\ vbl' = [vbl EXCEPT !.stage = 4]
  /\ UNCHANGED <<psg, media, locked, acsi, fdc, gpip5, readback, before>>

(***************************************************************************)
(* The three bytes of the DMA address.  A media check takes them in the    *)
(* order low, middle, high and refuses everything else; after the probes   *)
(* the same three bytes open the reset of the DMA counter.                 *)
(***************************************************************************)
AddressPhases == <<"AddressLow", "AddressMiddle", "AddressHigh">>

WriteAddress(i) ==
  /\ (media.phase = "Idle" /\ Alone) \/ media.phase = AddressPhases[i]
  /\ media' = IF media.phase = "Idle" THEN media
              ELSE [media EXCEPT !.bytes = @ + 1,
                      !.phase = IF i = 3 THEN "DMAResetRead" ELSE AddressPhases[i + 1]]
  /\ dma' = [dma EXCEPT !.address =
               IF fdc.probe = 1 /\ fdc.init = 14 /\ @ = i - 1 THEN i ELSE @]
  /\ UNCHANGED <<psg, vbl, locked, acsi, fdc, gpip5, readback, before>>

------------------------------------------------------------------------------
(* The DMA counter and the scan of the ACSI targets, which never answer.   *)

DmaOpen == fdc.probe = 1 /\ fdc.init = 14 /\ dma.address = 3

ResetCounter ==
  /\ DmaOpen /\ Alone
  /\ \/ dma.init = 0 /\ dma.mode = "command" /\ dma' = [dma EXCEPT !.mode = "toggle", !.init = 1]
     \/ dma.init = 1 /\ dma.mode = "toggle" /\ dma' = [dma EXCEPT !.mode = "count", !.init = 2]
     \/ dma.init = 2 /\ dma.mode \in {"count", "toggle"} /\ dma' = [dma EXCEPT !.init = 3]
  /\ UNCHANGED <<psg, vbl, media, locked, acsi, fdc, gpip5, readback, before>>

SelectTarget ==
  /\ dma.init = 3 /\ dma.mode = "count" /\ Alone
  /\ \/ acsi.stage = 0 /\ acsi.target = -1
     \/ acsi.stage = 4 /\ acsi.target >= 0 /\ acsi.target < LastTarget
  /\ dma' = [dma EXCEPT !.mode = "acsi"]
  /\ acsi' = [acsi EXCEPT !.target = @ + 1, !.stage = 1]
  /\ UNCHANGED <<psg, vbl, media, locked, fdc, gpip5, readback, before>>

(* The command byte is the target in its three high bits. *)
CommandTarget ==
  /\ acsi.stage = 1 /\ acsi.target \in 0 .. LastTarget /\ dma.mode = "acsi" /\ Alone
  /\ acsi' = [acsi EXCEPT !.attempts = @ \cup {acsi.target}, !.stage = 2]
  /\ UNCHANGED <<psg, vbl, media, locked, dma, fdc, gpip5, readback, before>>

AwaitTarget ==
  /\ acsi.stage = 2 /\ acsi.target \in 0 .. LastTarget /\ dma.mode = "acsi" /\ Alone
  /\ dma' = [dma EXCEPT !.mode = "acsiData"]
  /\ acsi' = [acsi EXCEPT !.stage = 3]
  /\ UNCHANGED <<psg, vbl, media, locked, fdc, gpip5, readback, before>>

(* Mutant of ScanEnds: the last target is taken to be the one before. *)
ScanEndsEarly == acsi.target + 1 = LastTarget

ScanEnds == acsi.target = LastTarget

LeaveTarget ==
  /\ acsi.stage = 3 /\ acsi.target \in 0 .. LastTarget /\ dma.mode = "acsiData" /\ Alone
  /\ dma' = [dma EXCEPT !.mode = "command", !.init = 0]
  /\ acsi' = [acsi EXCEPT !.stage = IF ScanEnds THEN 5 ELSE 4]
  /\ UNCHANGED <<psg, vbl, media, locked, fdc, gpip5, readback, before>>

Scan == ResetCounter \/ SelectTarget \/ CommandTarget \/ AwaitTarget \/ LeaveTarget

------------------------------------------------------------------------------
(* The probe of a drive at boot: force interrupt, restore, seek.           *)

(* Stage by stage, the mode a write of the mode finds and the one it sets. *)
ProbeModeSteps ==
  [i \in {2, 5, 7, 9, 12} |->
     IF i = 7 THEN <<"command", "data">>
     ELSE IF i = 9 THEN <<"data", "command">> ELSE <<"command", "command">>]

StartProbe ==
  /\ Alone
  /\ \/ /\ fdc.init = 0 /\ psg.stage = 3
        /\ fdc' = [fdc EXCEPT !.probe = 0, !.init = 1]
     \/ /\ fdc.probe = 0 /\ fdc.init = 14 /\ psg.stage = 6 /\ psg.sel = PORTA /\ psg.porta = 3
        /\ fdc' = [fdc EXCEPT !.probe = 1, !.init = 1, !.restore = FALSE, !.seek = FALSE]
  /\ dma' = [dma EXCEPT !.mode = "command"]
  /\ UNCHANGED <<psg, vbl, media, locked, acsi, gpip5, readback, before>>

WriteModeForProbe ==
  /\ Alone
  /\ fdc.init \in DOMAIN ProbeModeSteps /\ dma.mode = ProbeModeSteps[fdc.init][1]
  /\ dma' = [dma EXCEPT !.mode = ProbeModeSteps[fdc.init][2]]
  /\ fdc' = [fdc EXCEPT !.init = @ + 1]
  /\ UNCHANGED <<psg, vbl, media, locked, acsi, gpip5, readback, before>>

WriteDataForProbe ==
  /\ Alone
  /\ dma.mode = IF fdc.init = 8 THEN "data" ELSE "command"
  /\ fdc' = [ CASE fdc.init = 1 -> Issued(FORCE, 128, TRUE)
                [] fdc.init = 3 -> [Issued(RESTORE, 129, TRUE) EXCEPT !.restore = TRUE]
                [] fdc.init = 10 -> [Issued(SEEK, 229, TRUE) EXCEPT !.seek = TRUE]
                [] OTHER -> fdc
              EXCEPT !.init = fdc.init + 1 ]
  /\ fdc.init \in {1, 3, 8, 10}
  /\ gpip5' = IF fdc.init = 8 THEN gpip5 ELSE "high"
  /\ UNCHANGED <<psg, vbl, media, locked, dma, acsi, readback, before>>

------------------------------------------------------------------------------
(* Reads of the FDC status, in the order of the code.                      *)

VblReads == vbl.stage = 4 /\ dma.mode = "command" /\ fdc.init = 14 /\ psg.porta = TargetPort
MediaReadsStatus == media.phase = "StatusRead" /\ dma.mode = "command" /\ Answered

ReadStatusForVbl ==
  /\ VblReads
  /\ fdc' = Cleared /\ gpip5' = "high"
  /\ vbl' = [vbl EXCEPT !.stage = 5]
  /\ UNCHANGED <<psg, media, locked, dma, acsi, readback, before>>

(* The check is finished: its receipt is appended. *)
ReadStatusForMedia ==
  /\ ~VblReads /\ MediaReadsStatus
  /\ fdc' = Cleared /\ gpip5' = "high"
  /\ media' = NoCheck
  /\ UNCHANGED <<psg, vbl, locked, dma, acsi, readback, before>>

ReadStatusForProbe ==
  /\ ~VblReads /\ ~MediaReadsStatus
  /\ fdc.init \in {6, 13} /\ dma.mode = "command" /\ Answered
  /\ fdc' = [Cleared EXCEPT !.init = @ + 1] /\ gpip5' = "high"
  /\ UNCHANGED <<psg, vbl, media, locked, dma, acsi, readback, before>>

(* completeFDCRestore, at its deadline in Machine. *)
CompleteRestore ==
  /\ fdc.restore
  /\ fdc' = [fdc EXCEPT !.status = 132, !.irq = TRUE, !.restore = FALSE, !.init = 5]
  /\ gpip5' = "low"
  /\ UNCHANGED <<psg, vbl, media, locked, dma, acsi, readback, before>>

(* Mutant of SeekIsForMedia: every seek is taken to be the one of the boot. *)
SeekIsForMediaNever == FALSE

SeekIsForMedia == media.phase = "SeekBusy"

(* completeFDCSeek: the seek of a media check or the one of the probe. *)
CompleteSeek ==
  /\ fdc.seek
  /\ fdc' = [fdc EXCEPT !.status = 228, !.irq = TRUE, !.seek = FALSE,
                        !.init = IF SeekIsForMedia THEN @ ELSE 12]
  /\ gpip5' = "low"
  /\ media' = IF SeekIsForMedia THEN [media EXCEPT !.phase = "SeekIRQ"] ELSE media
  /\ UNCHANGED <<psg, vbl, locked, dma, acsi, readback, before>>

(* The keyboard clock has been read back: a step of IkbdAcia. *)
ReadbackCompletes ==
  /\ ~readback /\ psg.stage = 9 /\ acsi.stage = 5
  /\ readback' = TRUE
  /\ UNCHANGED <<psg, vbl, media, locked, dma, acsi, fdc, gpip5, before>>

(* The RESET instruction and the cold reset, for these devices. *)
Reset ==
  /\ psg' = PsgReset /\ vbl' = VblReset
  /\ media' = NoCheck /\ locked' = FALSE
  /\ dma' = DmaReset /\ acsi' = AcsiReset
  /\ fdc' = FdcReset /\ gpip5' = "high"
  /\ readback' = FALSE
  /\ before' = 0

MediaAccesses ==
  \/ StartFirstCheck \/ BorrowPass
  \/ \E mode \in Modes : WriteModeForMedia(mode)
  \/ \E v \in {0, 1, READ, FORCE, SEEK} : WriteDataForMedia(v)
  \/ \E i \in 1 .. 3 : WriteAddress(i)
  \/ ReadStatusForMedia

ProbeAccesses == StartProbe \/ WriteModeForProbe \/ WriteDataForProbe \/ ReadStatusForProbe
VblAccesses == SelectStatusForVbl \/ ReadStatusForVbl
Device == CompleteRestore \/ CompleteSeek

Next == \/ PortAccesses \/ MediaAccesses \/ VblAccesses \/ Scan \/ ProbeAccesses
        \/ Device \/ ReadbackCompletes \/ Reset

Spec == Init /\ [][Next]_vars

------------------------------------------------------------------------------
Phases == {"Idle", "DriveSelector", "DriveRead", "DriveWrite", "AddressLow", "AddressMiddle",
           "AddressHigh", "StatusRead"}
            \cup DOMAIN MediaModeSteps \cup DOMAIN MediaDataSteps

Registers   == {SOUND, MIXER, PORTA}
PortValues  == {0, 3, 5, 7} \cup EntryPorts
DriveStages == 0 .. 9
VblStages   == 0 .. 8
InitStages  == 0 .. 14
FdcCommands == {0, RESTORE, SEEK, READ, FORCE}
FdcStatuses == {0, 128, 129, 132, 228, 229}
Triples     == 0 .. 3
AcsiStages  == 0 .. 5
Targets     == 0 .. LastTarget

PsgType == [sel : Registers, ports : BOOLEAN, porta : PortValues, stage : DriveStages]
VblType == [stage : VblStages, entry : {0} \cup EntryPorts, drive : {-1, 0, 1},
            complete : BOOLEAN]
MediaType == [phase : Phases, first : BOOLEAN, bytes : Triples]
DmaType == [mode : Modes \cup {"none"}, address : Triples, init : Triples]
AcsiType == [stage : AcsiStages, target : {-1} \cup Targets, attempts : SUBSET Targets]
FdcType == [command : FdcCommands, status : FdcStatuses, typeI : BOOLEAN, irq : BOOLEAN,
            init : InitStages, probe : {-1, 0, 1}, restore : BOOLEAN, seek : BOOLEAN]

TypeOK ==
  /\ psg \in PsgType /\ vbl \in VblType
  /\ media \in MediaType /\ locked \in BOOLEAN
  /\ dma \in DmaType /\ acsi \in AcsiType
  /\ fdc \in FdcType /\ gpip5 \in {"low", "high"}
  /\ readback \in BOOLEAN
  /\ before \in {0} \cup EntryPorts

(***************************************************************************)
(* The FDC's registers, its interrupt line and its pending commands agree: *)
(* an interrupt is on the line GPIP5, a pending command shows busy and no  *)
(* interrupt, and somebody waits for its completion.                       *)
(***************************************************************************)
FdcIsConsistent ==
  /\ fdc.irq <=> gpip5 = "low"
  /\ fdc.restore => fdc.init = 4 /\ fdc.command = RESTORE /\ fdc.status = 129 /\ ~fdc.irq
  /\ fdc.seek => /\ fdc.init = 11 \/ media.phase = "SeekBusy"
                 /\ fdc.command = SEEK /\ fdc.status = 229 /\ ~fdc.irq
  /\ fdc.irq => fdc.init \in {5, 6, 12, 13} \/ media.phase \in {"SeekIRQ", "StatusRead"}

(***************************************************************************)
(* The drive of a media check stays selected from the moment the check     *)
(* selects it, or borrows a pass that did, to the last status read.        *)
(***************************************************************************)
CheckKeepsItsDrive ==
  media.phase \notin {"Idle", "TrackSelector", "DriveSelector", "DriveRead", "DriveWrite"}
    => psg.porta = DRIVE0 /\ vbl.stage = 8

(***************************************************************************)
(* A pass or a check that has begun can go on: the access its script waits *)
(* for next is one the code accepts in this state, or the FDC will answer. *)
(* A first check that begins with another port than $23 is not modelled by *)
(* the code.                                                               *)
(***************************************************************************)
PassesCanGoOn ==
  /\ media.phase # "Idle" =>
       \/ \E mode \in Modes : MediaTakesMode(mode)
       \/ \E v \in {0, 1, READ, FORCE, SEEK} : MediaTakesData(v)
       \/ media.phase = "AddressLow" /\ media.bytes = 0
       \/ media.phase = "AddressMiddle" /\ media.bytes = 1
       \/ media.phase = "AddressHigh" /\ media.bytes = 2
       \/ MediaSelects \/ MediaReads \/ MediaWrites(DRIVE0) \/ MediaReadsStatus
       \/ media.phase = "DriveSelector" /\ psg.porta # DRIVE1
  /\ vbl.stage \in {1, 2, 6, 7} => psg.sel = PORTA
  /\ vbl.stage = 1 => readback /\ psg.porta \in EntryPorts
  /\ vbl.stage = 2 => psg.porta = vbl.entry
  /\ vbl.stage \in 3 .. 7 => psg.porta = TargetPort
  /\ vbl.stage = 4 => VblReads

(***************************************************************************)
(* The scan is over only when every ACSI target has been tried, and none   *)
(* beyond the last.                                                        *)
(***************************************************************************)
ScanCoversTheBus == acsi.stage = 5 => acsi.attempts = 0 .. LastTarget

(***************************************************************************)
(* A pass of flopvbl() that has checked a drive leaves port A as it found  *)
(* it when it began.                                                       *)
(***************************************************************************)
PassRestoresThePort ==
  [][vbl.stage = 7 /\ vbl'.stage = 8 => psg'.porta = before]_vars

(***************************************************************************)
(* The boot stage of the FDC goes forward one by one; it goes back only    *)
(* for the probe of the second drive and a reset.  A completion does not   *)
(* reach a script other than the one that gave the command.                *)
(***************************************************************************)
BootStageGoesForward ==
  [][fdc'.init # fdc.init => \/ fdc'.init = fdc.init + 1
                             \/ fdc.init = 14 /\ fdc'.init = 1 /\ fdc'.probe = 1
                             \/ fdc' = FdcReset]_vars
==============================================================================
