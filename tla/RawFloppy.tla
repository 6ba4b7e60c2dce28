------------------------------ MODULE RawFloppy ------------------------------
(***************************************************************************)
(* The raw floppy image of internal/st/floppy_image.go: which images       *)
(* NewRawFloppy accepts, the geometry it takes from their boot sector, and *)
(* where Sector finds the 512 bytes of a track, side and sector.           *)
(*                                                                         *)
(* The module has no variables: an image is immutable.  It is known by its *)
(* length and by the four words of its BPB.  Theorems about it are in      *)
(* FloppyMediaReceipts_proof.                                              *)
(***************************************************************************)
EXTENDS Integers

MaxWord == 65535

Word == 0 .. MaxWord

(* rawFloppySectorSize *)
SectorSize == 512

(* The length of the image and the words at $0B, $13, $18 and $1A. *)
Images ==
  [length : Nat, bytesPerSector : Word, totalSectors : Word, sectorsPerTrack : Word, sides : Word]

SectorsPerCylinder(image) == image.sectorsPerTrack * image.sides

Tracks(image) == image.totalSectors \div SectorsPerCylinder(image)

(* NewRawFloppy returns no error. *)
Accepted(image) ==
  /\ image.length >= SectorSize
  /\ image.bytesPerSector = SectorSize
  /\ image.totalSectors # 0 /\ image.sectorsPerTrack # 0 /\ image.sides \in {1, 2}
  /\ image.totalSectors * image.bytesPerSector = image.length
  /\ image.totalSectors % SectorsPerCylinder(image) = 0
  /\ Tracks(image) # 0

(* The addresses Sector does not refuse; sectors are counted from 1. *)
InRange(image, track, side, sector) ==
  /\ track < Tracks(image) /\ side < image.sides
  /\ sector # 0 /\ sector <= image.sectorsPerTrack

Addresses(image) ==
  {a \in [track : Word, side : Word, sector : Word] : InRange(image, a.track, a.side, a.sector)}

Linear(image, a) ==
  ((a.track * image.sides) + a.side) * image.sectorsPerTrack + (a.sector - 1)

(* The offset of the first of the 512 bytes. *)
Offset(image, a) == Linear(image, a) * SectorSize

=============================================================================
