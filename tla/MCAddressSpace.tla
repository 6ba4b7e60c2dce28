--------------------------- MODULE MCAddressSpace ---------------------------
(* A machine of 1 MiB and four programs: one that sizes and uses the RAM,  *)
(* one that moves the screen and draws on it, one that loads the DMA       *)
(* address, one that sets the frame rate and a colour.                     *)
EXTENDS AddressSpace

(* The first and the last group of sixteen pixels. *)
MCFrameOffsets == 0 .. 7 \cup 31992 .. 31999

Reached(configs, addresses) ==
  {RamAddress(config, a) : config \in configs, a \in addresses} \ {NotMapped}

SizedAddresses == {8, 520, 1032, 2056, RAM512K + 8}
Sizes == {0, 2, 5, 10}

SizesTheRam ==
  [touches |-> {MMUConfig} \cup SizedAddresses, registers |-> Sizes, stores |-> 3,
   bytes |-> {0, 1}, words |-> {},
   cells |-> Reached(Sizes, SizedAddresses \cup {a + 1 : a \in SizedAddresses}
               \cup MCFrameOffsets)]

(* The bases a program with these bytes can set. *)
Bases(bytes) == {((h % 64) * 65536) + (m * 256) : h \in bytes, m \in bytes}

DrawnWord == 328960                 \* 0x050500, in plane 0
ScreenBytes == {0, 5, 10, 255}

MovesTheScreen ==
  [touches |-> {MMUConfig, VideoBaseHigh, VideoBaseMiddle, DrawnWord}, registers |-> ScreenBytes, stores |-> 2,
   bytes |-> {}, words |-> {32769},
   cells |-> Reached(ScreenBytes, {DrawnWord, DrawnWord + 1}
               \cup {b + o : b \in Bases(ScreenBytes), o \in MCFrameOffsets})]

LoadsTheDma ==
  [touches |-> {STDMAAddressHigh, STDMAAddressMiddle, STDMAAddressLow},
   registers |-> {1, 127, 128, 255}, stores |-> 6, bytes |-> {}, words |-> {},
   cells |-> Reached({0}, MCFrameOffsets)]

SetsTheRate ==
  [touches |-> {VideoSyncMode, ShifterPaletteBase, STVoidDMAByte, CartridgeBase},
   registers |-> {0, 2}, stores |-> 0, bytes |-> {1}, words |-> {4095, 32769},
   cells |-> Reached({0}, MCFrameOffsets)]

MCPrograms ==
  [sizes |-> SizesTheRam, screen |-> MovesTheScreen, dma |-> LoadsTheDma, rate |-> SetsTheRate]

MCRom == [n \in 0 .. 7 |-> 96 + n]

=============================================================================
