------------------------------ MODULE MCSdSwap ------------------------------
(* Small instances of SdSwap for TLC. *)
EXTENDS SdSwap

Update(base, newbase, sd, bl, same) ==
    [base |-> base, newbase |-> newbase, sd |-> sd, bl |-> bl, same |-> same]

\* The S140 SoftDevices in pages after the MBR: 6.1.1 ends at 0x26000, 7.2.0 and 7.3.0
\* end at 0x27000 with images of 38 pages; a bootloader has 0xA000 bytes.
Grow == Update(37, 38, 38, 10, FALSE)         \* 6.1.1 to 7.3.0
Replace == Update(38, 38, 38, 10, FALSE)      \* 7.2.0 to 7.3.0
Shrink == Update(38, 37, 37, 10, FALSE)       \* 7.3.0 to 6.1.1

\* One that is larger by more than the MBR: pages are cleared first.
GrowMuch == Update(37, 41, 41, 10, FALSE)

\* The installed SoftDevice once more: over a damaged one, alone and with a bootloader; a bootloader alone.
Repair == Update(38, 38, 38, 0, FALSE)
Reinstall == Update(38, 38, 38, 0, TRUE)
ReinstallBoth == Update(38, 38, 38, 10, TRUE)
BootloaderOnly == Update(38, 38, 0, 10, TRUE)

AllUpdates == {Grow, GrowMuch, Replace, Shrink, Repair, Reinstall, ReinstallBoth, BootloaderOnly}
Migration == {Grow}
=============================================================================
