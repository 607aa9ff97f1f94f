---------------------------- MODULE MCUf2Session ----------------------------
(* Small instances of Uf2Session for TLC: two blocks per page, two pages. *)
EXTENDS Uf2Session, TLC

Block(num, no, kind, area, at, data) ==
    [num |-> num, no |-> no, kind |-> kind, area |-> area, at |-> at, data |-> data]

\* An application of three blocks, one and a half pages; FileA also carries a block of
\* the SoftDevice, as a saved CURRENT.UF2 does, and FileB one of the MBR.
AppBlocks(d) == {Block(4, i + 1, "app", "app", i, d) : i \in 0 .. 2}
FileA == AppBlocks("A") \cup {Block(4, 0, "app", "sd", 0, "sd")}
FileB == AppBlocks("B") \cup {Block(4, 0, "app", "mbr", 0, "any")}
AppFiles == {FileA, FileB}

\* What a host may write that is no part of a good file: a file with a hole, two blocks
\* for one address, another SoftDevice, an address out of range, impossible numbers.
FileHole == {Block(2, 0, "app", "app", 0, "G"), Block(2, 1, "app", "app", 3, "G")}
OddBlocks ==
    FileHole \cup
    { Block(4, 3, "app", "app", 0, "B"),
      Block(4, 0, "app", "sd", 0, "other"),
      Block(4, 4, "app", "app", 3, "any"),
      Block(4, 0, "app", "out", 0, "any") }

AppVectors == {"old", "A", "B", "G"}
AppOffered == FileA \cup FileB \cup OddBlocks

\* Bootloader files of four blocks and their UICR block, and blocks that fit none.
BootFile(d) ==
    {Block(5, i, "boot", "boot", i, d) : i \in 0 .. 3} \cup {Block(5, 4, "boot", "uicr", 0, d)}
BootFiles == {BootFile("N")}
BootOffered ==
    BootFile("N") \cup {Block(5, 0, "boot", "boot", 0, "O"), Block(5, 4, "boot", "mbr", 0, "N"),
                        Block(5, 1, "boot", "app", 0, "N"), Block(5, 4, "boot", "uicr", 0, "O")}
\* A one-page application, another of the same geometry, and bootloader blocks.
SmallOffered ==
    {Block(2, i, "app", "app", i, d) : i \in 0 .. 1, d \in {"A", "B"}} \cup
    {Block(1, 0, "boot", "boot", 0, "N")}

Device(offered, exitOnEject, fits) ==
    [offered |-> offered, UF2_EXIT_ON_EJECT |-> exitOnEject, liveAppFits |-> fits]

AllFiles == AppFiles \cup BootFiles
AllDevices ==
    "app" :> Device(AppOffered, FALSE, TRUE) @@
    "boot" :> Device(BootOffered, TRUE, TRUE) @@
    "small" :> Device(SmallOffered, FALSE, FALSE)
=============================================================================
