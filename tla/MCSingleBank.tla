---------------------------- MODULE MCSingleBank ----------------------------
(* Small instances of SingleBank for TLC. *)
EXTENDS SingleBank

Whole(content) == [p \in Page |-> content]
SealedApp(crc) == Rec("app", crc, "invalid", "none")
LegacyApp(crc) == [Same(SealedApp(crc)) EXCEPT !.seal = Blank]

\* Devices whose record was written by this bootloader: an older application, the very
\* application that will be sent again, and no application.
SealedDevices ==
    { [app |-> Whole("old"), rec |-> Same(SealedApp("old"))],
      [app |-> Whole("app"), rec |-> Same(SealedApp("app"))],
      [app |-> Whole("blank"), rec |-> Same(Rec("invalid", "zero", "invalid", "none"))] }

\* Devices flashed by a debugger, and ones with the record of an older bootloader.
OtherDevices ==
    { [app |-> Whole("old"), rec |-> Same(Blank)],
      [app |-> Whole("app"), rec |-> Same(Blank)],
      [app |-> Whole("old"), rec |-> LegacyApp("zero")],
      [app |-> Whole("old"), rec |-> LegacyApp("old")],
      [app |-> Whole("blank"), rec |-> Same(Blank)] }

Device(signed, kinds, flash, faults) ==
    [signed |-> signed, kinds |-> kinds, InitFlash |-> flash, faults |-> faults]

\* The standard build with every kind of update and record; the signed build with every
\* fault at once.
AllDevices ==
    [ standard |-> Device(FALSE, {"app", "sd", "bl"}, SealedDevices \cup OtherDevices, {"bad_data"}),
      faulty |-> Device(TRUE, {"app"}, SealedDevices \cup OtherDevices, {"bad_data", "early_validate", "torn_vector"}) ]

HastyPeer == [ hasty |-> Device(FALSE, {"app"}, SealedDevices, {"early_validate"}) ]
=============================================================================
