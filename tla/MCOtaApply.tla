----------------------------- MODULE MCOtaApply -----------------------------
(* Small instances of OtaApply for TLC: pages of two cells, images of two pages. *)
EXTENDS OtaApply, TLC

Pkg(kind, src, at, base, image, size, memory, good) ==
    [kind |-> kind, src |-> src, at |-> at, cells |-> size * 2 + 1, base |-> base,
     image |-> image, size |-> size, memory |-> memory, shift |-> 1, good |-> good]

Sizes == "A" :> 2 @@ "B" :> 2

\* Staged in flash, or in flash and RAM: a good delta, one that does not decode, one whose
\* decoder needs more memory than there is below it, one that moves its base by nothing,
\* which the geometry check lets through; a full image, which internal staging does not
\* allow; a bootloader.  A device that runs image B is not the base of the deltas.
InternalPackages ==
    "D1" :> Pkg("delta", "internal", 3, "A", "B", 2, 3, TRUE) @@
    "D2" :> Pkg("delta", "internal", 3, "A", "B", 2, 3, FALSE) @@
    "D3" :> [Pkg("delta", "internal", 3, "A", "B", 2, 4, TRUE) EXCEPT !.shift = 2] @@
    "D4" :> [Pkg("delta", "internal", 3, "A", "B", 2, 2, TRUE) EXCEPT !.shift = 0] @@
    "F1" :> Pkg("full", "internal", 3, "A", "B", 2, 3, TRUE) @@
    "H1" :> Pkg("delta", "hybrid", 5, "A", "B", 2, 3, TRUE) @@
    "L1" :> Pkg("boot", "internal", 3, "A", "N", 2, 3, TRUE)

\* On NOR a delta, a full image that is not what its hash says and a bootloader; on a card
\* a full image and a bootloader.  The scratch area is at page 2, where a record that
\* covers padding reaches.
ExternalPackages ==
    "Q1" :> Pkg("delta", "qspi", 2, "A", "B", 2, 3, TRUE) @@
    "Q2" :> Pkg("full", "qspi", 2, "A", "B", 2, 3, FALSE) @@
    "L2" :> Pkg("boot", "qspi", 2, "A", "N", 2, 3, TRUE) @@
    "S1" :> Pkg("full", "sd", 2, "B", "A", 2, 3, TRUE) @@
    "L3" :> Pkg("boot", "sd", 2, "A", "N", 2, 3, TRUE)

\* Boards without and with external storage.
AllPackages == InternalPackages @@ ExternalPackages
AllBoards == {DOMAIN InternalPackages, DOMAIN ExternalPackages}

\* One delta, staged by a device that runs its base, image A, or that does not, image B.
DocBoards == {{"D1"}}
DocPackages ==
    "D1" :> Pkg("delta", "internal", 3, "A", "B", 2, 3, TRUE)
=============================================================================
