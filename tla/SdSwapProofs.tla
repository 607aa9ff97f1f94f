---------------------------- MODULE SdSwapProofs ----------------------------
(***************************************************************************)
(* Proofs about SdSwap, for every SoftDevice layout, every number of power  *)
(* losses and every number of bad copies: the types, that the source of the *)
(* update survives, and that the record is given up only for a SoftDevice   *)
(* that is in place.                                                        *)
(***************************************************************************)
EXTENDS SdSwap, SequenceTheorems, TLAPS

-----------------------------------------------------------------------------
(* The inductive invariant. *)

Content ==
    {Blank, Part, HeaderOnly} \cup {Is(image, n) : image \in {"old", "new", "bl"}, n \in Page}

States == {"boot", "validate", "bl_validate", "swap", "clear_block", "clear_first", "block",
           "copying", "validate_again", "bl_swap", "finalize", "dfu"}

\* The types that the induction needs.
Typed ==
    /\ update \in Updates
    /\ flash \in [Page -> Content]
    /\ bootloader \in {"old", "new"}
    /\ recorded \in BOOLEAN
    /\ pc \in States
    /\ cuts \in Nat /\ faults \in Nat

\* The pages from a to b - 1 are in place.
Whole(a, b) == \A i \in a .. (b - 1) : InPlace(i)

\* The pages from a to b - 1 are still in the bank.
Kept(a, b) == \A i \in a .. (b - 1) : flash[update.base + i] = Is("new", i)

\* Nothing of the source is overwritten.  The second block is in place only when the
\* first is: block_swap leaves the first alone when it finds the second in place.
Early ==
    /\ Kept(0, update.sd)
    /\ Whole(block_size, 2 * block_size) => Whole(0, block_size)

\* The third block, which lies over the source of the first two, is being copied or was:
\* the first two are in place, and the old header is gone, so that no boot repeats it.
Late ==
    /\ flash[HDR] # Is("old", HDR)
    /\ Whole(0, 2 * block_size)
    /\ Kept(2 * block_size, update.sd)

First(stage) == [src |-> update.base, dst |-> 0, len |-> block_size, stage |-> stage]
Second(stage) ==
    [src |-> update.base + block_size, dst |-> block_size, len |-> block_size, stage |-> stage]
Third(stage) ==
    [src |-> update.base + 2 * block_size, dst |-> 2 * block_size,
     len |-> update.sd - 2 * block_size, stage |-> stage]

\* The points at which dfu_sd_img_block_swap can be between two copies.
BlockInv ==
    /\ Overlaps /\ recorded
    /\ caller \in {"validate", "swap", "validate_again"}
    /\ copy = NoCopy
    /\ \/ stack = <<Third("compare")>> /\ Early
       \/ stack = <<Third("copy"), Second("compare")>> /\ Early
       \/ /\ stack \in {<<Third("copy"), Second("copy"), First(stage)>> : stage \in {"compare", "copy"}}
          /\ Early /\ ~Whole(block_size, 2 * block_size)
       \/ /\ stack = <<Third("copy"), Second("copy"), First("verify")>>
          /\ Early /\ Whole(0, block_size)
       \/ stack = <<Third("copy"), Second("copy")>> /\ Early /\ Whole(0, block_size)
       \/ stack = <<Third("copy"), Second("verify")>> /\ Early /\ Whole(0, 2 * block_size)
       \/ stack = <<Third("copy")>> /\ Early /\ Whole(0, 2 * block_size)
       \/ stack = <<Third("verify")>> /\ Late /\ Whole(0, update.sd)

\* A COPY_SD in progress: at is in the block, and what is written is in place.
Copying(src, dst, len) ==
    /\ copy.src = src /\ copy.dst = dst /\ copy.len = len
    /\ copy \in [src : Nat, dst : Nat, len : Nat, at : Nat, phase : {"erase", "write"}]
    /\ copy.at < len
    /\ copy.phase = "write" => Whole(dst, dst + copy.at)

\* A copy of the whole image, from a source that it does not touch.
PlainCopyInv ==
    /\ ~Overlaps /\ caller = "copy" /\ stack = <<>>
    /\ Copying(update.base, 0, update.sd)

\* A copy of one of the three blocks.
BlockCopyInv ==
    /\ Overlaps /\ caller \in {"validate", "swap", "validate_again"}
    /\ \/ /\ stack = <<Third("copy"), Second("copy"), First("verify")>>
          /\ Copying(update.base, 0, block_size)
          /\ Early /\ ~Whole(block_size, 2 * block_size)
       \/ /\ stack = <<Third("copy"), Second("verify")>>
          /\ Copying(update.base + block_size, block_size, block_size)
          /\ Early /\ Whole(0, block_size)
       \/ /\ stack = <<Third("verify")>>
          /\ Copying(update.base + 2 * block_size, 2 * block_size, update.sd - 2 * block_size)
          /\ Late \/ (Early /\ Whole(0, 2 * block_size) /\ copy.at = 0 /\ copy.phase = "erase")

\* The MBR has reported no bad copy, or the SoftDevice ends where the old one did.
Good == faults = 0 \/ update.base = update.newbase

\* Outside the two functions: what the boot knows when it reaches a point.
QuietInv ==
    /\ caller = "none" /\ stack = <<>> /\ copy = NoCopy
    /\ Overlaps => Early \/ Late
    /\ pc = "validate" => bootloader_update_settings_valid
    /\ pc = "swap" => recorded /\ (Good => bootloader_update_settings_valid)
    /\ pc \in {"clear_block", "clear_first"} => Overlaps /\ recorded /\ Early
    /\ pc = "clear_first" => flash[block_size] = Blank
    /\ pc \in {"bl_validate", "validate_again", "bl_swap", "finalize"} =>
          recorded /\ (Good => Whole(0, update.sd))
    /\ ~recorded /\ Good => Whole(0, update.sd)

IInv ==
    /\ Typed
    /\ BlStaged
    /\ ~Overlaps => Kept(0, update.sd)
    /\ pc = "block" => BlockInv
    /\ pc = "copying" => recorded /\ (PlainCopyInv \/ BlockCopyInv)
    /\ pc \notin {"block", "copying"} => QuietInv

-----------------------------------------------------------------------------
(* Facts about the sizes and about what the code reads. *)

\* The sizes of an update: what dfu_image_policy_validate lets in.
LEMMA Sizes ==
    ASSUME Typed
    PROVE  /\ update.base \in Nat /\ update.newbase \in Nat /\ update.sd \in Nat
           /\ update.bl \in Nat /\ update.same \in BOOLEAN /\ HDR \in Nat /\ Pages \in Nat
           /\ HDR < update.base /\ update.base + update.sd + update.bl <= Pages
           /\ update.sd <= update.newbase
           /\ update.sd > HDR \/ update.sd = 0
           /\ block_size \in Nat /\ 2 * block_size <= update.base
           /\ update.base <= 2 * block_size + 1
           /\ update.sd <= update.base + 2 * block_size
           /\ Overlaps <=> update.sd > update.base
           /\ Overlaps => /\ update.newbase > update.base /\ block_size >= 1
                          /\ update.same = FALSE
BY SdSwapConstants DEF Typed, block_size, sd_image_start, Overlaps

\* What a page holds tells the images and the pages of an image apart.
LEMMA Distinct ==
    /\ \A i, j : Is("new", i) = Is("new", j) => i = j
    /\ \A i, j : Is("new", i) # Is("old", j)
    /\ \A i : Is("new", i) \notin {Blank, Part, HeaderOnly}
    /\ \A i : Is("old", i) \notin {Blank, Part, HeaderOnly}
BY DEF Is, Blank, Part, HeaderOnly

\* An update whose images overlap is valid only as long as the old header is in place:
\* the new one ends elsewhere (bootloader_update_settings_valid).
LEMMA ValidNeedsOldHeader ==
    ASSUME Typed, Overlaps, bootloader_update_settings_valid
    PROVE  flash[HDR] = Is("old", HDR)
<1>1. flash[HDR] # Is("old", HDR) => DFU_BANK_0_REGION_START \in {update.newbase, 0}
  BY DEF DFU_BANK_0_REGION_START
<1>2. update.base = DFU_BANK_0_REGION_START
  BY Sizes DEF bootloader_update_settings_valid
<1> QED BY <1>1, <1>2, Sizes

\* Comparing a block with its source says whether it is in place.
LEMMA CompareIsWhole ==
    ASSUME Typed, NEW a \in Nat, NEW len \in Nat, Kept(a, a + len)
    PROVE  dfu_compare_block(update.base + a, a, len) <=> Whole(a, a + len)
<1>1. \A i \in 0 .. (len - 1) : a + i \in a .. (a + len - 1)
  OBVIOUS
<1>2. \A j \in a .. (a + len - 1) : j - a \in 0 .. (len - 1) /\ a + (j - a) = j
  OBVIOUS
<1>3. \A i \in 0 .. (len - 1) : flash[update.base + a + i] = Is("new", a + i)
  <2> TAKE i \in 0 .. (len - 1)
  <2>1. flash[update.base + (a + i)] = Is("new", a + i)
    BY <1>1 DEF Kept
  <2> QED BY <2>1, Sizes
<1>4. ASSUME Whole(a, a + len) PROVE dfu_compare_block(update.base + a, a, len)
  BY <1>1, <1>3, <1>4 DEF Whole, InPlace, dfu_compare_block
<1>5. ASSUME dfu_compare_block(update.base + a, a, len) PROVE Whole(a, a + len)
  <2> SUFFICES ASSUME NEW j \in a .. (a + len - 1) PROVE flash[j] = Is("new", j)
    BY DEF Whole, InPlace
  <2>1. flash[update.base + a + (j - a)] = flash[a + (j - a)]
    BY <1>2, <1>5 DEF dfu_compare_block
  <2> QED BY <2>1, <1>2, <1>3
<1> QED BY <1>4, <1>5

\* As long as the source is whole, the third block is not in place: it lies over the
\* source of the first.
LEMMA ThirdDiffers ==
    ASSUME Typed, Overlaps, Early
    PROVE  ~dfu_compare_block(update.base + 2 * block_size, 2 * block_size,
                              update.sd - 2 * block_size)
<1> DEFINE i == update.base - 2 * block_size
<1>1. i \in 0 .. (update.sd - 2 * block_size - 1)
  BY Sizes
<1>2. flash[update.base + 2 * block_size + i] = Is("new", update.base)
  <2>1. update.base \in 0 .. (update.sd - 1) /\ update.base + 2 * block_size + i = update.base + update.base
    BY Sizes
  <2> QED BY <2>1 DEF Early, Kept
<1>3. flash[2 * block_size + i] = Is("new", 0)
  <2>1. 0 \in 0 .. (update.sd - 1) /\ 2 * block_size + i = update.base + 0
    BY Sizes
  <2> QED BY <2>1 DEF Early, Kept
<1>4. Is("new", update.base) # Is("new", 0)
  BY Sizes, Distinct
<1> QED BY <1>1, <1>2, <1>3, <1>4 DEF dfu_compare_block

\* A step that leaves flash alone leaves what is in it alone.
LEMMA SameFlash ==
    ASSUME flash' = flash, update' = update
    PROVE  /\ Early' <=> Early
           /\ Late' <=> Late
           /\ BlStaged' <=> BlStaged
           /\ \A a, b : Whole(a, b)' <=> Whole(a, b)
           /\ \A a, b : Kept(a, b)' <=> Kept(a, b)
           /\ block_size' = block_size
           /\ Overlaps' <=> Overlaps
           /\ \A stage : /\ First(stage)' = First(stage) /\ Second(stage)' = Second(stage)
                         /\ Third(stage)' = Third(stage)
           /\ recorded' = recorded =>
                (bootloader_update_settings_valid' <=> bootloader_update_settings_valid)
BY DEF Early, Late, BlStaged, Whole, Kept, InPlace, block_size, sd_image_start, bl_image_start,
       Overlaps, First, Second, Third, bootloader_update_settings_valid, DFU_BANK_0_REGION_START

\* What a write to page p of the SoftDevice region does.
LEMMA Written ==
    ASSUME Typed, update' = update, NEW p \in Page, NEW c \in Content,
           flash' = [flash EXCEPT ![p] = c]
    PROVE  /\ flash' \in [Page -> Content]
           /\ \A q \in Page : q # p => flash'[q] = flash[q]
           /\ flash'[p] = c
           /\ p < update.base + update.sd /\ BlStaged => BlStaged'
           /\ \A a, b \in Nat : b <= update.sd /\ p < update.base + a /\ Kept(a, b) => Kept(a, b)'
           /\ \A a, b \in Nat : b <= update.sd /\ (p \notin a .. (b - 1) \/ c = Is("new", p))
                                /\ Whole(a, b) => Whole(a, b)'
           /\ \A a, b \in Nat : b <= update.sd /\ p \notin a .. (b - 1) /\ Whole(a, b)' => Whole(a, b)
<1>1. /\ flash' \in [Page -> Content]
      /\ \A q \in Page : q # p => flash'[q] = flash[q]
      /\ flash'[p] = c
  BY DEF Typed
<1>2. ASSUME p < update.base + update.sd, BlStaged PROVE BlStaged'
  <2> SUFFICES ASSUME NEW i \in 0 .. (update.bl - 1)
               PROVE  flash'[update.base + update.sd + i] = Is("bl", i)
    BY DEF BlStaged, bl_image_start
  <2>1. update.base + update.sd + i \in Page /\ update.base + update.sd + i # p
    BY <1>2, Sizes DEF Page
  <2> QED BY <1>1, <1>2, <2>1 DEF BlStaged, bl_image_start
<1>3. ASSUME NEW a \in Nat, NEW b \in Nat, b <= update.sd, p < update.base + a, Kept(a, b)
      PROVE  Kept(a, b)'
  <2> SUFFICES ASSUME NEW i \in a .. (b - 1)
               PROVE  flash'[update.base + i] = Is("new", i)
    BY DEF Kept
  <2>1. update.base + i \in Page /\ update.base + i # p
    BY <1>3, Sizes DEF Page
  <2> QED BY <1>1, <1>3, <2>1 DEF Kept
<1>4. ASSUME NEW a \in Nat, NEW b \in Nat, b <= update.sd
      PROVE  \A i \in a .. (b - 1) : i \in Page
  BY <1>4, Sizes DEF Page
<1>5. ASSUME NEW a \in Nat, NEW b \in Nat, b <= update.sd, Whole(a, b),
             p \notin a .. (b - 1) \/ c = Is("new", p)
      PROVE  Whole(a, b)'
  BY <1>1, <1>4, <1>5 DEF Whole, InPlace
<1>6. ASSUME NEW a \in Nat, NEW b \in Nat, b <= update.sd, Whole(a, b)', p \notin a .. (b - 1)
      PROVE  Whole(a, b)
  BY <1>1, <1>4, <1>6 DEF Whole, InPlace
<1> QED BY <1>1, <1>2, <1>3, <1>5, <1>6

\* Where dfu_sd_image_validate and the swap functions return to.
LEMMA AfterIs ==
    /\ After("validate", TRUE) = "bl_validate" /\ After("validate", FALSE) = "swap"
    /\ After("swap", TRUE) = "validate_again" /\ After("swap", FALSE) = "boot"
    /\ After("copy", TRUE) = "validate_again" /\ After("copy", FALSE) = "boot"
    /\ After("validate_again", TRUE) = "bl_swap" /\ After("validate_again", FALSE) = "boot"
BY Zenon DEF After

-----------------------------------------------------------------------------
(* The initial states. *)

\* What the pages hold when the update has been activated.
LEMMA StagedIs ==
    ASSUME update \in Updates, flash = Staged(update), NEW p \in Page
    PROVE  /\ p < update.base => flash[p] = Is(IF update.same THEN "new" ELSE "old", p)
           /\ p \in update.base .. (update.base + update.sd - 1) =>
                flash[p] = Is("new", p - update.base)
           /\ p \in (update.base + update.sd) .. (update.base + update.sd + update.bl - 1) =>
                flash[p] = Is("bl", p - update.base - update.sd)
           /\ p \in Nat /\ p >= update.base + update.sd + update.bl => flash[p] = Blank
<1> DEFINE sds == update.base .. (update.base + update.sd - 1)
           bls == (update.base + update.sd) .. (update.base + update.sd + update.bl - 1)
<1>1. flash[p] = CASE p \in sds -> Is("new", p - update.base)
                   [] p \in bls -> Is("bl", p - update.base - update.sd)
                   [] OTHER -> Installed(update, p)
  BY DEF Staged
<1>2. /\ update.base \in Nat /\ update.sd \in Nat /\ update.bl \in Nat /\ p \in Nat
      /\ p < Pages
  BY SdSwapConstants DEF Page
<1>3. /\ p < update.base => p \notin sds /\ p \notin bls
      /\ p \in sds => p \notin bls
      /\ p \in bls => p \notin sds
      /\ p >= update.base + update.sd + update.bl => p \notin sds /\ p \notin bls /\ ~(p < update.base)
  BY <1>2
<1>4. /\ p < update.base => Installed(update, p) = Is(IF update.same THEN "new" ELSE "old", p)
      /\ ~(p < update.base) => Installed(update, p) = Blank
  BY DEF Installed
<1> HIDE DEF sds, bls
<1>5. p \in sds => flash[p] = Is("new", p - update.base)
  BY <1>1, <1>3, Zenon
<1>6. p \in bls => flash[p] = Is("bl", p - update.base - update.sd)
  BY <1>1, <1>3, Zenon
<1>7. p \notin sds /\ p \notin bls => flash[p] = Installed(update, p)
  BY <1>1, Zenon
<1> QED BY <1>3, <1>4, <1>5, <1>6, <1>7 DEF sds, bls

\* The invariant holds when the device starts with an update pending.
LEMMA InitIInv == Init => IInv
<1> SUFFICES ASSUME Init PROVE IInv
  OBVIOUS
<1> USE DEF Init
<1>1. /\ update.base \in Nat /\ update.sd \in Nat /\ update.bl \in Nat /\ HDR \in Nat
      /\ Pages \in Nat /\ HDR < update.base /\ update.base + update.sd + update.bl <= Pages
      /\ update.same \in BOOLEAN
  BY SdSwapConstants
<1>2. ASSUME NEW p \in Page PROVE flash[p] \in Content
  <2>1. CASE p < update.base
    <3>1. flash[p] \in {Is("new", p), Is("old", p)}
      BY <2>1, <1>1, StagedIs
    <3> QED BY <3>1 DEF Content
  <2>2. CASE p \in update.base .. (update.base + update.sd - 1)
    <3>1. p - update.base \in Page
      BY <2>2, <1>1 DEF Page
    <3>2. flash[p] = Is("new", p - update.base)
      BY <2>2, StagedIs
    <3> QED BY <3>1, <3>2 DEF Content
  <2>3. CASE p \in (update.base + update.sd) .. (update.base + update.sd + update.bl - 1)
    <3>1. p - update.base - update.sd \in Page
      BY <2>3, <1>1 DEF Page
    <3>2. flash[p] = Is("bl", p - update.base - update.sd)
      BY <2>3, StagedIs
    <3> QED BY <3>1, <3>2 DEF Content
  <2>4. CASE p >= update.base + update.sd + update.bl
    <3>1. p \in Nat
      BY DEF Page
    <3>2. flash[p] = Blank
      BY <2>4, <3>1, StagedIs
    <3> QED BY <3>2 DEF Content
  <2> QED BY <2>1, <2>2, <2>3, <2>4, <1>1 DEF Page
<1>3. Typed
  <2>1. flash \in [Page -> Content]
    BY <1>2 DEF Staged
  <2> QED BY <2>1 DEF Typed, States
<1>4. BlStaged
  <2> SUFFICES ASSUME NEW i \in 0 .. (update.bl - 1)
               PROVE  flash[update.base + update.sd + i] = Is("bl", i)
    BY DEF BlStaged, bl_image_start
  <2> DEFINE p == update.base + update.sd + i
  <2>1. i \in Nat /\ i < update.bl
    BY <1>1
  <2>2. p \in Page
    BY <1>1, <2>1 DEF Page
  <2>3. p \in (update.base + update.sd) .. (update.base + update.sd + update.bl - 1)
    BY <1>1, <2>1
  <2>4. p - update.base - update.sd = i
    BY <1>1, <2>1
  <2> HIDE DEF p
  <2>5. flash[p] = Is("bl", p - update.base - update.sd)
    BY <2>2, <2>3, StagedIs
  <2> QED BY <2>4, <2>5 DEF p
<1>5. Kept(0, update.sd)
  <2> SUFFICES ASSUME NEW i \in 0 .. (update.sd - 1)
               PROVE  flash[update.base + i] = Is("new", i)
    BY DEF Kept
  <2> DEFINE p == update.base + i
  <2>1. /\ p \in Page /\ p \in update.base .. (update.base + update.sd - 1)
        /\ p - update.base = i
    BY <1>1 DEF Page
  <2> HIDE DEF p
  <2>2. flash[p] = Is("new", p - update.base)
    BY <2>1, StagedIs
  <2> QED BY <2>1, <2>2 DEF p
<1>6. Overlaps => Early
  <2> SUFFICES ASSUME Overlaps PROVE ~Whole(block_size, 2 * block_size)
    BY <1>5 DEF Early
  <2>1. /\ block_size \in Nat /\ block_size >= 1 /\ 2 * block_size <= update.base
        /\ update.same = FALSE
    BY <1>3, Sizes, Zenon
  <2>2. block_size \in block_size .. (2 * block_size - 1)
    BY <2>1
  <2>3. block_size \in Page
    BY <2>1, <1>1 DEF Page
  <2>4. block_size < update.base
    BY <2>1, <1>1
  <2>5. flash[block_size] = Is("old", block_size)
    BY <2>1, <2>3, <2>4, StagedIs
  <2> QED BY <2>2, <2>5, Distinct DEF Whole, InPlace
<1> QED BY <1>3, <1>4, <1>5, <1>6 DEF IInv, QuietInv

-----------------------------------------------------------------------------
(* The steps between the two functions. *)

\* A step outside the two functions that leaves flash alone.
LEMMA QuietStep ==
    ASSUME IInv, flash' = flash, update' = update, bootloader' = bootloader,
           recorded' \in BOOLEAN, cuts' \in Nat, faults' \in Nat,
           pc' \in States \ {"block", "copying"}, QuietInv'
    PROVE  IInv'
<1>1. Typed'
  BY DEF IInv, Typed
<1>2. BlStaged' /\ (~Overlaps' => Kept(0, update.sd)')
  BY SameFlash DEF IInv
<1> QED BY <1>1, <1>2 DEF IInv

\* The images do not overlap: the validation says whether the SoftDevice is in place.
LEMMA PlainCompare ==
    ASSUME Typed, Kept(0, update.sd), dfu_compare_block(0, update.base, update.sd)
    PROVE  Whole(0, update.sd)
<1> SUFFICES ASSUME NEW i \in 0 .. (update.sd - 1) PROVE flash[i] = Is("new", i)
  BY DEF Whole, InPlace
<1>1. flash[0 + i] = flash[update.base + i]
  BY DEF dfu_compare_block
<1>2. 0 + i = i
  BY Sizes
<1> QED BY <1>1, <1>2 DEF Kept

\* An image of no pages is in place.
LEMMA EmptyWhole ==
    ASSUME update.sd = 0
    PROVE  Whole(0, update.sd)
BY DEF Whole

\* dfu_sd_img_block_swap is called when nothing of the source is overwritten.
LEMMA CalledEarly ==
    ASSUME IInv, Overlaps, recorded, NEW who \in {"validate", "swap", "validate_again"},
           Early', flash' \in [Page -> Content], BlStaged',
           bootloader' = bootloader, recorded' = recorded, cuts' = cuts, faults' = faults,
           copy = NoCopy, update' = update, CallBlockSwap(who)
    PROVE  IInv'
<1>1. Typed'
  BY DEF IInv, Typed, CallBlockSwap, States
<1>2. Overlaps' /\ LastBlock = Third("compare")'
  BY DEF Overlaps, sd_image_start, block_size, LastBlock, Frame, Third
<1>3. BlockInv'
  BY <1>2 DEF CallBlockSwap, BlockInv
<1> QED BY <1>1, <1>2, <1>3 DEF IInv, CallBlockSwap

\* main starts the update only when its settings are valid.
LEMMA BootStep == IInv /\ Boot /\ update' = update => IInv'
<1> SUFFICES ASSUME IInv, Boot, update' = update PROVE IInv'
  OBVIOUS
<1>1. QuietInv
  BY DEF IInv, Boot
<1>2. QuietInv'
  BY <1>1, SameFlash DEF QuietInv, Boot, callVars, Good
<1>3. pc' \in States \ {"block", "copying"}
  BY DEF Boot, States
<1> QED BY <1>2, <1>3, QuietStep DEF Boot, IInv, Typed

\* dfu_sd_image_validate: true only of a SoftDevice that is in place.
LEMMA ValidateStep == IInv /\ dfu_sd_image_validate /\ update' = update => IInv'
<1> SUFFICES ASSUME IInv, dfu_sd_image_validate, update' = update PROVE IInv'
  OBVIOUS
<1>1. QuietInv /\ Typed /\ recorded /\ pc \in {"validate", "validate_again"}
  BY DEF IInv, dfu_sd_image_validate, QuietInv, bootloader_update_settings_valid
<1>2. /\ flash' = flash /\ bootloader' = bootloader /\ recorded' = recorded
      /\ cuts' = cuts /\ faults' = faults /\ faults \in Nat /\ cuts \in Nat
  BY <1>1 DEF dfu_sd_image_validate, Typed
<1>3. /\ pc = "validate" => bootloader_update_settings_valid
      /\ sd_image_size # 0 => bootloader_update_settings_valid
      /\ bootloader_update_settings_valid => sd_image_size = update.sd
  BY <1>1 DEF QuietInv, sd_image_size
<1>4. ASSUME NEW ok \in BOOLEAN, Return(pc, ok),
             ok /\ Good => Whole(0, update.sd)
      PROVE  IInv'
  <2>1. pc' = IF pc = "validate" THEN (IF ok THEN "bl_validate" ELSE "swap")
              ELSE (IF ok THEN "bl_swap" ELSE "boot")
    BY <1>1, <1>4, AfterIs DEF Return
  <2>2. QuietInv'
    BY <1>1, <1>2, <1>3, <1>4, <2>1, SameFlash DEF QuietInv, Return, Idle, Good
  <2>3. pc' \in States \ {"block", "copying"}
    BY <2>1 DEF States
  <2> QED BY <1>1, <1>2, <2>2, <2>3, QuietStep
<1>5. CASE sd_image_size = 0
  <2>1. Return(pc, TRUE)
    BY <1>5 DEF dfu_sd_image_validate
  <2>2. Good => Whole(0, update.sd)
    BY <1>1, <1>3, <1>5, EmptyWhole DEF QuietInv
  <2> QED BY <1>4, <2>1, <2>2
<1>6. CASE sd_image_size # 0 /\ ~Overlaps
  <2>1. Return(pc, dfu_compare_block(0, update.base, update.sd))
    BY <1>3, <1>6 DEF dfu_sd_image_validate, sd_image_start
  <2>2. dfu_compare_block(0, update.base, update.sd) => Whole(0, update.sd)
    BY <1>1, <1>6, PlainCompare DEF IInv
  <2>3. dfu_compare_block(0, update.base, update.sd) \in BOOLEAN
    BY DEF dfu_compare_block
  <2> QED BY <1>4, <2>1, <2>2, <2>3
<1>7. CASE sd_image_size # 0 /\ Overlaps /\ SD_SIZE < sd_image_size
  <2>1. Return(pc, FALSE)
    BY <1>7 DEF dfu_sd_image_validate
  <2> QED BY <1>4, <2>1
<1>8. CASE sd_image_size # 0 /\ Overlaps /\ ~(SD_SIZE < sd_image_size)
  <2>1. CallBlockSwap(pc)
    BY <1>8 DEF dfu_sd_image_validate
  <2>2. Early
    BY <1>1, <1>3, <1>8, ValidNeedsOldHeader DEF QuietInv, Late
  <2>3. Early' /\ BlStaged' /\ flash' \in [Page -> Content]
    BY <1>1, <1>2, <2>2, SameFlash DEF IInv, Typed
  <2>4. copy = NoCopy
    BY <1>1 DEF QuietInv
  <2> QED BY <1>1, <1>2, <1>8, <2>1, <2>3, <2>4, CalledEarly
<1> QED BY <1>5, <1>6, <1>7, <1>8

\* dfu_bl_image_validate: a bootloader that is not in place leads to the swap only while
\* the settings are valid.
LEMMA BlValidateStep == IInv /\ dfu_bl_image_validate /\ update' = update => IInv'
<1> SUFFICES ASSUME IInv, dfu_bl_image_validate, update' = update PROVE IInv'
  OBVIOUS
<1>1. QuietInv /\ pc = "bl_validate"
  BY DEF IInv, dfu_bl_image_validate
<1>2. ~BlValid => bootloader_update_settings_valid
  BY DEF BlValid, bl_image_size
<1>3. QuietInv'
  BY <1>1, <1>2, SameFlash DEF QuietInv, dfu_bl_image_validate, callVars, Good
<1>4. pc' \in States \ {"block", "copying"}
  BY DEF dfu_bl_image_validate, States
<1> QED BY <1>3, <1>4, QuietStep DEF dfu_bl_image_validate, IInv, Typed

\* dfu_bl_image_swap: what the MBR copies is the whole bootloader.
LEMMA BlSwapStep == IInv /\ dfu_bl_image_swap /\ update' = update => IInv'
<1> SUFFICES ASSUME IInv, dfu_bl_image_swap, update' = update PROVE IInv'
  OBVIOUS
<1>1. QuietInv /\ Typed /\ BlStaged /\ pc = "bl_swap" /\ recorded
  BY DEF IInv, dfu_bl_image_swap, QuietInv
<1>2. /\ flash' = flash /\ recorded' = recorded /\ cuts' = cuts /\ faults' = faults
      /\ bootloader' \in {"old", "new"} /\ pc' \in {"finalize", "boot"}
      /\ caller' = caller /\ stack' = stack /\ copy' = copy
  BY <1>1 DEF dfu_bl_image_swap, callVars, Typed
<1>3. QuietInv'
  BY <1>1, <1>2, SameFlash DEF QuietInv, Good
<1>4. Typed' /\ BlStaged' /\ (~Overlaps' => Kept(0, update.sd)')
  BY <1>1, <1>2, SameFlash DEF Typed, States, IInv
<1> QED BY <1>2, <1>3, <1>4 DEF IInv

\* bootloader_dfu_sd_update_finalize gives the record up.
LEMMA FinalizeStep == IInv /\ bootloader_dfu_sd_update_finalize /\ update' = update => IInv'
<1> SUFFICES ASSUME IInv, bootloader_dfu_sd_update_finalize, update' = update PROVE IInv'
  OBVIOUS
<1>1. QuietInv /\ pc = "finalize"
  BY DEF IInv, bootloader_dfu_sd_update_finalize
<1>2. QuietInv'
  BY <1>1, SameFlash DEF QuietInv, bootloader_dfu_sd_update_finalize, callVars, Good
<1>3. pc' \in States \ {"block", "copying"}
  BY DEF bootloader_dfu_sd_update_finalize, States
<1> QED BY <1>2, <1>3, QuietStep DEF bootloader_dfu_sd_update_finalize, IInv, Typed

\* dfu_sd_image_swap: with no bad copy, it is reached only while the settings are valid.
LEMMA SwapStep == IInv /\ dfu_sd_image_swap /\ update' = update => IInv'
<1> SUFFICES ASSUME IInv, dfu_sd_image_swap, update' = update PROVE IInv'
  OBVIOUS
<1>1. QuietInv /\ Typed /\ recorded /\ pc = "swap" /\ copy = NoCopy /\ stack = <<>>
  BY DEF IInv, dfu_sd_image_swap, QuietInv
<1>2. /\ flash' = flash /\ bootloader' = bootloader /\ recorded' = recorded
      /\ cuts' = cuts /\ faults' = faults /\ faults \in Nat /\ cuts \in Nat
  BY <1>1 DEF dfu_sd_image_swap, Typed
<1>3. /\ sd_image_size # 0 => bootloader_update_settings_valid
      /\ bootloader_update_settings_valid => sd_image_size = update.sd
  BY DEF sd_image_size
<1>4. CASE sd_image_size = 0
  <2>1. pc' = "validate_again" /\ Idle
    BY <1>4, AfterIs DEF dfu_sd_image_swap, Return
  <2>2. Good => Whole(0, update.sd)
    BY <1>1, <1>3, <1>4, EmptyWhole DEF QuietInv
  <2>3. QuietInv'
    BY <1>1, <1>2, <2>1, <2>2, SameFlash DEF QuietInv, Idle, Good
  <2> QED BY <1>1, <1>2, <2>1, <2>3, QuietStep DEF States
<1>5. CASE sd_image_size # 0 /\ ~Overlaps
  <2>1. /\ StartCopy(update.base, 0, update.sd) /\ caller' = "copy" /\ stack' = stack
    BY <1>3, <1>5 DEF dfu_sd_image_swap, sd_image_start
  <2>2. update.base \in Nat /\ update.sd \in Nat /\ 0 < update.sd
    BY <1>1, <1>3, <1>5, Sizes
  <2>3. Copying(update.base, 0, update.sd)'
    BY <2>1, <2>2 DEF StartCopy, Copying
  <2>4. PlainCopyInv'
    BY <1>1, <1>2, <1>5, <2>1, <2>3, SameFlash DEF PlainCopyInv
  <2>5. Typed' /\ BlStaged' /\ (~Overlaps' => Kept(0, update.sd)')
    BY <1>1, <1>2, <2>1, SameFlash DEF Typed, States, IInv, StartCopy
  <2> QED BY <1>1, <1>2, <2>1, <2>4, <2>5 DEF IInv, StartCopy
<1>6. CASE sd_image_size # 0 /\ Overlaps /\ SD_SIZE < sd_image_size
  <2>1. pc' = "clear_block" /\ caller' = caller /\ stack' = stack /\ copy' = copy
    BY <1>6 DEF dfu_sd_image_swap, callVars
  <2>2. Early
    BY <1>1, <1>3, <1>6, ValidNeedsOldHeader DEF QuietInv, Late
  <2>3. QuietInv'
    BY <1>1, <1>2, <1>6, <2>1, <2>2, SameFlash DEF QuietInv
  <2> QED BY <1>1, <1>2, <2>1, <2>3, QuietStep DEF States
<1>7. CASE sd_image_size # 0 /\ Overlaps /\ ~(SD_SIZE < sd_image_size)
  <2>1. CallBlockSwap("swap")
    BY <1>7 DEF dfu_sd_image_swap
  <2>2. Early
    BY <1>1, <1>3, <1>7, ValidNeedsOldHeader DEF QuietInv, Late
  <2>3. Early' /\ BlStaged' /\ flash' \in [Page -> Content]
    BY <1>1, <1>2, <2>2, SameFlash DEF IInv, Typed
  <2> QED BY <1>1, <1>2, <1>7, <2>1, <2>3, CalledEarly
<1> QED BY <1>4, <1>5, <1>6, <1>7

\* Clearing the first page of the second block: the second block is not in place.
LEMMA ClearBlockStep == IInv /\ ClearBlockPage /\ update' = update => IInv'
<1> SUFFICES ASSUME IInv, ClearBlockPage, update' = update PROVE IInv'
  OBVIOUS
<1>1. QuietInv /\ Typed /\ recorded /\ Overlaps /\ Early /\ BlStaged
  BY DEF IInv, ClearBlockPage, QuietInv
<1>2. /\ block_size \in Nat /\ block_size >= 1 /\ 2 * block_size <= update.base
      /\ update.base \in Nat /\ update.sd \in Nat /\ update.bl \in Nat /\ Pages \in Nat
      /\ update.base + update.sd + update.bl <= Pages /\ update.sd > update.base
  BY <1>1, Sizes, Zenon
<1>3. block_size \in Page /\ block_size < update.base
  BY <1>2 DEF Page
<1>4. /\ flash' \in [Page -> Content] /\ flash'[block_size] = Blank /\ BlStaged'
      /\ Kept(0, update.sd)'
  <2>1. Blank \in Content /\ flash' = [flash EXCEPT ![block_size] = Blank]
    BY DEF Content, ClearBlockPage
  <2>2. block_size < update.base + update.sd /\ block_size < update.base + 0 /\ update.sd <= update.sd
    BY <1>2, <1>3
  <2> QED BY <1>1, <1>2, <1>3, <2>1, <2>2, Written DEF Early
<1>5. block_size' = block_size /\ Overlaps'
  BY <1>1 DEF block_size, sd_image_start, Overlaps
<1>6. Early'
  <2>1. block_size \in block_size .. (2 * block_size - 1)
    BY <1>2
  <2>2. ~Whole(block_size, 2 * block_size)'
    BY <1>4, <1>5, <2>1, Distinct DEF Whole, InPlace
  <2> QED BY <1>4, <2>2 DEF Early
<1>7. Typed' /\ QuietInv'
  BY <1>1, <1>4, <1>5, <1>6 DEF ClearBlockPage, Typed, States, QuietInv, callVars
<1> QED BY <1>4, <1>7 DEF IInv, ClearBlockPage

\* Clearing the first page, and the call of dfu_sd_img_block_swap that follows it.
LEMMA ClearFirstStep == IInv /\ ClearFirstPage /\ update' = update => IInv'
<1> SUFFICES ASSUME IInv, ClearFirstPage, update' = update PROVE IInv'
  OBVIOUS
<1>1. /\ Typed /\ recorded /\ Overlaps /\ Early /\ BlStaged /\ copy = NoCopy
      /\ flash[block_size] = Blank
  BY DEF IInv, ClearFirstPage, QuietInv
<1>2. /\ block_size \in Nat /\ block_size >= 1 /\ 2 * block_size <= update.base
      /\ update.base \in Nat /\ update.sd \in Nat /\ update.bl \in Nat /\ Pages \in Nat
      /\ update.base + update.sd + update.bl <= Pages /\ update.sd > update.base
  BY <1>1, Sizes, Zenon
<1>3. block_size \in Page /\ 0 \in Page /\ block_size # 0
  BY <1>2 DEF Page
<1>4. /\ flash' \in [Page -> Content] /\ flash'[block_size] = Blank /\ BlStaged'
      /\ Kept(0, update.sd)'
  <2>1. Blank \in Content /\ flash' = [flash EXCEPT ![0] = Blank]
    BY DEF Content, ClearFirstPage
  <2>2. 0 < update.base + update.sd /\ 0 < update.base + 0 /\ update.sd <= update.sd
    BY <1>2
  <2> QED BY <1>1, <1>2, <1>3, <2>1, <2>2, Written DEF Early
<1>5. block_size' = block_size
  BY DEF block_size, sd_image_start
<1>6. Early'
  <2>1. block_size \in block_size .. (2 * block_size - 1)
    BY <1>2
  <2>2. ~Whole(block_size, 2 * block_size)'
    BY <1>4, <1>5, <2>1, Distinct DEF Whole, InPlace
  <2> QED BY <1>4, <2>2 DEF Early
<1> QED BY <1>1, <1>4, <1>6, CalledEarly DEF ClearFirstPage

-----------------------------------------------------------------------------
(* dfu_sd_img_block_swap. *)

\* A sequence of one, two or three elements is the tuple of them.
LEMMA Tuples ==
    ASSUME NEW S, NEW s \in Seq(S)
    PROVE  /\ Len(s) = 1 => s = <<s[1]>>
           /\ Len(s) = 2 => s = <<s[1], s[2]>>
           /\ Len(s) = 3 => s = <<s[1], s[2], s[3]>>
<1>1. Len(s) = 1 => s = <<s[1]>>
  OBVIOUS
<1>2. Len(s) = 2 => s = <<s[1], s[2]>>
  OBVIOUS
<1>3. Len(s) = 3 => s = <<s[1], s[2], s[3]>>
  OBVIOUS
<1> QED BY <1>1, <1>2, <1>3

\* A stack of one frame: the next one is put on it ...
LEMMA OneFrame ==
    ASSUME NEW f, stack = <<f>>
    PROVE  /\ Len(stack) = 1 /\ Top = f
           /\ \A stage : WithTop(stage) = <<[f EXCEPT !.stage = stage]>>
           /\ \A e, g : Append(<<e>>, g) = <<e, g>>
<1>1. Len(stack) = 1 /\ Top = f
  BY DEF Top
<1>2. ASSUME NEW stage PROVE WithTop(stage) = <<[f EXCEPT !.stage = stage]>>
  BY <1>1 DEF WithTop
<1>3. ASSUME NEW e, NEW g PROVE Append(<<e>>, g) = <<e, g>>
  <2> DEFINE s == Append(<<e>>, g)
  <2>1. <<e>> \in Seq({e, g})
    OBVIOUS
  <2>2. s \in Seq({e, g}) /\ Len(s) = 2 /\ s[1] = e /\ s[2] = g
    BY <2>1, AppendProperties
  <2> HIDE DEF s
  <2>3. s = <<e, g>>
    BY <2>2, Tuples
  <2> QED BY <2>3 DEF s
<1> QED BY <1>1, <1>2, <1>3

\* ... or of two ...
LEMMA TwoFrames ==
    ASSUME NEW f, NEW g, stack = <<f, g>>
    PROVE  /\ Len(stack) = 2 /\ Top = g
           /\ SubSeq(stack, 1, Len(stack) - 1) = <<f>>
           /\ \A stage : WithTop(stage) = <<f, [g EXCEPT !.stage = stage]>>
           /\ \A e, h : Append(<<f, e>>, h) = <<f, e, h>>
<1>1. Len(stack) = 2 /\ Top = g
  BY DEF Top
<1>2. ASSUME NEW stage PROVE WithTop(stage) = <<f, [g EXCEPT !.stage = stage]>>
  BY <1>1 DEF WithTop
<1>3. ASSUME NEW e, NEW h PROVE Append(<<f, e>>, h) = <<f, e, h>>
  <2> DEFINE s == Append(<<f, e>>, h)
  <2>1. <<f, e>> \in Seq({f, e, h})
    OBVIOUS
  <2>2. s \in Seq({f, e, h}) /\ Len(s) = 3 /\ s[1] = f /\ s[2] = e /\ s[3] = h
    BY <2>1, AppendProperties
  <2> HIDE DEF s
  <2>3. s = <<f, e, h>>
    BY <2>2, Tuples
  <2> QED BY <2>3 DEF s
<1>4. SubSeq(stack, 1, Len(stack) - 1) = <<f>>
  <2> DEFINE s == SubSeq(stack, 1, 1)
  <2>1. stack \in Seq({f, g})
    OBVIOUS
  <2>2. s \in Seq({f, g}) /\ Len(s) = 1 /\ s[1] = f
    BY <2>1, SubSeqProperties
  <2> HIDE DEF s
  <2>3. s = <<f>>
    BY <2>2, Tuples
  <2> QED BY <1>1, <2>3 DEF s
<1> QED BY <1>1, <1>2, <1>3, <1>4

\* ... or of three.
LEMMA ThreeFrames ==
    ASSUME NEW f, NEW g, NEW h, stack = <<f, g, h>>
    PROVE  /\ Len(stack) = 3 /\ Top = h
           /\ SubSeq(stack, 1, Len(stack) - 1) = <<f, g>>
           /\ \A stage : WithTop(stage) = <<f, g, [h EXCEPT !.stage = stage]>>
<1>1. Len(stack) = 3 /\ Top = h
  BY DEF Top
<1>2. ASSUME NEW stage PROVE WithTop(stage) = <<f, g, [h EXCEPT !.stage = stage]>>
  BY <1>1 DEF WithTop
<1>3. SubSeq(stack, 1, Len(stack) - 1) = <<f, g>>
  <2> DEFINE s == SubSeq(stack, 1, 2)
  <2>1. stack \in Seq({f, g, h})
    OBVIOUS
  <2>2. s \in Seq({f, g, h}) /\ Len(s) = 2 /\ s[1] = f /\ s[2] = g
    BY <2>1, SubSeqProperties
  <2> HIDE DEF s
  <2>3. s = <<f, g>>
    BY <2>2, Tuples
  <2> QED BY <1>1, <2>3 DEF s
<1> QED BY <1>1, <1>2, <1>3

\* The three frames and how one leads to the next.
LEMMA Frames ==
    ASSUME Typed, Overlaps
    PROVE  /\ \A s, t : /\ [First(s) EXCEPT !.stage = t] = First(t)
                        /\ [Second(s) EXCEPT !.stage = t] = Second(t)
                        /\ [Third(s) EXCEPT !.stage = t] = Third(t)
           /\ \A s : Earlier(Third(s)) = Second("compare")
           /\ \A s : Earlier(Second(s)) = First("compare")
           /\ \A s : RecursesFirst(Third(s)) /\ RecursesFirst(Second(s)) /\ ~RecursesFirst(First(s))
           /\ \A s : First(s).stage = s /\ Second(s).stage = s /\ Third(s).stage = s
<1>1. \A s, t : /\ [First(s) EXCEPT !.stage = t] = First(t)
                /\ [Second(s) EXCEPT !.stage = t] = Second(t)
                /\ [Third(s) EXCEPT !.stage = t] = Third(t)
  BY DEF First, Second, Third
<1>2. block_size \in Nat /\ update.base \in Nat /\ block_size >= 1
  BY Sizes
<1>3. ASSUME NEW s PROVE Earlier(Third(s)) = Second("compare")
  BY <1>2 DEF Earlier, Third, Second, Frame
<1>4. ASSUME NEW s PROVE Earlier(Second(s)) = First("compare")
  BY <1>2 DEF Earlier, First, Second, Frame
<1>5. \A s : RecursesFirst(Third(s)) /\ RecursesFirst(Second(s)) /\ ~RecursesFirst(First(s))
  BY <1>2 DEF RecursesFirst, First, Second, Third
<1>6. \A s : First(s).stage = s /\ Second(s).stage = s /\ Third(s).stage = s
  BY DEF First, Second, Third
<1> QED BY <1>1, <1>3, <1>4, <1>5, <1>6

\* Comparing one of the three blocks with its source says whether it is in place.
LEMMA CompareFrames ==
    ASSUME Typed, Overlaps
    PROVE  /\ Early => \A s : LET f == First(s) IN
                dfu_compare_block(f.src, f.dst, f.len) <=> Whole(0, block_size)
           /\ Early => \A s : LET f == Second(s) IN
                dfu_compare_block(f.src, f.dst, f.len) <=> Whole(block_size, 2 * block_size)
           /\ Early => \A s : LET f == Third(s) IN
                ~dfu_compare_block(f.src, f.dst, f.len)
           /\ Kept(2 * block_size, update.sd) => \A s : LET f == Third(s) IN
                dfu_compare_block(f.src, f.dst, f.len) <=> Whole(2 * block_size, update.sd)
<1>1. /\ block_size \in Nat /\ update.base \in Nat /\ update.sd \in Nat
      /\ 2 * block_size <= update.base /\ update.sd > update.base
  BY Sizes, Zenon
<1>2. ASSUME Early, NEW s
      PROVE  LET f == First(s) IN
             dfu_compare_block(f.src, f.dst, f.len) <=> Whole(0, block_size)
  <2>1. Kept(0, 0 + block_size)
    BY <1>1, <1>2 DEF Early, Kept
  <2>2. 0 + block_size = block_size /\ update.base + 0 = update.base
    BY <1>1
  <2>3. dfu_compare_block(update.base, 0, block_size) <=> Whole(0, block_size)
    BY <1>1, <2>1, <2>2, CompareIsWhole
  <2> QED BY <2>3 DEF First
<1>3. ASSUME Early, NEW s
      PROVE  LET f == Second(s) IN
             dfu_compare_block(f.src, f.dst, f.len) <=> Whole(block_size, 2 * block_size)
  <2>1. Kept(block_size, block_size + block_size)
    BY <1>1, <1>3 DEF Early, Kept
  <2>2. block_size + block_size = 2 * block_size
    BY <1>1
  <2>3. dfu_compare_block(update.base + block_size, block_size, block_size)
          <=> Whole(block_size, 2 * block_size)
    BY <1>1, <2>1, <2>2, CompareIsWhole
  <2> QED BY <2>3 DEF Second
<1>4. ASSUME Early, NEW s
      PROVE  LET f == Third(s) IN ~dfu_compare_block(f.src, f.dst, f.len)
  BY <1>4, ThirdDiffers DEF Third
<1>5. ASSUME Kept(2 * block_size, update.sd), NEW s
      PROVE  LET f == Third(s) IN
             dfu_compare_block(f.src, f.dst, f.len) <=> Whole(2 * block_size, update.sd)
  <2>1. 2 * block_size \in Nat /\ update.sd - 2 * block_size \in Nat
    BY <1>1
  <2>2. 2 * block_size + (update.sd - 2 * block_size) = update.sd
    BY <1>1
  <2>3. dfu_compare_block(update.base + 2 * block_size, 2 * block_size,
                          update.sd - 2 * block_size) <=> Whole(2 * block_size, update.sd)
    BY <1>5, <2>1, <2>2, CompareIsWhole
  <2> QED BY <2>3 DEF Third
<1> QED BY <1>2, <1>3, <1>4, <1>5

\* Blocks that are next to each other.
LEMMA Joined ==
    ASSUME NEW a \in Nat, NEW b \in Nat, NEW c \in Nat
    PROVE  /\ Whole(a, b) /\ Whole(b, c) => Whole(a, c)
           /\ b <= c /\ Whole(a, c) => Whole(a, b)
           /\ a <= b /\ Whole(a, c) => Whole(b, c)
           /\ a <= b /\ Kept(a, c) => Kept(b, c)
BY DEF Whole, Kept

\* A step that stays in dfu_sd_img_block_swap and leaves flash alone.
LEMMA BlockStays ==
    ASSUME IInv, pc = "block", pc' = "block", BlockInv', flash' = flash, update' = update,
           bootloader' = bootloader, recorded' = recorded, cuts' = cuts, faults' = faults
    PROVE  IInv'
<1>1. Typed' /\ BlStaged' /\ (~Overlaps' => Kept(0, update.sd)')
  BY SameFlash DEF IInv, Typed, States
<1> QED BY <1>1 DEF IInv

\* Comparing a block: in place, it is left alone, and so are those before it; not in
\* place, the block before it comes first.
LEMMA BlockCompareStep == IInv /\ BlockCompare /\ update' = update => IInv'
<1> SUFFICES ASSUME IInv, BlockCompare, update' = update PROVE IInv'
  OBVIOUS
<1>1. BlockInv /\ Typed /\ Overlaps /\ pc = "block"
  BY DEF IInv, BlockCompare, BlockInv
<1>2. /\ flash' = flash /\ bootloader' = bootloader /\ recorded' = recorded
      /\ cuts' = cuts /\ faults' = faults
  BY DEF BlockCompare
<1>3. ASSUME pc' = "block", caller' = caller, copy' = copy,
             \/ stack' = <<Third("copy"), Second("compare")>> /\ Early
             \/ stack' = <<Third("copy"), Second("copy"), First("compare")>> /\ Early
                /\ ~Whole(block_size, 2 * block_size)
             \/ stack' = <<Third("copy"), Second("copy"), First("copy")>> /\ Early
                /\ ~Whole(block_size, 2 * block_size)
             \/ stack' = <<Third("copy"), Second("copy")>> /\ Early /\ Whole(0, block_size)
             \/ stack' = <<Third("copy")>> /\ Early /\ Whole(0, 2 * block_size)
      PROVE  IInv'
  <2>1. BlockInv'
    BY <1>1, <1>2, <1>3, SameFlash DEF BlockInv
  <2> QED BY <1>1, <1>2, <1>3, <2>1, BlockStays
<1>4. CASE stack = <<Third("compare")>> /\ Early
  <2>1. Len(stack) = 1 /\ Top = Third("compare")
    BY <1>4, OneFrame
  <2>2. ~dfu_compare_block(Top.src, Top.dst, Top.len)
    BY <1>1, <1>4, <2>1, CompareFrames
  <2>3. WithTop("copy") = <<Third("copy")>>
    BY <1>1, <1>4, OneFrame, Frames
  <2>4. Append(WithTop("copy"), Earlier(Top)) = <<Third("copy"), Second("compare")>>
    <3>1. Earlier(Top) = Second("compare")
      BY <1>1, <2>1, Frames
    <3>2. Append(<<Third("copy")>>, Second("compare")) = <<Third("copy"), Second("compare")>>
      BY <1>4, OneFrame
    <3> QED BY <2>3, <3>1, <3>2
  <2>5. RecursesFirst(Top)
    BY <1>1, <2>1, Frames
  <2> QED BY <1>1, <1>3, <1>4, <2>2, <2>4, <2>5 DEF BlockCompare
<1>5. CASE stack = <<Third("copy"), Second("compare")>> /\ Early
  <2>1. Len(stack) = 2 /\ Top = Second("compare") /\ SubSeq(stack, 1, Len(stack) - 1) = <<Third("copy")>>
    BY <1>5, TwoFrames
  <2>2. dfu_compare_block(Top.src, Top.dst, Top.len) <=> Whole(block_size, 2 * block_size)
    BY <1>1, <1>5, <2>1, CompareFrames
  <2>3. CASE Whole(block_size, 2 * block_size)
    <3>1. Whole(0, 2 * block_size)
      <4>1. block_size \in Nat /\ 2 * block_size \in Nat /\ 0 \in Nat
        BY <1>1, Sizes
      <4> QED BY <1>5, <2>3, <4>1, Joined DEF Early
    <3>2. Pop(TRUE)
      BY <2>2, <2>3 DEF BlockCompare
    <3> QED BY <1>1, <1>3, <1>5, <2>1, <3>1, <3>2 DEF Pop
  <2>4. CASE ~Whole(block_size, 2 * block_size)
    <3>1. WithTop("copy") = <<Third("copy"), Second("copy")>>
      BY <1>1, <1>5, TwoFrames, Frames
    <3>2. Append(WithTop("copy"), Earlier(Top)) = <<Third("copy"), Second("copy"), First("compare")>>
      <4>1. Earlier(Top) = First("compare")
        BY <1>1, <2>1, Frames
      <4>2. Append(<<Third("copy"), Second("copy")>>, First("compare"))
              = <<Third("copy"), Second("copy"), First("compare")>>
        BY <1>5, TwoFrames
      <4> QED BY <3>1, <4>1, <4>2
    <3>3. RecursesFirst(Top)
      BY <1>1, <2>1, Frames
    <3> QED BY <1>1, <1>3, <1>5, <2>2, <2>4, <3>2, <3>3 DEF BlockCompare
  <2> QED BY <2>3, <2>4
<1>6. CASE /\ stack = <<Third("copy"), Second("copy"), First("compare")>> /\ Early
           /\ ~Whole(block_size, 2 * block_size)
  <2>1. Len(stack) = 3 /\ Top = First("compare")
        /\ SubSeq(stack, 1, Len(stack) - 1) = <<Third("copy"), Second("copy")>>
    BY <1>6, ThreeFrames
  <2>2. dfu_compare_block(Top.src, Top.dst, Top.len) <=> Whole(0, block_size)
    BY <1>1, <1>6, <2>1, CompareFrames
  <2>3. CASE Whole(0, block_size)
    <3>1. Pop(TRUE)
      BY <2>2, <2>3 DEF BlockCompare
    <3> QED BY <1>1, <1>3, <1>6, <2>1, <2>3, <3>1 DEF Pop
  <2>4. CASE ~Whole(0, block_size)
    <3>1. WithTop("copy") = <<Third("copy"), Second("copy"), First("copy")>>
      BY <1>1, <1>6, ThreeFrames, Frames
    <3>2. ~RecursesFirst(Top)
      BY <1>1, <2>1, Frames
    <3> QED BY <1>1, <1>3, <1>6, <2>2, <2>4, <3>1, <3>2 DEF BlockCompare
  <2> QED BY <2>3, <2>4
<1>7. Top.stage = "compare"
  BY DEF BlockCompare
<1> QED
  <2>1. \A s : /\ stack = <<Third("copy"), Second("copy"), First(s)>> => Top.stage = s
               /\ stack = <<Third("copy"), Second(s)>> => Top.stage = s
               /\ stack = <<Third(s)>> => Top.stage = s
    BY <1>1, OneFrame, TwoFrames, ThreeFrames, Frames
  <2> QED BY <1>1, <1>4, <1>5, <1>6, <1>7, <2>1 DEF BlockInv

\* The stage of the innermost frame.
LEMMA TopStage ==
    ASSUME Typed, Overlaps
    PROVE  \A s : /\ stack = <<Third("copy"), Second("copy"), First(s)>> => Top.stage = s
                  /\ stack = <<Third("copy"), Second(s)>> => Top.stage = s
                  /\ stack = <<Third(s)>> => Top.stage = s
BY OneFrame, TwoFrames, ThreeFrames, Frames

\* A block is copied when those before it are in place.
LEMMA BlockCopyStep == IInv /\ BlockCopy /\ update' = update => IInv'
<1> SUFFICES ASSUME IInv, BlockCopy, update' = update PROVE IInv'
  OBVIOUS
<1>1. BlockInv /\ Typed /\ Overlaps /\ recorded /\ Top.stage = "copy"
  BY DEF IInv, BlockCopy, BlockInv
<1>2. /\ flash' = flash /\ bootloader' = bootloader /\ recorded' = recorded
      /\ cuts' = cuts /\ faults' = faults /\ caller' = caller /\ pc' = "copying"
  BY DEF BlockCopy, StartCopy
<1>3. /\ block_size \in Nat /\ update.base \in Nat /\ update.sd \in Nat /\ block_size >= 1
      /\ 2 * block_size <= update.base /\ update.sd > update.base
  BY <1>1, Sizes, Zenon
<1>4. Typed' /\ BlStaged' /\ Overlaps' /\ block_size' = block_size
  BY <1>1, <1>2, SameFlash DEF IInv, Typed, States
<1>5. SUFFICES BlockCopyInv'
  BY <1>1, <1>2, <1>4 DEF IInv
<1>6. CASE /\ stack = <<Third("copy"), Second("copy"), First("copy")>> /\ Early
           /\ ~Whole(block_size, 2 * block_size)
  <2>1. Top = First("copy") /\ stack' = <<Third("copy"), Second("copy"), First("verify")>>
    BY <1>1, <1>6, ThreeFrames, Frames DEF BlockCopy
  <2>2. StartCopy(update.base, 0, block_size)
    BY <2>1 DEF BlockCopy, First
  <2>3. Copying(update.base, 0, block_size)'
    BY <1>3, <1>4, <2>2 DEF StartCopy, Copying
  <2> QED BY <1>1, <1>2, <1>4, <1>6, <2>1, <2>3, SameFlash DEF BlockCopyInv, BlockInv
<1>7. CASE stack = <<Third("copy"), Second("copy")>> /\ Early /\ Whole(0, block_size)
  <2>1. Top = Second("copy") /\ stack' = <<Third("copy"), Second("verify")>>
    BY <1>1, <1>7, TwoFrames, Frames DEF BlockCopy
  <2>2. StartCopy(update.base + block_size, block_size, block_size)
    BY <2>1 DEF BlockCopy, Second
  <2>3. Copying(update.base + block_size, block_size, block_size)'
    BY <1>3, <1>4, <2>2 DEF StartCopy, Copying
  <2> QED BY <1>1, <1>2, <1>4, <1>7, <2>1, <2>3, SameFlash DEF BlockCopyInv, BlockInv
<1>8. CASE stack = <<Third("copy")>> /\ Early /\ Whole(0, 2 * block_size)
  <2>1. Top = Third("copy") /\ stack' = <<Third("verify")>>
    BY <1>1, <1>8, OneFrame, Frames DEF BlockCopy
  <2>2. StartCopy(update.base + 2 * block_size, 2 * block_size, update.sd - 2 * block_size)
    BY <2>1 DEF BlockCopy, Third
  <2>3. /\ update.base + 2 * block_size \in Nat /\ 2 * block_size \in Nat
        /\ update.sd - 2 * block_size \in Nat /\ update.sd - 2 * block_size > 0
    BY <1>3
  <2>4. /\ Copying(update.base + 2 * block_size, 2 * block_size, update.sd - 2 * block_size)'
        /\ copy'.at = 0 /\ copy'.phase = "erase"
    BY <1>4, <2>2, <2>3 DEF StartCopy, Copying
  <2> QED BY <1>1, <1>2, <1>4, <1>8, <2>1, <2>4, SameFlash DEF BlockCopyInv, BlockInv
<1> QED BY <1>1, <1>6, <1>7, <1>8, TopStage DEF BlockInv

\* A block that has been copied is in place.
LEMMA BlockVerifyStep == IInv /\ BlockVerify /\ update' = update => IInv'
<1> SUFFICES ASSUME IInv, BlockVerify, update' = update PROVE IInv'
  OBVIOUS
<1>1. BlockInv /\ Typed /\ Overlaps /\ recorded /\ Top.stage = "verify" /\ pc = "block"
  BY DEF IInv, BlockVerify, BlockInv
<1>2. /\ flash' = flash /\ bootloader' = bootloader /\ recorded' = recorded
      /\ cuts' = cuts /\ faults' = faults /\ cuts \in Nat /\ faults \in Nat
  BY <1>1 DEF BlockVerify, Typed
<1>3. /\ block_size \in Nat /\ 2 * block_size \in Nat /\ update.sd \in Nat /\ 0 \in Nat
      /\ 0 <= block_size /\ 0 <= 2 * block_size
  BY <1>1, Sizes
<1>4. CASE /\ stack = <<Third("copy"), Second("copy"), First("verify")>>
           /\ Early /\ Whole(0, block_size)
  <2>1. Len(stack) = 3 /\ Top = First("verify")
        /\ SubSeq(stack, 1, Len(stack) - 1) = <<Third("copy"), Second("copy")>>
    BY <1>4, ThreeFrames
  <2>2. dfu_compare_block(Top.src, Top.dst, Top.len)
    BY <1>1, <1>4, <2>1, CompareFrames
  <2>3. stack' = <<Third("copy"), Second("copy")>> /\ pc' = pc /\ caller' = caller /\ copy' = copy
    <3>1. dfu_compare_block(Top.src, Top.dst, Top.len) = TRUE
      BY <2>2 DEF dfu_compare_block
    <3>2. Pop(TRUE)
      BY <3>1 DEF BlockVerify
    <3>3. ~(Len(stack) = 1)
      BY <2>1
    <3>4. /\ stack' = SubSeq(stack, 1, Len(stack) - 1)
          /\ pc' = pc /\ caller' = caller /\ copy' = copy
      BY <3>2, <3>3, Zenon DEF Pop
    <3> QED BY <2>1, <3>4, Zenon
  <2>4. BlockInv'
    BY <1>1, <1>2, <1>4, <2>3, SameFlash DEF BlockInv
  <2> QED BY <1>1, <1>2, <2>3, <2>4, BlockStays
<1>5. CASE stack = <<Third("copy"), Second("verify")>> /\ Early /\ Whole(0, 2 * block_size)
  <2>1. Len(stack) = 2 /\ Top = Second("verify")
        /\ SubSeq(stack, 1, Len(stack) - 1) = <<Third("copy")>>
    BY <1>5, TwoFrames
  <2>2. Whole(block_size, 2 * block_size)
    BY <1>3, <1>5, Joined
  <2>3. dfu_compare_block(Top.src, Top.dst, Top.len)
    BY <1>1, <1>5, <2>1, <2>2, CompareFrames
  <2>4. stack' = <<Third("copy")>> /\ pc' = pc /\ caller' = caller /\ copy' = copy
    <3>1. dfu_compare_block(Top.src, Top.dst, Top.len) = TRUE
      BY <2>3 DEF dfu_compare_block
    <3>2. Pop(TRUE)
      BY <3>1 DEF BlockVerify
    <3>3. ~(Len(stack) = 1)
      BY <2>1
    <3>4. /\ stack' = SubSeq(stack, 1, Len(stack) - 1)
          /\ pc' = pc /\ caller' = caller /\ copy' = copy
      BY <3>2, <3>3, Zenon DEF Pop
    <3> QED BY <2>1, <3>4, Zenon
  <2>5. BlockInv'
    BY <1>1, <1>2, <1>5, <2>4, SameFlash DEF BlockInv
  <2> QED BY <1>1, <1>2, <2>4, <2>5, BlockStays
<1>6. CASE stack = <<Third("verify")>> /\ Late /\ Whole(0, update.sd)
  <2>1. Len(stack) = 1 /\ Top = Third("verify")
    BY <1>6, OneFrame
  <2>2. Whole(2 * block_size, update.sd)
    BY <1>3, <1>6, Joined
  <2>3. dfu_compare_block(Top.src, Top.dst, Top.len)
    BY <1>1, <1>6, <2>1, <2>2, CompareFrames DEF Late
  <2>4. Return(caller, TRUE)
    BY <2>1, <2>3 DEF BlockVerify, Pop
  <2>5. pc' \in {"bl_validate", "validate_again", "bl_swap"} /\ Idle
    BY <1>1, <2>4, AfterIs DEF Return, BlockInv
  <2>6. QuietInv'
    BY <1>1, <1>2, <1>6, <2>5, SameFlash DEF QuietInv, Idle, Good
  <2> QED BY <1>1, <1>2, <2>5, <2>6, QuietStep DEF States
<1> QED BY <1>1, <1>4, <1>5, <1>6, TopStage DEF BlockInv

-----------------------------------------------------------------------------
(* COPY_SD. *)

\* The three copies that a swap of overlapping images makes.
CopiesFirst == stack = <<Third("copy"), Second("copy"), First("verify")>>
CopiesSecond == stack = <<Third("copy"), Second("verify")>>
CopiesThird == stack = <<Third("verify")>>

\* The page that is being copied, and what its source holds.
LEMMA HereIs ==
    ASSUME IInv, pc = "copying"
    PROVE  /\ copy \in [src : Nat, dst : Nat, len : Nat, at : Nat, phase : {"erase", "write"}]
           /\ copy.at < copy.len /\ copy.dst + copy.len <= update.sd
           /\ Here \in Page /\ Here \in Nat /\ Here < update.sd
           /\ copy.phase = "write" => Whole(copy.dst, Here)
           /\ flash[copy.src + copy.at] = Is("new", Here)
           /\ ~Overlaps => copy.dst = 0 /\ copy.len = update.sd
<1> DEFINE Known ==
             /\ copy \in [src : Nat, dst : Nat, len : Nat, at : Nat, phase : {"erase", "write"}]
             /\ copy.at < copy.len /\ copy.dst + copy.len <= update.sd
             /\ Here \in Page /\ Here \in Nat /\ Here < update.sd
             /\ copy.phase = "write" => Whole(copy.dst, Here)
             /\ flash[copy.src + copy.at] = Is("new", Here)
<1>1. Typed
  BY DEF IInv
<1>2. /\ block_size \in Nat /\ update.base \in Nat /\ update.sd \in Nat /\ Pages \in Nat
      /\ 2 * block_size <= update.base /\ (Overlaps => update.sd > update.base)
      /\ update.sd <= Pages
  <2>1. update.bl \in Nat /\ update.base + update.sd + update.bl <= Pages
    BY <1>1, Sizes
  <2> QED BY <1>1, <2>1, Sizes
<1>3. ASSUME NEW dst \in Nat, NEW len \in Nat, Copying(update.base + dst, dst, len),
             dst + len <= update.sd, Kept(dst, dst + len)
      PROVE  Known
  <2>1. /\ copy \in [src : Nat, dst : Nat, len : Nat, at : Nat, phase : {"erase", "write"}]
        /\ copy.at \in Nat /\ copy.at < len /\ copy.src = update.base + dst /\ copy.dst = dst /\ copy.len = len
        /\ copy.phase = "write" => Whole(dst, dst + copy.at)
    BY <1>3 DEF Copying
  <2>2. Here = dst + copy.at
    BY <2>1 DEF Here
  <2>3. Here \in Nat /\ Here < update.sd /\ Here \in dst .. (dst + len - 1)
    BY <1>2, <1>3, <2>1, <2>2
  <2>4. Here \in Page
    BY <1>2, <2>3 DEF Page
  <2>5. flash[copy.src + copy.at] = Is("new", Here)
    <3>1. copy.src + copy.at = update.base + Here
      BY <1>2, <1>3, <2>1, <2>2
    <3>2. flash[update.base + Here] = Is("new", Here)
      BY <1>3, <2>3 DEF Kept
    <3> QED BY <3>1, <3>2
  <2> QED BY <1>3, <2>1, <2>2, <2>3, <2>4, <2>5
<1> HIDE DEF Known
<1>4. CASE PlainCopyInv
  <2>1. Kept(0, 0 + update.sd)
    BY <1>2, <1>4 DEF PlainCopyInv, IInv
  <2>2. Copying(update.base + 0, 0, update.sd)
    BY <1>2, <1>4 DEF PlainCopyInv
  <2>3. 0 + update.sd <= update.sd
    BY <1>2
  <2>4. copy.dst = 0 /\ copy.len = update.sd
    BY <2>2 DEF Copying
  <2>5. Known
    BY <1>2, <1>3, <2>1, <2>2, <2>3
  <2> QED BY <2>4, <2>5 DEF Known
<1>5. CASE BlockCopyInv /\ CopiesFirst
  <2>1. Early /\ Overlaps /\ Copying(update.base, 0, block_size)
    BY <1>1, <1>5, TopStage, OneFrame, TwoFrames, ThreeFrames DEF BlockCopyInv, CopiesFirst
  <2>2. Kept(0, 0 + block_size)
    BY <1>2, <2>1 DEF Early, Kept
  <2>3. Copying(update.base + 0, 0, block_size) /\ 0 + block_size <= update.sd
    BY <1>2, <2>1
  <2>4. Known
    BY <1>2, <1>3, <2>1, <2>2, <2>3
  <2> QED BY <2>1, <2>4 DEF Known
<1>6. CASE BlockCopyInv /\ CopiesSecond
  <2>1. Early /\ Overlaps /\ Copying(update.base + block_size, block_size, block_size)
    BY <1>1, <1>6, TopStage, OneFrame, TwoFrames, ThreeFrames DEF BlockCopyInv, CopiesSecond
  <2>2. Kept(block_size, block_size + block_size)
    BY <1>2, <2>1 DEF Early, Kept
  <2>3. update.base + block_size \in Nat /\ block_size + block_size <= update.sd
    BY <1>2, <2>1
  <2>4. Known
    BY <1>2, <1>3, <2>1, <2>2, <2>3
  <2> QED BY <2>1, <2>4 DEF Known
<1>7. CASE BlockCopyInv /\ CopiesThird
  <2> DEFINE rest == update.sd - 2 * block_size
  <2>1. /\ Overlaps /\ Copying(update.base + 2 * block_size, 2 * block_size, rest)
        /\ Late \/ Early
    BY <1>1, <1>7, TopStage, OneFrame, TwoFrames, ThreeFrames DEF BlockCopyInv, CopiesThird
  <2>2. /\ 2 * block_size \in Nat /\ rest \in Nat /\ update.base + 2 * block_size \in Nat
        /\ 2 * block_size + rest = update.sd
    BY <1>2, <2>1
  <2>3. Kept(2 * block_size, 2 * block_size + rest)
    BY <1>2, <2>1, <2>2, Joined DEF Early, Late
  <2>4. 2 * block_size + rest <= update.sd
    BY <1>2, <2>2
  <2> HIDE DEF rest
  <2>5. Known
    BY <1>3, <2>1, <2>2, <2>3, <2>4
  <2> QED BY <2>1, <2>5 DEF Known
<1> QED
  <2>1. BlockCopyInv => CopiesFirst \/ CopiesSecond \/ CopiesThird
    BY DEF BlockCopyInv, CopiesFirst, CopiesSecond, CopiesThird
  <2> QED BY <1>4, <1>5, <1>6, <1>7, <2>1 DEF IInv

\* What the page that COPY_SD works on leaves of the images, whatever it comes to hold:
\* the copies of the first two blocks keep the source, and that of the third finds the
\* first two in place and begins, at the latest, with the old header.
LEMMA CopyTouches ==
    ASSUME IInv, pc = "copying", update' = update, NEW c \in Content, c # Is("old", HDR),
           flash' = [flash EXCEPT ![Here] = c]
    PROVE  /\ flash' \in [Page -> Content] /\ BlStaged'
           /\ ~Overlaps => Kept(0, update.sd)'
           /\ Overlaps => Early' \/ Late'
           /\ BlockCopyInv /\ CopiesFirst => Early' /\ ~Whole(block_size, 2 * block_size)'
           /\ BlockCopyInv /\ CopiesSecond => Early' /\ Whole(0, block_size)'
           /\ BlockCopyInv /\ CopiesThird => Late'
<1>1. Typed /\ BlStaged
  BY DEF IInv
<1>2. /\ block_size \in Nat /\ update.base \in Nat /\ update.sd \in Nat /\ Pages \in Nat
      /\ 2 * block_size \in Nat /\ 0 \in Nat /\ update.sd <= update.sd /\ HDR \in Nat
      /\ 2 * block_size <= update.base /\ (Overlaps <=> update.sd > update.base)
      /\ HDR < update.base /\ update.base <= 2 * block_size + 1
      /\ update.sd <= update.base + 2 * block_size /\ update.sd <= Pages
  <2>1. update.bl \in Nat /\ update.base + update.sd + update.bl <= Pages
    BY <1>1, Sizes
  <2> QED BY <1>1, <2>1, Sizes
<1>3. Here \in Page /\ Here \in Nat /\ Here < update.sd
  BY HereIs
<1>4. block_size' = block_size /\ (Overlaps' <=> Overlaps)
  BY DEF block_size, sd_image_start, Overlaps
<1>5. /\ flash' \in [Page -> Content]
      /\ \A q \in Page : q # Here => flash'[q] = flash[q]
      /\ flash'[Here] = c
  BY <1>1, <1>3, Written
<1>6. BlStaged'
  <2>1. Here < update.base + update.sd
    BY <1>2, <1>3
  <2> QED BY <1>1, <1>3, <2>1, Written
<1>7. ASSUME Here < update.base + 0, Kept(0, update.sd)
      PROVE  Kept(0, update.sd)'
  BY <1>1, <1>2, <1>3, <1>7, Written
<1>8. ASSUME ~Overlaps PROVE Kept(0, update.sd)'
  <2>1. Here < update.base + 0
    BY <1>2, <1>3, <1>8
  <2> QED BY <1>7, <1>8, <2>1 DEF IInv
<1>9. ASSUME BlockCopyInv, CopiesFirst PROVE Early' /\ ~Whole(block_size, 2 * block_size)'
  <2>1. /\ Early /\ Overlaps /\ Copying(update.base, 0, block_size)
        /\ ~Whole(block_size, 2 * block_size)
    BY <1>1, <1>9, TopStage, OneFrame, TwoFrames, ThreeFrames DEF BlockCopyInv, CopiesFirst
  <2>2. copy.dst = 0 /\ copy.at \in Nat /\ copy.at < block_size
    BY <2>1 DEF Copying
  <2>3. Here < block_size
    BY <1>2, <2>2 DEF Here
  <2>4. /\ Here < update.base + 0 /\ Here \notin block_size .. (2 * block_size - 1)
        /\ 2 * block_size <= update.sd
    BY <1>2, <1>3, <2>1, <2>3
  <2>5. ~Whole(block_size, 2 * block_size)'
    BY <1>1, <1>2, <1>3, <1>4, <2>1, <2>4, Written
  <2> QED BY <1>7, <2>1, <2>4, <2>5 DEF Early
<1>10. ASSUME BlockCopyInv, CopiesSecond PROVE Early' /\ Whole(0, block_size)'
  <2>1. /\ Early /\ Overlaps /\ Copying(update.base + block_size, block_size, block_size)
        /\ Whole(0, block_size)
    BY <1>1, <1>10, TopStage, OneFrame, TwoFrames, ThreeFrames DEF BlockCopyInv, CopiesSecond
  <2>2. copy.dst = block_size /\ copy.at \in Nat /\ copy.at < block_size
    BY <2>1 DEF Copying
  <2>3. Here >= block_size /\ Here < 2 * block_size
    BY <1>2, <2>2 DEF Here
  <2>4. /\ Here < update.base + 0 /\ Here \notin 0 .. (block_size - 1)
        /\ block_size <= update.sd
    BY <1>2, <1>3, <2>1, <2>3
  <2>5. Whole(0, block_size)'
    BY <1>1, <1>2, <1>3, <1>4, <2>1, <2>4, Written
  <2> QED BY <1>7, <2>1, <2>4, <2>5 DEF Early
<1>11. ASSUME BlockCopyInv, CopiesThird PROVE Late'
  <2>1. /\ Overlaps
        /\ Copying(update.base + 2 * block_size, 2 * block_size, update.sd - 2 * block_size)
        /\ Late \/ (Early /\ Whole(0, 2 * block_size) /\ copy.at = 0 /\ copy.phase = "erase")
    BY <1>1, <1>11, TopStage, OneFrame, TwoFrames, ThreeFrames DEF BlockCopyInv, CopiesThird
  <2>2. copy.dst = 2 * block_size /\ copy.at \in Nat
    BY <2>1 DEF Copying
  <2>3. Here = 2 * block_size + copy.at
    BY <2>2 DEF Here
  <2>4. Whole(0, 2 * block_size) /\ Kept(2 * block_size, update.sd)
    BY <1>2, <2>1, Joined DEF Early, Late
  <2>5. /\ Here \notin 0 .. (2 * block_size - 1) /\ 2 * block_size <= update.sd
        /\ Here < update.base + 2 * block_size
    BY <1>2, <1>3, <2>1, <2>2, <2>3
  <2>6. Whole(0, 2 * block_size)'
    BY <1>1, <1>2, <1>3, <1>4, <2>4, <2>5, Written
  <2>7. Kept(2 * block_size, update.sd)'
    BY <1>1, <1>2, <1>3, <1>4, <2>4, <2>5, Written
  <2>8. flash'[HDR] # Is("old", HDR)
    <3>1. CASE HDR = Here
      BY <1>5, <3>1
    <3>2. CASE HDR < 2 * block_size
      <4>1. HDR \in 0 .. (2 * block_size - 1)
        BY <1>2, <3>2
      <4>2. flash'[HDR] = Is("new", HDR)
        BY <1>4, <2>6, <4>1 DEF Whole, InPlace
      <4> QED BY <4>2, Distinct
    <3>3. CASE HDR # Here /\ ~(HDR < 2 * block_size)
      <4>1. HDR \in Page /\ copy.at # 0
        BY <1>2, <2>2, <2>3, <2>1, <3>3 DEF Page
      <4>2. flash[HDR] # Is("old", HDR)
        BY <2>1, <4>1 DEF Late
      <4> QED BY <1>5, <3>3, <4>1, <4>2
    <3> QED BY <3>1, <3>2, <3>3
  <2> QED BY <2>6, <2>7, <2>8 DEF Late
<1>12. Overlaps => BlockCopyInv /\ (CopiesFirst \/ CopiesSecond \/ CopiesThird)
  BY DEF IInv, PlainCopyInv, BlockCopyInv, CopiesFirst, CopiesSecond, CopiesThird
<1> QED BY <1>5, <1>6, <1>8, <1>9, <1>10, <1>11, <1>12

\* COPY_SD erases its destination.
LEMMA CopyErasesStep == IInv /\ CopyErases /\ update' = update => IInv'
<1> SUFFICES ASSUME IInv, CopyErases, update' = update PROVE IInv'
  OBVIOUS
<1>1. Typed /\ pc = "copying" /\ copy.phase = "erase" /\ recorded
  BY DEF IInv, CopyErases
<1>2. /\ flash' = [flash EXCEPT ![Here] = Blank] /\ Blank \in Content /\ Blank # Is("old", HDR)
      /\ bootloader' = bootloader /\ recorded' = recorded /\ pc' = pc /\ caller' = caller
      /\ stack' = stack /\ cuts' = cuts /\ faults' = faults
  BY Distinct DEF CopyErases, Content
<1>3. /\ flash' \in [Page -> Content] /\ BlStaged'
      /\ ~Overlaps => Kept(0, update.sd)'
      /\ BlockCopyInv /\ CopiesFirst => Early' /\ ~Whole(block_size, 2 * block_size)'
      /\ BlockCopyInv /\ CopiesSecond => Early' /\ Whole(0, block_size)'
      /\ BlockCopyInv /\ CopiesThird => Late'
  BY <1>1, <1>2, CopyTouches
<1>4. /\ block_size' = block_size /\ (Overlaps' <=> Overlaps)
      /\ \A s : First(s)' = First(s) /\ Second(s)' = Second(s) /\ Third(s)' = Third(s)
  BY DEF block_size, sd_image_start, Overlaps, First, Second, Third
<1>5. Typed'
  BY <1>1, <1>2, <1>3 DEF Typed
<1>6. /\ copy \in [src : Nat, dst : Nat, len : Nat, at : Nat, phase : {"erase", "write"}]
      /\ copy.at < copy.len
  BY <1>1, HereIs
<1>7. /\ copy' \in [src : Nat, dst : Nat, len : Nat, at : Nat, phase : {"erase", "write"}]
      /\ copy'.src = copy.src /\ copy'.dst = copy.dst /\ copy'.len = copy.len
      /\ copy'.at < copy'.len /\ (copy'.phase = "write" => copy'.at = 0)
  <2>1. CASE Last
    <3>1. copy' = [copy EXCEPT !.at = 0, !.phase = "write"]
      BY <2>1 DEF CopyErases
    <3>2. copy.at \in Nat /\ copy.len \in Nat /\ 0 < copy.len
      BY <1>6
    <3> QED BY <1>6, <3>1, <3>2
  <2>2. CASE ~Last
    <3>1. copy' = [copy EXCEPT !.at = copy.at + 1]
      BY <2>2 DEF CopyErases
    <3>2. copy.at \in Nat /\ copy.len \in Nat /\ copy.at + 1 < copy.len
      BY <1>6, <2>2 DEF Last
    <3> QED BY <1>1, <1>6, <3>1, <3>2
  <2> QED BY <2>1, <2>2
<1>8. copy'.phase = "write" => Whole(copy.dst, copy.dst + copy.at)'
  <2> SUFFICES ASSUME copy'.phase = "write" PROVE Whole(copy.dst, copy.dst + copy.at)'
    OBVIOUS
  <2>1. copy'.dst \in Nat /\ copy'.at = 0
    BY <1>7
  <2> QED BY <2>1 DEF Whole
<1>9. CASE PlainCopyInv
  <2>1. PlainCopyInv'
    BY <1>2, <1>4, <1>7, <1>8, <1>9 DEF PlainCopyInv, Copying
  <2> QED BY <1>1, <1>2, <1>3, <1>4, <1>5, <2>1 DEF IInv
<1>10. CASE BlockCopyInv
  <2>1. CopiesFirst \/ CopiesSecond \/ CopiesThird
    BY <1>10 DEF BlockCopyInv, CopiesFirst, CopiesSecond, CopiesThird
  <2>2. BlockCopyInv'
    <3>1. CASE CopiesFirst
      <4>1. Copying(update.base, 0, block_size)
        BY <1>1, <1>10, <3>1, TopStage, OneFrame, TwoFrames, ThreeFrames DEF BlockCopyInv, CopiesFirst
      <4>2. Copying(update.base, 0, block_size)'
        BY <1>4, <1>7, <1>8, <4>1 DEF Copying
      <4> QED BY <1>2, <1>3, <1>4, <1>10, <3>1, <4>2 DEF BlockCopyInv, CopiesFirst
    <3>2. CASE CopiesSecond
      <4>1. Copying(update.base + block_size, block_size, block_size)
        BY <1>1, <1>10, <3>2, TopStage, OneFrame, TwoFrames, ThreeFrames DEF BlockCopyInv, CopiesSecond
      <4>2. Copying(update.base + block_size, block_size, block_size)'
        BY <1>4, <1>7, <1>8, <4>1 DEF Copying
      <4> QED BY <1>2, <1>3, <1>4, <1>10, <3>2, <4>2 DEF BlockCopyInv, CopiesSecond
    <3>3. CASE CopiesThird
      <4>1. Copying(update.base + 2 * block_size, 2 * block_size, update.sd - 2 * block_size)
        BY <1>1, <1>10, <3>3, TopStage, OneFrame, TwoFrames, ThreeFrames DEF BlockCopyInv, CopiesThird
      <4>2. Copying(update.base + 2 * block_size, 2 * block_size, update.sd - 2 * block_size)'
        BY <1>4, <1>7, <1>8, <4>1 DEF Copying
      <4> QED BY <1>2, <1>3, <1>4, <1>10, <3>3, <4>2 DEF BlockCopyInv, CopiesThird
    <3> QED BY <2>1, <3>1, <3>2, <3>3
  <2> QED BY <1>1, <1>2, <1>3, <1>4, <1>5, <2>2 DEF IInv
<1> QED BY <1>1, <1>9, <1>10 DEF IInv

\* COPY_SD copies; when it is done, the block is in place.
LEMMA CopyWritesStep == IInv /\ CopyWrites /\ update' = update => IInv'
<1> SUFFICES ASSUME IInv, CopyWrites, update' = update PROVE IInv'
  OBVIOUS
<1> DEFINE c == Is("new", Here)
<1>1. Typed /\ pc = "copying" /\ copy.phase = "write" /\ recorded
  BY DEF IInv, CopyWrites
<1>2. /\ copy \in [src : Nat, dst : Nat, len : Nat, at : Nat, phase : {"erase", "write"}]
      /\ copy.at < copy.len /\ copy.dst + copy.len <= update.sd
      /\ Here \in Page /\ Here \in Nat /\ Here < update.sd
      /\ Whole(copy.dst, Here)
      /\ flash[copy.src + copy.at] = c
      /\ ~Overlaps => copy.dst = 0 /\ copy.len = update.sd
  BY <1>1, HereIs
<1>3. /\ flash' = [flash EXCEPT ![Here] = c] /\ c \in Content /\ c # Is("old", HDR)
      /\ bootloader' = bootloader /\ recorded' = recorded
      /\ cuts' = cuts /\ faults' = faults
  BY <1>2, Distinct DEF CopyWrites, Content
<1>4. /\ flash' \in [Page -> Content] /\ BlStaged'
      /\ ~Overlaps => Kept(0, update.sd)'
      /\ BlockCopyInv /\ CopiesFirst => Early' /\ ~Whole(block_size, 2 * block_size)'
      /\ BlockCopyInv /\ CopiesSecond => Early' /\ Whole(0, block_size)'
      /\ BlockCopyInv /\ CopiesThird => Late'
  <2> HIDE DEF c
  <2> QED BY <1>1, <1>3, CopyTouches
<1>5. /\ block_size' = block_size /\ (Overlaps' <=> Overlaps)
      /\ \A s : First(s)' = First(s) /\ Second(s)' = Second(s) /\ Third(s)' = Third(s)
  BY DEF block_size, sd_image_start, Overlaps, First, Second, Third
<1>6. /\ copy.dst \in Nat /\ copy.at \in Nat /\ copy.len \in Nat /\ Here = copy.dst + copy.at
      /\ update.sd \in Nat /\ block_size \in Nat /\ update.base \in Nat
      /\ 2 * block_size <= update.base /\ (Overlaps => update.sd > update.base)
  BY <1>1, <1>2, Sizes DEF Here
<1>7. \A i \in copy.dst .. Here : flash'[i] = Is("new", i)
  <2> TAKE i \in copy.dst .. Here
  <2>0. i \in Nat /\ copy.dst <= i /\ i <= Here
    BY <1>6
  <2>1. i \in Page
    <3>1. Here \in 0 .. (Pages - 1) /\ Pages \in Nat
      BY <1>1, <1>2, Sizes DEF Page
    <3> QED BY <2>0, <3>1 DEF Page
  <2>2. CASE i = Here
    BY <1>1, <1>2, <1>3, <2>2 DEF Typed
  <2>3. CASE i # Here
    <3>1. i \in copy.dst .. (Here - 1)
      BY <1>6, <2>0, <2>3
    <3>2. flash[i] = Is("new", i)
      BY <1>2, <3>1 DEF Whole, InPlace
    <3> QED BY <1>1, <1>3, <2>1, <2>3, <3>2 DEF Typed
  <2> QED BY <2>2, <2>3
<1>8. PlainCopyInv \/ (BlockCopyInv /\ (CopiesFirst \/ CopiesSecond \/ CopiesThird))
  BY <1>1 DEF IInv, BlockCopyInv, CopiesFirst, CopiesSecond, CopiesThird
<1>9. /\ CopiesFirst /\ BlockCopyInv => Copying(update.base, 0, block_size)
      /\ CopiesSecond /\ BlockCopyInv => Copying(update.base + block_size, block_size, block_size)
      /\ CopiesThird /\ BlockCopyInv =>
           Copying(update.base + 2 * block_size, 2 * block_size, update.sd - 2 * block_size)
  BY <1>1, TopStage, OneFrame, TwoFrames, ThreeFrames
     DEF BlockCopyInv, CopiesFirst, CopiesSecond, CopiesThird
<1>10. CASE ~Last
  <2>1. /\ pc' = pc /\ caller' = caller /\ stack' = stack
        /\ copy' = [copy EXCEPT !.at = copy.at + 1]
    BY <1>10 DEF CopyWrites
  <2>2. /\ copy' \in [src : Nat, dst : Nat, len : Nat, at : Nat, phase : {"erase", "write"}]
        /\ copy'.src = copy.src /\ copy'.dst = copy.dst /\ copy'.len = copy.len
        /\ copy'.at < copy'.len
    BY <1>2, <1>6, <1>10, <2>1 DEF Last
  <2>3. Whole(copy.dst, copy.dst + copy.at)'
    <3>1. copy'.dst = copy.dst /\ copy'.dst + copy'.at - 1 = Here
      BY <1>2, <1>6, <2>1
    <3>2. \A i \in copy'.dst .. (copy'.dst + copy'.at - 1) : flash'[i] = Is("new", i)
      BY <1>7, <3>1, Zenon
    <3> QED BY <2>2, <3>2 DEF Whole, InPlace
  <2>4. Typed'
    BY <1>1, <1>3, <1>4, <2>1 DEF Typed
  <2>5. PlainCopyInv => PlainCopyInv'
    BY <1>5, <2>1, <2>2, <2>3 DEF PlainCopyInv, Copying
  <2>6. ASSUME BlockCopyInv, CopiesFirst PROVE BlockCopyInv'
    <3>1. Copying(update.base, 0, block_size)'
      BY <1>5, <1>9, <2>2, <2>3, <2>6 DEF Copying
    <3> QED BY <1>4, <1>5, <2>1, <2>6, <3>1 DEF BlockCopyInv, CopiesFirst
  <2>7. ASSUME BlockCopyInv, CopiesSecond PROVE BlockCopyInv'
    <3>1. Copying(update.base + block_size, block_size, block_size)'
      BY <1>5, <1>9, <2>2, <2>3, <2>7 DEF Copying
    <3> QED BY <1>4, <1>5, <2>1, <2>7, <3>1 DEF BlockCopyInv, CopiesSecond
  <2>8. ASSUME BlockCopyInv, CopiesThird PROVE BlockCopyInv'
    <3>1. Copying(update.base + 2 * block_size, 2 * block_size, update.sd - 2 * block_size)'
      BY <1>5, <1>9, <2>2, <2>3, <2>8 DEF Copying
    <3> QED BY <1>4, <1>5, <2>1, <2>8, <3>1 DEF BlockCopyInv, CopiesThird
  <2>9. PlainCopyInv' \/ BlockCopyInv'
    BY <1>8, <2>5, <2>6, <2>7, <2>8
  <2> QED BY <1>1, <1>3, <1>4, <1>5, <2>1, <2>4, <2>9 DEF IInv
<1>11. CASE Last
  <2>1. CopyDone
    BY <1>11 DEF CopyWrites
  <2>2. copy.dst + copy.len = Here + 1
    BY <1>6, <1>11 DEF Last
  <2>3. CASE PlainCopyInv
    <3>1. pc' = "validate_again" /\ Idle
      BY <2>1, <2>3, AfterIs DEF CopyDone, Return, PlainCopyInv
    <3>2. copy.dst = 0 /\ copy.len = update.sd /\ ~Overlaps
      BY <1>2, <2>3 DEF PlainCopyInv
    <3>3. Whole(0, update.sd)'
      <4>1. update.sd - 1 = Here
        BY <1>2, <1>6, <2>2, <3>2
      <4> QED BY <1>7, <3>2, <4>1 DEF Whole, InPlace
    <3>4. QuietInv' /\ Typed'
      BY <1>1, <1>3, <1>4, <1>5, <3>1, <3>2, <3>3 DEF QuietInv, Idle, Typed, States
    <3> QED BY <1>4, <1>5, <3>1, <3>4 DEF IInv
  <2>4. CASE BlockCopyInv
    <3>1. /\ pc' = "block" /\ copy' = NoCopy /\ caller' = caller /\ stack' = stack
          /\ Overlaps /\ caller \in {"validate", "swap", "validate_again"}
      BY <2>1, <2>4 DEF CopyDone, BlockCopyInv
    <3>2. Typed'
      BY <1>1, <1>3, <1>4, <3>1 DEF Typed, States
    <3>3. CASE CopiesFirst
      <4>1. copy.dst = 0 /\ copy.len = block_size
        BY <1>9, <2>4, <3>3 DEF Copying
      <4>2. block_size - 1 = Here
        BY <1>2, <1>6, <2>2, <4>1
      <4>3. Whole(0, block_size)'
        BY <1>5, <1>7, <4>1, <4>2 DEF Whole, InPlace
      <4> QED BY <1>1, <1>3, <1>4, <1>5, <2>4, <3>1, <3>2, <3>3, <4>3 DEF IInv, BlockInv, CopiesFirst
    <3>4. CASE CopiesSecond
      <4>1. copy.dst = block_size /\ copy.len = block_size
        BY <1>9, <2>4, <3>4 DEF Copying
      <4>2. 2 * block_size - 1 = Here
        <5>1. block_size + block_size = Here + 1
          BY <2>2, <4>1
        <5> QED BY <1>2, <1>6, <5>1
      <4>3. Whole(0, 2 * block_size)'
        <5>1. \A i \in 0 .. (2 * block_size - 1) : i \in 0 .. (block_size - 1) \/ i \in block_size .. Here
          BY <1>6, <4>2
        <5>2. \A i \in 0 .. (block_size - 1) : flash'[i] = Is("new", i)
          BY <1>4, <1>5, <2>4, <3>4 DEF Whole, InPlace
        <5> QED BY <1>5, <1>7, <4>1, <5>1, <5>2 DEF Whole, InPlace
      <4> QED BY <1>1, <1>3, <1>4, <1>5, <2>4, <3>1, <3>2, <3>4, <4>3 DEF IInv, BlockInv, CopiesSecond
    <3>5. CASE CopiesThird
      <4>1. copy.dst = 2 * block_size /\ copy.len = update.sd - 2 * block_size
        BY <1>9, <2>4, <3>5 DEF Copying
      <4>2. update.sd - 1 = Here
        BY <1>2, <1>6, <2>2, <4>1
      <4>3. Whole(0, update.sd)'
        <5>1. \A i \in 0 .. (update.sd - 1) :
                i \in 0 .. (2 * block_size - 1) \/ i \in 2 * block_size .. Here
          BY <1>6, <4>2
        <5>2. \A i \in 0 .. (2 * block_size - 1) : flash'[i] = Is("new", i)
          BY <1>4, <1>5, <2>4, <3>5 DEF Late, Whole, InPlace
        <5> QED BY <1>5, <1>7, <4>1, <5>1, <5>2 DEF Whole, InPlace
      <4> QED BY <1>1, <1>3, <1>4, <1>5, <2>4, <3>1, <3>2, <3>5, <4>3 DEF IInv, BlockInv, CopiesThird
    <3> QED BY <2>4, <3>3, <3>4, <3>5 DEF BlockCopyInv, CopiesFirst, CopiesSecond, CopiesThird
  <2> QED BY <1>8, <2>3, <2>4
<1> QED BY <1>10, <1>11

\* A copy that the MBR finds bad: the boot starts over, except that the validation of
\* overlapping images goes on to the swap; the source is still there.
LEMMA CopyFailsStep == IInv /\ CopyFails /\ update' = update => IInv'
<1> SUFFICES ASSUME IInv, CopyFails, update' = update PROVE IInv'
  OBVIOUS
<1>1. Typed /\ pc = "copying" /\ recorded
  BY DEF IInv, CopyFails
<1>2. PICK c \in Unfinished : flash' = [flash EXCEPT ![Here] = c]
  BY DEF CopyFails
<1>3. c \in Content /\ c # Is("old", HDR)
  BY Distinct DEF Unfinished, Content
<1>4. /\ flash' \in [Page -> Content] /\ BlStaged'
      /\ ~Overlaps => Kept(0, update.sd)'
      /\ Overlaps => Early' \/ Late'
  BY <1>1, <1>2, <1>3, CopyTouches
<1>5. /\ bootloader' = bootloader /\ recorded' = recorded /\ cuts' = cuts
      /\ faults' = faults + 1 /\ Return(caller, FALSE)
  BY DEF CopyFails
<1>6. Overlaps' <=> Overlaps
  BY DEF Overlaps, sd_image_start
<1>7. pc' = "boot" \/ (pc' = "swap" /\ Overlaps)
  BY <1>1, <1>5, AfterIs DEF Return, IInv, PlainCopyInv, BlockCopyInv
<1>8. Overlaps => ~Good'
  <2>1. faults \in Nat /\ faults' # 0
    BY <1>1, <1>5 DEF Typed
  <2>2. Overlaps => update.newbase # update.base
    BY <1>1, Sizes
  <2> QED BY <2>1, <2>2 DEF Good
<1>9. Typed'
  BY <1>1, <1>4, <1>5, <1>7 DEF Typed, States
<1>10. caller' = "none" /\ stack' = <<>> /\ copy' = NoCopy
  BY <1>5 DEF Return, Idle
<1>11. QuietInv'
  BY <1>1, <1>4, <1>5, <1>6, <1>7, <1>8, <1>10 DEF QuietInv
<1> QED BY <1>4, <1>6, <1>7, <1>9, <1>11 DEF IInv

\* The power fails: whatever it leaves of the page, the source is still there.
LEMMA PowerLossStep == IInv /\ PowerLoss /\ update' = update => IInv'
<1> SUFFICES ASSUME IInv, PowerLoss, update' = update PROVE IInv'
  OBVIOUS
<1>1. Typed /\ recorded /\ BlStaged
  BY DEF IInv, PowerLoss, Typed, States, BlockInv, QuietInv, bootloader_update_settings_valid
<1>2. /\ bootloader' = bootloader /\ recorded' = recorded /\ faults' = faults
      /\ cuts' \in Nat /\ pc' = "boot" /\ Idle
  BY <1>1 DEF PowerLoss, Typed
<1>3. Overlaps' <=> Overlaps
  BY DEF Overlaps, sd_image_start
<1>4. SUFFICES /\ flash' \in [Page -> Content] /\ BlStaged'
               /\ ~Overlaps => Kept(0, update.sd)'
               /\ Overlaps => Early' \/ Late'
  <2>1. QuietInv' /\ Typed'
    BY <1>1, <1>2, <1>3, <1>4 DEF QuietInv, Idle, Typed, States
  <2> QED BY <1>2, <1>3, <1>4, <2>1 DEF IInv
<1>5. CASE flash' = flash
  <2>1. Overlaps => Early \/ Late
    BY DEF IInv, BlockInv, PlainCopyInv, BlockCopyInv, QuietInv
  <2>2. ~Overlaps => Kept(0, update.sd)
    BY DEF IInv
  <2> QED BY <1>1, <1>5, <2>1, <2>2, SameFlash DEF Typed
<1>6. CASE flash' # flash
  <2>1. pc = "copying"
    BY <1>6 DEF PowerLoss, CutPages
  <2>2. PICK c \in {flash[Here]} \cup {Part, HeaderOnly} : flash' = [flash EXCEPT ![Here] = c]
    BY <2>1 DEF PowerLoss, CutPages, Unfinished
  <2>3. c # flash[Here]
    BY <1>1, <1>6, <2>2 DEF Typed
  <2>4. c \in Content /\ c # Is("old", HDR)
    BY <2>2, <2>3, Distinct DEF Content
  <2> QED BY <1>1, <2>1, <2>2, <2>4, CopyTouches
<1> QED BY <1>5, <1>6

-----------------------------------------------------------------------------
(* The theorems. *)

\* The invariant is inductive.
LEMMA NextIInv == IInv /\ [Next]_vars => IInv'
<1> SUFFICES ASSUME IInv, [Next]_vars PROVE IInv'
  OBVIOUS
<1>1. CASE Next
  <2> USE <1>1
  <2>1. update' = update
    BY DEF Next
  <2>2. CASE Boot
    BY <2>1, <2>2, BootStep
  <2>3. CASE dfu_sd_image_validate
    BY <2>1, <2>3, ValidateStep
  <2>4. CASE dfu_bl_image_validate
    BY <2>1, <2>4, BlValidateStep
  <2>5. CASE dfu_sd_image_swap
    BY <2>1, <2>5, SwapStep
  <2>6. CASE ClearBlockPage
    BY <2>1, <2>6, ClearBlockStep
  <2>7. CASE ClearFirstPage
    BY <2>1, <2>7, ClearFirstStep
  <2>8. CASE BlockCompare
    BY <2>1, <2>8, BlockCompareStep
  <2>9. CASE BlockCopy
    BY <2>1, <2>9, BlockCopyStep
  <2>10. CASE BlockVerify
    BY <2>1, <2>10, BlockVerifyStep
  <2>11. CASE CopyErases
    BY <2>1, <2>11, CopyErasesStep
  <2>12. CASE CopyWrites
    BY <2>1, <2>12, CopyWritesStep
  <2>13. CASE dfu_bl_image_swap
    BY <2>1, <2>13, BlSwapStep
  <2>14. CASE bootloader_dfu_sd_update_finalize
    BY <2>1, <2>14, FinalizeStep
  <2>15. CASE CopyFails
    BY <2>1, <2>15, CopyFailsStep
  <2>16. CASE PowerLoss
    BY <2>1, <2>16, PowerLossStep
  <2> QED BY <2>2, <2>3, <2>4, <2>5, <2>6, <2>7, <2>8, <2>9, <2>10, <2>11, <2>12, <2>13,
             <2>14, <2>15, <2>16 DEF Next, Continue
<1>2. CASE UNCHANGED vars
  <2>1. /\ flash' = flash /\ update' = update /\ bootloader' = bootloader /\ recorded' = recorded
        /\ pc' = pc /\ caller' = caller /\ stack' = stack /\ copy' = copy /\ cuts' = cuts
        /\ faults' = faults
    BY <1>2 DEF vars
  <2> QED BY <2>1 DEF IInv, Typed, BlStaged, bl_image_start, Overlaps, sd_image_start, Kept,
        BlockInv, PlainCopyInv, BlockCopyInv, QuietInv, Early, Late, Whole, InPlace, First, Second,
        Third, block_size, Copying, Good, bootloader_update_settings_valid, DFU_BANK_0_REGION_START
<1> QED BY <1>1, <1>2

\* What is always true.
LEMMA AlwaysIInv == Spec => []IInv
BY InitIInv, NextIInv, PTL DEF Spec

\* The types, and with them that the swap has at most three frames, that the innermost is
\* the first block, and that no copy leaves the region (dfu_sd_image_swap), for every
\* layout.
THEOREM TypeCorrect == Spec => []TypeOK
<1>1. IInv => TypeOK
  <2> SUFFICES ASSUME IInv PROVE TypeOK
    OBVIOUS
  <2>1. /\ update.base \in Nat /\ update.sd \in Nat /\ update.bl \in Nat /\ Pages \in Nat
        /\ block_size \in Nat /\ 2 * block_size <= update.base /\ HDR \in Nat /\ HDR < update.base
        /\ update.base + update.sd + update.bl <= Pages
        /\ Overlaps => update.sd > update.base
    BY Sizes DEF IInv
  <2>2. \A s : /\ First(s).dst = 0 /\ First(s).src = update.base /\ First(s).len = block_size
               /\ Second(s).dst = block_size /\ Second(s).src = update.base + block_size
               /\ Second(s).len = block_size
               /\ Third(s).dst = 2 * block_size /\ Third(s).src = update.base + 2 * block_size
               /\ Third(s).len = update.sd - 2 * block_size
    BY DEF First, Second, Third
  <2>3. Overlaps => /\ 2 * block_size >= 0 /\ block_size >= 0
                    /\ update.base + block_size <= Pages
                    /\ (update.base + block_size) + block_size <= Pages
                    /\ (update.base + 2 * block_size) + (update.sd - 2 * block_size) <= Pages
    BY <2>1
  <2>4. Overlaps => \A s : /\ First(s).dst >= 0 /\ First(s).src + First(s).len <= Pages
                           /\ Second(s).dst >= 0 /\ Second(s).src + Second(s).len <= Pages
                           /\ Third(s).dst >= 0 /\ Third(s).src + Third(s).len <= Pages
    BY <2>2, <2>3
  <2>5. /\ Len(stack) <= 3
        /\ \A i \in 1 .. Len(stack) : stack[i].dst >= 0 /\ stack[i].src + stack[i].len <= Pages
    <3>1. CASE stack = <<>>
      BY <3>1
    <3>2. CASE Overlaps /\ \E s, t, u : stack = <<Third(s), Second(t), First(u)>>
      BY <2>4, <3>2
    <3>3. CASE Overlaps /\ \E s, t : stack = <<Third(s), Second(t)>>
      BY <2>4, <3>3
    <3>4. CASE Overlaps /\ \E s : stack = <<Third(s)>>
      BY <2>4, <3>4
    <3> QED BY <3>1, <3>2, <3>3, <3>4 DEF IInv, BlockInv, PlainCopyInv, BlockCopyInv, QuietInv
  <2>6. Here \in Page
    <3>1. CASE pc = "copying"
      BY <3>1, HereIs
    <3>2. CASE pc # "copying"
      <4>1. copy = NoCopy
        BY <3>2 DEF IInv, BlockInv, QuietInv
      <4>2. Here = 0
        BY <4>1 DEF Here, NoCopy
      <4> QED BY <2>1, <4>2 DEF Page
    <3> QED BY <3>1, <3>2
  <2> QED BY <2>5, <2>6 DEF TypeOK, IInv, Typed, States
<1> QED BY <1>1, AlwaysIInv, PTL

\* As long as the record asks for the update, nothing of it is lost, whatever page the
\* power fails at and however often, although dfu_sd_img_block_swap overwrites its own
\* source: for every SoftDevice that three blocks can hold.
THEOREM SourceAlwaysSurvives == Spec => []SourceSurvives
<1>1. IInv => SourceSurvives
  <2> SUFFICES ASSUME IInv PROVE SourceSurvives
    OBVIOUS
  <2>1. /\ update.sd \in Nat /\ block_size \in Nat /\ BlStaged
    BY Sizes DEF IInv
  <2>2. Kept(0, update.sd) \/ Late
    BY DEF IInv, BlockInv, PlainCopyInv, BlockCopyInv, QuietInv, Early
  <2>3. ASSUME NEW i \in 0 .. (update.sd - 1)
        PROVE  InPlace(i) \/ flash[update.base + i] = Is("new", i)
    <3>1. CASE Kept(0, update.sd)
      BY <3>1 DEF Kept
    <3>2. CASE Late
      <4>1. i \in 0 .. (2 * block_size - 1) \/ i \in 2 * block_size .. (update.sd - 1)
        BY <2>1
      <4> QED BY <3>2, <4>1 DEF Late, Whole, Kept
    <3> QED BY <2>2, <3>1, <3>2
  <2> QED BY <2>1, <2>3 DEF SourceSurvives, sd_image_start
<1> QED BY <1>1, AlwaysIInv, PTL

\* bootloader_dfu_sd_update_finalize gives the record up only for a SoftDevice that is in
\* place, unless the MBR reported a bad copy of one that moves the end of the SoftDevice.
THEOREM FinalizedAlwaysWhole == Spec => []FinalizedIsWhole
<1>1. IInv => FinalizedIsWhole
  <2> SUFFICES ASSUME IInv, ~recorded, Good PROVE SdWhole
    BY DEF FinalizedIsWhole, Good
  <2>1. Whole(0, update.sd)
    BY DEF IInv, BlockInv, QuietInv
  <2> QED BY <2>1 DEF SdWhole, Whole
<1> QED BY <1>1, AlwaysIInv, PTL
=============================================================================
