------------------------------- MODULE SdSwap -------------------------------
(***************************************************************************)
(* Installing a received SoftDevice and bootloader (main.c,                 *)
(* bootloader_dfu_sd_update_continue of bootloader.c, the swap and validate *)
(* functions of dfu_single_bank.c).  Bank 0 starts where the installed      *)
(* SoftDevice ends, so a larger SoftDevice is copied over the beginning of  *)
(* its own source: in three blocks, each only when the ones after it are    *)
(* not in place, so that a swap that was cut can be repeated.               *)
(*                                                                          *)
(* Flash is counted in pages from SOFTDEVICE_REGION_START (MBR_SIZE).  The  *)
(* SoftDevice header, which says where the SoftDevice ends, is in page HDR  *)
(* of it.  The settings record is what the update left; SingleBank models   *)
(* how it is written.  The MBR's commands are modelled from nrf_mbr.h:      *)
(* COPY_SD erases its destination, copies and verifies, and is not resumed  *)
(* after a power loss; COPY_BL is the MBR's own transaction.                *)
(***************************************************************************)
EXTENDS Integers, Sequences

CONSTANTS
    HDR,          \* the page of the SoftDevice header
    Pages,        \* pages between SOFTDEVICE_REGION_START and the bootloader
    Updates,      \* the updates that may be pending, see SdSwapConstants
    MaxCuts,      \* bound on power losses
    MaxFaults     \* bound on copies that the MBR finds different from their source

\* base is where the installed SoftDevice ends, newbase where the received one does; sd
\* and bl are the sizes of the two images in the bank, one of them not 0; same says that
\* the received SoftDevice is, page by page, the installed one.  dfu_image_policy_validate
\* lets in a SoftDevice that ends at its newbase or before, and one that moves the end
\* only together with a bootloader.  The three blocks do for a SoftDevice of up to twice
\* the installed one; those of lib/softdevice have 37 to 48 pages.
ASSUME SdSwapConstants ==
    /\ HDR \in Nat /\ MaxCuts \in Nat /\ MaxFaults \in Nat /\ Pages \in Nat
    /\ \A u \in Updates :
          /\ u.base \in Nat /\ u.newbase \in Nat /\ u.sd \in Nat /\ u.bl \in Nat
          /\ u.base > HDR /\ (u.sd > HDR \/ u.sd = 0) /\ u.sd + u.bl > 0
          /\ u.sd <= u.newbase /\ u.base + u.sd + u.bl <= Pages
          /\ u.sd <= u.base + 2 * (u.base \div 2)
          /\ u.same \in BOOLEAN
          /\ (u.same \/ u.sd = 0 \/ u.bl = 0) => u.base = u.newbase

MBR_PAGES == 1    \* MBR_SIZE

\* What a page holds: page n of the old SoftDevice, of the new one or of the new
\* bootloader; nothing ("blank"); a cut write or erase ("part"), or one that left a
\* header that can be read ("head").
Is(image, n) == <<image, n>>
Blank == Is("blank", 0)
Part == Is("part", 0)
HeaderOnly == Is("head", 0)

NoCopy == [src |-> 0, dst |-> 0, len |-> 0, at |-> 0, phase |-> "none"]

VARIABLES
    update,       \* the member of Updates; never changes
    flash,
    bootloader,   \* what is in the bootloader region
    recorded,     \* the settings record still asks for the update
    pc,           \* where the boot is; "dfu" is main after the update check
    caller,       \* who called dfu_sd_img_block_swap or dfu_copy_sd
    stack,        \* frames of dfu_sd_img_block_swap, innermost last
    copy,         \* the COPY_SD in progress
    cuts, faults

vars == <<update, flash, bootloader, recorded, pc, caller, stack, copy, cuts, faults>>
callVars == <<caller, stack, copy>>

-----------------------------------------------------------------------------
(* What the code reads from flash. *)

\* is_sd_existed, SD_SIZE_GET, CODE_REGION_1_START: the end of the SoftDevice whose
\* header is in flash, the start of the region when there is none.
DFU_BANK_0_REGION_START ==
    CASE flash[HDR] = Is("old", HDR) -> update.base
      [] flash[HDR] \in {Is("new", HDR), HeaderOnly} -> update.newbase
      [] OTHER -> 0

SD_SIZE == DFU_BANK_0_REGION_START + MBR_PAGES

\* bootloader_update_settings_valid, for a record that is intact (SingleBank has the
\* others).  sd_image_start was the bank's start when the update was received.
bootloader_update_settings_valid ==
    recorded /\ (update.sd = 0 \/ update.base = DFU_BANK_0_REGION_START)

\* bootloader_settings_get: all zero when the record is not valid.
sd_image_size == IF bootloader_update_settings_valid THEN update.sd ELSE 0
bl_image_size == IF bootloader_update_settings_valid THEN update.bl ELSE 0
sd_image_start == update.base
bl_image_start == update.base + update.sd

\* Mutant: the comparison leaves out the last page.
CompareShort(src, dst, len) == \A i \in 0 .. (len - 2) : flash[src + i] = flash[dst + i]

\* dfu_compare_block: SD_MBR_COMMAND_COMPARE.
dfu_compare_block(src, dst, len) == \A i \in 0 .. (len - 1) : flash[src + i] = flash[dst + i]

\* The received image does not fit below its own start.  These and the blocks are taken
\* from the function's own copy of the settings, made before it changes flash.
Overlaps == update.sd > sd_image_start
block_size == sd_image_start \div 2

Frame(src, dst, len) == [src |-> src, dst |-> dst, len |-> len, stage |-> "compare"]
LastBlock ==
    Frame(sd_image_start + 2 * block_size, 2 * block_size, update.sd - 2 * block_size)

-----------------------------------------------------------------------------
(* Control: where the boot goes when a function returns. *)

\* bootloader_dfu_sd_update_continue; APP_ERROR_CHECK resets the device.
After(who, ok) ==
    CASE who = "validate" -> IF ok THEN "bl_validate" ELSE "swap"
      [] who \in {"swap", "copy"} -> IF ok THEN "validate_again" ELSE "boot"
      [] who = "validate_again" -> IF ok THEN "bl_swap" ELSE "boot"

Idle == caller' = "none" /\ stack' = <<>> /\ copy' = NoCopy

Return(who, ok) == pc' = After(who, ok) /\ Idle

StartCopy(src, dst, len) ==
    /\ copy' = [src |-> src, dst |-> dst, len |-> len, at |-> 0, phase |-> "erase"]
    /\ pc' = "copying"

CallBlockSwap(who) ==
    /\ pc' = "block"
    /\ caller' = who
    /\ stack' = <<LastBlock>>
    /\ UNCHANGED copy

Top == stack[Len(stack)]
WithTop(stage) == [stack EXCEPT ![Len(stack)].stage = stage]

\* The innermost frame returns: an error goes through all the others (VERIFY_SUCCESS).
Pop(ok) ==
    IF Len(stack) = 1 \/ ~ok
    THEN Return(caller, ok)
    ELSE /\ stack' = SubSeq(stack, 1, Len(stack) - 1)
         /\ UNCHANGED <<pc, caller, copy>>

-----------------------------------------------------------------------------
(* The boot. *)

Page == 0 .. (Pages - 1)

Installed(u, p) == IF p < u.base THEN Is(IF u.same THEN "new" ELSE "old", p) ELSE Blank

\* The update was activated and the device reset: the images lie one after the other.
Staged(u) ==
    [p \in Page |->
        CASE p \in u.base .. (u.base + u.sd - 1) -> Is("new", p - u.base)
          [] p \in (u.base + u.sd) .. (u.base + u.sd + u.bl - 1) -> Is("bl", p - u.base - u.sd)
          [] OTHER -> Installed(u, p)]

Init ==
    /\ update \in Updates
    /\ flash = Staged(update)
    /\ bootloader = "old"
    /\ recorded = TRUE
    /\ pc = "boot"
    /\ caller = "none" /\ stack = <<>> /\ copy = NoCopy
    /\ cuts = 0 /\ faults = 0

\* main: bootloader_dfu_sd_in_progress.
Boot ==
    /\ pc = "boot"
    /\ pc' = IF bootloader_update_settings_valid THEN "validate" ELSE "dfu"
    /\ UNCHANGED <<flash, bootloader, recorded, callVars, cuts, faults>>

\* dfu_sd_image_validate.  With overlapping images it is the swap itself.
dfu_sd_image_validate ==
    /\ pc \in {"validate", "validate_again"}
    /\ IF sd_image_size = 0 THEN Return(pc, TRUE)
       ELSE IF ~Overlaps
       THEN Return(pc, dfu_compare_block(0, sd_image_start, sd_image_size))
       ELSE IF SD_SIZE < sd_image_size THEN Return(pc, FALSE)
       ELSE CallBlockSwap(pc)
    /\ UNCHANGED <<flash, bootloader, recorded, cuts, faults>>

\* The images in the bank are complete.
BlStaged == \A i \in 0 .. (update.bl - 1) : flash[bl_image_start + i] = Is("bl", i)

\* Mutant: the bootloader region is compared with the SoftDevice's source.
BlValidAtStart == bl_image_size = 0 \/ (bootloader = "new" /\ BlStaged /\ update.sd = 0)

\* dfu_bl_image_validate: the bootloader region is what lies after the SoftDevice image.
\* Its second comparison, for a bank 1 that a dual-bank bootloader filled, finds other data.
BlValid == bl_image_size = 0 \/ (bootloader = "new" /\ BlStaged)

dfu_bl_image_validate ==
    /\ pc = "bl_validate"
    /\ pc' = IF BlValid THEN "finalize" ELSE "swap"
    /\ UNCHANGED <<flash, bootloader, recorded, callVars, cuts, faults>>

\* dfu_sd_image_swap.  When the installed SoftDevice is smaller than the image, two of
\* its pages are cleared first: COPY_SD of one word of a page onto itself.
dfu_sd_image_swap ==
    /\ pc = "swap"
    /\ IF sd_image_size = 0 THEN Return("swap", TRUE)
       ELSE IF ~Overlaps
       THEN StartCopy(sd_image_start, 0, sd_image_size) /\ caller' = "copy" /\ UNCHANGED stack
       ELSE IF SD_SIZE < sd_image_size
       THEN pc' = "clear_block" /\ UNCHANGED callVars
       ELSE CallBlockSwap("swap")
    /\ UNCHANGED <<flash, bootloader, recorded, cuts, faults>>

ClearBlockPage ==
    /\ pc = "clear_block"
    /\ flash' = [flash EXCEPT ![block_size] = Blank]
    /\ pc' = "clear_first"
    /\ UNCHANGED <<bootloader, recorded, callVars, cuts, faults>>

ClearFirstPage ==
    /\ pc = "clear_first"
    /\ flash' = [flash EXCEPT ![0] = Blank]
    /\ CallBlockSwap("swap")
    /\ UNCHANGED <<bootloader, recorded, cuts, faults>>

-----------------------------------------------------------------------------
(* dfu_sd_img_block_swap. *)

\* Mutant: the block is copied before the ones that it overwrites the source of.
CallsBefore(f) == FALSE

\* Mutant: the first block has one before it, too.
RecursesAlways(f) == f.dst >= 0

\* The blocks before this one are swapped first.
RecursesFirst(f) == f.dst > 0

Earlier(f) == Frame(f.src - block_size, f.dst - block_size, block_size)

\* A block that is in place is left alone, and so are all before it: their source may be
\* gone.
BlockCompare ==
    /\ pc = "block" /\ Top.stage = "compare"
    /\ IF dfu_compare_block(Top.src, Top.dst, Top.len)
       THEN Pop(TRUE)
       ELSE /\ stack' = IF RecursesFirst(Top) THEN Append(WithTop("copy"), Earlier(Top))
                        ELSE WithTop("copy")
            /\ UNCHANGED <<pc, caller, copy>>
    /\ UNCHANGED <<flash, bootloader, recorded, cuts, faults>>

BlockCopy ==
    /\ pc = "block" /\ Top.stage = "copy"
    /\ StartCopy(Top.src, Top.dst, Top.len)
    /\ stack' = WithTop("verify")
    /\ UNCHANGED <<flash, bootloader, recorded, caller, cuts, faults>>

BlockVerify ==
    /\ pc = "block" /\ Top.stage = "verify"
    /\ Pop(dfu_compare_block(Top.src, Top.dst, Top.len))
    /\ UNCHANGED <<flash, bootloader, recorded, cuts, faults>>

-----------------------------------------------------------------------------
(* The MBR (external). *)

Last == copy.at = copy.len - 1
Here == copy.dst + copy.at

\* COPY_SD erases its destination, ...
CopyErases ==
    /\ pc = "copying" /\ copy.phase = "erase"
    /\ flash' = [flash EXCEPT ![Here] = Blank]
    /\ copy' = IF Last THEN [copy EXCEPT !.at = 0, !.phase = "write"]
               ELSE [copy EXCEPT !.at = @ + 1]
    /\ UNCHANGED <<bootloader, recorded, pc, caller, stack, cuts, faults>>

CopyDone == IF caller = "copy" THEN Return("copy", TRUE)
            ELSE pc' = "block" /\ copy' = NoCopy /\ UNCHANGED <<caller, stack>>

\* ... and copies; NRF_SUCCESS when the copy is good, ...
CopyWrites ==
    /\ pc = "copying" /\ copy.phase = "write"
    /\ flash' = [flash EXCEPT ![Here] = flash[copy.src + copy.at]]
    /\ IF Last THEN CopyDone
       ELSE copy' = [copy EXCEPT !.at = @ + 1] /\ UNCHANGED <<pc, caller, stack>>
    /\ UNCHANGED <<bootloader, recorded, cuts, faults>>

\* A page whose write was cut or went wrong.
Unfinished == IF Here = HDR THEN {Part, HeaderOnly} ELSE {Part}

\* ... NRF_ERROR_INTERNAL when it differs from its source: dfu_copy_sd's caller returns it.
CopyFails ==
    /\ pc = "copying" /\ copy.phase = "write" /\ faults < MaxFaults
    /\ \E c \in Unfinished : flash' = [flash EXCEPT ![Here] = c]
    /\ Return(caller, FALSE)
    /\ faults' = faults + 1
    /\ UNCHANGED <<bootloader, recorded, cuts>>

\* dfu_bl_image_swap: COPY_BL, which starts the bootloader it has copied.
dfu_bl_image_swap ==
    /\ pc = "bl_swap"
    /\ IF bl_image_size = 0
       THEN pc' = "finalize" /\ UNCHANGED bootloader
       ELSE pc' = "boot" /\ bootloader' = IF BlStaged THEN "new" ELSE "bad"
    /\ UNCHANGED <<flash, recorded, callVars, cuts, faults>>

\* bootloader_dfu_sd_update_finalize (DFU_UPDATE_SD_SWAPPED), then the reset in main.
bootloader_dfu_sd_update_finalize ==
    /\ pc = "finalize"
    /\ recorded' = FALSE
    /\ pc' = "boot"
    /\ UNCHANGED <<flash, bootloader, callVars, cuts, faults>>

\* What is left of the page that COPY_SD was working on.
CutPages ==
    IF pc # "copying" THEN {flash}
    ELSE {[flash EXCEPT ![Here] = c] :
             c \in {flash[Here]} \cup (IF copy.phase = "write" THEN Unfinished ELSE {Part})}

PowerLoss ==
    /\ pc \notin {"boot", "dfu"} /\ cuts < MaxCuts
    /\ cuts' = cuts + 1
    /\ flash' \in CutPages
    /\ pc' = "boot"
    /\ Idle
    /\ UNCHANGED <<bootloader, recorded, faults>>

Continue ==
    \/ Boot \/ dfu_sd_image_validate \/ dfu_bl_image_validate \/ dfu_sd_image_swap
    \/ ClearBlockPage \/ ClearFirstPage \/ BlockCompare \/ BlockCopy \/ BlockVerify
    \/ CopyErases \/ CopyWrites \/ dfu_bl_image_swap \/ bootloader_dfu_sd_update_finalize

Next == (Continue \/ CopyFails \/ PowerLoss) /\ UNCHANGED update

Spec == Init /\ [][Next]_vars

\* The processor executes the bootloader, and the MBR its commands.
FairSpec == Spec /\ WF_vars(Continue /\ UNCHANGED update)

-----------------------------------------------------------------------------
(* Properties. *)

\* The types; in particular the swap has at most three frames, the first block is the
\* innermost, and no copy leaves the region (dfu_sd_image_swap).
TypeOK ==
    /\ pc \in {"boot", "validate", "bl_validate", "swap", "clear_block", "clear_first", "block",
               "copying", "validate_again", "bl_swap", "finalize", "dfu"}
    /\ bootloader \in {"old", "new"}
    /\ DOMAIN flash = Page
    /\ Len(stack) <= 3
    /\ \A i \in 1 .. Len(stack) : stack[i].dst >= 0 /\ stack[i].src + stack[i].len <= Pages
    /\ Here \in Page

InPlace(i) == flash[i] = Is("new", i)
SdWhole == \A i \in 0 .. (update.sd - 1) : InPlace(i)

\* As long as the record asks for the update, nothing of it is lost: each page of the
\* SoftDevice is in place or still in the bank, and so is the bootloader, whatever page
\* the power fails at and although the swap overwrites its own source.
SourceSurvives ==
    /\ recorded => \A i \in 0 .. (update.sd - 1) :
                      InPlace(i) \/ flash[sd_image_start + i] = Is("new", i)
    /\ recorded => BlStaged

\* The record is given up only for a SoftDevice that is in place completely, unless the
\* MBR reported a bad copy of one that moves the end of the SoftDevice.
FinalizedIsWhole ==
    ~recorded /\ (faults = 0 \/ update.base = update.newbase) => SdWhole

\* An update ends: installed, with its bootloader when the SoftDevice ends where the old
\* one did, or left alone because the header no longer says where the bank starts.
\* It does not reset for ever.
UpdateEnds ==
    <>(/\ pc = "dfu"
       /\ recorded \/ update.base # update.newbase \/ update.bl = 0 \/ bootloader = "new")

\* dfu_sd_img_block_swap's comment: the rounds ensure a correct copy when power is reset
\* during the write.  So the boot never goes on with a SoftDevice that is neither.
SwapSurvivesPowerLoss ==
    pc = "dfu" => SdWhole \/ \A i \in 0 .. (update.base - 1) : flash[i] = Installed(update, i)

\* README, bootloader handoff: a SoftDevice and bootloader update replaces both.
ReplacesBootloader == ~recorded /\ update.bl > 0 => bootloader = "new"
=============================================================================
