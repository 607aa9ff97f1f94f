----------------------------- MODULE Uf2Session -----------------------------
(***************************************************************************)
(* The UF2 volume: a USB host copies a file to a drive that does not exist, *)
(* and each 512-byte sector that looks like a UF2 block is programmed in    *)
(* place (write_block of ghostfat.c, msc_uf2.c).  The host chooses the      *)
(* order, repeats sectors, starts another file, ejects, resets the bus or   *)
(* unplugs; flash work answers "busy" and the sector is offered again.  An  *)
(* application is made bootable only by the completion that follows, after  *)
(* an eject, a disconnect or a second without commands.                     *)
(*                                                                          *)
(* A flash page has PageBlocks blocks.  A block of flash holds the name of  *)
(* the file whose bytes it has at that place, "old" for what was there      *)
(* before, "blank", or "mixed": bytes programmed over others, or torn by a  *)
(* power loss.  A UF2 block is                                              *)
(*   [num, no, kind, area, at, data]: numBlocks, blockNo, the family        *)
(* ("app", "boot"), where targetAddr lies (the MBR, the SoftDevice, the     *)
(* application region, the bootloader region, the UICR, or outside), the    *)
(* block in that area, and the file it is from.                             *)
(*                                                                          *)
(* Every handler runs to its end in the main loop.  TinyUSB delivers        *)
(* commands one at a time and calls back around each of them.               *)
(***************************************************************************)
EXTENDS Integers, FiniteSets

CONSTANTS
    PageBlocks,        \* UF2 blocks per flash page
    AppPages,          \* pages from the application base to USER_FLASH_END
    BootPages,         \* pages of a bootloader image (DFU_BL_IMAGE_MAX_SIZE)
    MAX_BLOCKS,        \* the largest numBlocks a transfer may announce
    Vectors,           \* data whose first application block is a plausible vector table
    BootImages,        \* data that dfu_image_policy_validate accepts
    GoodFiles,         \* sets of blocks: the files that are well formed
    Devices            \* name -> device and its host: see Uf2Constants

Offered == UNION {Devices[d].offered : d \in DOMAIN Devices}

App == 0 .. (AppPages * PageBlocks - 1)
Boot == 0 .. (BootPages * PageBlocks - 1)
PageOf(at) == at \div PageBlocks
InPage(p) == (p * PageBlocks) .. (p * PageBlocks + PageBlocks - 1)
Target(b) == <<b.area, b.at>>

\* A well-formed file has every number below numBlocks once.
Numbered(F) ==
    \A b \in F :
        /\ b.num <= MAX_BLOCKS /\ b.no < b.num
        /\ \A c \in F : c.num = b.num /\ c.kind = b.kind /\ (c.no = b.no => c = b)
        /\ \A k \in 0 .. (b.num - 1) : \E c \in F : c.no = k

\* An application without a hole, with what a saved CURRENT.UF2 has below it.
GoodApp(F) ==
    /\ \A b \in F : b.kind = "app" /\ b.area \in {"mbr", "sd", "app"}
    /\ \A b \in F : b.area = "sd" => b.data = "sd"
    /\ \A b, c \in F : Target(b) = Target(c) => b = c
    /\ \A b \in F : b.area = "app" => \A i \in 0 .. b.at : \E c \in F : Target(c) = <<"app", i>>
    /\ \E b \in F : Target(b) = <<"app", 0>> /\ b.data \in Vectors

\* A bootloader image, all of it, with its UICR block.
GoodBoot(F) ==
    \E d \in BootImages :
        /\ \A b \in F : b.kind = "boot" /\ b.area \in {"mbr", "boot", "uicr"}
        /\ \A b \in F : b.area # "mbr" => b.data = d
        /\ \E b \in F : b.area = "uicr"
        /\ \A i \in Boot : \E b \in F : Target(b) = <<"boot", i>>

\* offered is what the host may write, UF2_EXIT_ON_EJECT the build option, liveAppFits
\* the answer of ota_delta_live_app_fits_below; a bootloader is no good file for a device
\* whose application leaves no room to receive it.
ASSUME Uf2Constants ==
    /\ PageBlocks \in Nat \ {0} /\ AppPages \in Nat \ {0} /\ BootPages \in Nat \ {0}
    /\ MAX_BLOCKS \in Nat
    /\ \A F \in GoodFiles : F \subseteq Offered /\ Numbered(F) /\ (GoodApp(F) \/ GoodBoot(F))
    /\ \A F \in GoodFiles, d \in DOMAIN Devices :
          ~Devices[d].liveAppFits => \A b \in F \cap Devices[d].offered : b.kind = "app"
    /\ \A d \in DOMAIN Devices :
          Devices[d].liveAppFits \in BOOLEAN /\ Devices[d].UF2_EXIT_ON_EJECT \in BOOLEAN
    /\ \A b \in Offered :
          /\ b.num \in Nat /\ b.no \in Nat /\ b.at \in Nat
          /\ b.kind \in {"app", "boot"}
          /\ b.area \in {"mbr", "sd", "app", "boot", "uicr", "out"}
          /\ b.area = "app" => b.at < AppPages * PageBlocks
          /\ b.area = "boot" => b.at < BootPages * PageBlocks
          /\ b.data \notin {"old", "blank", "mixed"}

VARIABLES
    app,      \* flash: the application region
    stage,    \* flash: where a bootloader image is received (BOOTLOADER_ADDR_NEW_RECEIVED)
    boot,     \* flash: the bootloader itself
    rec,      \* flash: what the settings record says of bank 0
    run,      \* "boot" (main), "dfu" (wait_for_events) or "app"
    ws,       \* _wr_state
    cache,    \* the page cache of flash_nrf5x.c: [page, buf]
    cmd,      \* the MSC command in progress: "none", "write", "eject" or "other"
    sector,   \* the sector of the WRITE10 being processed, or NoSector
    failed,   \* write10_cb has failed the command
    active,   \* _app_msc_command_active
    pending,  \* _app_completion_pending
    afterEject, exitAfterEject,
    timer,    \* _app_completion_timer runs
    recent,   \* commands since the timer was last armed (_app_completion_last_activity)
    activity, \* m_startup_dfu_has_activity
    status,   \* m_update_status: "updating", "complete", "reset", "timeout"
    done,     \* m_app_update_complete
    could,    \* history: the good files that all blocks of this session belong to
    acked,    \* history: the application blocks of this session that were accepted
    device    \* which of the devices this is; never changes

flashVars == <<app, stage, boot, rec>>
mscVars == <<cmd, sector, failed, active>>
completionVars == <<pending, afterEject, exitAfterEject, timer, recent>>
exitVars == <<activity, status, done>>
session == <<ws, could, acked>>
vars == <<flashVars, run, cache, mscVars, completionVars, exitVars, session, device>>

-----------------------------------------------------------------------------
(* State. *)

NoSector == [num |-> 0, no |-> 0, kind |-> "none", area |-> "none", at |-> 0, data |-> "none"]

\* WriteState after uf2_transfer_reset.  numWritten is the size of written (the mask and
\* the counter change together in uf2_transfer_commit); appValidated is appSize # 0.
NoTransfer ==
    [numBlocks |-> 0, kind |-> "none", aborted |-> FALSE, written |-> {}, targets |-> {},
     invalidated |-> FALSE, erased |-> {}, maxEnd |-> 0, appSize |-> 0,
     hasUicr |-> FALSE, stagingErased |-> 0]

NoCache == [page |-> -1, buf |-> [i \in 0 .. (PageBlocks - 1) |-> "blank"]]

\* bank_0 and, when it marks a valid application, the image its size and CRC describe.  In
\* an erased record img is a history: the image of the save that was cut.
Record(bank, img) == [bank |-> bank, img |-> img]
Image(a, size) == [i \in 0 .. (size - 1) |-> a[i]]
NoImage == Image(<<>>, 0)

ResetRam ==
    /\ ws' = NoTransfer /\ could' = GoodFiles /\ acked' = {}
    /\ cache' = NoCache
    /\ cmd' = "none" /\ sector' = NoSector /\ failed' = FALSE /\ active' = FALSE
    /\ pending' = FALSE /\ afterEject' = FALSE /\ exitAfterEject' = FALSE
    /\ timer' = FALSE /\ recent' = FALSE
    /\ activity' = FALSE /\ status' = "updating" /\ done' = FALSE

\* A device with an application that the record marks valid, or that a debugger wrote
\* (erased record), or with none.
Init ==
    /\ \/ /\ app = [i \in App |-> "old"]
          /\ rec \in {Record("valid", Image(app, AppPages * PageBlocks)), Record("none", NoImage)}
       \/ app = [i \in App |-> "blank"] /\ rec = Record("zero", NoImage)
    /\ stage = [i \in Boot |-> "old"]
    /\ boot = [i \in Boot |-> "running"]
    /\ run = "boot"
    /\ ws = NoTransfer /\ could = GoodFiles /\ acked = {}
    /\ device \in DOMAIN Devices
    /\ cache = NoCache
    /\ cmd = "none" /\ sector = NoSector /\ failed = FALSE /\ active = FALSE
    /\ pending = FALSE /\ afterEject = FALSE /\ exitAfterEject = FALSE
    /\ timer = FALSE /\ recent = FALSE
    /\ activity = FALSE /\ status = "updating" /\ done = FALSE

\* bootloader_app_is_valid: a plausible vector table, and either the record's CRC or an
\* erased record.
AppValid(a, r) ==
    /\ a[0] \in Vectors
    /\ \/ r.bank = "valid" /\ \A i \in DOMAIN r.img : a[i] = r.img[i]
       \/ r.bank = "none"

-----------------------------------------------------------------------------
(* write_block: one call with the sector of the WRITE10 in progress. *)

NotFlash == <<flashVars, cache>>
HostVars == <<run, cmd, active, completionVars, status, done>>

\* write10_cb: a sector whose transfer is aborted fails the command; an accepted one is
\* done and counts as activity; a busy one is offered again.
Failed == failed' = TRUE /\ sector' = NoSector /\ UNCHANGED <<activity, acked>>
Accepted ==
    /\ sector' = NoSector /\ activity' = TRUE
    /\ acked' = IF sector.area = "app" THEN acked \cup {sector} ELSE acked
    /\ UNCHANGED failed
Busy == UNCHANGED <<sector, failed, activity, acked>>

Calling == run = "dfu" /\ cmd = "write" /\ sector # NoSector /\ ~ws.aborted
Noted == could' = {F \in could : sector \in F} /\ UNCHANGED HostVars

\* Mutant: one block number too many is let in.
transfer_prepare_late(b) ==
    IF \/ b.num = 0 \/ b.num > MAX_BLOCKS \/ b.no > b.num
       \/ ws.numBlocks \notin {0, b.num} \/ ws.kind \notin {"none", b.kind}
    THEN "aborted"
    ELSE IF b.no \in ws.written THEN "duplicate" ELSE "accept"

uf2_transfer_prepare(b) ==
    IF \/ b.num = 0 \/ b.num > MAX_BLOCKS \/ b.no >= b.num
       \/ ws.numBlocks \notin {0, b.num}
       \/ ws.kind \notin {"none", b.kind}
    THEN "aborted"
    ELSE IF b.no \in ws.written THEN "duplicate" ELSE "accept"

\* The transfer with the geometry that uf2_transfer_prepare latches.
Latched(b) == [ws EXCEPT !.numBlocks = b.num, !.kind = b.kind]
AbortedTransfer(w) == [w EXCEPT !.aborted = TRUE]

\* Only the SoftDevice that is installed may be "written" below the application.
Matches(b) ==
    CASE b.area = "app" -> app[b.at] = b.data
      [] b.area = "sd" -> b.data = "sd"
      [] OTHER -> TRUE

\* Mutant: a block number that was written before is taken for a retransmission.
DuplicateUnchecked(b) == TRUE

DuplicateAccepted(b) == b.kind = "app" => Matches(b)

\* The block is refused for good, before anything is erased for it.
Unacceptable(b) ==
    \/ b.kind = "app" /\ b.area \in {"mbr", "sd", "app"} /\ Target(b) \in ws.targets
    \/ b.kind = "app" /\ b.area = "sd" /\ ~Matches(b)
    \/ b.kind = "app" /\ b.area \in {"boot", "uicr", "out"}
    \/ b.kind = "boot" /\ b.area \in {"sd", "app", "out"}
    \/ b.kind = "boot" /\ b.area = "uicr" /\ b.data \notin BootImages
    \/ b.kind = "boot" /\ b.area = "boot" /\ ws.stagingErased = 0
       /\ AppValid(app, rec) /\ ~Devices[device].liveAppFits

WriteRefused ==
    /\ run = "dfu" /\ cmd = "write" /\ sector # NoSector /\ ws.aborted
    /\ Failed
    /\ UNCHANGED <<NotFlash, HostVars, ws, could>>

WriteAborts ==
    /\ Calling
    /\ LET r == uf2_transfer_prepare(sector) IN
       \/ r = "aborted" /\ ws' = AbortedTransfer(ws)
       \/ r = "duplicate" /\ ~DuplicateAccepted(sector) /\ ws' = AbortedTransfer(ws)
       \/ r = "accept" /\ Unacceptable(sector) /\ ws' = AbortedTransfer(Latched(sector))
    /\ Failed /\ Noted
    /\ UNCHANGED NotFlash

WriteDuplicate ==
    /\ Calling
    /\ uf2_transfer_prepare(sector) = "duplicate" /\ DuplicateAccepted(sector)
    /\ Accepted /\ Noted
    /\ UNCHANGED <<NotFlash, ws>>

Storing(kind, area) ==
    /\ Calling
    /\ uf2_transfer_prepare(sector) = "accept" /\ ~Unacceptable(sector)
    /\ sector.kind = kind /\ sector.area \in area

Full(w) == Cardinality(w.written) >= w.numBlocks

\* uf2_transfer_target_commit, uf2_transfer_commit.
Committed(b) ==
    [Latched(b) EXCEPT
        !.written = @ \cup {b.no},
        !.targets = IF b.kind = "app" THEN @ \cup {Target(b)} ELSE @,
        !.maxEnd = IF b.kind = "app" /\ b.area = "app" /\ b.at >= @ THEN b.at + 1 ELSE @,
        !.hasUicr = @ \/ b.area = "uicr"]

\* Mutant: the highest block written stands for the whole image.
ApplicationComplete(w, a) == w.maxEnd > 0 /\ a[0] \in Vectors

\* Contiguous from the application base, with a plausible vector table.
uf2_application_finalize(w, a) ==
    /\ w.maxEnd > 0
    /\ \A i \in 0 .. (w.maxEnd - 1) : <<"app", i>> \in w.targets
    /\ a[0] \in Vectors

AppFinalized(w, a) ==
    IF ~Full(w) THEN w
    ELSE IF w.invalidated /\ uf2_application_finalize(w, a)
    THEN [w EXCEPT !.appSize = w.maxEnd]
    ELSE AbortedTransfer(w)

\* The end of write_block for a block of an application.
CommitApp(a) ==
    LET w == Committed(sector) IN
    /\ ws' = AppFinalized(w, a)
    /\ cache' = IF Full(w) THEN NoCache ELSE cache
    /\ IF ws'.aborted THEN Failed ELSE Accepted

WriteChecked ==
    /\ Storing("app", {"mbr", "sd"})
    /\ CommitApp(app)
    /\ Noted
    /\ UNCHANGED flashVars

Programmed(old, new) ==
    IF new \in {old, "blank"} THEN old ELSE IF old = "blank" THEN new ELSE "mixed"

\* uf2_app_flash_next_action: first the record, then the page, then the block.
\* Mutant: the first page is erased before the record is invalidated.
InvalidatesLate == ws.erased # {} /\ ~ws.invalidated

Invalidates == ~ws.invalidated

ErasesPage == PageOf(sector.at) \notin ws.erased

WriteInvalidates ==
    /\ Storing("app", {"app"}) /\ Invalidates
    /\ ws' = [Latched(sector) EXCEPT !.invalidated = TRUE]
    /\ cache' = NoCache
    /\ rec' = Record("zero", NoImage)
    /\ Busy /\ Noted
    /\ UNCHANGED <<app, stage, boot>>

WriteErases ==
    /\ Storing("app", {"app"}) /\ ~Invalidates /\ ErasesPage
    /\ ws' = [Latched(sector) EXCEPT !.erased = @ \cup {PageOf(sector.at)}]
    /\ app' = [i \in App |-> IF i \in InPage(PageOf(sector.at)) THEN "blank" ELSE app[i]]
    /\ Busy /\ Noted
    /\ UNCHANGED <<stage, boot, rec, cache>>

WritePrograms ==
    /\ Storing("app", {"app"}) /\ ~Invalidates /\ ~ErasesPage
    /\ app' = [app EXCEPT ![sector.at] = Programmed(@, sector.data)]
    /\ CommitApp(app')
    /\ Noted
    /\ UNCHANGED <<stage, boot, rec>>

\* erase_bootloader_staging: one page per call.
WriteErasesStaging ==
    /\ Storing("boot", {"boot"}) /\ ws.stagingErased < BootPages
    /\ ws' = [Latched(sector) EXCEPT !.stagingErased = @ + 1]
    /\ stage' = [i \in Boot |-> IF i \in InPage(ws.stagingErased) THEN "blank" ELSE stage[i]]
    /\ Busy /\ Noted
    /\ UNCHANGED <<app, boot, rec, cache>>

\* flash_nrf5x_flush without erase: what is in the cache is programmed over the page.
Flushed(c, s) ==
    IF c.page = -1 THEN s
    ELSE [i \in Boot |-> IF i \in InPage(c.page)
                         THEN Programmed(s[i], c.buf[i % PageBlocks]) ELSE s[i]]

\* flash_nrf5x_write of a block: another page is flushed, and the new one is read first.
CacheOf(s, at) ==
    LET p == PageOf(at) IN
    [page |-> p,
     buf |-> IF cache.page = p THEN cache.buf
             ELSE [i \in 0 .. (PageBlocks - 1) |-> s[p * PageBlocks + i]]]

\* Mutant: the manifest at the end of the image is found, its CRC is not checked.
PolicyManifestOnly(s) == s[BootPages * PageBlocks - 1] \in BootImages

\* dfu_image_policy_validate: the manifest CRC covers the whole image.
PolicyAccepts(s) == \E d \in BootImages : \A i \in Boot : s[i] = d

\* The end of write_block for a block of a bootloader, with c in the cache and s in flash.
CommitBoot(c, s) ==
    LET w == Committed(sector) IN
    /\ stage' = IF Full(w) THEN Flushed(c, s) ELSE s
    /\ cache' = IF Full(w) THEN NoCache ELSE c
    /\ ws' = IF Full(w) /\ ~(w.hasUicr /\ w.stagingErased = BootPages /\ PolicyAccepts(stage'))
             THEN AbortedTransfer(w) ELSE w
    /\ IF ws'.aborted THEN Failed ELSE Accepted

WriteStages ==
    /\ Storing("boot", {"boot"}) /\ ws.stagingErased = BootPages
    /\ LET s == IF cache.page = PageOf(sector.at) THEN stage ELSE Flushed(cache, stage)
           c == CacheOf(s, sector.at)
       IN CommitBoot([c EXCEPT !.buf[sector.at % PageBlocks] = sector.data], s)
    /\ Noted
    /\ UNCHANGED <<app, boot, rec>>

WriteSkips ==
    /\ Storing("boot", {"mbr", "uicr"})
    /\ CommitBoot(cache, stage)
    /\ Noted
    /\ UNCHANGED <<app, boot, rec>>

write_block ==
    \/ WriteRefused \/ WriteAborts \/ WriteDuplicate \/ WriteChecked
    \/ WriteInvalidates \/ WriteErases \/ WritePrograms
    \/ WriteErasesStaging \/ WriteStages \/ WriteSkips

-----------------------------------------------------------------------------
(* Completion. *)

\* complete_app_update with bootloader_dfu_update_process: the CRC of what is in flash.
complete_app_update ==
    IF ws.appSize = 0
    THEN /\ ws' = AbortedTransfer(ws)
         /\ UNCHANGED <<rec, status, done>>
    ELSE /\ rec' = Record("valid", Image(app, ws.appSize))
         /\ status' = "complete" /\ done' = TRUE
         /\ UNCHANGED ws

\* take_pending_app_completion, and the completion if it may.
TakeCompletion ==
    IF pending /\ ~ws.aborted THEN complete_app_update
    ELSE UNCHANGED <<rec, status, done, ws>>

\* Mutant: an abandoned staging page stays in the cache.
CacheKept == cache

CacheAfterReset == IF ws.kind = "boot" THEN NoCache ELSE cache

\* uf2_write_session_reset; the timer keeps running.
uf2_write_session_reset ==
    /\ ws' = NoTransfer /\ could' = GoodFiles /\ acked' = {}
    /\ cache' = CacheAfterReset
    /\ pending' = FALSE /\ afterEject' = FALSE /\ exitAfterEject' = FALSE
    /\ active' = FALSE

\* Mutant: the idle timer does not look at the command in progress.
MustWaitRecent == recent

MustWait == active \/ recent

\* Mutant: a handler that has to wait does not start the timer again.
TimerDropped == FALSE

TimerRestarted == TRUE

\* app_completion_timer_handler.  A second without commands is a timer that fires with
\* none since it was armed; a command in progress, or a later one, arms it again.
app_completion_timer_handler ==
    /\ run = "dfu" /\ timer
    /\ \/ /\ ~pending
          /\ timer' = FALSE
          /\ UNCHANGED <<pending, afterEject, recent, rec, status, done, ws>>
       \/ /\ pending /\ MustWait
          /\ timer' = TimerRestarted /\ recent' = FALSE
          /\ UNCHANGED <<pending, afterEject, rec, status, done, ws>>
       \/ /\ pending /\ ~MustWait
          /\ timer' = FALSE /\ pending' = FALSE /\ afterEject' = FALSE
          /\ TakeCompletion
          /\ UNCHANGED recent
    /\ UNCHANGED <<app, stage, boot, run, cache, mscVars, exitAfterEject, activity, could, acked>>

-----------------------------------------------------------------------------
(* MSC commands, as TinyUSB delivers them. *)

\* tud_msc_command_begin_cb.
CommandBegin(c) ==
    /\ run = "dfu" /\ cmd = "none"
    /\ cmd' = c /\ active' = TRUE
    /\ recent' = (pending \/ recent)
    /\ UNCHANGED <<flashVars, run, cache, sector, failed, pending, afterEject, exitAfterEject, timer>>
    /\ UNCHANGED <<exitVars, session>>

\* tud_msc_start_stop_cb: the eject waits for its status when a completion is pending.
EjectBegin ==
    /\ run = "dfu" /\ cmd = "none"
    /\ cmd' = "eject"
    /\ \/ /\ pending
          /\ afterEject' = TRUE /\ active' = TRUE /\ recent' = TRUE
          /\ UNCHANGED <<pending, exitAfterEject, cache, session>>
       \/ /\ ~pending /\ Devices[device].UF2_EXIT_ON_EJECT
          /\ exitAfterEject' = TRUE /\ active' = TRUE
          /\ UNCHANGED <<pending, afterEject, recent, cache, session>>
       \/ /\ ~pending /\ ~Devices[device].UF2_EXIT_ON_EJECT
          /\ uf2_write_session_reset
          /\ UNCHANGED recent
    /\ UNCHANGED <<flashVars, run, sector, failed, timer, exitVars>>

\* The next sector of a WRITE10.
NextSector(b) ==
    /\ run = "dfu" /\ cmd = "write" /\ sector = NoSector /\ ~failed
    /\ sector' = b
    /\ UNCHANGED <<flashVars, run, cache, cmd, failed, active, completionVars, exitVars, session>>

\* finish_msc_command.
FinishCommand ==
    /\ cmd' = "none" /\ sector' = NoSector /\ failed' = FALSE /\ active' = FALSE
    /\ afterEject' = FALSE /\ exitAfterEject' = FALSE

\* tud_msc_write10_complete_cb: nothing yet, the end of an aborted transfer, the copy of a
\* received bootloader, or an application whose completion is deferred.
WriteStatusSent ==
    /\ run = "dfu" /\ cmd = "write" /\ sector = NoSector
    /\ \/ /\ ws.aborted
          /\ pending' = FALSE /\ status' = "reset"
          /\ UNCHANGED <<boot, run, timer, recent>>
       \/ /\ ~ws.aborted /\ ~(ws.numBlocks # 0 /\ Full(ws))
          /\ recent' = (pending \/ recent)
          /\ UNCHANGED <<boot, run, pending, timer, status>>
       \/ /\ ~ws.aborted /\ ws.kind = "boot" /\ Full(ws) /\ stage = boot
          /\ status' = "reset"
          /\ UNCHANGED <<boot, run, pending, timer, recent>>
       \/ /\ ~ws.aborted /\ ws.kind = "app" /\ Full(ws)
          /\ pending' = TRUE /\ timer' = TRUE /\ recent' = (pending \/ timer)
          /\ UNCHANGED <<boot, run, status>>
    /\ FinishCommand
    /\ UNCHANGED <<app, stage, rec, cache, activity, done, session>>

\* SD_MBR_COMMAND_COPY_BL: the MBR copies the image and resets into it.
CopyBootloader ==
    /\ run = "dfu" /\ cmd = "write" /\ sector = NoSector
    /\ ~ws.aborted /\ ws.kind = "boot" /\ Full(ws) /\ stage # boot
    /\ boot' = stage
    /\ run' = "boot" /\ ResetRam
    /\ UNCHANGED <<app, stage, rec>>

\* A failed command ends without the callback of its kind.
FailureStatusSent ==
    /\ run = "dfu" /\ cmd # "none" /\ sector = NoSector
    /\ cmd = "write" => failed
    /\ recent' = (pending \/ recent)
    /\ FinishCommand
    /\ UNCHANGED <<flashVars, run, cache, pending, timer, exitVars, session>>

\* tud_msc_scsi_complete_cb: after the status of an eject the completion, or the exit.
ScsiStatusSent ==
    /\ run = "dfu" /\ cmd \in {"eject", "other"}
    /\ \/ /\ cmd = "eject" /\ afterEject
          /\ TakeCompletion
          /\ pending' = FALSE
          /\ UNCHANGED <<recent, cache, could, acked>>
          /\ FinishCommand
       \/ /\ cmd = "eject" /\ exitAfterEject
          /\ uf2_write_session_reset
          /\ cmd' = "none" /\ sector' = NoSector /\ failed' = FALSE
          /\ status' = "reset"
          /\ UNCHANGED <<rec, done, recent>>
       \/ /\ ~(cmd = "eject" /\ (afterEject \/ exitAfterEject))
          /\ recent' = (pending \/ recent)
          /\ FinishCommand
          /\ UNCHANGED <<rec, status, done, pending, cache, session>>
    /\ UNCHANGED <<app, stage, boot, run, timer, activity>>

\* tud_msc_reset_cb: the command is abandoned without a status.
tud_msc_reset_cb ==
    /\ run = "dfu" /\ cmd # "none"
    /\ recent' = (pending \/ recent)
    /\ FinishCommand
    /\ UNCHANGED <<flashVars, run, cache, pending, timer, exitVars, session>>

\* tud_mount_cb.
Mount ==
    /\ run = "dfu"
    /\ uf2_write_session_reset
    /\ cmd' = "none" /\ sector' = NoSector /\ failed' = FALSE
    /\ UNCHANGED <<flashVars, run, timer, recent, exitVars>>

\* tud_umount_cb: uf2_write_session_close.
Unmount ==
    /\ run = "dfu"
    /\ IF pending /\ ~ws.aborted /\ ws.appSize # 0
       THEN /\ rec' = Record("valid", Image(app, ws.appSize))
            /\ status' = "complete" /\ done' = TRUE
       ELSE UNCHANGED <<rec, status, done>>
    /\ uf2_write_session_reset
    /\ cmd' = "none" /\ sector' = NoSector /\ failed' = FALSE
    /\ UNCHANGED <<app, stage, boot, run, timer, recent, activity>>

-----------------------------------------------------------------------------
(* The device. *)

\* bootloader_timeout_startup_dfu: no sector was accepted and the start-up window is
\* over, or the cable is gone.
StartupTimeout ==
    /\ run = "dfu" /\ ~activity
    /\ status' = "timeout"
    /\ UNCHANGED <<flashVars, run, cache, mscVars, completionVars, activity, done, session>>

\* wait_for_events returns.  main resets after an application update, and otherwise
\* starts the application if it is valid.
LeaveDfu ==
    /\ run = "dfu" /\ status # "updating"
    /\ run' = IF ~done /\ AppValid(app, rec) THEN "app" ELSE "boot"
    /\ ResetRam
    /\ UNCHANGED flashVars

BootApp ==
    /\ run = "boot" /\ AppValid(app, rec)
    /\ run' = "app"
    /\ UNCHANGED <<flashVars, cache, mscVars, completionVars, exitVars, session>>

\* check_dfu_mode: asked for, or because there is no valid application.
BootDfu ==
    /\ run = "boot"
    /\ run' = "dfu"
    /\ UNCHANGED <<flashVars, cache, mscVars, completionVars, exitVars, session>>

Torn(f, S) == [i \in DOMAIN f |-> IF i \in S THEN "mixed" ELSE f[i]]

\* What an operation that was cut leaves: a page or a block with undefined bytes, or a
\* settings page that is erased or unusable.
CutFlash ==
    \/ UNCHANGED flashVars
    \/ /\ Storing("app", {"app"}) /\ ~Invalidates
       /\ app' = Torn(app, IF ErasesPage THEN InPage(PageOf(sector.at)) ELSE {sector.at})
       /\ UNCHANGED <<stage, boot, rec>>
    \/ /\ Storing("boot", {"boot"})
       /\ stage' = Torn(stage, Boot)
       /\ UNCHANGED <<app, boot, rec>>
    \/ /\ run = "dfu" /\ pending /\ ~ws.aborted
       /\ rec' \in {Record("none", Image(app, ws.appSize)), Record("zero", NoImage)}
       /\ UNCHANGED <<app, stage, boot>>

\* Power is lost, or the application asks for DFU.
Reset ==
    /\ run # "boot"
    /\ CutFlash
    /\ run' = "boot"
    /\ ResetRam

Next ==
    /\ UNCHANGED device
    /\ \/ write_block
       \/ app_completion_timer_handler
       \/ \E c \in {"write", "other"} : CommandBegin(c)
       \/ EjectBegin
       \/ \E b \in Devices[device].offered : NextSector(b)
       \/ WriteStatusSent \/ CopyBootloader \/ FailureStatusSent \/ ScsiStatusSent
       \/ tud_msc_reset_cb \/ Mount \/ Unmount
       \/ StartupTimeout \/ LeaveDfu \/ BootApp \/ BootDfu \/ Reset

Spec == Init /\ [][Next]_vars

\* A running timer fires.
FairSpec == Spec /\ WF_vars(app_completion_timer_handler /\ UNCHANGED device)

-----------------------------------------------------------------------------
(* Properties. *)

Content == {b.data : b \in Offered} \cup {"old", "blank", "mixed", "running"}

\* The types; in particular a block number is committed only below numBlocks, a staging
\* page is erased at most once in a session, and the masks stay inside their arrays.
TypeOK ==
    /\ app \in [App -> Content] /\ stage \in [Boot -> Content] /\ boot \in [Boot -> Content]
    /\ rec.bank \in {"valid", "zero", "none"}
    /\ run \in {"boot", "dfu", "app"}
    /\ ws.written \subseteq 0 .. (ws.numBlocks - 1) /\ ws.numBlocks <= MAX_BLOCKS
    /\ ws.erased \subseteq 0 .. (AppPages - 1)
    /\ ws.stagingErased \in 0 .. BootPages
    /\ cache.page \in -1 .. (BootPages - 1)
    /\ cmd \in {"none", "write", "eject", "other"}
    /\ status \in {"updating", "complete", "reset", "timeout"}

Marked == rec.bank \in {"valid", "none"}

\* No application page is erased or programmed while a reset could start the application
\* from the record, nor after this session's own completion made it bootable again
\* (prepare_app_block, "Fail closed before changing any application page").
FlashChangesOnlyUnmarked == [][app' # app => ~Marked]_vars

\* The bootloader starts the application that was there before, untouched, or one whose
\* blocks were all programmed from files: never a mixture with the old image, never an
\* image with a hole, wherever the copy was interrupted, and also when the save of the
\* record was, and the bank passes for a debugger's (write_block,
\* uf2_application_finalize, complete_app_update).
StartsOldOrNew ==
    run = "app" =>
        \/ \A i \in App : app[i] = "old"
        \/ /\ rec.img # NoImage
           /\ \A i \in DOMAIN rec.img :
                 app[i] = rec.img[i] /\ app[i] \notin {"old", "blank", "mixed"}

\* The host has one address for the number of this block.
OneAddress(b, blocks) ==
    /\ \A c \in blocks : c.no = b.no => c.at = b.at
    /\ \A c \in Devices[device].offered :
          c.num = b.num /\ c.kind = b.kind /\ c.no = b.no => c.area = b.area

\* When an application is marked valid, every application block whose sector was
\* acknowledged in the session is in flash as it was sent: a second file that reuses
\* block numbers or addresses ends the transfer instead (uf2_transfer_validate_duplicate,
\* uf2_transfer_target_prepare).  A file that has two addresses for one block number is
\* not covered: flash at the second address may match what an earlier transfer left there.
AckedIsInstalled ==
    [][rec.bank # "valid" /\ rec'.bank = "valid" =>
         \A b \in acked : OneAddress(b, acked) => app[b.at] = b.data]_vars

\* A well-formed file is never refused, in whatever order and however often its sectors
\* arrive and whatever abandoned transfer came before it.
GoodFileAccepted == ws.aborted => could = {}

\* An application is completed, and so the device reset, only when the host waits for no
\* answer: not in the middle of a command (app_completion_timer_handler, "Never let the
\* idle fallback reset in the middle of any of them").
CompletesBetweenCommands ==
    [][status # "complete" /\ status' = "complete" => cmd' = "none"]_vars

\* A received application is completed (or dropped for a reason) once the host is quiet.
CompletionHappens == <>[](cmd = "none") => (pending ~> ~pending)

\* The bootloader is replaced only by one whole image that was validated, although the
\* copy happens later than the validation (tud_msc_write10_complete_cb).
BootloaderIsWhole == \E d \in BootImages \cup {"running"} : \A i \in Boot : boot[i] = d
=============================================================================
