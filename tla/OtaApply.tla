------------------------------ MODULE OtaApply ------------------------------
(***************************************************************************)
(* The MeshCore OTA applier (ota_delta.c).  The application stages a        *)
(* package (".mota") in free flash, in flash and retained RAM ("hybrid"),   *)
(* on external NOR ("qspi") or on an SD card ("sd"), approves it, leaves a  *)
(* trigger in GPREGRET and resets.  The bootloader then patches the         *)
(* application in place, installs a full image, or replaces itself.  There  *)
(* is no second bank: from the commit point on the old image is gone.       *)
(*                                                                          *)
(* Flash from the application base up is an array of cells, PageCells to a  *)
(* page.  A cell is <<name, i>>: piece i of an image or of a package's      *)
(* payload, or Blank, or Torn (undefined bytes).  A package is a container  *)
(* of cells: the header, whose approval field is either set or cleared, and *)
(* the payload.  A hash or CRC comparison is equality of cells.             *)
(*                                                                          *)
(* The bootloader runs alone (SoftDevice off); what interleaves with it is  *)
(* loss of power, a flash page that does not take its data, and a card that *)
(* changes under it.                                                        *)
(***************************************************************************)
EXTENDS Integers, FiniteSets

CONSTANTS
    PageCells,    \* cells per flash page
    Pages,        \* pages from the application base to the staging ceiling
    ImageSize,    \* application image -> its pages, EndF trailer included
    BootPages,    \* pages of a bootloader image (MOTA_NRF52_BL_SIZE)
    Packages,     \* package -> what its header says: see OtaConstants
    Boards,       \* the staging options of boards: sets of packages
    ArenaCells    \* cells of retained RAM for a hybrid container

Kinds == {"delta", "full", "boot"}
Sources == {"internal", "hybrid", "qspi", "sd"}

\* cells is the whole container; at its first page if it is in flash; size the pages of
\* the image; memory and shift the in-place geometry; good says that the payload decodes
\* to the image that image_hash names.  The destination of a bootloader is inside flash (the
\* static assertions at ota_delta.c:1237); images and packages have different names.
ASSUME OtaConstants ==
    /\ PageCells \in Nat \ {0} /\ Pages \in Nat \ {0} /\ BootPages \in Nat \ {0}
    /\ \A i \in DOMAIN ImageSize : ImageSize[i] \in 1 .. Pages
    /\ \A p \in DOMAIN Packages :
          LET m == Packages[p] IN
          /\ m.kind \in Kinds /\ m.src \in Sources
          /\ m.cells \in Nat \ {0} /\ m.at \in 0 .. (Pages - 1)
          /\ m.size \in Nat \ {0} /\ m.memory \in Nat /\ m.shift \in Nat
          /\ m.good \in BOOLEAN
          /\ m.cells = m.size * PageCells + 1
          /\ m.src = "internal" => m.at * PageCells + m.cells <= Pages * PageCells
          /\ m.kind = "delta" => m.base \in DOMAIN ImageSize
          /\ m.kind # "boot" => m.image \in DOMAIN ImageSize /\ m.size = ImageSize[m.image]
          /\ m.kind = "boot" =>
                m.size = BootPages /\ m.at + m.size <= Pages /\ m.src # "hybrid"
          /\ m.image \notin DOMAIN Packages
    /\ DOMAIN ImageSize \cap DOMAIN Packages = {}
    /\ Boards \subseteq SUBSET DOMAIN Packages
    /\ ArenaCells \in Nat

VARIABLES
    flash,    \* cells from the application base
    ext,      \* the container on NOR or on the card, whichever was asked for last
    ram,      \* the suffix of a hybrid container in retained RAM
    boot,     \* the cells of the bootloader
    rec,      \* the settings record: bank 0 and the cells its size and CRC describe
    run,      \* "boot", "ota" (ota_delta_check_and_apply), "dfu" or "app"
    pc,       \* where in the applier
    trigger,  \* GPREGRET: "none", "app" or "boot"
    source,   \* GPREGRET2: the staging the trigger is for, or the result of an attempt; in
              \* the applier, g_qspi_source, g_sd_source and stage_handoff
    auth,     \* the retained authorisation record: a package or "none"
    soft,     \* RESETREAS is a software reset and nothing else
    pkg,      \* the authorised (g_sd_auth, g_hybrid) or chosen (mota_min) package, or "none"
    step,     \* operations done by the decoder, or pages copied
    cache,    \* g_cache_page, g_cache_dirty, g_cache
    mem,      \* history: the workspace as the decoder has written it
    armed,    \* history: the application has asked for an update since the last attempt
    board     \* the packages that this device's application may stage; never changes

flashVars == <<flash, ext, ram, boot, rec>>
retained == <<trigger, source, auth, soft>>
applier == <<pkg, step, cache, mem>>
vars == <<flashVars, run, pc, retained, applier, armed, board>>

-----------------------------------------------------------------------------
(* Flash, images and packages. *)

Blank == <<"blank", 0>>
Torn == <<"torn", 0>>

Cells == 0 .. (Pages * PageCells - 1)
PageOf(a) == a \div PageCells
InPage(p) == (p * PageCells) .. (p * PageCells + PageCells - 1)
Erased(f, p) == [a \in DOMAIN f |-> IF a \in InPage(p) THEN Blank ELSE f[a]]
Tear(f, p) == [a \in DOMAIN f |-> IF a \in InPage(p) THEN Torn ELSE f[a]]
WithPage(f, p, buf) == [a \in DOMAIN f |-> IF a \in InPage(p) THEN buf[a % PageCells] ELSE f[a]]

Img(i, c) == <<i, c>>
ImageCells(i) == 0 .. (ImageSize[i] * PageCells - 1)
Intact(i, f) == \A c \in ImageCells(i) : f[c] = Img(i, c)

Header(p, approved) == <<p, IF approved THEN -1 ELSE -2>>

\* Cell k of a container as it was signed.  The payload of a full image is the image.
Content(p, k) ==
    IF k = 0 THEN Header(p, TRUE)
    ELSE IF Packages[p].kind # "delta" /\ Packages[p].good THEN Img(Packages[p].image, k - 1)
    ELSE <<p, k>>

\* The token that binds a bootloader package on a card, at the start of the scratch area.
Token(p) == <<p, -3>>

HeaderOf(p) == {Header(p, TRUE), Header(p, FALSE)}

\* The part of a hybrid container that is in flash.
PrefixCells(p) == (Pages - Packages[p].at) * PageCells

NoCache == [page |-> -1, dirty |-> FALSE, buf |-> [i \in 0 .. (PageCells - 1) |-> Blank]]

Record(bank, img) == [bank |-> bank, img |-> img]
FirstCells(f, pages) == [a \in 0 .. (pages * PageCells - 1) |-> f[a]]
NoImage == FirstCells(<<>>, 0)

\* bootloader_app_is_valid: a vector table, and the record's CRC or an erased record.
AppValid(f, r) ==
    /\ \E i \in DOMAIN ImageSize : f[0] = Img(i, 0)
    /\ \/ r.bank = "valid" /\ \A a \in DOMAIN r.img : f[a] = r.img[a]
       \/ r.bank = "none"

Ready ==
    /\ pkg = "none" /\ step = 0 /\ cache = NoCache /\ mem = NoImage

Forgotten ==
    /\ pkg' = "none" /\ step' = 0 /\ cache' = NoCache /\ mem' = NoImage

\* A device that runs an image: installed by an update, whose record may cover a page of
\* padding behind the image, or by a debugger.
Init ==
    /\ \E i \in DOMAIN ImageSize :
          /\ flash = [c \in Cells |-> IF c \in ImageCells(i) THEN Img(i, c) ELSE Blank]
          /\ \/ rec = Record("none", NoImage)
             \/ \E n \in {ImageSize[i], ImageSize[i] + 1} \cap (1 .. Pages) :
                   rec = Record("valid", FirstCells(flash, n))
    /\ ext = NoImage
    /\ ram = NoImage
    /\ boot = [c \in 0 .. (BootPages * PageCells - 1) |-> Img("running", c)]
    /\ run = "app" /\ pc = "none"
    /\ trigger = "none" /\ source = "none" /\ auth = "none" /\ soft = FALSE
    /\ Ready
    /\ armed = FALSE
    /\ board \in Boards

-----------------------------------------------------------------------------
(* The application, DFU, and resets. *)

\* The application writes a package to its staging, approves it, and resets with the
\* trigger set.  Internal staging is bottom-aligned below the ceiling and above the image
\* that runs; a card or RAM container is bound by a retained record, a bootloader package
\* on a card also by a token in the scratch area.
AppStages(p) ==
    /\ run = "app"
    /\ LET m == Packages[p]
           inFlash == m.src \in {"internal", "hybrid"}
           token == m.src = "sd" /\ m.kind = "boot"
           base == m.at * PageCells
           prefix == IF m.src = "hybrid" THEN PrefixCells(p) ELSE m.cells
       IN
       /\ inFlash \/ token =>
             /\ \E i \in DOMAIN ImageSize : Intact(i, flash) /\ ImageSize[i] <= m.at
             /\ rec.bank = "valid" => DOMAIN rec.img \subseteq 0 .. (base - 1)
       /\ flash' = CASE inFlash ->
                           [a \in Cells |-> IF a < base THEN flash[a]
                                            ELSE IF a - base < prefix THEN Content(p, a - base)
                                            ELSE Blank]
                     [] token -> [Erased(flash, m.at) EXCEPT ![base] = Token(p)]
                     [] OTHER -> flash
       /\ ram' = IF m.src = "hybrid"
                 THEN [k \in prefix .. (m.cells - 1) |-> Content(p, k)] ELSE ram
       /\ ext' = IF inFlash THEN ext
                 ELSE [k \in 0 .. (m.cells - 1) |-> Content(p, k)]
       /\ source' = m.src
       /\ auth' = IF m.src \in {"hybrid", "sd"} THEN p ELSE auth
       /\ trigger' = IF m.kind = "boot" THEN "boot" ELSE "app"
    /\ soft' = TRUE /\ armed' = TRUE
    /\ run' = "boot"
    /\ UNCHANGED <<boot, rec, pc, applier>>

\* main without a trigger.  The application clears RESETREAS.
BootApp ==
    /\ run = "boot" /\ trigger = "none" /\ AppValid(flash, rec)
    /\ run' = "app" /\ soft' = FALSE
    /\ UNCHANGED <<flashVars, pc, trigger, source, auth, applier, armed>>

\* check_dfu_mode comes first: asked for by a double reset, which clears GPREGRET, or by a
\* pin or for want of a valid application: a trigger of the applier survives these.
BootDfu ==
    /\ run = "boot"
    /\ run' = "dfu"
    /\ trigger' \in {trigger, "none"}
    /\ UNCHANGED <<flashVars, pc, source, auth, soft, applier, armed>>

\* A DFU session that installs an image, or does nothing.
LeaveDfu ==
    /\ run = "dfu"
    /\ run' = "boot"
    /\ \/ UNCHANGED <<flash, rec>>
       \/ \E i \in DOMAIN ImageSize :
             /\ flash' = [c \in Cells |-> IF c \in ImageCells(i) THEN Img(i, c) ELSE flash[c]]
             /\ rec' = Record("valid", FirstCells(flash', ImageSize[i]))
    /\ soft' \in BOOLEAN
    /\ UNCHANGED <<ext, ram, boot, pc, trigger, source, auth, applier, armed>>

\* The card holds a package again, or one with the same header and trailer around another
\* payload.  It matters while a request for the card is pending or under way.
CardChanges ==
    /\ source = "sd"
    /\ \E p \in DOMAIN Packages, other \in BOOLEAN :
          /\ Packages[p].src = "sd"
          /\ ext' = [k \in 0 .. (Packages[p].cells - 1) |->
                        IF other /\ k \notin {0, Packages[p].cells - 1} THEN Torn
                        ELSE Content(p, k)]
    /\ UNCHANGED <<flash, ram, boot, rec, run, pc, retained, applier, armed>>

-----------------------------------------------------------------------------
(* Reading the staged package. *)

HybridBase(p) == Packages[p].at * PageCells

\* staged_read of cell k of package p: only the selected source is read.
Staged(p, k) ==
    CASE source \in {"qspi", "sd"} ->
            IF k \in DOMAIN ext THEN ext[k] ELSE Torn
      [] source = "hybrid" ->
            IF k < PrefixCells(p) THEN flash[HybridBase(p) + k]
            ELSE IF k \in DOMAIN ram THEN ram[k] ELSE Torn
      [] OTHER -> flash[HybridBase(p) + k]

\* parse_mota_at: the header, and the trailer where its length says.
Parses(p) ==
    /\ Staged(p, 0) \in HeaderOf(p)
    /\ Packages[p].cells > 1 => Staged(p, Packages[p].cells - 1) = Content(p, Packages[p].cells - 1)

\* The page a container of internal staging must begin at.
Aligned(p) == Packages[p].at = PageOf(Pages * PageCells - Packages[p].cells)

\* scan_mota: the authorised container, the one at the start of the NOR, or the highest
\* one in flash that ends at the ceiling.
Found(p) ==
    CASE source = "hybrid" -> p = pkg /\ Parses(p)
      [] source = "sd" -> p = pkg /\ Parses(p)
      [] source = "qspi" -> Packages[p].src = "qspi" /\ Parses(p)
      [] OTHER -> Packages[p].src = "internal" /\ Parses(p) /\ Aligned(p)

Scanned ==
    LET S == {p \in DOMAIN Packages : Found(p)} IN
    {p \in S : source = "internal" => \A q \in S : Packages[q].at <= Packages[p].at}

\* sd_authorized_container_valid, hybrid_authorized_container_valid: the hash of the whole
\* container, with the approval field normalised.
ContainerAuthentic(p) ==
    /\ Staged(p, 0) \in HeaderOf(p)
    /\ \A k \in 1 .. (Packages[p].cells - 1) : Staged(p, k) = Content(p, k)

\* full_image_hash_valid of the staged payload.
PayloadGood(p) ==
    \A k \in 1 .. (Packages[p].cells - 1) : Staged(p, k) = Img(Packages[p].image, k - 1)

External == source \in {"qspi", "sd"}

\* Mutant: the workspace of the patch reaches up to the staging ceiling.
WorkspaceWhole(p) == Pages

\* The pages the patch may use: up to the package if it is in flash.
Workspace(p) == IF External THEN Pages ELSE Packages[p].at

\* dt_geometry_ok: the decoder's memory, with the shifted base in it, fits the workspace.
GeometryOk(p) ==
    LET m == Packages[p] IN
    /\ m.memory # 0 /\ m.memory <= Workspace(p)
    /\ m.shift <= m.memory /\ ImageSize[m.base] <= m.memory - m.shift
    /\ m.size <= m.memory

\* ota_delta_live_app_fits_below: the image that is in flash, by its trailer and hash, and
\* all that the record covers.
ota_delta_live_app_fits_below(page) ==
    \E i \in DOMAIN ImageSize :
       /\ Intact(i, flash) /\ ImageSize[i] <= page
       /\ rec.bank = "valid" =>
             /\ ImageCells(i) \subseteq DOMAIN rec.img
             /\ DOMAIN rec.img \subseteq 0 .. (page * PageCells - 1)

-----------------------------------------------------------------------------
(* The beginning and the end of an attempt. *)

\* finish_apply: back to main, which starts the application if it is valid.
\* Mutant: the result is written, but the attempt goes on where it was.
FinishSkipped(code) ==
    /\ run' = "boot" /\ source' = code
    /\ UNCHANGED pc
    /\ Forgotten

FinishApply(code) ==
    /\ run' = "boot" /\ pc' = "none" /\ source' = code
    /\ Forgotten

\* Mutant: the trigger is consumed when the attempt is over.
TriggerKept == trigger

TriggerConsumed == "none"

\* ota_delta_check_and_apply: trigger and retained record are consumed before anything
\* is looked at.
OtaBegin ==
    /\ run = "boot" /\ trigger # "none"
    /\ run' = "ota" /\ pc' = IF trigger = "boot" THEN "blgate" ELSE "gate"
    /\ trigger' = TriggerConsumed
    /\ IF source \in {"hybrid", "sd"} THEN pkg' = auth /\ auth' = "none" ELSE UNCHANGED <<pkg, auth>>
    /\ armed' = FALSE
    /\ UNCHANGED <<flashVars, source, soft, step, cache, mem>>

PrefixPages(p) ==
    LET cells == Packages[p].cells IN
    IF cells > ArenaCells + PageCells
    THEN (cells - ArenaCells + PageCells - 1) \div PageCells ELSE 1

\* hybrid_handoff_take, sd_auth_take.
HandoffOk(kinds) ==
    /\ source \in {"hybrid", "sd"} =>
          pkg # "none" /\ Packages[pkg].src = source /\ Packages[pkg].kind \in kinds
    /\ source = "hybrid" => soft /\ Pages - Packages[pkg].at = PrefixPages(pkg)

Approved(p) == Staged(p, 0) = Header(p, TRUE)

Entered == HandoffOk({"delta", "full"}) /\ (source = "hybrid" => ContainerAuthentic(pkg))
Candidate(p) == Entered /\ p \in Scanned /\ Approved(p)

FullExternal(p) == External /\ Packages[p].kind = "full"

\* Mutant: the image that runs is not compared with the one the patch was made from.
BaseUnchecked(p) == TRUE

BaseMatches(p) == Intact(Packages[p].base, flash)

\* Checks whose failure also clears the approval.
Rejected(p) ==
    \/ Packages[p].kind = "boot"
    \/ source = "sd" /\ ~ContainerAuthentic(p)
    \/ ~FullExternal(p) /\ Packages[p].kind = "full"
    \/ ~FullExternal(p) /\ Packages[p].kind = "delta"
       /\ ~(Packages[p].size <= Pages /\ BaseMatches(p) /\ GeometryOk(p))

\* apply_full_external, before the commit point.
FullRefused(p) == FullExternal(p) /\ ~(Packages[p].size <= Pages /\ PayloadGood(p))

GateFails ==
    /\ pc = "gate"
    /\ \/ ~Entered /\ FinishApply("failed")
       \/ Entered /\ ~(\E p \in Scanned : Approved(p)) /\ FinishApply("failed")
       \/ \E p \in Scanned : Candidate(p) /\ ~Rejected(p) /\ FullRefused(p) /\ FinishApply("failed")
    /\ UNCHANGED <<flashVars, trigger, auth, soft, armed>>

GateRejects ==
    /\ pc = "gate"
    /\ \E p \in Scanned : Candidate(p) /\ Rejected(p) /\ pkg' = p
    /\ pc' = "reject"
    /\ UNCHANGED <<flashVars, run, retained, step, cache, mem, armed>>

GatePasses ==
    /\ pc = "gate"
    /\ \E p \in Scanned : Candidate(p) /\ ~Rejected(p) /\ ~FullRefused(p) /\ pkg' = p
    /\ pc' = "clear"
    /\ UNCHANGED <<flashVars, run, retained, step, cache, mem, armed>>

\* clear_approval.  A card keeps its approval: the retained record is what is one-shot.
ClearApproval ==
    \/ source = "sd" /\ UNCHANGED <<flash, ext>>
    \/ source = "qspi" /\ ext' = [ext EXCEPT ![0] = Header(pkg, FALSE)] /\ UNCHANGED flash
    \/ ~External /\ flash' = [flash EXCEPT ![HybridBase(pkg)] = Header(pkg, FALSE)] /\ UNCHANGED ext

ClearFails ==
    \/ source = "qspi" /\ ext' \in {ext, [ext EXCEPT ![0] = Torn]} /\ UNCHANGED flash
    \/ ~External /\ flash' = Tear(flash, Packages[pkg].at) /\ UNCHANGED ext

Reject ==
    /\ pc = "reject"
    /\ ClearApproval \/ ClearFails
    /\ FinishApply("failed")
    /\ UNCHANGED <<ram, boot, rec, trigger, auth, soft, armed>>

Clear ==
    /\ pc \in {"clear", "blclear"}
    /\ \/ /\ ClearApproval
          /\ pc' = IF pc = "clear" THEN "commit" ELSE "blcopy"
          /\ UNCHANGED <<run, source, applier>>
       \/ ClearFails /\ FinishApply("failed")
    /\ UNCHANGED <<ram, boot, rec, trigger, auth, soft, armed>>

\* otah_settings_commit(BANK_INVALID_APP): from here on a reset enters DFU.
Commit ==
    /\ pc = "commit"
    /\ rec' = Record("invalid", NoImage)
    /\ pc' = IF Packages[pkg].kind = "full" THEN "copy" ELSE "decode"
    /\ mem' = FirstCells(flash, Workspace(pkg))
    /\ cache' = NoCache
    /\ UNCHANGED <<flash, ext, ram, boot, run, retained, pkg, step, armed>>

-----------------------------------------------------------------------------
(* The in-place patch: the decoder works on the workspace through a one-page cache. *)

\* cread: the cached page hides flash while it is dirty.
\* Mutant: reads come from flash.
CreadFlash(a) == flash[a]

cread(a) == IF cache.dirty /\ PageOf(a) = cache.page THEN cache.buf[a % PageCells] ELSE flash[a]

\* cache_flush.
Flushed(f) == IF cache.dirty THEN WithPage(f, cache.page, cache.buf) ELSE f

\* cache_use, on flash f after the flush.
CacheOf(f, page) ==
    IF cache.page = page THEN cache
    ELSE [page |-> page, dirty |-> FALSE,
          buf |-> [i \in 0 .. (PageCells - 1) |-> f[page * PageCells + i]]]

\* Operation k of the decoder (in_place_shift_memory, in_place_process_dfpatch_size): the
\* base is moved up by shift pages, from its end, then each page of the new image is erased
\* and made from the patch and the moved base.  cell = -1 is the erase of the page.
Op(p, k) ==
    LET m == Packages[p]
        n == ImageSize[m.base]
        seg == k \div (PageCells + 1)
        c == (k % (PageCells + 1)) - 1
    IN IF seg < n
       THEN [page |-> n - 1 - seg + m.shift, cell |-> c, from |-> (n - 1 - seg) * PageCells + c,
             patch |-> FALSE]
       ELSE [page |-> seg - n, cell |-> c, from |-> (seg - n + m.shift) * PageCells + c,
             patch |-> TRUE]

Ops(p) == (ImageSize[Packages[p].base] + Packages[p].size) * (PageCells + 1)

\* What the decoder writes: the base as it is, or (in_place_process_data) a piece of the
\* new image if patch and base are what the patch was made for.  A bad patch begins well.
Decoded(p, o) ==
    LET m == Packages[p]
        to == o.page * PageCells + o.cell
        old == o.from - m.shift * PageCells
    IN IF ~o.patch THEN cread(o.from)
       ELSE IF /\ m.good \/ to = 0
               /\ Staged(p, to + 1) = Content(p, to + 1)
               /\ old \in ImageCells(m.base) => cread(o.from) = Img(m.base, old)
       THEN Img(m.image, to) ELSE Torn

\* dt_me, cerase.
DecoderErases ==
    /\ pc = "decode" /\ step < Ops(pkg)
    /\ LET o == Op(pkg, step) IN
       /\ o.cell = -1 /\ o.page < Workspace(pkg)
       /\ IF cache.page = o.page
          THEN cache' = [NoCache EXCEPT !.page = o.page, !.dirty = TRUE] /\ UNCHANGED flash
          ELSE flash' = Erased(flash, o.page) /\ UNCHANGED cache
       /\ mem' = Erased(mem, o.page)
    /\ step' = step + 1
    /\ UNCHANGED <<ext, ram, boot, rec, run, pc, retained, pkg, armed>>

\* dt_mr, dt_pr, dt_mw, cwrite.
DecoderWrites ==
    /\ pc = "decode" /\ step < Ops(pkg)
    /\ LET o == Op(pkg, step) IN
       /\ o.cell # -1 /\ o.page < Workspace(pkg)
       /\ flash' = IF cache.page = o.page THEN flash ELSE Flushed(flash)
       /\ cache' = [CacheOf(flash', o.page) EXCEPT !.dirty = TRUE, !.buf[o.cell] = Decoded(pkg, o)]
       /\ mem' = [mem EXCEPT ![o.page * PageCells + o.cell] = Decoded(pkg, o)]
    /\ step' = step + 1
    /\ UNCHANGED <<ext, ram, boot, rec, run, pc, retained, pkg, armed>>

\* The page that the next step erases or programs, if it does.
DecoderPage ==
    IF step = Ops(pkg) THEN IF cache.dirty THEN {cache.page} ELSE {}
    ELSE LET o == Op(pkg, step) IN
         IF cache.page = o.page THEN {}
         ELSE IF o.cell = -1 THEN {o.page}
         ELSE IF cache.dirty THEN {cache.page} ELSE {}

\* A page that does not take its data in three attempts, a patch that does not decode, or
\* a read outside the workspace or from a failing device.
DecoderFails ==
    /\ pc = "decode"
    /\ \/ \E p \in DecoderPage : flash' = Tear(flash, p)
       \/ ~Packages[pkg].good /\ UNCHANGED flash
       \/ step < Ops(pkg) /\ (External \/ Op(pkg, step).page >= Workspace(pkg)) /\ UNCHANGED flash
    /\ FinishApply("failed")
    /\ UNCHANGED <<ext, ram, boot, rec, trigger, auth, soft, armed>>

\* The cache is flushed, and the amount of patch and output checked.
DecoderEnds ==
    /\ pc = "decode" /\ step = Ops(pkg)
    /\ flash' = Flushed(flash)
    /\ cache' = NoCache
    /\ pc' = "check"
    /\ UNCHANGED <<ext, ram, boot, rec, run, retained, pkg, step, mem, armed>>

-----------------------------------------------------------------------------
(* A full image, and the end of an application update. *)

\* copy_staged_full_image: the page is read before its destination is erased.
\* Mutant: after.
PageAfterErase(p, to) ==
    [i \in 0 .. (PageCells - 1) |->
        LET a == HybridBase(p) + 1 + step * PageCells + i IN
        IF ~External /\ a \in InPage(to) THEN Blank ELSE Staged(p, 1 + step * PageCells + i)]

PageRead(p, to) == [i \in 0 .. (PageCells - 1) |-> Staged(p, 1 + step * PageCells + i)]

\* The first page that the copy writes.
CopyBase == IF pc = "copy" THEN 0 ELSE Packages[pkg].at

CopyPage ==
    /\ pc \in {"copy", "blcopy"} /\ step < Packages[pkg].size
    /\ \/ /\ flash' = WithPage(flash, CopyBase + step, PageRead(pkg, CopyBase + step))
          /\ step' = step + 1
          /\ UNCHANGED <<run, pc, source, pkg, cache, mem>>
       \/ flash' = Tear(flash, CopyBase + step) /\ FinishApply("failed")
       \/ External /\ UNCHANGED flash /\ FinishApply("failed")
    /\ UNCHANGED <<ext, ram, boot, rec, trigger, auth, soft, armed>>

CopyEnds ==
    /\ pc \in {"copy", "blcopy"} /\ step = Packages[pkg].size
    /\ pc' = IF pc = "copy" THEN "check" ELSE "blcheck"
    /\ UNCHANGED <<flashVars, run, retained, applier, armed>>

\* full_image_hash_valid over flash, from a page up.
\* Mutant: the copy is not hashed.
HashUnchecked(page, p) == TRUE

FlashHashValid(page, p) ==
    \A c \in 0 .. (Packages[p].size * PageCells - 1) :
        flash[page * PageCells + c] = Img(Packages[p].image, c)

\* finish_app_update, up to the record.
\* Mutant: what was staged was hashed before, so the result is not.
CheckSkipped ==
    /\ pc = "check"
    /\ pc' = "mark"
    /\ UNCHANGED <<flashVars, run, retained, applier, armed>>

CheckResult ==
    /\ pc = "check"
    /\ IF FlashHashValid(0, pkg)
       THEN pc' = "mark" /\ UNCHANGED <<run, source, applier>>
       ELSE FinishApply("failed")
    /\ UNCHANGED <<flashVars, trigger, auth, soft, armed>>

\* otah_settings_commit(BANK_VALID_APP), and the reset.
MarkValid ==
    /\ pc = "mark"
    /\ rec' = Record("valid", FirstCells(flash, Packages[pkg].size))
    /\ FinishApply("applied")
    /\ soft' = TRUE
    /\ UNCHANGED <<flash, ext, ram, boot, trigger, auth, armed>>

-----------------------------------------------------------------------------
(* apply_bootloader_update. *)

BlCandidate(p) == HandoffOk({"boot"}) /\ source # "hybrid" /\ p \in Scanned /\ Approved(p)

\* Policy, hashes, the live application below the destination, the token.
BlRejected(p) ==
    \/ source = "sd" /\ ~ContainerAuthentic(p)
    \/ Packages[p].kind # "boot"
    \/ ~PayloadGood(p)
    \/ ~ota_delta_live_app_fits_below(Packages[p].at)
    \/ source = "sd" /\ flash[HybridBase(p)] # Token(p)

BlGateFails ==
    /\ pc = "blgate"
    /\ ~(\E p \in Scanned : BlCandidate(p))
    /\ FinishApply("failed")
    /\ UNCHANGED <<flashVars, trigger, auth, soft, armed>>

BlGateRejects ==
    /\ pc = "blgate"
    /\ \E p \in Scanned : BlCandidate(p) /\ BlRejected(p) /\ pkg' = p
    /\ pc' = "reject"
    /\ UNCHANGED <<flashVars, run, retained, step, cache, mem, armed>>

BlGatePasses ==
    /\ pc = "blgate"
    /\ \E p \in Scanned : BlCandidate(p) /\ ~BlRejected(p) /\ pkg' = p
    /\ pc' = "blclear"
    /\ UNCHANGED <<flashVars, run, retained, step, cache, mem, armed>>

\* The copy is hashed, then the MBR copies it over the bootloader and resets.  The MBR
\* finishes a copy that a power loss interrupts.
BlInstall ==
    /\ pc = "blcheck"
    /\ \/ /\ FlashHashValid(Packages[pkg].at, pkg)
          /\ boot' = [c \in DOMAIN boot |-> flash[HybridBase(pkg) + c]]
          /\ FinishApply("applied")
       \/ /\ ~FlashHashValid(Packages[pkg].at, pkg)
          /\ FinishApply("failed") /\ UNCHANGED boot
       \/ /\ FlashHashValid(Packages[pkg].at, pkg)
          /\ FinishApply("failed") /\ UNCHANGED boot
    /\ UNCHANGED <<flash, ext, ram, rec, trigger, auth, soft, armed>>

-----------------------------------------------------------------------------

\* The page that is being erased or programmed.
AtRisk ==
    CASE pc \in {"reject", "clear", "blclear"} /\ ~External -> {Packages[pkg].at}
      [] pc = "decode" -> DecoderPage
      [] pc \in {"copy", "blcopy"} /\ step < Packages[pkg].size -> {CopyBase + step}
      [] OTHER -> {}

\* Power is lost, or another reset comes: a page or the record that was being changed is
\* undefined, RAM and the retained registers may be gone.
PowerLoss ==
    /\ \/ UNCHANGED <<flash, ext, rec>>
       \/ \E p \in AtRisk : flash' = Tear(flash, p) /\ UNCHANGED <<ext, rec>>
       \/ /\ pc \in {"reject", "clear", "blclear"} /\ source = "qspi"
          /\ ext' = [ext EXCEPT ![0] = Torn]
          /\ UNCHANGED <<flash, rec>>
       \/ /\ pc \in {"commit", "mark"}
          /\ rec' \in {Record("none", NoImage), Record("invalid", NoImage)}
          /\ UNCHANGED <<flash, ext>>
    /\ ram' \in {ram, [k \in DOMAIN ram |-> Torn]}
    /\ trigger' \in {trigger, "none"} /\ auth' \in {auth, "none"}
    /\ source' = (IF trigger' = "none" THEN "none" ELSE source)
    /\ soft' = FALSE
    /\ run' = "boot" /\ pc' = "none"
    /\ Forgotten
    /\ UNCHANGED <<boot, armed>>

Applier ==
    \/ GateFails \/ GateRejects \/ GatePasses \/ Reject \/ Clear \/ Commit
    \/ DecoderErases \/ DecoderWrites \/ DecoderFails \/ DecoderEnds
    \/ CopyPage \/ CopyEnds \/ CheckResult \/ MarkValid
    \/ BlGateFails \/ BlGateRejects \/ BlGatePasses \/ BlInstall

Next ==
    /\ UNCHANGED board
    /\ \/ \E p \in board : AppStages(p)
       \/ BootApp \/ BootDfu \/ LeaveDfu \/ CardChanges
       \/ OtaBegin \/ Applier
       \/ PowerLoss

Spec == Init /\ [][Next]_vars

-----------------------------------------------------------------------------
(* Properties. *)

\* The variables have their types; a step of the applier belongs to a run of it, and the
\* decoder does no more operations than the package has (its callbacks, ota_delta.c:735).
TypeOK ==
    /\ DOMAIN flash = Cells /\ DOMAIN boot = 0 .. (BootPages * PageCells - 1)
    /\ rec.bank \in {"valid", "invalid", "none"}
    /\ run \in {"boot", "ota", "dfu", "app"}
    /\ (run = "ota") = (pc # "none")
    /\ trigger \in {"none", "app", "boot"}
    /\ auth \in DOMAIN Packages \cup {"none"} /\ pkg \in DOMAIN Packages \cup {"none"}
    /\ step \in Nat
    /\ pc = "decode" => step <= Ops(pkg)
    /\ cache.page \in -1 .. (Pages - 1) /\ cache.dirty \in BOOLEAN

\* Whatever was cut, refused or failed on the way, the application that is started is one
\* whole image ("an interrupted apply can never boot a corrupt image", README.md:517).
StartsWholeImage == run = "app" => \E i \in DOMAIN ImageSize : Intact(i, flash)

\* The decoder reads from the workspace what it last wrote there, although one page of it
\* is in the write-back cache (cread, cwrite, cerase).
DecoderReadsItsWrites == pc = "decode" => \A a \in DOMAIN mem : cread(a) = mem[a]

\* Decoding never changes the package it decodes ("workspace stays strictly below
\* internal mota", ota_delta.c:1924).
PackageUntouched ==
    [][pc = "decode" /\ pc' # "none" /\ source \in {"internal", "hybrid"} =>
         \A a \in Cells : a >= Packages[pkg].at * PageCells => flash'[a] = flash[a]]_vars

\* A package that was verified and not disturbed on the way installs its image: the decoder
\* through its cache, and the copy of a bootloader although it overwrites the package it
\* reads ("forward, overlapping compaction remains safe", ota_delta.c:1172).  A card may
\* change, and a patch that moves its base by nothing erases it.
GoodPackageInstalls ==
    /\ pc = "blcheck" /\ source # "sd" => FlashHashValid(Packages[pkg].at, pkg)
    /\ pc = "check" /\ source # "sd" /\ Packages[pkg].good /\ Packages[pkg].shift # 0 =>
          FlashHashValid(0, pkg)

\* The applier takes the application away only once, at the commit point of a package
\* whose approval is consumed, that was made from the very image that runs, or is a full
\* image that was verified, and whose RAM part is what the application signed: every
\* other failure leaves what runs bootable.
GivesUpAppForGoodPackage ==
    [][run = "ota" /\ AppValid(flash, rec) /\ ~AppValid(flash', rec') =>
         LET m == Packages[pkg] IN
         /\ pc = "commit"
         /\ source = "sd" \/ Staged(pkg, 0) = Header(pkg, FALSE)
         /\ m.kind = "delta" => Intact(m.base, flash)
         /\ m.kind = "full" => source = "sd" \/ PayloadGood(pkg)
         /\ source = "hybrid" => \A k \in DOMAIN ram : ram[k] = Content(pkg, k)]_vars

\* An attempt that ended or crashed is not repeated unless the application asks again.
OneAttempt == [][run # "ota" /\ run' = "ota" => armed]_vars

\* Whatever happens to the package or the scratch area, the bootloader is one whole image.
BootloaderWhole ==
    \E n \in {"running"} \cup {Packages[p].image : p \in DOMAIN Packages} :
    \A c \in DOMAIN boot : boot[c] = Img(n, c)

\* README.md:517: "Any failure (no trigger, base mismatch, bad patch, post-apply hash
\* mismatch) leaves the bank invalid and falls through to OTA DFU".  Of these, the base
\* mismatch: an attempt that turns down a delta made from another image than the one that
\* runs takes away the valid bank it found.
BaseMismatchInvalidatesBank ==
    [][pc = "reject" /\ Packages[pkg].kind = "delta" /\ ~BaseMatches(pkg)
         /\ rec.bank = "valid" /\ source' = "failed" => rec'.bank = "invalid"]_vars
=============================================================================
