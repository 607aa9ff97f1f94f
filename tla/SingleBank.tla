----------------------------- MODULE SingleBank -----------------------------
(***************************************************************************)
(* The single-bank firmware update: the DFU state machine                   *)
(* (dfu_single_bank.c), the settings record that says what bank 0 holds     *)
(* (bootloader.c, bootloader_settings_guard.c) and the boot decision        *)
(* (main.c).  An update destroys the running image while it is received, so *)
(* the whole question is what the next boot may start when power is lost,   *)
(* a timer fires or a peer resets at any moment.                            *)
(*                                                                          *)
(* Flash requests go through the FIFO that StoreContract specifies.  "todo" *)
(* is what is accepted and not yet performed; its head is the operation in  *)
(* progress.  The serial transport writes flash inside the handler itself:  *)
(* its requests are queued here too, and no other event is handled before   *)
(* they are done.                                                           *)
(*                                                                          *)
(* A page of the image region is one DATA chunk.  Its content is "blank",   *)
(* a page of the image that was there before ("old"), of the application    *)
(* being installed ("app"), of a SoftDevice or bootloader image waiting to  *)
(* be copied ("sys"), or something else: "bad" data of a faulty peer, a     *)
(* write that was cut ("part"), an erase that was cut ("torn").             *)
(* Reinstalling the same application starts with pages that are "app".      *)
(*                                                                          *)
(* Power may be lost at any step.  A device's faults add: "bad_data", the   *)
(* data may differ from the image the init packet announced;                *)
(* "early_validate", the peer asks for validation without waiting for the   *)
(* answer that follows the last store; "torn_vector", a cut erase may leave *)
(* a vector table that looks valid.                                         *)
(***************************************************************************)
EXTENDS Integers, Sequences

CONSTANTS
    N,            \* pages of the image
    Devices       \* name -> a build, and what an update may find and meet

Page == 0 .. (N - 1)

\* bootloader_settings_t.  crc names the image whose CRC and size the record holds,
\* "zero" for CRC 0 and size 0; staged says which image sizes are set.  The flash has
\* it in the parts it is written in: geo, the words 2 to 6, and seal, the CRC of the
\* record; then w0 (bank_0, bank_0_crc) and w1 (bank_1).  Each part is that of some
\* record, erased (bank_0 reads 0xFFFF, "none"), or neither.
Rec(bank_0, crc, bank_1, staged) ==
    [bank_0 |-> bank_0, crc |-> crc, bank_1 |-> bank_1, staged |-> staged]

Blank == Rec("none", "none", "none", "erased")
Torn == Rec("torn", "torn", "torn", "torn")

Records ==
    [bank_0 : {"none", "invalid", "app"}, crc : {"none", "zero", "old", "app"},
     bank_1 : {"none", "invalid"}, staged : {"erased", "none"}]

\* signed is the build option SIGNED_FW: flash is prepared after INIT, not after START.
\* kinds is what may be updated; InitFlash holds the regions, with their records, it may find:
\* an image or nothing, and a record without an image waiting to be copied.
ASSUME SingleBankConstants ==
    /\ N \in Nat \ {0}
    /\ \A d \in DOMAIN Devices :
          /\ Devices[d].signed \in BOOLEAN
          /\ Devices[d].kinds \subseteq {"app", "sd", "bl"}
          /\ Devices[d].faults \subseteq {"bad_data", "early_validate", "torn_vector"}
          /\ \A f \in Devices[d].InitFlash :
                /\ \E content \in {"old", "app", "blank"} : f.app = [p \in Page |-> content]
                /\ f.rec \in [geo : Records, seal : Records, w0 : Records, w1 : Records]

VARIABLES
    device,       \* which of the devices this is; never changes
    app,          \* flash: the image region
    rec,          \* flash: the settings page
    run,          \* "boot", "dfu", "exit" (main after DFU), "swap" (image copy) or "app"
    ota,          \* is_ota
    settings,     \* the static record that queued stores point to
    todo,         \* accepted flash requests, oldest first
    m_dfu_state,
    m_data_received, \* chunks; N + 1 stands for 0xFFFFFFFF
    held,         \* serial: the chunk in the page cache of flash_nrf5x.c
    kind,         \* m_start_packet: the image type, and so m_functions.activate
    dfu_page_erased,
    timer,        \* DFU timer: "on", "off", or "fired" with its handler still scheduled
    m_dfu_timed_out,
    m_tear_down_in_progress,
    m_update_status,
    m_settings_store_pending,
    m_app_update_complete

flashVars == <<app, rec>>
dfuVars == <<m_dfu_state, m_data_received, held, kind, dfu_page_erased, timer, m_dfu_timed_out,
             m_tear_down_in_progress>>
bootVars == <<settings, m_update_status, m_settings_store_pending, m_app_update_complete>>
vars == <<device, flashVars, run, ota, todo, dfuVars, bootVars>>

-----------------------------------------------------------------------------
(* What the boot code reads. *)

\* bootloader_settings_is_legacy: no seal was ever written.
IsLegacy == rec.seal = Blank

\* bootloader_settings_integrity_valid: the seal is the CRC of all the other parts.
integrity_valid ==
    IsLegacy \/ (rec.seal # Torn /\ \A f \in DOMAIN rec : rec[f] = rec.seal)

\* Stack pointer and reset vector are in range.  Those of a SoftDevice or a bootloader
\* are not; part of an application, or other data, may well be.
VectorValid ==
    \/ app[0] \in {"old", "app", "bad", "part"}
    \/ "torn_vector" \in Devices[device].faults /\ app[0] = "torn"

ImageIs(content) == \A p \in Page : app[p] = content

\* bootloader_app_is_valid: an unmarked bank is taken for one flashed by a debugger; a
\* marked one must have the CRC of the record, unless the record is an old one without.
bootloader_app_is_valid ==
    /\ VectorValid
    /\ \/ rec.w0.bank_0 = "none"
       \/ /\ rec.w0.bank_0 = "app"
          /\ integrity_valid
          /\ rec.geo = rec.w0
          /\ (IsLegacy /\ rec.w0.crc = "zero") \/ ImageIs(rec.w0.crc)

\* bootloader_update_settings_valid, bootloader_dfu_sd_in_progress.
sd_in_progress ==
    /\ integrity_valid
    /\ IF rec.w0.bank_0 = "sd"
       THEN rec.w1.bank_1 = "invalid" /\ rec.geo.staged = "sd"
       ELSE rec.w1.bank_1 = "boot" /\ rec.geo.staged = "bl"

-----------------------------------------------------------------------------
(* Flash requests: erase or write one page of the image, erase the settings *)
(* page, write its geometry, write its marker words.  cb is the client's    *)
(* callback: "cleared" for the preparation, "stored" for a settings store.  *)

Req(op, p, data, cb) == [op |-> op, p |-> p, data |-> data, cb |-> cb]

EraseApp(p, cb) == Req("erase_app", p, "blank", cb)
WriteApp(p, d) == Req("write_app", p, d, "none")

Same(record) == [geo |-> record, seal |-> record, w0 |-> record, w1 |-> record]

NeedsErase(r) == r.op = "write_app" /\ ota /\ ~dfu_page_erased[r.p]

\* What is left of a page of the image whose erase or write was cut.
CutPage(r) ==
    IF r.op = "write_app" /\ ~NeedsErase(r) THEN "part"
    ELSE IF app[r.p] = "blank" THEN "blank" ELSE "torn"

\* What is left of the settings page.  An erase acts on the whole page: when it is cut
\* the record is intact, or no part of it is.  Words are written in order.
CutRecord(r) ==
    IF r.op = "erase_set" THEN [DOMAIN rec -> {Blank, Torn}]
    ELSE IF r.op = "write_geo"
    THEN {[rec EXCEPT !.geo = Torn], [rec EXCEPT !.geo = settings],
          [rec EXCEPT !.geo = settings, !.seal = Torn]}
    ELSE {[rec EXCEPT !.w0 = Torn], [rec EXCEPT !.w0 = settings],
          [rec EXCEPT !.w0 = settings, !.w1 = Torn]}

\* The flash when power is lost, or the SoftDevice is disabled, during the head of todo.
Cut ==
    \/ UNCHANGED flashVars
    \/ /\ todo # <<>> /\ Head(todo).op \in {"erase_app", "write_app"}
       /\ app' = [app EXCEPT ![Head(todo).p] = CutPage(Head(todo))]
       /\ UNCHANGED rec
    \/ /\ todo # <<>> /\ Head(todo).op \in {"erase_set", "write_geo", "write_mark"}
       /\ rec' \in CutRecord(Head(todo))
       /\ UNCHANGED app

-----------------------------------------------------------------------------
(* bootloader_settings_save and bootloader_dfu_update_process. *)

\* The requests of one save.  The serial path reports one completion, at its end.
SaveRequests ==
    LET cb == IF ota THEN "stored" ELSE "none" IN
    << Req("erase_set", 0, "blank", "none"),
       Req("write_geo", 0, "blank", cb),
       Req("write_mark", 0, "blank", "stored") >>

\* Mutant: the completion of the first fragment ends the save.
FragmentsOne == 1

\* Mutant: the completion of the erase is expected too.
FragmentsWithErase == IF ota THEN 3 ELSE 1

Fragments == IF ota THEN 2 ELSE 1

Save(record, queue) ==
    /\ settings' = record
    /\ todo' = queue \o SaveRequests
    /\ m_settings_store_pending' = Fragments

\* bank_0 with its CRC and size, and bank_1, as the flash has them now.
Bank0 == IF integrity_valid THEN rec.w0.bank_0 ELSE "invalid"
Crc0 == IF integrity_valid THEN rec.w0.crc ELSE "zero"
Bank1 == IF integrity_valid THEN rec.w1.bank_1 ELSE "invalid"

\* DFU_BANK_0_ERASED.
SaveErased(queue) == Save(Rec("invalid", "zero", Bank1, "none"), queue)

\* DFU_UPDATE_APP_COMPLETE, DFU_UPDATE_SD_COMPLETE and DFU_UPDATE_BOOT_COMPLETE.
CompleteRecord ==
    IF kind = "app" THEN Rec("app", "app", "invalid", "none")
    ELSE IF kind = "sd" THEN Rec("sd", "sys", "invalid", "sd")
    ELSE Rec(Bank0, Crc0, "boot", "bl")

SaveComplete ==
    /\ Save(CompleteRecord, todo)
    /\ m_update_status' = "saving"
    /\ m_app_update_complete' = (m_app_update_complete \/ kind = "app")

\* DFU_UPDATE_SD_SWAPPED.
SwappedRecord ==
    IF rec.w0.bank_0 = "sd" THEN Rec("invalid", "zero", "invalid", "none")
    ELSE Rec(Bank0, Crc0, "invalid", "none")

-----------------------------------------------------------------------------
(* Boot (main). *)

\* RAM after a reset; dfu_init and bootloader_dfu_start set the rest when DFU begins.
ResetRam ==
    /\ ota' = FALSE
    /\ settings' = Blank
    /\ todo' = <<>>
    /\ m_dfu_state' = "idle"
    /\ m_data_received' = 0
    /\ held' = "blank"
    /\ kind' = "app"
    /\ dfu_page_erased' = [p \in Page |-> FALSE]
    /\ timer' = "off"
    /\ m_dfu_timed_out' = FALSE
    /\ m_tear_down_in_progress' = FALSE
    /\ m_update_status' = "updating"
    /\ m_settings_store_pending' = 0
    /\ m_app_update_complete' = FALSE

Init ==
    /\ device \in DOMAIN Devices
    /\ \E d \in Devices[device].InitFlash : app = d.app /\ rec = d.rec
    /\ run = "boot"
    /\ ota = FALSE
    /\ settings = Blank
    /\ todo = <<>>
    /\ m_dfu_state = "idle"
    /\ m_data_received = 0
    /\ held = "blank"
    /\ kind = "app"
    /\ dfu_page_erased = [p \in Page |-> FALSE]
    /\ timer = "off"
    /\ m_dfu_timed_out = FALSE
    /\ m_tear_down_in_progress = FALSE
    /\ m_update_status = "updating"
    /\ m_settings_store_pending = 0
    /\ m_app_update_complete = FALSE

\* A SoftDevice or bootloader update is pending: the MBR copies the image, then the
\* record is rewritten without SoftDevice (bootloader_dfu_sd_update_finalize).
BootSwap ==
    /\ run = "boot" /\ sd_in_progress
    /\ run' = "swap"
    /\ Save(SwappedRecord, <<>>)
    /\ m_update_status' = "saving"
    /\ UNCHANGED <<flashVars, ota, dfuVars, m_app_update_complete>>

SwapDone ==
    /\ run = "swap" /\ m_update_status = "complete"
    /\ run' = "boot"
    /\ ResetRam
    /\ UNCHANGED flashVars

\* check_dfu_mode enters DFU on request, or because there is no valid application.
BootDfu ==
    /\ run = "boot" /\ ~sd_in_progress
    /\ run' = "dfu"
    /\ ota' \in BOOLEAN
    /\ timer' = "on"
    /\ UNCHANGED <<flashVars, todo, bootVars, m_dfu_state, m_data_received, held, kind>>
    /\ UNCHANGED <<dfu_page_erased, m_dfu_timed_out, m_tear_down_in_progress>>

BootApp ==
    /\ run = "boot" /\ ~sd_in_progress /\ bootloader_app_is_valid
    /\ run' = "app"
    /\ UNCHANGED <<flashVars, ota, todo, dfuVars, bootVars>>

\* Power loss; and every fault (APP_ERROR_CHECK of a failed flash operation or of a
\* second disconnect) and reset of the running application, which come to the same.
PowerLoss ==
    /\ run # "boot"
    /\ run' = "boot"
    /\ Cut
    /\ ResetRam

-----------------------------------------------------------------------------
(* The DFU handlers, run by the scheduler.  The serial transport's flash    *)
(* requests are done before the next event is handled.                      *)

Handling == run = "dfu" /\ (ota \/ todo = <<>>)

dfu_timer_restart ==
    /\ ~m_dfu_timed_out
    /\ timer' = IF timer = "off" THEN "on" ELSE timer

\* dfu_prepare_func_app_erase: BLE erases page 0, the serial transport every page.
PrepareRequests ==
    IF ota THEN <<EraseApp(0, "cleared")>>
    ELSE [i \in 1 .. N |-> EraseApp(i - 1, IF i = N THEN "cleared" ELSE "none")]

Prepare ==
    /\ m_dfu_state' = "preparing"
    /\ dfu_page_erased' = [p \in Page |-> FALSE]
    /\ todo' = todo \o PrepareRequests

\* A packet that comes after the timeout is refused.
dfu_start_pkt_handle(k) ==
    /\ Handling
    /\ m_dfu_state = "idle"
    /\ dfu_timer_restart
    /\ kind' = k
    /\ IF Devices[device].signed
       THEN m_dfu_state' = "rdy" /\ UNCHANGED <<dfu_page_erased, todo>>
       ELSE Prepare
    /\ UNCHANGED <<flashVars, run, ota, bootVars, m_data_received, held, m_dfu_timed_out>>
    /\ UNCHANGED m_tear_down_in_progress

dfu_init_pkt_handle ==
    /\ Handling
    /\ m_dfu_state \in {"rdy", "rx_init"}
    /\ m_dfu_state' = "rx_init"
    /\ timer' = IF timer = "off" /\ ~m_dfu_timed_out THEN "on" ELSE timer
    /\ UNCHANGED <<flashVars, run, ota, todo, bootVars, m_data_received, held, kind>>
    /\ UNCHANGED <<dfu_page_erased, m_dfu_timed_out, m_tear_down_in_progress>>

\* dfu_init_prevalidate accepts the init packet; when it does not, only the packet is
\* dropped.
dfu_init_pkt_complete ==
    /\ Handling
    /\ m_dfu_state = "rx_init"
    /\ m_data_received = 0
    /\ IF Devices[device].signed
       THEN Prepare
       ELSE m_dfu_state' = "rx_data" /\ UNCHANGED <<dfu_page_erased, todo>>
    /\ UNCHANGED <<flashVars, run, ota, bootVars, m_data_received, held, kind, timer>>
    /\ UNCHANGED <<m_dfu_timed_out, m_tear_down_in_progress>>

\* The serial transport's page cache writes a page when the next one begins, and the
\* last one at the end of the image.
DataRequests(d) ==
    IF ota THEN <<WriteApp(m_data_received, d)>>
    ELSE (IF m_data_received > 0 THEN <<WriteApp(m_data_received - 1, held)>> ELSE <<>>)
         \o (IF m_data_received + 1 = N THEN <<WriteApp(m_data_received, d)>> ELSE <<>>)

\* Mutant: the bound on the number of bytes is off by one.
DataFitsLate == m_data_received < N + 1

DataFits == m_data_received < N

dfu_data_pkt_handle(d) ==
    /\ Handling
    /\ m_dfu_state = "rx_data"
    /\ DataFits
    /\ dfu_timer_restart
    /\ todo' = todo \o DataRequests(d)
    /\ held' = IF ota THEN held ELSE d
    /\ m_data_received' = m_data_received + 1
    /\ UNCHANGED <<flashVars, run, ota, bootVars, m_dfu_state, kind, dfu_page_erased>>
    /\ UNCHANGED <<m_dfu_timed_out, m_tear_down_in_progress>>

\* More data than the start packet announced blocks the transfer for good.
DataOverflow ==
    /\ Handling
    /\ m_dfu_state = "rx_data"
    /\ ~DataFits
    /\ m_data_received' = N + 1
    /\ UNCHANGED <<flashVars, run, ota, todo, bootVars, m_dfu_state, held, kind>>
    /\ UNCHANGED <<dfu_page_erased, timer, m_dfu_timed_out, m_tear_down_in_progress>>

\* The image the peer announced: CRC, hash or signature of the init packet, and policy.
Announced == IF kind = "app" THEN "app" ELSE "sys"

\* What a DATA packet may hold.
Data == {Announced} \cup (IF "bad_data" \in Devices[device].faults THEN {"bad"} ELSE {})

\* dfu_cb_handler answers RECEIVE_APP when the last store is done.
DataQueued == \E i \in 1 .. Len(todo) : todo[i].op = "write_app"

\* Mutant: of a SoftDevice or bootloader image only the first page is checked.
ValidatedByHeader ==
    IF ~m_dfu_timed_out /\ (IF kind = "app" THEN ImageIs("app") ELSE app[0] = "sys")
    THEN "wait_activate" ELSE "validate"

\* dfu_image_validate reads flash as it is now, whatever is still queued.
ValidatedState ==
    IF ~m_dfu_timed_out /\ ImageIs(Announced) THEN "wait_activate" ELSE "validate"

dfu_image_validate ==
    /\ Handling /\ ota
    /\ "early_validate" \in Devices[device].faults \/ ~DataQueued
    /\ m_dfu_state = "rx_data" /\ m_data_received = N
    /\ m_dfu_state' = ValidatedState
    /\ UNCHANGED <<flashVars, run, ota, todo, bootVars, m_data_received, held, kind>>
    /\ UNCHANGED <<dfu_page_erased, timer, m_dfu_timed_out, m_tear_down_in_progress>>

\* dfu_transport_ble_close: closing a link a second time is a fault.
dfu_transport_ble_close ==
    /\ ~m_tear_down_in_progress
    /\ m_tear_down_in_progress' = TRUE

\* BLE_DFU_ACTIVATE_N_RESET: dfu_image_activate.
dfu_image_activate ==
    /\ Handling /\ ota
    /\ m_dfu_state = "wait_activate"
    /\ dfu_transport_ble_close
    /\ timer' = IF timer = "on" THEN "off" ELSE timer
    /\ SaveComplete
    /\ UNCHANGED <<flashVars, run, ota, m_dfu_state, m_data_received, held, kind>>
    /\ UNCHANGED <<dfu_page_erased, m_dfu_timed_out>>

\* STOP_DATA_PACKET of the serial transport validates and activates.
StopData ==
    /\ Handling /\ ~ota
    /\ m_dfu_state = "rx_data" /\ m_data_received = N
    /\ m_dfu_state' = ValidatedState
    /\ IF ValidatedState = "wait_activate"
       THEN SaveComplete /\ timer' = IF timer = "on" THEN "off" ELSE timer
       ELSE UNCHANGED <<todo, bootVars, timer>>
    /\ UNCHANGED <<flashVars, run, ota, m_data_received, held, kind>>
    /\ UNCHANGED <<dfu_page_erased, m_dfu_timed_out, m_tear_down_in_progress>>

\* BLE_DFU_SYS_RESET, and an ACTIVATE that is refused.
dfu_reset ==
    /\ Handling /\ ota
    /\ dfu_transport_ble_close
    /\ m_update_status' = IF m_dfu_state = "rx_data" /\ m_data_received # N
                          THEN "reset_to_self" ELSE "sys_reset"
    /\ UNCHANGED <<flashVars, run, ota, todo, m_dfu_state, m_data_received, held, kind>>
    /\ UNCHANGED <<dfu_page_erased, timer, m_dfu_timed_out, settings>>
    /\ UNCHANGED <<m_settings_store_pending, m_app_update_complete>>

\* The timer's interrupt schedules its handler; a later stop or restart of the timer
\* does not take the handler out of the scheduler's queue.
TimerFires ==
    /\ run = "dfu" /\ timer = "on"
    /\ timer' = "fired"
    /\ UNCHANGED <<flashVars, run, ota, todo, bootVars, m_dfu_state, m_data_received, held>>
    /\ UNCHANGED <<kind, dfu_page_erased, m_dfu_timed_out, m_tear_down_in_progress>>

dfu_timeout_handler ==
    /\ Handling /\ timer = "fired"
    /\ timer' = "off"
    /\ m_dfu_timed_out' = TRUE
    /\ m_tear_down_in_progress' = TRUE
    /\ m_update_status' = "timeout"
    /\ UNCHANGED <<flashVars, run, ota, todo, m_dfu_state, m_data_received, held, kind>>
    /\ UNCHANGED <<dfu_page_erased, settings, m_settings_store_pending, m_app_update_complete>>

\* Advertising timeout (BLE), or no START within the startup window (USB).
OtherTimeout ==
    /\ Handling /\ (ota \/ m_dfu_state = "idle")
    /\ m_update_status' = "timeout"
    /\ m_tear_down_in_progress' = TRUE
    /\ UNCHANGED <<flashVars, run, ota, todo, m_dfu_state, m_data_received, held, kind>>
    /\ UNCHANGED <<dfu_page_erased, timer, m_dfu_timed_out, settings>>
    /\ UNCHANGED <<m_settings_store_pending, m_app_update_complete>>

-----------------------------------------------------------------------------
(* Flash operations end. *)

\* Programming only clears bits.
Programmed(p, d) == IF app[p] \in {"blank", d} THEN d ELSE "bad"

FlashVarsAfter(r) ==
    IF r.op = "erase_app" THEN app' = [app EXCEPT ![r.p] = "blank"] /\ UNCHANGED rec
    ELSE IF r.op = "write_app"
    THEN app' = [app EXCEPT ![r.p] = Programmed(r.p, r.data)] /\ UNCHANGED rec
    ELSE /\ rec' = IF r.op = "erase_set" THEN Same(Blank)
                   ELSE IF r.op = "write_geo"
                   THEN [rec EXCEPT !.geo = settings, !.seal = settings]
                   ELSE [rec EXCEPT !.w0 = settings, !.w1 = settings]
         /\ UNCHANGED app

\* pstorage erases a page of the image before the first store to it.
LazyErase ==
    /\ todo # <<>> /\ NeedsErase(Head(todo))
    /\ app' = [app EXCEPT ![Head(todo).p] = "blank"]
    /\ dfu_page_erased' = [dfu_page_erased EXCEPT ![Head(todo).p] = TRUE]
    /\ UNCHANGED <<rec, run, ota, todo, bootVars, m_dfu_state, m_data_received, held, kind>>
    /\ UNCHANGED <<timer, m_dfu_timed_out, m_tear_down_in_progress>>

\* Mutant: the record of the old image stays until the new one is complete.
ClearedRecordKept ==
    /\ m_dfu_state' = IF Devices[device].signed THEN "rx_data" ELSE "rdy"
    /\ dfu_page_erased' = [dfu_page_erased EXCEPT ![0] = TRUE]
    /\ todo' = Tail(todo)
    /\ UNCHANGED <<settings, m_settings_store_pending>>

\* pstorage_callback_handler of dfu_single_bank.c, PSTORAGE_CLEAR_OP_CODE.
Cleared ==
    /\ m_dfu_state' = IF Devices[device].signed THEN "rx_data" ELSE "rdy"
    /\ dfu_page_erased' = [dfu_page_erased EXCEPT ![0] = TRUE]
    /\ SaveErased(Tail(todo))

\* pstorage_callback_handler of bootloader.c.
Stored ==
    IF m_update_status = "saving" /\ m_settings_store_pending # 0
    THEN /\ m_settings_store_pending' = m_settings_store_pending - 1
         /\ m_update_status' = IF m_settings_store_pending = 1 THEN "complete" ELSE "saving"
    ELSE UNCHANGED <<m_settings_store_pending, m_update_status>>

FlashDone ==
    /\ todo # <<>> /\ ~NeedsErase(Head(todo))
    /\ FlashVarsAfter(Head(todo))
    /\ IF Head(todo).cb = "cleared" /\ m_dfu_state = "preparing"
       THEN Cleared /\ UNCHANGED m_update_status
       ELSE /\ todo' = Tail(todo)
            /\ IF Head(todo).cb = "stored" THEN Stored
               ELSE UNCHANGED <<m_settings_store_pending, m_update_status>>
            /\ UNCHANGED <<m_dfu_state, dfu_page_erased, settings>>
    /\ UNCHANGED <<run, ota, m_data_received, held, kind, timer, m_dfu_timed_out>>
    /\ UNCHANGED <<m_tear_down_in_progress, m_app_update_complete>>

-----------------------------------------------------------------------------
(* Leaving DFU. *)

\* wait_for_events returns; disable_softdevice drops what is queued.
LeaveDfu ==
    /\ Handling
    /\ m_update_status \in {"complete", "timeout", "sys_reset", "reset_to_self"}
    /\ run' = "exit"
    /\ Cut
    /\ todo' = <<>>
    /\ UNCHANGED <<ota, dfuVars, bootVars>>

ExitStartsApp ==
    /\ m_update_status # "reset_to_self"
    /\ ~(m_app_update_complete /\ m_update_status = "complete")
    /\ bootloader_app_is_valid
    /\ ~sd_in_progress

MainAfterDfu ==
    /\ run = "exit"
    /\ run' = IF ExitStartsApp THEN "app" ELSE "boot"
    /\ ResetRam
    /\ UNCHANGED flashVars

Flash == LazyErase \/ FlashDone

Step ==
    \/ BootSwap \/ SwapDone \/ BootDfu \/ BootApp \/ PowerLoss
    \/ \E k \in Devices[device].kinds : dfu_start_pkt_handle(k)
    \/ dfu_init_pkt_handle \/ dfu_init_pkt_complete
    \/ \E d \in Data : dfu_data_pkt_handle(d)
    \/ DataOverflow \/ dfu_image_validate \/ dfu_image_activate \/ StopData \/ dfu_reset
    \/ TimerFires \/ dfu_timeout_handler \/ OtherTimeout
    \/ Flash \/ LeaveDfu \/ MainAfterDfu

Next == Step /\ UNCHANGED device

Spec == Init /\ [][Next]_vars

\* The SoftDevice (or the NVMC) ends every operation it started.
FairSpec == Spec /\ WF_vars(Flash /\ UNCHANGED device)

-----------------------------------------------------------------------------
(* Properties. *)

\* The types; in particular no request reaches beyond the announced image
\* (dfu_data_pkt_handle's bound), and at most three fragments of a save are outstanding.
TypeOK ==
    /\ app \in [Page -> {"old", "blank", "app", "sys", "bad", "part", "torn"}]
    /\ run \in {"boot", "dfu", "swap", "exit", "app"}
    /\ m_dfu_state \in
          {"idle", "rdy", "rx_init", "preparing", "rx_data", "validate", "wait_activate"}
    /\ m_data_received \in 0 .. N + 1
    /\ m_settings_store_pending \in 0 .. 3
    /\ \A i \in 1 .. Len(todo) : todo[i].p \in Page

Complete == ImageIs("old") \/ ImageIs("app")

\* A CRC of the image is in the record.
Checked == rec.w0.bank_0 # "none" /\ ~(IsLegacy /\ rec.w0.crc = "zero")

\* The bootloader starts an application only when the region holds one complete image,
\* the old or the new one: at whatever point of an update power is lost, a timer fires
\* or the peer resets.  One whose record has its CRC is complete whatever the peer
\* sends, however early it asks for validation and whatever a cut erase leaves; one in
\* an unmarked bank, taken for a debugger's, or with an old record without a CRC needs a
\* peer that waits and a torn page that does not pass for a vector table
\* (bootloader_app_is_valid, main).
BootsOnlyCompleteImage ==
    run = "app" /\ (Checked \/ Devices[device].faults \subseteq {"bad_data"}) => Complete

\* A SoftDevice or bootloader copy starts only from a complete image, and never from a
\* record that was cut (bootloader_update_settings_valid, bootloader_settings_save).  The
\* record has no CRC of that image: a peer that asks for validation before its data are
\* stored can have it changed afterwards.
SwapHasImage ==
    run = "swap" /\ "early_validate" \notin Devices[device].faults => ImageIs("sys")

\* BOOTLOADER_COMPLETE, after which the system is reset, means that the whole record of
\* the update is in flash and that no request is left: no completion of an earlier save
\* is taken for one of this save (pstorage_callback_handler of bootloader.c).
CompleteMeansSaved ==
    m_update_status = "complete" => rec = Same(settings) /\ todo = <<>>

\* A save that has begun ends: no completion is missed.
SavingEnds ==
    m_update_status = "saving" ~> m_update_status # "saving"

\* dfu.h on dfu_image_validate: validation comes after the transfer has completed, so
\* what it accepts is not changed any more.
ValidatesTransferredImage ==
    [][m_dfu_state # "wait_activate" /\ m_dfu_state' = "wait_activate" => ~DataQueued]_vars
=============================================================================
