# A TLA+ verification project for the nRF52 OTAFIX bootloader

The repository is a USB/BLE/serial bootloader for nRF52 boards: it receives an image over
one of three transports (BLE Legacy DFU, serial DFU, a UF2 USB volume) or applies a
package the application staged (MeshCore OTA), replaces the firmware *in place*, and
decides at every reset what to run. There is one bank: while an update is received the
old image is already gone. What has to be right is therefore what happens when a step
fails, arrives late, arrives twice, or when power is lost between two flash operations.

Source paths below are relative to the repository root; `bootloader_dfu/` stands for
`lib/sdk11/components/libraries/bootloader_dfu/`.

## 1. Inventory

| Component | State it keeps | Operations | Interacts with | What is hard |
|---|---|---|---|---|
| Flash storage queue, `lib/sdk11/.../pstorage/pstorage_raw.c` | command queue of 10, `flash_access`, round counter, ring buffer of 8 pending packets, lazy-erase and pending-store flags, one erased bit per image page | `pstorage_store`, `pstorage_clear`, `pstorage_sys_event_handler` | SoftDevice flash API below, two clients above (image writer, settings writer) through callbacks that call back in | reentrancy, order of three queues, BUSY, foreign events, failures of several packets at once |
| Single-bank DFU, `bootloader_dfu/dfu_single_bank.c` | `m_dfu_state`, received count, start packet, timer, tear-down flag | START, INIT, DATA, VALIDATE, ACTIVATE, SYS_RESET, timeout, flash callbacks | transports above, pstorage or `flash_nrf5x.c` below, `bootloader_dfu_update_process` | validation while stores are queued, timer that already fired, reset in the middle |
| Settings record, `bootloader_dfu/bootloader.c`, `src/bootloader_settings_guard.c` | the sealed record in flash, a static copy, count of outstanding fragments, update status | `bootloader_settings_save`, `bootloader_app_is_valid`, `bootloader_dfu_sd_in_progress`, `wait_for_events` | DFU, main, pstorage | a cut between erase, geometry and marker; two saves sharing one record |
| Boot sequence, `src/main.c` | reset reasons, `GPREGRET` triggers | `main`, `check_dfu_mode` | everything | order of swap, DFU, application |
| UF2 volume, `src/usb/msc_uf2.c`, `src/usb/uf2/ghostfat.c`, `src/usb/uf2/uf2_transfer_state.h` | transfer state (written and target masks, geometry, abort latch), deferred completion | `write_block`, WRITE10/eject/reset callbacks, completion timer | settings record, USB host, serial DFU over the same USB | hosts reorder, repeat and abandon writes; busy retries |
| MeshCore OTA, `src/ota_delta.c` | staged package, approval marker, page cache, `GPREGRET2` result | `ota_delta_check_and_apply`, `apply_bootloader_update` | main (at boot), settings record, external flash or SD staging | in-place patch: nothing to return to after the commit point |
| BLE transport, `bootloader_dfu/dfu_transport_ble.c`, `lib/sdk11/.../ble_dfu/ble_dfu.c` | packet type, 240-byte accumulator, count of bytes, packet receipts, final packet, connection and advertising flags | `on_dfu_evt`, `on_ble_evt`, `dfu_cb_handler`, `dfu_transport_ble_close` | DFU, receive pool, SoftDevice | lost links, answers after callbacks, resumption, events handled late |
| Serial transport and HCI, `bootloader_dfu/dfu_transport_serial.c`, `lib/sdk/components/libraries/hci/` | expected sequence number, SLIP buffer, receive pool (a ring of 16), four packet slots, scheduler queue | `tud_cdc_rx_cb`, `slip_event_handle`, `rpc_transport_event_handler`, `process_dfu_packet` | DFU, USB host | packets acknowledged before they are queued; slots served by index, not by age; a pool that is consumed out of turn |
| SoftDevice and bootloader swap, `dfu_single_bank.c` (`dfu_sd_image_swap` ...), `bootloader.c` (`bootloader_dfu_sd_update_continue`) | the pending record, flash itself | validate, swap by blocks, copy, finalize | MBR commands, boot sequence | a copy over its own source, power loss at every page, a header that moves the bank |
| Secure DFU (test build), `src/secure_dfu.c` | object protocol state | create, write, crc, execute, select | BLE | resume after disconnect |
| Dual-bank DFU, `bootloader_dfu/dfu_dual_bank.c` | as single bank | as single bank | optional build `DUALBANK_FW=1` | – |
| Image policy, init packet, signatures, `src/dfu_image_policy.c`, `src/dfu_init.c` | none (pure) | accept or reject | DFU, UF2 | – |
| Drivers and glue (QSPI, SD, screen, boards, USB descriptors, detools, SDK libraries) | – | – | – | register-level or vendored |

For each component the property that makes it correct:

* storage queue: accepted requests are performed in order and reported exactly once, a
  reported store is in flash, an accepted request never waits for an event that cannot come;
* DFU, settings and boot together: at whatever point an update is cut, the next boot starts
  nothing but a complete image, and copies a SoftDevice or bootloader only from a complete one;
* a save of the record ends, and "complete" is announced only when the record is in flash;
* UF2: an image is marked valid only over a full set of blocks of one transfer;
* transports: the image reaches the DFU state machine byte for byte, whatever is repeated,
  cut or lost; what the other side is told was taken is not lost; a transfer ends;
* swap: nothing of a pending update is destroyed before it is in place, and it ends;
* OTA: a package that is rejected leaves the old application bootable, a package that is
  begun leaves either the finished new one or none.

The hazards behind these, each with its line and the properties that watch it, are listed
in `PROJECT.json`.


## 2. Plan

Order of importance: what is between "a byte was received" and "this image is started".

| Step | Modules | State |
|---|---|---|
| 1 | `StoreContract`, `Pstorage`: the queue all BLE flash writes go through, and what it promises | done |
| 2 | `SingleBank`: DFU state machine, settings record and boot decision together | done |
| 3 | `Uf2Session`: the USB volume | done |
| 4 | `OtaApply`: in-place OTA and bootloader self-update | done |
| 5 | `MemPool`, `StreamContract`, `SerialTransport`: HCI reception, the receive pool, the slots and their order, and what the link promises | done |
| 6 | `BleTransport`: control-point procedure, accumulator, notifications, lost links | done |
| 7 | `SdSwap`: the SoftDevice copy with its resume, bootloader handoff | done |
| 8 | `PstorageProofs`, `SingleBankProofs`, `Uf2Proofs`, `OtaProofs`, `SdSwapProofs` | done |
| 9 | `PoolProofs`, `SerialProofs`: `TypeOK`, `ReceiverListens` and `ImplementsStream` of `SerialTransport` | done |
| 10 | `BleProofs`: `TypeOK`, `StreamIsPrefix` and `ReceivedIsStored` of `BleTransport` | done |

Every invariant, action property and refinement that a passing run checks is proved; liveness
stays with TLC (section 7). The modules are written to be proved about: parameters with named assumptions, one action per handler or part of a handler, no
`RECURSIVE` operators.

## 3. The modules and the code

`PROJECT.json` maps every definition to its lines. In outline:

**`StoreContract`** is what a client of the storage module may rely on: a list of accepted
requests, and reports that settle them in that order, each once, with success or failure.

**`Pstorage`** models `pstorage_raw.c`. `queue` is `m_cmd_queue` (its length and read
pointer as one sequence), `access` its `flash_access`, `pending` the ring of packets that
wait for a lazy erase, `erased` the erased bit of each page, `lazy` and `processing` are
`m_lazy_erase_active` and `m_processing_pending`. C calls that call back into the module are what is hard here, so `ctl` is the
call stack: a client's callback is a frame during which it may store and clear again
(`InClient`), and the statements behind the callback (`tail`, `dequeue`, `pending`,
`abort`) are frames that go on when it returns. `Store…` and `Clear…` actions are the API,
`Event…` the branches of `pstorage_sys_event_handler`. The SoftDevice is external:
it accepts one operation at a time, answers BUSY otherwise, and may fail.

**`SingleBank`** puts three components into one state, because the property spans them: the
DFU state machine (`dfu_single_bank.c`), the sealed settings record (`bootloader.c`,
`bootloader_settings_guard.c`), and the decision at boot (`main.c`). The image is `N` pages
that hold a symbol ("old", "app", "sys", "bad", "blank", "torn"); the record is its two marker
words, geometry and seal separately, since they are written in that order. `todo` is the
sequence of flash operations that are accepted and not done, as `StoreContract` allows. On BLE
(`ota`) they complete between requests; on serial every request finishes its operations first.
`PowerLoss` cuts the operation in progress anywhere.

**`Uf2Session`** models one USB session: `tud_msc_write10_cb` with `write_block` behind it
(refuse, abort, duplicate, busy, invalidate, erase, program, stage, complete), the status
callbacks, eject, reset, mount and unmount, the deferred completion timer, the startup
timeout and the boot decision. Blocks are records (block number, area, address, data); the
host may write any sequence of the blocks in `Offered`.

**`OtaApply`** models `ota_delta.c`: `ota_delta_check_and_apply` and
`apply_bootloader_update` from the trigger to the reset. `pc` is the place in the function
between two flash operations; flash, RAM arena, NOR and card hold cells, so that overlapping
copies and a cache that is not coherent show. `Op` and `Decoded` are the erases, reads
and writes of `detools.c`'s in-place decoder: move the base up from its end, then erase and
make each page. The application that stages packages, the card and the MBR are external.

**`MemPool`** is the ring of receive buffers of `hci_mem_pool.c`, as operators on a record
of its counters; both transports use it. `Released` is its loop as written: it steps to
the buffer behind the one just consumed, once, and does not advance from there.

**`SerialTransport`** models the receiving side of serial DFU over USB: a host with a window
of packets, the line, SLIP with the buffer it decodes into, sequence numbers and
acknowledgements (`hci_transport.c`), `rpc_transport_event_handler`, the slots and
`process_dfu_packet` (`HandleSlot`, one slot a step), within the main loop (`phase`). A
packet is its number. **`StreamContract`** is what the link promises: packets are taken over
in order, each once, the host is told only of packets taken over, and they are handled in
that order. The refinement maps `told` to the host's oldest unacknowledged packet less one, and
`waiting` to the set of packets in the slots, by the bytes their buffers hold *now*: a buffer
that is overwritten breaks it, and so does a slot served before an older one, since the
contract handles the oldest.

**`BleTransport`** models Legacy DFU over BLE with a controller that resumes. The data path
(`app_data_process`, `accum_append`, `accum_flush`, `aligned_data_process`) is a set of
operators on the record `rx`; each SoftDevice event or control-point opcode is an action
(`On…`, `Op…`) on the oldest of `events`, which may be handled when the link (`radio`) is
gone already. The DFU state machine below it is reduced to what its answers depend on;
`SingleBank` has it in full. `Notify` is `dfu_notification_send` with the `APP_ERROR_CHECK`
behind it: without a link the device resets.

**`SdSwap`** models what `main` does with a pending SoftDevice or bootloader, page by page:
`stack` holds the frames of the recursive `dfu_sd_img_block_swap`, `copy` the MBR's
COPY_SD in progress. Where the SoftDevice ends is read from the header page in flash, as
in the code, so it changes under the swap. `SingleBank` has the swap as one step, and the
writing of the record.

**Refinements.** `Pstorage` implements `StoreContract` and `SerialTransport` implements
`StreamContract`, each as a property of a run (`Contract == INSTANCE … WITH …`).

**Proofs.** The theorems about a module are in `…Proofs` modules that extend it: `Pstorage` in
`PstorageProofs`, `OtaApply` in `OtaProofs`, and so on. `PoolProofs` has the lemmas about
`MemPool` that both `SerialProofs` and `BleProofs` cite: the arithmetic of a ring, and what
producing, extracting and consuming a buffer does to its counters.

Operators called *Mutant* in the comments are deliberate mistakes, one for each property;
they are not part of any specification. Substituted for the definition they stand
before, each makes its property fail.

## 4. Runs

| Run | Distinct states | What it shows |
|---|---|---|
| `pstorage` | 2.8 M | Requests settle in order, once (`SettledInOrder`); a reported store is in flash (`ReportedStoreIsInFlash`) and was not put on an unerased image page (`NoStoreOnOldImage`); the module never waits for an event that cannot come (`NoLostWakeup`); it implements `StoreContract` |
| `pstorage_live` | 189 k | Every accepted request is reported in the end |
| `single_bank` | 361 k | An update of any kind over either transport, on devices with a sealed, an unsealed (older bootloader) or an erased (debugger) record, and the signed build with all faults together (wrong data, early validation, a torn page that looks like a vector table); power loss, timeouts, resets: only a complete image starts (`BootsOnlyCompleteImage`) or is swapped in (`SwapHasImage`), "complete" means the record is in flash, and a save ends |
| `uf2` | 1.3 M | Application files and stray blocks in any order, bootloader files after abandoned transfers, and a host that falls silent: the device starts the old image or one made only from transferred blocks (`StartsOldOrNew`), acknowledged blocks are in it (`AckedIsInstalled`), flash changes only after the record is unmarked, a good file is never refused, only a whole, validated bootloader is copied, completion never falls into a command and happens in the end |
| `ota` | 343 k | Good and bad deltas in flash, in flash and RAM and on NOR, full images and bootloaders on NOR and on a card that changes between check and use: no mixed image starts, the decoder's cache is coherent, the patch does not overwrite its package, a good package gives its image although the compaction overlaps it, the old application is given up only at the commit point, an attempt is not repeated |
| `serial` | 387 k | Hosts with one, two and three packets under way, refused packets, repetitions and foreign frames: the link implements `StreamContract`, the pool never runs out (`ReceiverListens`), a transfer completes unless an overlong frame has made the receiver deaf |
| `ble` | 334 k | Four ways to cut the image into fragments, with and without receipts; two lost links, an expired timer, a failing flash operation: the image is passed on without a gap (`StreamIsPrefix`), "received" means stored (`ReceivedIsStored`), and the transfer ends (`TransferEnds`) |
| `sd_swap` | 132 k | Eight updates in the geometry of S140 6.1.1, 7.2.0 and 7.3.0, three power losses and a bad copy: the source of what is not in place survives (`SourceSurvives`), the record is given up for a whole SoftDevice only (`FinalizedIsWhole`), the update ends (`UpdateEnds`) |
| `validate_while_storing`, `ota_rejected_keeps_bank`, `sd_swap_cut`, `sd_swap_handoff` | – | the findings of section 8 |

Three properties have premises that the code makes necessary:

* `BootsOnlyCompleteImage` excepts a record without a CRC (erased, or of an older bootloader)
  together with a torn first page that still looks like a vector table, or with a peer that
  validates before its data is stored: without a CRC nothing at boot tells such an image
  from a whole one. `SwapHasImage` excepts the early peer too, because the record has no CRC of
  a staged SoftDevice or bootloader.
* `StartsOldOrNew` compares the application with the image that its record was saved for,
  which the model keeps in the record (`img`) through a save that is cut.
* `AckedIsInstalled` is about block numbers that have one address (`OneAddress`). When a file
  gives one number two addresses, the second is accepted as a repetition if flash there happens
  to hold the same bytes.

Deadlock is checked, except where the model ends: `SerialTransport` and `BleTransport` with the
activation (or with a controller that gave up), `SdSwap` with the boot going on.

Bounds, and why they are enough:

* `Pstorage`: two image pages and a settings page are the shapes the code tells apart (a
  packet in one page, across two, in a page without lazy erase); `QueueSize` and
  `PendingCount` of 2 (10 and 8 in the code) are reached, so that the full cases and the
  wrap-around happen; `MaxAccept` 4 requests fill both and leave one to arrive late;
  `MaxForeign` bounds flash operations of others.
* `SingleBank`: `N` of 2 pages has a first (with the vector table) and a last one. The number of updates and resets is not bounded.
* `Uf2Session`: two blocks per page and an application of one and a half pages give a page
  that is completed and one that is not; sessions, repeats and resets are not bounded.
* `OtaApply`: pages of two cells, images of two pages and a workspace that ends at the
  package; containers are not a multiple of a page, so the compaction overlaps. Base moves of
  zero, one and two pages. Attempts, cuts and DFU sessions are not bounded.
* `SerialTransport`: a pool of 4 buffers (16) is what three packets under way and the one
  SLIP fills need, so it is at its limit and wraps; 4 slots as in the code; 4 sequence
  numbers (8) and 6 packets, so that they wrap, too; `LineMax` and `MaxNoise` bound frames.
* `BleTransport`: words of 2 bytes, an accumulator of 2 words and 10 bytes give fragments
  that are odd, longer than the accumulator, and a last one that is short; a pool of 2
  (16) overruns, which the code answers with an error (`overrun`).
* `SdSwap`: no reduction of sizes: pages are the pages of the device. `MaxCuts` of 3 is one
  for each block, `MaxFaults` of 1 a copy that the MBR reports bad.

## 5. Fairness

* `Pstorage.FairSpec`: weak fairness of the module's internal steps, of the SoftDevice's event
  for a running operation and of callbacks returning. The code is sequential, and the SoftDevice
  reports every operation it accepts.
* `SingleBank.FairSpec`: weak fairness of `Flash`, the progress of accepted operations,
  which `EveryRequestSettles` gives.
* `Uf2Session.FairSpec`: weak fairness of the timer handler. `CompletionHappens` is
  conditional on a host that stops sending commands.
* `SerialTransport.FairSpec`: weak fairness of the main loop, which never blocks; strong
  fairness of reception and sending, since the loop comes back to the USB task again and again;
  the host reads and times out. A frame that is lost is a frame that is noise.
* `BleTransport.FairSpec`: weak fairness of the event handling, of flash operations (as above), of
  the restart after a fault, and of the controller, which is the one that wants the update.
  Lost links, timers and failures are bounded, not fair.
* `SdSwap.FairSpec`: weak fairness of the boot's own steps.
* In the other modules peers, hosts, the application and power loss are never fair. `OtaApply` has no liveness
  property.

## 6. What is assumed

* Storage queue: an operation's event comes before the SoftDevice accepts another; stores are no longer
  than one SoftDevice write; a misaligned address is refused without effect; two clients.
* `SingleBank`: a CRC or hash matches only its image; a word torn by power loss is not a
  valid bank code; a SoftDevice or bootloader does not begin with a plausible application vector
  table; an erased record is the debugger's fallback, without CRC. A fault handler's reset
  and a second BLE disconnect are covered by `PowerLoss`. Retry loops on `NO_MEM` append to `todo`.
  A data packet is a page, so one that exceeds the announced size (`dfu_single_bank.c:451`) does
  so with everything received before it.
* `Uf2Session`: whether the USB stack reports completion of a failed WRITE10 is left open; the
  MBR resumes a copy that was cut. The startup timeout may come at any time before the
  first accepted sector, which is more than the code does. Two files of the same geometry
  that are interleaved in one session, without a block that contradicts another, may give a
  mixture of both: `StartsOldOrNew` excludes old and blank bytes in it, not this.
  The staging area of a bootloader (`uf2cfg.h:35`) is disjoint from the application, as the
  guard at `ghostfat.c:471` requires; the boards with `MOTA_QSPI_XIAO_IDENTITY` are built without it.
* `OtaApply`: a hash is equality of cells; the application stages a package above everything
  its record covers, and rewrites a store before it asks for it again; a DFU session installs a whole image
  or nothing (that is `SingleBank`); one staging ceiling. The many result
  codes are two, applied and failed. A decoder that patches a segment reads the moved base at
  the segment's own index: a patch's adjustments (`detools.c:1995`) may read elsewhere, and
  `DecoderReadsItsWrites`, which is about every address, is what covers those. The metadata
  checks before the copy of a bootloader (`ota_delta.c:1612`) refuse no good package.
* `SerialTransport` (`SerialConstants`): a host has fewer packets under way than there are
  slots, and at most two when one of them is refused: `hci_mem_pool_rx_consume` releases
  one buffer too many, or none, when more are queued behind a refused one. nrfutil sends one
  packet at a time. Acknowledgements leave with `tud_cdc_write_flush`, after the USB task.
  Nothing reads the pool after the transport is closed, so the buffers that `data_queue_flush`
  releases then are left out.
* `BleTransport`: a control-point write waits for its response; image and init packet are
  good; the unsigned build, whose START erases and whose INIT answers at once. A controller
  that gets an error while it sends data gives up.
  It enables notifications as soon as a link is up: the reset by a notification that falls
  between the two (`ble_dfu.c:462`) is left out. An init packet that comes after the timer has
  expired leaves the state as it was, where the code has already set `DFU_STATE_RX_INIT_PKT`;
  either way every later packet is refused.
* `SdSwap`: COPY_SD erases its destination, then copies, and is not resumed (`nrf_mbr.h`);
  COPY_BL is resumed by the MBR, so it is one step; a page cut while it is written may hold a
  readable header or not; the device has a SoftDevice (without one the upload fails its
  validation); the updates are those `dfu_image_policy_validate` lets in. `SdSwapConstants`
  bounds the received SoftDevice, `u.sd <= u.base + 2 * (u.base \div 2)`: the swap has three
  blocks, which do for a SoftDevice of about twice the installed one. Those of
  `lib/softdevice` have 37 to 48 pages. No check in the code enforces it, and with an installed one
  of 3 pages and a received one of 6 TLC finds `SourceSurvives` violated.

The other assumptions on constants, which every theorem rests on and TLC evaluates:

* `OtaConstants`: the copy of a bootloader package ends within flash (a static assertion,
  `ota_delta.c:1237`); the cells of images and of packages have different names; an initial
  record that pads its image does so within flash.
* `SingleBankConstants`: a device starts with a whole image or blank pages, and with a record of
  words that no update has left in progress.
* `BleConstants`: image and accumulator are multiples of a word (`dfu_start_packet_validate`; 240 and
  4 in `dfu_transport_ble.c`), and a controller's fragments are not empty. `PoolAssumption`: the pool
  has a buffer.
* `Uf2Constants`: what a well-formed file is (`Numbered`, `GoodApp`, `GoodBoot`: blocks
  numbered without a gap, and an application without a hole that begins with a vector table, or a
  whole bootloader with its UICR block); the data of a block is never called "old", "blank"
  or "mixed". On a device whose application leaves no room to stage a bootloader, a bootloader is
  not a file that has to be accepted.

## 7. What is proved

**`PstorageProofs`** proves for every number of pages, queue size, buffer size and set of
requests, from `PstorageConstants` (the sizes are naturals, the queues not empty) and
`PstorageInputs` (a store is within a page, or in two neighbouring image pages):

* `TypeCorrect`: `Spec => []TypeOK`, in which neither queue overflows;
* `Fifo`: `Spec => []SettledInOrder`, the reports are the accepted requests, each once, in
  order of acceptance.

`SettledInOrder` is not inductive. A request is in one of three places (queue, pending ring,
abort frame of the call stack), and which place holds the older ones depends on flags set
several calls ago. `IInv` adds to `TypeOK`:

* `FlagsInv`: the flags say what the last queued command is, and packets are buffered only
  behind such a command or behind nothing;
* `FifoInv`: the requests accepted and not reported are the queue, then the ring, numbered
  without a gap;
* `AccessInv`: the module waits for the flash only with a command in its queue;
* `AbortInv`: while the packets of a failed erase are reported, they are at the front of the
  ring, only a client's callback runs above that loop, and nothing can be started.

The proof has a lemma per action (`…Step`), lemmas on what pushing and popping the stack and
the queues do, and `NextIInv` that puts them together.

What the flash holds builds on these two: the second part of the module proves, for the same
constants, `NeverMixed` (`NoStoreOnOldImage`), `ReportedStaysInFlash` (`ReportedStoreIsInFlash`),
`NeverStranded` (`NoLostWakeup`) and `Refinement` (`ImplementsContract`). Its invariant `FInv`
says what each part of the module knows about flash:

* `SocInv`, `RoundInv`: the operation the SoftDevice works on is ours exactly when the module
  says so, it is the next of the queue's head, and a clear has wiped the pages of the rounds done;
* `QueueInv`, `BufferInv`, `RequestInv`: a queued command and a buffered packet are what their
  client asked for, and a store is queued only when its pages are erased;
* `LazyInv`, `ErasedInv`: the erased bit tells the truth, in both directions, and the page of
  the lazy erase does not have it.

`NeverStranded` needs `WakeInv` beside it: a command that is queued and not started, or packets
behind an empty queue, have a call below on the stack that will get to them. The refinement maps `Pstorage`'s own history of
accepted and settled requests; each action is shown to be a step of the contract or a stutter.

**`SdSwapProofs`** proves, for every set of updates, geometry, number of power losses and of
bad copies: `TypeCorrect`, `SourceAlwaysSurvives` (`SourceSurvives`) and `FinalizedAlwaysWhole`
(`FinalizedIsWhole`). The copy destroys its source as it goes, so the invariant follows the
place in it: `BlockInv` (the frames of the recursion between two copies), `PlainCopyInv` and
`BlockCopyInv` (what the MBR has written so far), `QuietInv` (elsewhere in the boot). With an overlap
flash is at any time in one of two states: `Early`, nothing of the source is overwritten, and the
second block is in place only if the first is; or `Late`, the third block, which lies over the
source of the first two, is being copied, these two are in place, and the old header is gone, so that
no boot begins again. A power loss leaves one of the two.

**`OtaProofs`** proves for every page size, geometry, set of images and of packages:
`TypeCorrect`, `AlwaysStartsWholeImage` (`StartsWholeImage`), `CacheIsTransparent`
(`DecoderReadsItsWrites`), `PackageNeverTouched` (`PackageUntouched`), `GivesUpOnlyAtCommit`
(`GivesUpAppForGoodPackage`), `NeverRepeated` (`OneAttempt`), `BootloaderAlwaysWhole`
(`BootloaderWhole`). `IInv` has the parts `Shape`, `Described` (a record covers whole
pages, with pieces of an image and padding), `AttemptInv`, `ImageInv` (there is no whole image only
while the record says so), `ChoiceInv`, `RoomInv` (a bootloader is copied above all that the
application needs), `VerifiedInv` (what was verified is still so at the commit point), `HybridInv` and
`CacheInv` (flash and the cached page together are what the decoder wrote). The argument: a header cell is never a piece of an image, so a
package that is found in flash lies above image and record; up to the commit point flash
below it is not written; behind the commit point the record is invalid until the image is
complete.

Its second part proves `GoodPackagesInstall` (`GoodPackageInstalls`) from `IInv` and `InstallInv`: `StagingInv` and `PayloadOk` (a package that was verified and not disturbed is what it
was in whatever store it is read from, through the overlapping compaction), `DecodeOk` with its halves
`Moving` (the base is moved from its end down, so that a page is read before it is overwritten) and
`Making` (page `k` is made from moved base pages that are still there), and `InstallsOk`.

**`SingleBankProofs`** proves, for every image size, both transports, every initial flash and
every combination of faults: `TypeCorrect`, `AlwaysBootsComplete` (`BootsOnlyCompleteImage`),
`SwapAlwaysHasImage` (`SwapHasImage`) and `CompleteIsSaved` (`CompleteMeansSaved`). `IInv` is
`Shape`; `Safe`, what flash and record may be at a power loss; `RestInv` for a device that is not
in DFU; and `SessionInv`, in which the head of the queue of flash operations tells the phase of
the update (`BeforeInv`, `PreparingInv`, then `ValidatedInv` with `FillingInv` or `FinishingInv`). The crux is
the record of the erased bank: an image is accepted only when that record is in flash, because
until then the first page is blank and everything is queued behind it.

**`Uf2Proofs`** proves, for every set of blocks and of good files, of any number of devices:
`TypeCorrect`, `AlwaysStartsOldOrNew` (`StartsOldOrNew`), `BootloaderAlwaysWhole`
(`BootloaderIsWhole`), `ChangesOnlyUnmarked` (`FlashChangesOnlyUnmarked`),
`CompletesOnlyBetweenCommands` (`CompletesBetweenCommands`), `AckedAlwaysInstalled`
(`AckedIsInstalled`), `GoodFileAlwaysAccepted` (`GoodFileAccepted`). The invariants:

* `SInv` = `Shape` and `FlashInv`: the count and the masks of the transfer agree (`Counted`),
  every target that is marked is programmed (`Placed`), a record that marks the application
  valid covers what is in flash (`Marks`), a bootloader that was received is one the policy accepts
  (`Staged`), and a command in progress is one the completion waits for (`CommandInv`);
* `AckedInv`: an acknowledged block has its number in the mask and, with `OneAddress`, its data at
  its address, and every number of the mask stands for a block of the host whose target is marked;
* `GoodInv`: as long as every block so far belongs to a file that is well-formed
  (`could`), the session has nothing that contradicts that file: geometry (`Fits`),
  addresses and data (`AppGood`, `BootGood`), and no cached page of an older transfer
  (`CacheInv`).

`AckedIsInstalled` and `GoodFileAccepted` are not inductive because a refusal is decided by masks
and flash, not by what the host sent; these two invariants tie them together.

**`SerialProofs`** proves, for every number of packets, window, range of sequence numbers, size
of pool and kind of host, from `SerialConstants` and `PoolAssumption`: `TypeCorrect`,
`AlwaysListens` (`ReceiverListens`) and `Refinement` (`ImplementsStream`). Its `IInv` adds to the types:

* `WindowInv`, `LineInv`: host and receiver, and what is on the line between them, are never
  further apart than a window, so three bits of sequence number name one packet;
* `AckInv`: an acknowledgement under way stands for a packet that was taken over, and later ones
  for later packets;
* `PoolInv`: packet `p` is received into buffer `(p - 1) % POOL`, and SLIP holds the buffer of
  the next one; what is out of the pool is less than the pool;
* `QueueInv`, `SlotInv`: the packets not handled are the last ones taken over, without a gap, each
  with its own bytes still in its buffer, in consecutive slots that begin where the handler goes on;
* `LoopInv`: a queued packet has an event that will serve it.

The crux is a packet that is refused: it leaves the ring out of turn, and only the windows of
`SerialConstants` keep the miscount of `Released` from freeing a queued buffer. The refinement
shows each action to be `Take`, `Tell`, `Handle` or a stutter, whereby the repetition of a packet,
or its acknowledgement, is a stutter.

**`BleProofs`** proves, for every size of image, word, accumulator, threshold and pool, every set
of controllers (fragments of any length, receipts after any number) and every number of lost links,
timeouts, failures and restarts, from `BleConstants` and `PoolAssumption`: `TypeCorrect`,
`AlwaysPrefix` (`StreamIsPrefix`) and `ReceivedAlwaysStored` (`ReceivedIsStored`). Its three parts:

* *The data path.* `Takes` says what one packet does, whichever way it goes (`Accumulate`,
  `Direct`): an error is reported, or the bytes received grow by the packet and stay a prefix.
  `accum_append` flushes in a loop, the recursive function `flushed`; `Run` and `Rounds` show what it
  computes by induction on the set of rounds for which it does (`Induction`, from the least
  counterexample), which needs no operator parameter. `Path` joins such steps.
* *The accounts*, `Typed` and `DataInv`. In `Rings` the stores under way have the buffers behind the
  write index, in order, so no buffer is taken while its store runs; once the timer has expired
  every packet is refused and leaves its buffer out of turn, and the pool may only count more
  buffers as out than there are stores. `Stored` says that flash and
  what the stores hold are the bytes given, and `FinalOf` that the last of them has the response;
  together they give `AllStored` when the controller is told.
* *The session*, `Rest`. The bytes under way form a `Chain` from what the device has received to what
  the controller has sent, in events that will be handled as data (`Ready`). That the controller
  continues where the device stands needs more than the chain: at any time at most one thing leads it
  towards the image (`Token`: a step of it, a request for the count or the end of INIT, or the
  answer to it), none of them while data is under way (`Exclusive`), and it fits the state of the
  device (`Staged`, `Asks`). A count that is answered is therefore still exact when it is read,
  and data from before a lost link is never mixed with data of the next. `LinkInv` says what an end of
  the link leaves, `EarlyInv` what is true until INIT is complete.

The properties are not inductive: a prefix is extended only if the next bytes are the
right ones, which depends on what the controller was told, several events ago and perhaps over another
link. TLC checked `Typed`, `DataInv` and the parts of `Rest` on the instance of the run `ble` before they were
proved. A controller that was told of an error is outside of it (`erred`), as in the properties.

Only model-checked: everything under fairness (`EveryRequestSettles`, `SavingEnds`,
`CompletionHappens`, `TransferCompletes`, `TransferEnds`, `UpdateEnds`), since the prover has
neither liveness under fairness nor `ENABLED`.

## 8. Findings

* `validate_while_storing`: `dfu.h:80` says the image is validated "after the transfer has
  completed". `dfu_image_validate` runs once all data is *accepted*; stores may be queued.
  The boot-time CRC is what protects the device then.
* `ota_rejected_keeps_bank`: `README.md:517` says that any failure, base mismatch
  included, leaves the bank invalid. In the trace a device that runs image B with a valid bank
  applies a delta made from image A: the base check (`ota_delta.c:1883`) rejects it, which
  clears the approval and nothing else, and the bank is still valid. That is the better
  behaviour and what the code's comment says (`ota_delta.c:1871`).
  `BaseMismatchInvalidatesBank` is about this case only. The failed `clear_approval` before the
  commit point (`ota_delta.c:1902`) keeps the bank in the same way; without a trigger there is
  no attempt at all.
* `sd_swap_cut`: `dfu_single_bank.c:739` says that the swap in three rounds ensures a correct
  copy "in case power reset occurs during write to flash". The record of the pending update
  is valid only while its `sd_image_start` is where the SoftDevice header in flash says the
  bank begins (`bootloader.c:586`), and the swap replaces that header. A swap by blocks is used
  only when the received SoftDevice ends behind the installed one, so after a cut it is not
  resumed.
* `sd_swap_handoff`: `README.md:1036` says that in a SoftDevice-plus-bootloader update "the MBR
  first copies the replacement bootloader and starts it directly". When the SoftDevice
  moves its end (S140 6.1.1 to 7.x, and back) the settings read as zero once it is in place,
  the bootloader is not copied, and the record is cleared; no fault is needed. An MBR
  error after the header was replaced is swallowed in the same way, which `FinalizedIsWhole`
  excepts.

Observations without a run of their own:

* `dfu.h:95` says that the reset is scheduled "to ensure pending flash operations has
  completed"; `dfu_reset` does not wait, and the SoftDevice is disabled with requests
  queued. `BootsOnlyCompleteImage` holds nevertheless.
* A frame longer than a receive buffer leaves SLIP with its 5-byte buffer
  (`hci_transport.c:560`) until a short frame of another type comes: serial DFU is deaf.
* A link that is lost between `ACTIVATE_N_RESET` and `sd_ble_gap_disconnect` resets the device
  before the image is recorded (`dfu_transport_ble.c:1426`); only the `SECURE_DFU_TEST` build
  tolerates it.
* `offset_calculate` (`dfu_single_bank.c:214`), whose comment asks for an offset that keeps
  the received SoftDevice from overlapping its destination, is called by nobody.

## 9. Not modelled

* Secure DFU (`secure_dfu.c`, `secure_dfu_ble.c`): a test build (`SECURE_DFU_TEST=1`), with an
  object protocol of its own.
* Dual-bank DFU: an optional build whose state machine repeats the single bank's.
* Of the BLE transport: bonding, service changed, MTU and latency policy, directed
  advertising, the signed build's late answer to INIT (`SingleBank` has its flash side). Of the
  serial transport: the sending state machine, which is used for nothing but
  acknowledgements, and the UART variant.
* Serial DFU and the UF2 volume used by the host at the same time: the product of the two
  models is too large, and the code keeps no state about the mixture.
* Register-level drivers (QSPI, SD, UART, screen, LEDs), boards and descriptors; the
  patch format and decompression of detools; the synthesised FAT directory and reads of
  `CURRENT.UF2`; the byte-level checks of headers, signatures and board identity, which are
  pure functions that the unit tests cover and enter the models as accept or reject.
* Vendored code. Most lines of the repository are SoftDevice and CMSIS headers, register
  definitions and SDK drivers that have no behaviour of this program's.
