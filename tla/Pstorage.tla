------------------------------ MODULE Pstorage ------------------------------
(***************************************************************************)
(* The raw persistent storage module (pstorage_raw.c): a command queue in   *)
(* front of the SoftDevice flash API, lazy page erasure for the DFU image   *)
(* and a FIFO of packets buffered while a page is being erased.             *)
(*                                                                          *)
(* The module is not reentrant code by accident: its completion callbacks   *)
(* call pstorage_store and pstorage_clear again, and the clients' retry     *)
(* loops call proc_soc, that is the event handler, from inside a callback.  *)
(* "ctl" is therefore the C call stack between two callback points, top     *)
(* first: "callback" is client code, the other frames name the C function   *)
(* (and, for an abort, its snapshot counter) that runs when the frame above *)
(* it returns.                                                              *)
(*                                                                          *)
(* acc, log and flash are the observer: what the clients were promised and  *)
(* told, and what the flash holds: the ids of the stores that are intact on *)
(* a page, and 0 for bytes of the image that was there before the update.   *)
(***************************************************************************)
EXTENDS Integers, Sequences

CONSTANTS
    ImagePages,    \* dfu_image_page_count: pages 0 .. ImagePages-1 are erased lazily
    OtherPages,    \* further pages (bootloader settings), erased by pstorage_clear only
    QueueSize,     \* PSTORAGE_CMD_QUEUE_SIZE
    PendingCount,  \* PENDING_PACKET_COUNT
    Stores,        \* the stores clients ask for
    Clears,        \* the clears clients ask for
    MaxAccept,     \* bound: requests accepted in a behaviour
    MaxForeign     \* bound: flash operations of other SoftDevice users

ASSUME PstorageConstants ==
    /\ ImagePages \in Nat
    /\ OtherPages \in Nat
    /\ QueueSize \in Nat \ {0}
    /\ PendingCount \in Nat \ {0}
    /\ MaxAccept \in Nat
    /\ MaxForeign \in Nat

Pages == 0 .. (ImagePages + OtherPages - 1)
Image == 0 .. (ImagePages - 1)

VARIABLES
    queue,       \* m_cmd_queue: commands, the head is the one in progress
    access,      \* m_cmd_queue.flash_access
    round,       \* m_round_val
    pending,     \* m_pending_packets: buffered stores, oldest first
    lazy,        \* m_lazy_erase_active
    lazyPage,    \* m_lazy_erase_page
    processing,  \* m_processing_pending
    erased,      \* dfu_page_erased
    ctl,         \* frames of the interrupted C calls, innermost first
    soc,         \* the SoftDevice: whose flash operation runs
    foreign,     \* flash operations other users have started
    acc, log, flash

\* The contract sees only the requests, their completions and the flash.
Contract == INSTANCE StoreContract WITH
    Pages <- Pages, Image <- Image, acc <- acc, log <- log, flash <- flash

\* A packet lies in one page or straddles two image pages, and fits a slot of the
\* pending buffer or not; a clear covers one page or several.
ASSUME PstorageInputs ==
    /\ \A r \in Stores :
          /\ r \in Contract!Request /\ r.op = "store"
          /\ r.last = r.first \/ (r.last = r.first + 1 /\ r.last \in Image)
    /\ \A r \in Clears :
          r \in Contract!Request /\ r.op = "clear" /\ r.first <= r.last

driver == <<queue, access, round, pending, lazy, lazyPage, processing, erased>>
vars == <<driver, ctl, soc, foreign, acc, log, flash>>

-----------------------------------------------------------------------------
(* Commands and frames. *)

\* flags: "none", "lazy" (CMD_FLAG_LAZY_ERASE), "pending" (CMD_FLAG_PENDING_STORE);
\* id is the client's request, 0 for an erase that no client asked for.
Command ==
    [op : {"store", "clear"}, flags : {"none", "lazy", "pending"},
     first : Pages, last : Pages, id : Nat]

Packet == [first : Pages, last : Pages, id : Nat \ {0}]

Frames == [f : {"callback", "tail", "dequeue", "pending", "abort"}, n : Nat]
Frame(f) == [f |-> f, n |-> 0]
AbortFrame(n) == [f |-> "abort", n |-> n]

Cmd(op, flags, first, last, id) ==
    [op |-> op, flags |-> flags, first |-> first, last |-> last, id |-> id]

\* Mutant: a command ends with its first flash operation.
RoundsOne(c) == 1

\* SoC flash calls a command takes.  No client stores more than SOC_MAX_WRITE_SIZE
\* bytes, so a store takes one; a clear takes one per page.
Rounds(c) == IF c.op = "store" THEN 1 ELSE c.last - c.first + 1

\* Client code runs: the main loop, or a completion callback.
InClient == ctl # <<>> => Head(ctl).f = "callback"
Running(f) == ctl # <<>> /\ Head(ctl).f = f

\* Mutant: only an erase in progress diverts a store to the pending buffer.
BufferingWhileErasing == lazy

\* Lazy erase, buffered stores and the store taken from the buffer form one FIFO.
Buffering == lazy \/ processing \/ pending # <<>>

Init ==
    /\ queue = <<>>
    /\ access = "idle"
    /\ round = 0
    /\ pending = <<>>
    /\ lazy = FALSE
    /\ lazyPage = 0
    /\ processing = FALSE
    /\ erased = [p \in Image |-> FALSE]
    /\ ctl = <<>>
    /\ soc = "free"
    /\ foreign = 0
    /\ acc = <<>>
    /\ log = <<>>
    /\ flash = [p \in Pages |-> IF p \in Image THEN {0} ELSE {}]

-----------------------------------------------------------------------------
(* The SoftDevice flash API.  It runs one operation at a time; a call made  *)
(* meanwhile returns NRF_ERROR_BUSY, any other call is accepted or refused. *)

SocReturns == IF soc = "free" THEN {"success", "fatal"} ELSE {"busy"}

\* cmd_process: what one attempt to start the queue head leaves behind.
AccessAfter(rc) ==
    IF rc = "success" THEN "in_flight" ELSE IF rc = "busy" THEN "wait_busy" ELSE "idle"
SocAfter(rc) == IF rc = "success" THEN "ours" ELSE soc

cmd_process(rc) ==
    /\ rc \in SocReturns
    /\ access' = AccessAfter(rc)
    /\ soc' = SocAfter(rc)

\* cmd_queue_enqueue of command c, returning ret.  A command refused by the SoC at
\* once is taken off the queue again; BUSY leaves it queued and counts as success.
cmd_queue_enqueue(c, ret) ==
    \/ /\ Len(queue) = QueueSize
       /\ ret = "no_mem"
       /\ UNCHANGED <<queue, access, round, soc>>
    \/ /\ Len(queue) < QueueSize
       /\ queue = <<>> /\ access = "idle"
       /\ \E rc \in SocReturns :
             /\ cmd_process(rc)
             /\ queue' = IF rc = "fatal" THEN <<>> ELSE <<c>>
             /\ round' = IF rc = "fatal" THEN 0 ELSE round
             /\ ret = IF rc = "fatal" THEN "fatal" ELSE "success"
    \/ /\ Len(queue) < QueueSize
       /\ ~(queue = <<>> /\ access = "idle")
       /\ queue' = Append(queue, c)
       /\ ret = "success"
       /\ UNCHANGED <<access, round, soc>>

\* Mutant: a packet that straddles two pages only has its first page checked.
UnerasedFirstOnly(pkt) == {p \in {pkt.first} : p < ImagePages /\ ~erased[p]}

\* lazy_erase_check_and_trigger: the pages of the first and last byte of the packet
\* that must be erased before it may be stored, the first page before the last.
Unerased(pkt) == {p \in {pkt.first, pkt.last} : p < ImagePages /\ ~erased[p]}

\* Mutant: the page of the first byte is erased, needed or not.
ErasePageFirst(pkt) == pkt.first

ErasePage(pkt) == IF pkt.first \in Unerased(pkt) THEN pkt.first ELSE pkt.last

lazy_erase_trigger(pkt, ret) ==
    /\ Unerased(pkt) # {}
    /\ lazyPage' = ErasePage(pkt)
    /\ cmd_queue_enqueue(Cmd("clear", "lazy", ErasePage(pkt), ErasePage(pkt), 0), ret)
    /\ lazy' = (ret = "success")

EnqueueReturns == {"success", "no_mem", "fatal"}

-----------------------------------------------------------------------------
(* pstorage_store and pstorage_clear. *)

NewId == Len(acc) + 1
MayAccept == InClient /\ Len(acc) < MaxAccept

Accepted(r) == acc' = Append(acc, r)
PacketOf(r) == [first |-> r.first, last |-> r.last, id |-> NewId]

\* Mutant: the ring buffer is not checked for room.
pending_packet_add_unchecked(r) ==
    /\ pending' = Append(pending, PacketOf(r))
    /\ Accepted(r)

pending_packet_add(r) ==
    IF Len(pending) < PendingCount /\ r.fits
    THEN /\ pending' = Append(pending, PacketOf(r))
         /\ Accepted(r)
    ELSE UNCHANGED <<pending, acc>>    \* NRF_ERROR_NO_MEM

\* While older packets are buffered, a store joins them.
StoreBuffered(r) ==
    /\ MayAccept
    /\ Buffering
    /\ pending_packet_add(r)
    /\ UNCHANGED <<queue, access, round, lazy, lazyPage, processing, erased>>
    /\ UNCHANGED <<ctl, soc, foreign, log, flash>>

\* The first packet for a page that still holds the old image starts its erasure.
StoreStartsErase(r) ==
    /\ MayAccept
    /\ ~Buffering
    /\ \E ret \in EnqueueReturns :
          /\ lazy_erase_trigger(r, ret)
          /\ IF ret = "success" THEN pending_packet_add(r) ELSE UNCHANGED <<pending, acc>>
    /\ UNCHANGED <<processing, erased, ctl, foreign, log, flash>>

StoreDirect(r) ==
    /\ MayAccept
    /\ ~Buffering
    /\ Unerased(r) = {}
    /\ \E ret \in EnqueueReturns :
          /\ cmd_queue_enqueue(Cmd("store", "none", r.first, r.last, NewId), ret)
          /\ IF ret = "success" THEN Accepted(r) ELSE UNCHANGED acc
    /\ UNCHANGED <<pending, lazy, lazyPage, processing, erased, ctl, foreign, log, flash>>

pstorage_store(r) == StoreBuffered(r) \/ StoreStartsErase(r) \/ StoreDirect(r)

\* A clear is refused (NRF_ERROR_NO_MEM) while packets are buffered.
pstorage_clear(r) ==
    /\ MayAccept
    /\ ~Buffering
    /\ \E ret \in EnqueueReturns :
          /\ cmd_queue_enqueue(Cmd("clear", "none", r.first, r.last, NewId), ret)
          /\ IF ret = "success" THEN Accepted(r) ELSE UNCHANGED acc
    /\ UNCHANGED <<pending, lazy, lazyPage, processing, erased, ctl, foreign, log, flash>>

-----------------------------------------------------------------------------
(* Completions.  app_notify and app_notify_buffered enter client code.      *)

Notify(id, ok) == log' = Append(log, [id |-> id, ok |-> ok])

\* What a flash operation of command c leaves in flash, when it succeeds or fails.
\* An erase that fails may destroy the stores of the page; it is still not blank.
FlashAfter(c, ok) ==
    IF c.op = "store"
    THEN {[p \in Pages |-> IF ok /\ p \in {c.first, c.last}
                           THEN flash[p] \cup {c.id} ELSE flash[p]]}
    ELSE IF ok THEN {[flash EXCEPT ![c.first + round] = {}]}
         ELSE {flash, [flash EXCEPT ![c.first + round] = @ \cap {0}]}

\* pending_packets_abort up to its loop; the loop is the frame.
AbortPending(frames) ==
    /\ lazy' = FALSE
    /\ lazyPage' = 0
    /\ processing' = FALSE
    /\ ctl' = <<AbortFrame(Len(pending))>> \o frames
    /\ UNCHANGED <<pending, log>>

\* cmd_queue_fail_head, then frames.
cmd_queue_fail_head(frames) ==
    /\ queue' = Tail(queue)
    /\ round' = 0
    /\ IF Head(queue).flags # "none"
       THEN AbortPending(frames)
       ELSE /\ Notify(Head(queue).id, FALSE)
            /\ ctl' = <<Frame("callback")>> \o frames
            /\ UNCHANGED <<pending, lazy, lazyPage, processing>>

\* The command at the head has used its last round and succeeded.
Finish ==
    LET c == Head(queue) IN
    /\ queue' = Tail(queue)
    /\ round' = 0
    /\ \/ /\ c.flags = "lazy"
          /\ erased' = [p \in DOMAIN erased |-> erased[p] \/ p = lazyPage]
          /\ lazy' = FALSE
          /\ ctl' = <<Frame("pending"), Frame("tail")>> \o ctl
          /\ UNCHANGED <<pending, processing, log>>
       \/ /\ c.flags = "pending"
          /\ processing' = FALSE
          /\ IF pending = <<>>
             THEN /\ ctl' = <<Frame("tail")>> \o ctl
                  /\ UNCHANGED <<pending, log>>
             ELSE /\ pending' = Tail(pending)
                  /\ Notify(Head(pending).id, TRUE)
                  /\ ctl' = <<Frame("callback"), Frame("tail")>> \o ctl
          /\ UNCHANGED <<lazy, erased>>
       \/ /\ c.flags = "none"
          /\ Notify(c.id, TRUE)
          /\ ctl' = <<Frame("callback"), Frame("tail")>> \o ctl
          /\ UNCHANGED <<pending, lazy, processing, erased>>
    /\ UNCHANGED lazyPage

\* pstorage_sys_event_handler.  The SoftDevice event says how the running operation
\* ended, not whose it was; the handler has only flash_access to tell.
EventEffect(ok) ==
    flash' \in IF soc = "ours" THEN FlashAfter(Head(queue), ok) ELSE {flash}

EventSuccess ==
    /\ InClient
    /\ soc # "free" /\ access = "in_flight"
    /\ soc' = "free"
    /\ access' = "idle"
    /\ EventEffect(TRUE)
    /\ IF round + 1 >= Rounds(Head(queue))
       THEN Finish
       ELSE /\ round' = round + 1
            /\ ctl' = <<Frame("tail")>> \o ctl
            /\ UNCHANGED <<queue, pending, lazy, lazyPage, processing, erased, log>>
    /\ UNCHANGED <<foreign, acc>>

EventError ==
    /\ InClient
    /\ soc # "free" /\ access = "in_flight"
    /\ soc' = "free"
    /\ access' = "idle"
    /\ EventEffect(FALSE)
    /\ cmd_queue_fail_head(<<Frame("dequeue")>> \o ctl)
    /\ UNCHANGED <<erased, foreign, acc>>

\* Mutant: the head is made retryable and not retried.
EventRetryForgotten ==
    /\ InClient
    /\ soc # "free" /\ access = "wait_busy"
    /\ soc' = "free"
    /\ access' = "idle"
    /\ UNCHANGED <<queue, round, pending, lazy, lazyPage, processing, erased>>
    /\ UNCHANGED <<ctl, foreign, acc, log, flash>>

\* After BUSY the event is somebody else's: it only makes the head retryable.
EventRetry ==
    /\ InClient
    /\ soc # "free" /\ access = "wait_busy"
    /\ soc' = "free"
    /\ access' = "idle"
    /\ ctl' = <<Frame("dequeue")>> \o ctl
    /\ UNCHANGED <<queue, round, pending, lazy, lazyPage, processing, erased>>
    /\ UNCHANGED <<foreign, acc, log, flash>>

EventIgnored ==
    /\ InClient
    /\ soc # "free" /\ access = "idle"
    /\ soc' = "free"
    /\ UNCHANGED <<driver, ctl, foreign, acc, log, flash>>

ForeignStart ==
    /\ soc = "free"
    /\ foreign < MaxForeign
    /\ soc' = "foreign"
    /\ foreign' = foreign + 1
    /\ UNCHANGED <<driver, ctl, acc, log, flash>>

-----------------------------------------------------------------------------
(* The frames. *)

\* The client's callback returns.
CallbackReturn ==
    /\ Running("callback")
    /\ ctl' = Tail(ctl)
    /\ UNCHANGED <<driver, soc, foreign, acc, log, flash>>

MayProcessPending == pending # <<>> /\ ~processing /\ ~lazy

\* The end of the success case: next queued command, or next buffered packet.
EventTail ==
    /\ Running("tail")
    /\ ctl' = IF queue # <<>> THEN <<Frame("dequeue")>> \o Tail(ctl)
              ELSE IF MayProcessPending THEN <<Frame("pending")>> \o Tail(ctl)
              ELSE Tail(ctl)
    /\ UNCHANGED <<driver, soc, foreign, acc, log, flash>>

\* One pass of the loop of cmd_queue_dequeue.
DequeueStart ==
    /\ Running("dequeue")
    /\ queue # <<>> /\ access = "idle"
    /\ \E rc \in SocReturns :
          /\ cmd_process(rc)
          /\ IF rc = "fatal"
             THEN cmd_queue_fail_head(ctl)
             ELSE /\ ctl' = Tail(ctl)
                  /\ UNCHANGED <<queue, round, pending, lazy, lazyPage, processing, log>>
    /\ UNCHANGED <<erased, foreign, acc, flash>>

\* Mutant: work that a callback accepted during an abort is not started.
DequeueReturnOnly ==
    /\ Running("dequeue")
    /\ ~(queue # <<>> /\ access = "idle")
    /\ ctl' = Tail(ctl)
    /\ UNCHANGED <<driver, soc, foreign, acc, log, flash>>

DequeueReturn ==
    /\ Running("dequeue")
    /\ ~(queue # <<>> /\ access = "idle")
    /\ ctl' = IF queue = <<>> /\ MayProcessPending
              THEN <<Frame("pending")>> \o Tail(ctl) ELSE Tail(ctl)
    /\ UNCHANGED <<driver, soc, foreign, acc, log, flash>>

\* process_pending_packets.
PendingReturn ==
    /\ Running("pending")
    /\ processing \/ lazy \/ queue # <<>> \/ pending = <<>>
    /\ ctl' = Tail(ctl)
    /\ UNCHANGED <<driver, soc, foreign, acc, log, flash>>

PendingErase ==
    /\ Running("pending")
    /\ ~(processing \/ lazy \/ queue # <<>> \/ pending = <<>>)
    /\ \E ret \in EnqueueReturns :
          \/ /\ ret = "success"
             /\ lazy_erase_trigger(Head(pending), ret)
             /\ ctl' = Tail(ctl)
             /\ UNCHANGED <<pending, processing, log>>
          \/ /\ ret # "success"
             /\ Unerased(Head(pending)) # {}
             /\ cmd_queue_enqueue(
                   Cmd("clear", "lazy", ErasePage(Head(pending)), ErasePage(Head(pending)), 0), ret)
             /\ AbortPending(<<Frame("dequeue")>> \o Tail(ctl))
    /\ UNCHANGED <<erased, foreign, acc, flash>>

PendingStore ==
    /\ Running("pending")
    /\ ~(processing \/ lazy \/ queue # <<>> \/ pending = <<>>)
    /\ Unerased(Head(pending)) = {}
    /\ \E ret \in EnqueueReturns :
          /\ cmd_queue_enqueue(
                Cmd("store", "pending", Head(pending).first, Head(pending).last,
                    Head(pending).id), ret)
          /\ IF ret = "success"
             THEN /\ processing' = TRUE
                  /\ ctl' = Tail(ctl)
                  /\ UNCHANGED <<pending, lazy, lazyPage, log>>
             ELSE AbortPending(<<Frame("dequeue")>> \o Tail(ctl))
    /\ UNCHANGED <<erased, foreign, acc, flash>>

\* The loop of pending_packets_abort: at most n packets, those of the snapshot.
AbortOne ==
    /\ Running("abort")
    /\ Head(ctl).n > 0 /\ pending # <<>>
    /\ pending' = Tail(pending)
    /\ Notify(Head(pending).id, FALSE)
    /\ ctl' = <<Frame("callback"), AbortFrame(Head(ctl).n - 1)>> \o Tail(ctl)
    /\ UNCHANGED <<queue, access, round, lazy, lazyPage, processing, erased>>
    /\ UNCHANGED <<soc, foreign, acc, flash>>

AbortReturn ==
    /\ Running("abort")
    /\ ~(Head(ctl).n > 0 /\ pending # <<>>)
    /\ ctl' = Tail(ctl)
    /\ UNCHANGED <<driver, soc, foreign, acc, log, flash>>

-----------------------------------------------------------------------------
Internal ==
    \/ EventTail \/ DequeueStart \/ DequeueReturn
    \/ PendingReturn \/ PendingErase \/ PendingStore
    \/ AbortOne \/ AbortReturn

proc_soc == EventSuccess \/ EventError \/ EventRetry \/ EventIgnored

\* The clients are done (the bound on requests is used up) and everything is reported.
Drained ==
    /\ Len(acc) = MaxAccept
    /\ ctl = <<>> /\ queue = <<>> /\ ~Buffering
    /\ UNCHANGED vars

Next ==
    \/ \E r \in Stores : pstorage_store(r)
    \/ \E r \in Clears : pstorage_clear(r)
    \/ proc_soc
    \/ ForeignStart
    \/ CallbackReturn
    \/ Internal
    \/ Drained

Spec == Init /\ [][Next]_vars

\* A C call runs to its end, a callback returns, the SoftDevice ends what it started
\* and the main loop collects its event (wait_for_events, proc_sd_task).
Fairness ==
    /\ WF_vars(Internal)
    /\ WF_vars(CallbackReturn)
    /\ WF_vars(proc_soc)

FairSpec == Spec /\ Fairness

-----------------------------------------------------------------------------
(* Properties. *)

\* The types; in particular the command queue and the pending buffer never exceed the
\* arrays of cmd_queue_t and pending_packets_t.
TypeOK ==
    /\ queue \in Seq(Command) /\ Len(queue) <= QueueSize
    /\ access \in {"idle", "in_flight", "wait_busy"}
    /\ round \in Nat
    /\ pending \in Seq(Packet) /\ Len(pending) <= PendingCount
    /\ lazy \in BOOLEAN
    /\ lazyPage \in Nat
    /\ processing \in BOOLEAN
    /\ erased \in [Image -> BOOLEAN]
    /\ ctl \in Seq(Frames)
    /\ soc \in {"free", "ours", "foreign"}
    /\ foreign \in Nat
    /\ acc \in Seq(Contract!Request)
    /\ log \in Seq(Contract!Completion)
    /\ flash \in [Pages -> SUBSET Nat]

\* Every completion callback reports the oldest request that was accepted and not yet
\* reported: no request is reported twice, skipped or overtaken, however stores,
\* clears, errors and callbacks that store again are mixed (pstorage_store's "every
\* later store must join the same pending FIFO", cmd_queue_fail_head's "exactly once").
SettledInOrder ==
    /\ Len(log) <= Len(acc)
    /\ \A i \in 1 .. Len(log) : log[i].id = i

\* A store reported successful is intact in flash on every page it touches, unless a
\* clear of that page was accepted after it: no lazy erase, no retry after BUSY and no
\* event of somebody else's operation loses it.
ReportedStoreIsInFlash ==
    \A i \in 1 .. Len(log) :
        log[i].ok /\ acc[i].op = "store" =>
            \A p \in {acc[i].first, acc[i].last} :
                \/ i \in flash[p]
                \/ \E j \in i + 1 .. Len(acc) : acc[j].op = "clear" /\ p \in Contract!Span(acc[j])

\* No image page ever mixes bytes of the old image with bytes of the new one.
NoStoreOnOldImage ==
    \A p \in Image : 0 \in flash[p] => flash[p] = {0}

\* Accepted work is never left without an event that will drive it: when no C call is
\* running, a non-empty queue has a flash operation to wait for, and buffered packets
\* have a queued command that leads to them (process_pending_packets, "With no flash
\* event left to drive the queue, start that work now").
NoLostWakeup ==
    ctl = <<>> =>
        /\ queue # <<>> =>
              <<access, soc>> \in {<<"in_flight", "ours">>, <<"wait_busy", "foreign">>}
        /\ pending # <<>> => queue # <<>>

\* Every accepted request is eventually reported.
EveryRequestSettles ==
    \A i \in 1 .. MaxAccept : Len(acc) >= i ~> Len(log) >= i

\* The module implements the contract its clients rely on.
ImplementsContract == Contract!Spec
=============================================================================
