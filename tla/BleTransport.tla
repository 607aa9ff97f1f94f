---------------------------- MODULE BleTransport ----------------------------
(***************************************************************************)
(* Legacy DFU over BLE: the transport (dfu_transport_ble.c), its GATT       *)
(* service (ble_dfu.c), and a controller that goes on with a transfer after *)
(* the link was lost.                                                       *)
(*                                                                          *)
(* The controller writes the image in fragments of any length, without      *)
(* responses.  The device reassembles them into words, copies them into     *)
(* receive buffers and gives these to the DFU state machine, whose stores   *)
(* complete later.  What it has not given away when the link is lost is     *)
(* gone; a controller that comes back asks for the number of bytes received *)
(* and continues there.                                                     *)
(*                                                                          *)
(* SoftDevice events are handled in the order in which they occurred, but   *)
(* later: the link may be gone already when a packet that came over it is   *)
(* processed.  A notification then fails, and APP_ERROR_CHECK resets.       *)
(***************************************************************************)
EXTENDS MemPool, Sequences

CONSTANTS
    Size,       \* bytes of the image
    WORD,       \* bytes of a word (4)
    ACCUM,      \* ACCUMULATE_TARGET_SIZE (240)
    THRESHOLD,  \* ACCUMULATE_THRESHOLD (64)
    Peers,      \* controllers: the lengths of the fragments each one writes, and after how
                \* many of them it waits for a receipt (0: never)
    MaxDrops,   \* bound: links lost
    MaxTimeouts,\* bound: expirations of the DFU timer
    MaxFails,   \* bound: flash operations that fail
    MaxEvents   \* bound: events of the SoftDevice not handled yet

\* START's sizes are checked to be word multiples (dfu_start_packet_validate).
ASSUME BleConstants ==
    /\ WORD \in Nat \ {0} /\ Size \in Nat \ {0} /\ Size % WORD = 0
    /\ ACCUM \in Nat \ {0} /\ ACCUM % WORD = 0 /\ THRESHOLD \in Nat
    /\ \A p \in Peers : p.fragments \subseteq Nat \ {0} /\ p.prn \in Nat
    /\ MaxDrops \in Nat /\ MaxTimeouts \in Nat /\ MaxFails \in Nat /\ MaxEvents \in Nat

Image == [i \in 1 .. Size |-> i]
NULL == -1

VARIABLES
    peer,      \* which controller it is; never changes
    pc,        \* controller: what it does next
    began,     \* controller: it has started to write the image
    sent,      \* controller: bytes of the image written
    unread,    \* controller: fragments written since the last receipt
    notes,     \* notifications on their way to the controller
    radio,     \* the SoftDevice: "advertising", "linked" or "idle"
    events,    \* its events that ble_evt_dispatch has not seen
    mode,      \* "dfu"; "leaving" (m_update_status ends the main loop); "fault"; "activated"
    m_conn_handle,    \* TRUE unless BLE_CONN_HANDLE_INVALID
    m_is_advertising,
    m_tear_down_in_progress,
    m_pkt_type,
    rx,        \* what the data path keeps, see NoData
    m_dfu_state,
    m_dfu_timed_out,
    flash,     \* the bytes stored
    drops, timeouts, fails,
    told,      \* history: the controller was told that the image is received
    erred,     \* history: it was told of an error since START
    overrun,   \* history: there was no receive buffer for a packet
    unheard    \* history: the link was lost while ACTIVATE_N_RESET was handled

peerVars == <<peer, pc, began, sent, unread>>
linkVars == <<m_conn_handle, m_is_advertising, m_tear_down_in_progress>>
coreVars == <<m_dfu_state, m_dfu_timed_out>>
faultVars == <<drops, timeouts, fails>>
history == <<told, erred, overrun, unheard>>
vars == <<peerVars, notes, radio, events, mode, linkVars, m_pkt_type, rx, coreVars, flash,
          faultVars, history>>

\* A notification: the procedure, its result, a number of bytes.
Note(proc, result, n) == [proc |-> proc, result |-> result, n |-> n]
Response(proc, result) == Note(proc, result, 0)
NoNote == Response("none", "SUCCESS")

\* The fields of rx: the bytes that count as received, the accumulator, packet receipts,
\* the receive buffers, those whose store is under way, the last one, the bytes that the
\* DFU state machine was given, and the notification that the handler has to send.
NoData ==
    [m_num_of_firmware_bytes_rcvd |-> 0, m_accum_buf |-> <<>>, m_accum_active |-> FALSE,
     m_reported_image_size |-> 0, mp_final_packet |-> NULL,
     m_pkt_rcpt_notif_enabled |-> FALSE, m_pkt_notif_target |-> 0,
     m_pkt_notif_target_cnt |-> 0,
     pool |-> EmptyPool, content |-> [b \in Buffer |-> <<>>], stores |-> <<>>,
     given |-> <<>>, note |-> NoNote]

\* dfu_transport_ble_update_start, in a device that has just started.
Init ==
    /\ peer \in Peers /\ pc = "scan" /\ began = FALSE /\ sent = 0 /\ unread = 0
    /\ notes = <<>> /\ radio = "advertising" /\ events = <<>> /\ mode = "dfu"
    /\ m_conn_handle = FALSE /\ m_is_advertising = TRUE /\ m_tear_down_in_progress = FALSE
    /\ m_pkt_type = "invalid" /\ rx = NoData
    /\ m_dfu_state = "idle" /\ m_dfu_timed_out = FALSE /\ flash = <<>>
    /\ drops = 0 /\ timeouts = 0 /\ fails = 0
    /\ told = FALSE /\ erred = FALSE /\ overrun = FALSE /\ unheard = FALSE

-----------------------------------------------------------------------------
(* The data path: operators on rx. *)

dfu_error_notify(r, error) == [r EXCEPT !.note = Response("receive", error)]

Failed(r) == r.note.result # "SUCCESS"

\* dfu_data_pkt_handle gives NRF_SUCCESS or NRF_ERROR_INVALID_LENGTH (more is expected).
CoreTakes(r, bytes) ==
    /\ m_dfu_state = "rx_data" /\ ~m_dfu_timed_out
    /\ Len(r.given) + Len(bytes) <= Size

Odd(n) == n % WORD # 0

\* A packet that the DFU state machine refuses leaves its buffer out of turn.
aligned_data_process(r, bytes) ==
    LET b == r.pool.write_index
        q == hci_mem_pool_rx_extract(hci_mem_pool_rx_produce(r.pool))
        all == r.given \o bytes
    IN
    IF Len(bytes) = 0 \/ Odd(Len(bytes)) THEN dfu_error_notify(r, "INVALID_LENGTH")
    ELSE IF ~CanProduce(r.pool) THEN dfu_error_notify(r, "NO_MEM")
    ELSE IF ~CoreTakes(r, bytes)
    THEN dfu_error_notify([r EXCEPT !.pool = hci_mem_pool_rx_consume(q, b),
                                    !.content[b] = bytes], "INVALID_STATE")
    ELSE [r EXCEPT !.pool = q, !.content[b] = bytes, !.stores = Append(@, b), !.given = all,
                   !.m_num_of_firmware_bytes_rcvd = @ + Len(bytes),
                   !.mp_final_packet = IF Len(all) = Size THEN b ELSE @]

\* Mutant: the last word is completed with what happens to follow it in the buffer.
Padded(n) == ((n + WORD - 1) \div WORD) * WORD

\* Complete words.
WholeWords(n) == (n \div WORD) * WORD

\* Mutant: a failure leaves the accumulator as it is.
PassOnKept(r, n) ==
    LET s == aligned_data_process(r, SubSeq(r.m_accum_buf, 1, n)) IN
    IF Failed(s) THEN s ELSE [s EXCEPT !.m_accum_buf = SubSeq(@, n + 1, Len(@))]

\* The first n bytes of the accumulator are passed on; a failure empties it.
PassOn(r, n) ==
    LET buf == r.m_accum_buf
        s == aligned_data_process(r, [i \in 1 .. n |-> IF i <= Len(buf) THEN buf[i] ELSE 0])
    IN [s EXCEPT !.m_accum_buf = IF Failed(s) THEN <<>> ELSE SubSeq(buf, n + 1, Len(buf))]

accum_flush(r) ==
    LET n == WholeWords(Len(r.m_accum_buf)) IN IF n = 0 THEN r ELSE PassOn(r, n)

\* The accumulator is flushed each time it is full; a failure ends it.
accum_append(r, bytes) ==
    LET all == r.m_accum_buf \o bytes
        flushed[k \in Nat] ==
            IF k = 0 THEN [r EXCEPT !.m_accum_buf = all]
            ELSE LET s == flushed[k - 1] IN IF Failed(s) THEN s ELSE PassOn(s, ACCUM)
    IN flushed[Len(all) \div ACCUM]

Received(r) == r.m_num_of_firmware_bytes_rcvd + Len(r.m_accum_buf)

\* A packet less until the receipt (16 bits); the receipt, after a flush that succeeded.
CountPacket(r) ==
    IF ~r.m_pkt_rcpt_notif_enabled THEN r
    ELSE LET s == [r EXCEPT !.m_pkt_notif_target_cnt = (@ - 1) % 2 ^ 16]
             t == accum_flush(s)
         IN IF s.m_pkt_notif_target_cnt # 0 THEN s
            ELSE IF Failed(t) THEN t
            ELSE [t EXCEPT !.note = Note("receipt", "SUCCESS", Received(t)),
                           !.m_pkt_notif_target_cnt = t.m_pkt_notif_target]

Accumulate(r, bytes) ==
    LET s == accum_append(r, bytes)
        t == accum_flush(s)
    IN
    IF Failed(s) THEN s
    ELSE IF Received(s) = r.m_reported_image_size
    THEN IF ~Failed(t) /\ t.m_accum_buf # <<>> THEN dfu_error_notify(t, "INVALID_LENGTH") ELSE t
    ELSE CountPacket(s)

Direct(r, bytes) ==
    LET s == aligned_data_process(r, bytes) IN
    IF ~Failed(s) /\ s.m_num_of_firmware_bytes_rcvd < r.m_reported_image_size
    THEN CountPacket(s) ELSE s

\* The first packet decides; an odd fragment at any time turns accumulation on.
Accumulates(r, n) ==
    Odd(n) \/ IF Received(r) = 0 THEN n <= THRESHOLD ELSE r.m_accum_active

app_data_process(r, bytes) ==
    LET n == Len(bytes)
        s == [r EXCEPT !.m_accum_active = Accumulates(r, n)]
    IN
    IF n = 0 \/ Received(r) + n > r.m_reported_image_size THEN dfu_error_notify(r, "DATA_SIZE")
    ELSE IF s.m_accum_active THEN Accumulate(s, bytes) ELSE Direct(s, bytes)

-----------------------------------------------------------------------------
(* The controller. *)

\* What it writes in each step, and the step after that.  The steps that wait for a
\* notification write nothing.
Script ==
    [query      |-> [event |-> "op_count",    next |-> "count_wait"],
     start      |-> [event |-> "op_start",    next |-> "start_pkt"],
     start_pkt  |-> [event |-> "packet",      next |-> "start_wait"],
     init       |-> [event |-> "op_init",     next |-> "init_pkt"],
     init_pkt   |-> [event |-> "packet",      next |-> "init_done"],
     init_done  |-> [event |-> "op_complete", next |-> "init_wait"],
     prn        |-> [event |-> "op_prn",      next |-> "receive"],
     receive    |-> [event |-> "op_receive",  next |-> "data"],
     validate   |-> [event |-> "op_validate", next |-> "validate_wait"],
     activate   |-> [event |-> "op_activate", next |-> "activate_wait"],
     give_back  |-> [event |-> "op_reset",    next |-> "give_wait"]]

Event(kind, bytes) == [kind |-> kind, bytes |-> bytes]

\* A write to the control point is a request: the next one waits for its response.
Answered == \A i \in 1 .. Len(events) : events[i].kind = "packet"

deviceVars == <<mode, linkVars, m_pkt_type, rx, coreVars, flash>>

PeerConnects ==
    /\ pc = "scan" /\ radio = "advertising"
    /\ radio' = "linked" /\ events' = Append(events, Event("connected", <<>>))
    /\ pc' = IF began THEN "query" ELSE "start"
    /\ UNCHANGED <<peer, began, sent, unread, notes, deviceVars, faultVars, history>>

PeerWrites ==
    /\ pc \in DOMAIN Script /\ radio = "linked" /\ Answered
    /\ events' = Append(events, Event(Script[pc].event, <<>>))
    /\ pc' = Script[pc].next
    /\ began' = (began \/ pc = "receive")
    /\ unread' = IF pc = "receive" THEN 0 ELSE unread
    /\ UNCHANGED <<peer, sent, notes, radio, deviceVars, faultVars, history>>

PeerSendsData ==
    /\ pc = "data" /\ radio = "linked" /\ sent < Size /\ Len(events) < MaxEvents
    /\ peer.prn = 0 \/ unread < peer.prn
    /\ \E f \in peer.fragments :
          LET end == IF sent + f < Size THEN sent + f ELSE Size IN
          /\ events' = Append(events, Event("packet", SubSeq(Image, sent + 1, end)))
          /\ sent' = end
    /\ unread' = IF peer.prn = 0 THEN 0 ELSE unread + 1
    /\ UNCHANGED <<peer, pc, began, notes, radio, deviceVars, faultVars, history>>

\* A receipt must be exact.  A controller whose count is 0 starts over; after an error
\* it gives up, or, when it could not start or validate, resets the device first.
AfterNote(note) ==
    IF note.result # "SUCCESS" THEN IF note.proc = "receive" THEN "aborted" ELSE "give_back"
    ELSE CASE note.proc = "receipt" -> IF note.n = sent THEN pc ELSE "confused"
           [] note.proc = "count" ->
                 IF note.n = 0 THEN "start" ELSE IF note.n = Size THEN "validate" ELSE "prn"
           [] note.proc = "start" -> "init"
           [] note.proc = "init" -> "prn"
           [] note.proc = "receive" -> "validate"
           [] note.proc = "validate" -> "activate"

PeerReads ==
    /\ notes # <<>> /\ pc \notin {"aborted", "confused"}
    /\ notes' = Tail(notes)
    /\ LET note == Head(notes) IN
          /\ pc' = AfterNote(note)
          /\ sent' = IF note.proc = "count" THEN note.n
                     ELSE IF note.proc = "init" THEN 0 ELSE sent
          /\ unread' = IF note.proc = "receipt" THEN 0 ELSE unread
          /\ began' = (began /\ pc' \notin {"give_back", "start"})
    /\ UNCHANGED <<peer, radio, events, deviceVars, faultVars, history>>

Peer == PeerConnects \/ PeerWrites \/ PeerSendsData \/ PeerReads

\* What the controller does when the link is gone.
PeerCutOff == pc' = IF pc \in {"done", "aborted", "confused"} THEN pc ELSE "scan"

\* The link is lost; events that occurred before are still to be handled.
LinkLost ==
    /\ radio = "linked" /\ drops < MaxDrops /\ mode # "activated"
    /\ drops' = drops + 1
    /\ radio' = "idle" /\ events' = Append(events, Event("disconnected", <<>>))
    /\ PeerCutOff /\ notes' = <<>>
    /\ UNCHANGED <<peer, began, sent, unread, deviceVars, timeouts, fails, history>>

-----------------------------------------------------------------------------
(* The device. *)

\* ble_evt_dispatch: the oldest event.
Handling(kind) ==
    /\ mode \in {"dfu", "leaving"} /\ events # <<>> /\ Head(events).kind = kind
    /\ UNCHANGED <<peer, faultVars>>

\* dfu_notification_send and the APP_ERROR_CHECK of its result.
Notify(note) ==
    IF note = NoNote THEN UNCHANGED <<notes, mode>>
    ELSE IF m_conn_handle /\ radio = "linked"
    THEN notes' = Append(notes, note) /\ UNCHANGED mode
    ELSE mode' = "fault" /\ UNCHANGED notes

peerState == <<pc, began, sent, unread>>

\* Mutant: the flag that advertising is on is not cleared.
ConnectedStillAdvertising ==
    /\ Handling("connected") /\ events' = Tail(events)
    /\ m_conn_handle' = TRUE
    /\ UNCHANGED <<peerState, notes, radio, mode, m_is_advertising, m_tear_down_in_progress>>
    /\ UNCHANGED <<m_pkt_type, rx, coreVars, flash, history>>

OnConnected ==
    /\ Handling("connected") /\ events' = Tail(events)
    /\ m_conn_handle' = TRUE /\ m_is_advertising' = FALSE
    /\ UNCHANGED <<peerState, notes, radio, mode, m_tear_down_in_progress, m_pkt_type, rx>>
    /\ UNCHANGED <<coreVars, flash, history>>

\* What was not given to the DFU state machine is dropped.  advertising_start does
\* nothing when it believes that advertising is on.
OnDisconnected ==
    /\ Handling("disconnected") /\ events' = Tail(events)
    /\ m_conn_handle' = FALSE
    /\ rx' = [rx EXCEPT !.m_accum_buf = <<>>, !.m_accum_active = FALSE,
                        !.mp_final_packet = NULL]
    /\ IF ~m_tear_down_in_progress /\ ~m_is_advertising
       THEN m_is_advertising' = TRUE /\ radio' = "advertising"
       ELSE UNCHANGED <<m_is_advertising, radio>>
    /\ UNCHANGED <<peerState, notes, mode, m_tear_down_in_progress, m_pkt_type, coreVars, flash>>
    /\ UNCHANGED history

\* start_data_process: the response of a START that is accepted comes with the erasure.
OnStartPacket ==
    /\ Handling("packet") /\ m_pkt_type = "start" /\ events' = Tail(events)
    /\ IF m_dfu_state = "idle" /\ ~m_dfu_timed_out
       THEN /\ m_dfu_state' = "preparing"
            /\ rx' = [rx EXCEPT !.m_reported_image_size = Size]
            /\ erred' = FALSE
            /\ UNCHANGED <<notes, mode>>
       ELSE /\ Notify(Response("start", "INVALID_STATE"))
            /\ UNCHANGED <<m_dfu_state, rx, erred>>
    /\ UNCHANGED <<peerState, radio, linkVars, m_pkt_type, m_dfu_timed_out, flash>>
    /\ UNCHANGED <<told, overrun, unheard>>

OnInitPacket ==
    /\ Handling("packet") /\ m_pkt_type = "init" /\ events' = Tail(events)
    /\ IF m_dfu_state \in {"rdy", "rx_init"} /\ ~m_dfu_timed_out
       THEN m_dfu_state' = "rx_init" /\ UNCHANGED <<notes, mode>>
       ELSE Notify(Response("init", "INVALID_STATE")) /\ UNCHANGED m_dfu_state
    /\ UNCHANGED <<peerState, radio, linkVars, m_pkt_type, rx, m_dfu_timed_out, flash, history>>

OnDataPacket ==
    /\ Handling("packet") /\ m_pkt_type = "data" /\ events' = Tail(events)
    /\ \E r \in {app_data_process(rx, Head(events).bytes)} :
          /\ rx' = [r EXCEPT !.note = NoNote]
          /\ Notify(r.note)
          /\ erred' = (erred \/ Failed(r))
          /\ overrun' = (overrun \/ r.note.result = "NO_MEM")
    /\ UNCHANGED <<peerState, radio, linkVars, m_pkt_type, coreVars, flash, told, unheard>>

\* on_ctrl_pt_write without a link: the CCCD cannot be read, which is an error.
OnCtrlPtUnlinked ==
    /\ \E i \in DOMAIN Script : Handling(Script[i].event) /\ Script[i].event # "packet"
    /\ radio # "linked"
    /\ events' = Tail(events) /\ mode' = "fault"
    /\ UNCHANGED <<peerState, notes, radio, linkVars, m_pkt_type, rx, coreVars, flash, history>>

OnCtrlPt(op) == Handling(op) /\ radio = "linked"

OpPacketType(op, type) ==
    /\ OnCtrlPt(op) /\ events' = Tail(events)
    /\ m_pkt_type' = type
    /\ UNCHANGED <<peerState, notes, radio, mode, linkVars, rx, coreVars, flash, history>>

\* dfu_init_pkt_complete.
OpInitComplete ==
    /\ OnCtrlPt("op_complete") /\ events' = Tail(events)
    /\ m_pkt_type' = "init"
    /\ m_dfu_state' = IF m_dfu_state = "rx_init" THEN "rx_data" ELSE m_dfu_state
    /\ Notify(Response("init", IF m_dfu_state = "rx_init" THEN "SUCCESS" ELSE "INVALID_STATE"))
    /\ UNCHANGED <<peerState, radio, linkVars, rx, m_dfu_timed_out, flash, history>>

OpPacketReceipts ==
    /\ OnCtrlPt("op_prn") /\ events' = Tail(events)
    /\ rx' = IF peer.prn = 0
             THEN [rx EXCEPT !.m_pkt_rcpt_notif_enabled = FALSE, !.m_pkt_notif_target = 0]
             ELSE [rx EXCEPT !.m_pkt_rcpt_notif_enabled = TRUE,
                             !.m_pkt_notif_target = peer.prn,
                             !.m_pkt_notif_target_cnt = peer.prn]
    /\ UNCHANGED <<peerState, notes, radio, mode, linkVars, m_pkt_type, coreVars, flash, history>>

\* The count of BLE_DFU_BYTES_RECEIVED_SEND.
OpBytesReceived ==
    /\ OnCtrlPt("op_count") /\ events' = Tail(events)
    /\ Notify(Note("count", "SUCCESS", Received(rx)))
    /\ UNCHANGED <<peerState, radio, linkVars, m_pkt_type, rx, coreVars, flash, history>>

\* dfu_image_validate: a failure leaves the state machine in VALIDATE.  It reads what is
\* in flash, whether or not the stores are done.
OpValidate ==
    /\ OnCtrlPt("op_validate") /\ events' = Tail(events)
    /\ LET received == m_dfu_state = "rx_data" /\ Len(rx.given) = Size
           good == received /\ ~m_dfu_timed_out /\ flash = Image
       IN
       /\ m_dfu_state' = IF good THEN "wait_activate"
                         ELSE IF received THEN "validate" ELSE m_dfu_state
       /\ Notify(Response("validate", IF good THEN "SUCCESS" ELSE "FAILED"))
    /\ UNCHANGED <<peerState, radio, linkVars, m_pkt_type, rx, m_dfu_timed_out, flash, history>>

\* dfu_transport_ble_close: a link that is gone, or came up, unnoticed is an error.
\* after: the events that remain; ending: the mode when all goes well.
dfu_transport_ble_close(after, ending) ==
    /\ m_tear_down_in_progress' = TRUE
    /\ IF m_conn_handle /\ radio = "linked"
       THEN /\ radio' = "idle" /\ events' = Append(after, Event("disconnected", <<>>))
            /\ mode' = ending /\ UNCHANGED m_is_advertising
       ELSE IF ~m_conn_handle /\ (m_is_advertising => radio = "advertising")
       THEN /\ radio' = "idle" /\ m_is_advertising' = FALSE
            /\ mode' = ending /\ events' = after
       ELSE mode' = "fault" /\ events' = after /\ UNCHANGED <<radio, m_is_advertising>>

OpActivate ==
    /\ OnCtrlPt("op_activate")
    /\ dfu_transport_ble_close(Tail(events),
          IF m_dfu_state = "wait_activate" THEN "activated" ELSE "leaving")
    /\ pc' = "done"
    /\ UNCHANGED <<began, sent, unread, notes, m_conn_handle, m_pkt_type, rx, coreVars, flash>>
    /\ UNCHANGED history

\* The link is lost between the response to the write and sd_ble_gap_disconnect.
OpActivateUnheard ==
    /\ mode \in {"dfu", "leaving"} /\ events # <<>> /\ Head(events).kind = "op_activate"
    /\ radio = "linked" /\ drops < MaxDrops
    /\ drops' = drops + 1
    /\ radio' = "idle" /\ notes' = <<>> /\ events' = Tail(events)
    /\ m_tear_down_in_progress' = TRUE
    /\ mode' = "fault" /\ unheard' = TRUE /\ pc' = "done"
    /\ UNCHANGED <<peer, began, sent, unread, m_conn_handle, m_is_advertising, m_pkt_type, rx>>
    /\ UNCHANGED <<coreVars, flash, timeouts, fails, told, erred, overrun>>

OpSysReset ==
    /\ OnCtrlPt("op_reset")
    /\ dfu_transport_ble_close(Tail(events), "leaving") /\ PeerCutOff
    /\ UNCHANGED <<began, sent, unread, notes, m_conn_handle, m_pkt_type, rx, coreVars, flash>>
    /\ UNCHANGED history

HandleEvent ==
    \/ OnConnected \/ OnDisconnected
    \/ OnStartPacket \/ OnInitPacket \/ OnDataPacket
    \/ OnCtrlPtUnlinked
    \/ OpPacketType("op_start", "start") \/ OpPacketType("op_init", "init")
    \/ OpPacketType("op_receive", "data")
    \/ OpInitComplete \/ OpPacketReceipts \/ OpBytesReceived \/ OpValidate
    \/ OpActivate \/ OpSysReset

\* The erasure that START asked for is done: dfu_cb_handler(START_PACKET).
EraseDone ==
    /\ mode \in {"dfu", "leaving"} /\ m_dfu_state = "preparing"
    /\ m_dfu_state' = "rdy" /\ flash' = <<>>
    /\ Notify(Response("start", "SUCCESS"))
    /\ UNCHANGED <<peerVars, radio, events, linkVars, m_pkt_type, rx, m_dfu_timed_out>>
    /\ UNCHANGED <<faultVars, history>>

\* Mutant: the response is due as soon as everything is received.
FinalReceived(b) == Len(rx.given) = Size

\* The store that the response waits for.
Final(b) == b = rx.mp_final_packet

\* dfu_cb_handler(DATA_PACKET) for buffer b: it is consumed, which fails when the pool has
\* released it already, and the end of the transfer is reported.
DataStored(b) ==
    IF rx.pool.free_available_count = 0
    THEN mode' = "fault" /\ rx' = [rx EXCEPT !.stores = Tail(@)] /\ UNCHANGED <<notes, told>>
    ELSE /\ rx' = [rx EXCEPT !.stores = Tail(@), !.pool = hci_mem_pool_rx_consume(@, b)]
         /\ Notify(IF Final(b) THEN Response("receive", "SUCCESS") ELSE NoNote)
         /\ told' = (told \/ (Final(b) /\ mode' # "fault"))

\* The oldest store is done, with what its buffer holds now.  The transport hears of it
\* only while data is received: VALIDATE may have come before.
StoreDone ==
    /\ mode \in {"dfu", "leaving"} /\ rx.stores # <<>>
    /\ flash' = flash \o rx.content[Head(rx.stores)]
    /\ IF m_dfu_state = "rx_data" THEN DataStored(Head(rx.stores))
       ELSE rx' = [rx EXCEPT !.stores = Tail(@)] /\ UNCHANGED <<notes, mode, told>>
    /\ UNCHANGED <<peerVars, radio, events, linkVars, m_pkt_type, coreVars, faultVars>>
    /\ UNCHANGED <<erred, overrun, unheard>>

\* A flash operation fails: the transport's answer, or its disconnection, does not leave
\* the device before the APP_ERROR_CHECK of pstorage_callback_handler.
FlashFails ==
    /\ mode \in {"dfu", "leaving"} /\ fails < MaxFails
    /\ rx.stores # <<>> \/ m_dfu_state = "preparing"
    /\ fails' = fails + 1
    /\ mode' = "fault"
    /\ UNCHANGED <<peerVars, notes, radio, events, linkVars, m_pkt_type, rx, coreVars, flash>>
    /\ UNCHANGED <<drops, timeouts, history>>

\* dfu_timeout_handler.
DfuTimeout ==
    /\ mode = "dfu" /\ timeouts < MaxTimeouts
    /\ timeouts' = timeouts + 1
    /\ m_dfu_timed_out' = TRUE
    /\ dfu_transport_ble_close(events, "leaving")
    /\ IF radio' # radio /\ radio = "linked" THEN PeerCutOff ELSE UNCHANGED pc
    /\ UNCHANGED <<peer, began, sent, unread, notes, m_conn_handle, m_pkt_type, rx>>
    /\ UNCHANGED <<m_dfu_state, flash, drops, fails, history>>

\* The device starts again.  The old application is gone, so that it comes back to DFU
\* mode; the controller finds it there.
Restart ==
    /\ mode \in {"fault", "leaving"}
    /\ mode' = "dfu" /\ radio' = "advertising" /\ events' = <<>> /\ notes' = <<>>
    /\ m_conn_handle' = FALSE /\ m_is_advertising' = TRUE /\ m_tear_down_in_progress' = FALSE
    /\ m_pkt_type' = "invalid" /\ rx' = NoData
    /\ m_dfu_state' = "idle" /\ m_dfu_timed_out' = FALSE
    /\ told' = FALSE /\ erred' = FALSE
    /\ PeerCutOff
    /\ UNCHANGED <<peer, began, sent, unread, flash, faultVars, overrun, unheard>>

Next ==
    \/ Peer \/ LinkLost \/ HandleEvent \/ OpActivateUnheard
    \/ EraseDone \/ StoreDone \/ FlashFails \/ DfuTimeout \/ Restart

Spec == Init /\ [][Next]_vars

\* The controller goes on, the main loop handles events, and flash operations end.
FairSpec ==
    /\ Spec
    /\ WF_vars(Peer) /\ WF_vars(HandleEvent) /\ WF_vars(EraseDone) /\ WF_vars(StoreDone)
    /\ WF_vars(Restart)

-----------------------------------------------------------------------------
(* Properties. *)

\* The types; and the accounts of the data path: what counts as received is what the DFU
\* state machine has, and while data is received a receive buffer is out exactly as long
\* as its store is.
TypeOK ==
    /\ radio \in {"advertising", "linked", "idle"}
    /\ mode \in {"dfu", "leaving", "fault", "activated"}
    /\ sent \in 0 .. Size
    /\ m_pkt_type \in {"invalid", "start", "init", "data"}
    /\ rx.m_num_of_firmware_bytes_rcvd = Len(rx.given)
    /\ Len(rx.m_accum_buf) < ACCUM
    /\ rx.pool.read_available_count = 0
    /\ m_dfu_state = "rx_data" =>
          rx.pool.free_index = {rx.stores[i] : i \in 1 .. Len(rx.stores)}
    /\ rx.mp_final_packet \in Buffer \cup {NULL}

\* The DFU state machine is given the image from its first byte on, without a gap, a
\* repetition or padding, through any cut of the stream into fragments and any loss of
\* the link, as long as no error was reported (accum_append, accum_flush, the count of
\* BLE_DFU_BYTES_RECEIVED_SEND and what DISCONNECTED drops).
StreamIsPrefix == erred \/ \A i \in 1 .. Len(rx.given) : rx.given[i] = Image[i]

\* The controller is told that the image is received only when every byte of it is in
\* flash: the final response belongs to the last store, and no receive buffer was reused
\* before its store was done (mp_final_packet, dfu_cb_handler).
ReceivedIsStored == told /\ ~erred => flash = Image

\* A transfer ends with the activation of the image although links are lost and timers
\* expire, unless packets overran the receive buffers or the link was lost just while
\* the activation was handled: the device is always found again, no lost response makes
\* the controller wait for ever, and what is resumed is accepted.
TransferEnds == <>(mode = "activated" \/ overrun \/ unheard)
=============================================================================
