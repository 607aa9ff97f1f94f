--------------------------- MODULE SerialTransport ---------------------------
(***************************************************************************)
(* Serial DFU over USB CDC: the receiving side of the HCI transport         *)
(* (hci_transport.c, hci_slip.c, hci_mem_pool.c) and the packet queue       *)
(* between it and the DFU state machine (dfu_transport_serial.c).           *)
(*                                                                          *)
(* The transport acknowledges a packet before anybody has looked at it.  So *)
(* whatever comes after (a pool of receive buffers, four slots searched     *)
(* from index 0, a scheduler queue) must neither lose nor reorder it: the   *)
(* host will not send it again.                                             *)
(*                                                                          *)
(* Everything runs in the main loop (wait_for_events): the scheduler's      *)
(* events, then the USB task, whose callback decodes frames, then the flush *)
(* of the acknowledgements that were written meanwhile.                     *)
(*                                                                          *)
(* A packet is its number; the last one is STOP_DATA_PACKET.  The host goes *)
(* back to its oldest unacknowledged packet after a timeout, and other      *)
(* programs of the host may write to the port too ("noise").                *)
(***************************************************************************)
EXTENDS MemPool, Sequences, FiniteSets

CONSTANTS
    Last,         \* packets of the transfer, STOP_DATA_PACKET included
    Hosts,        \* hosts: the packets each one sends before it waits (1 for nrfutil), and
                  \* the packets whose type or length rpc_transport_event_handler refuses
    SEQ,          \* sequence numbers (8)
    MAX_BUFFERS,  \* slots of m_data_queue (4)
    SCHED,        \* SCHED_QUEUE_SIZE (30)
    Noise,        \* frames that are no packet: subset of {"invalid", "other", "overlong"}
    MaxNoise,     \* bound: frames of noise
    LineMax       \* bound: frames and acknowledgements on their way

\* A host never has as many packets under way as there are slots, and every one of them
\* has a buffer besides the one that SLIP fills.  The buffer of a refused packet is consumed
\* out of turn, which the pool survives only while one other packet is queued.
ASSUME SerialConstants ==
    /\ Last \in Nat \ {0} /\ SEQ \in Nat \ {0} /\ SCHED \in Nat
    /\ MAX_BUFFERS \in Nat \ {0}
    /\ \A h \in Hosts :
          /\ h.window \in Nat \ {0} /\ h.refused \subseteq 1 .. (Last - 1)
          /\ h.window < MAX_BUFFERS /\ h.window < SEQ /\ h.window < POOL /\ h.window <= SCHED
          /\ h.window <= 2 \/ h.refused = {}
    /\ Noise \subseteq {"invalid", "other", "overlong"}
    /\ MaxNoise \in Nat /\ LineMax \in Nat

Packet == 1 .. Last
Slot == 0 .. (MAX_BUFFERS - 1)
NULL == -1

\* A frame on the line: packet p, or noise.
Frame(kind, p) == [kind |-> kind, p |-> p]

VARIABLES
    host,     \* which host it is; never changes
    base,     \* host: its oldest packet without an acknowledgement
    next,     \* host: the packet it sends next
    line,     \* frames on their way
    acks,     \* acknowledge numbers on their way to the host
    noisy,    \* frames of noise so far
    m_packet_expected_seq_number,
    mp_slip_used_rx_buffer,
    slip,     \* what SLIP decodes into: "pool" (mp_slip_used_rx_buffer) or "ack" (5 bytes)
    outbox,   \* acknowledgements in the CDC FIFO, not flushed yet
    content,  \* the packet each receive buffer holds, 0 for none
    pool,     \* m_rx_buffer_queue
    slots,    \* m_data_queue.data_packet: the buffer, or NULL for INVALID_PACKET
    count,    \* m_data_queue.count
    sched,    \* process_dfu_packet events in the scheduler
    phase,    \* of the main loop: "sched", "process", "usb"; "closed" or, after a fault, "reset"
    index,    \* of process_dfu_packet
    complete, \* dfu_image_activate has succeeded
    taken,    \* history: packets acknowledged
    handled,  \* history: packets the DFU state machine was given
    deafened  \* history: an overlong frame took the receive buffer away

hostVars == <<host, base, next, noisy>>
Window == host.window
Refused == host.refused
linkVars == <<m_packet_expected_seq_number, mp_slip_used_rx_buffer, slip>>
queueVars == <<content, pool, slots, count>>
loopVars == <<sched, phase, index, complete>>
history == <<taken, handled, deafened>>
vars == <<hostVars, line, acks, linkVars, outbox, queueVars, loopVars, history>>

-----------------------------------------------------------------------------
\* hci_transport_open: one buffer is produced and registered.
Init ==
    /\ host \in Hosts
    /\ base = 1 /\ next = 1 /\ line = <<>> /\ acks = <<>> /\ noisy = 0
    /\ m_packet_expected_seq_number = 1 % SEQ
    /\ mp_slip_used_rx_buffer = 0 /\ slip = "pool"
    /\ outbox = <<>>
    /\ content = [b \in Buffer |-> 0]
    /\ pool = hci_mem_pool_rx_produce(EmptyPool)
    /\ slots = [i \in Slot |-> NULL] /\ count = 0
    /\ sched = 0 /\ phase = "sched" /\ index = 0 /\ complete = FALSE
    /\ taken = 0 /\ handled = <<>> /\ deafened = FALSE

-----------------------------------------------------------------------------
(* The host. *)

Room == Len(line) + Len(acks) + Len(outbox) < LineMax

HostSends ==
    /\ Room /\ next <= Last /\ next < base + Window
    /\ line' = Append(line, Frame("packet", next))
    /\ next' = next + 1
    /\ UNCHANGED <<host, base, noisy, acks, linkVars, outbox, queueVars, loopVars, history>>

HostTimeout ==
    /\ base < next
    /\ next' = base
    /\ UNCHANGED <<host, base, noisy, line, acks, linkVars, outbox, queueVars, loopVars, history>>

\* An acknowledgement that names none of the packets under way is ignored.
HostReadsAck ==
    /\ acks # <<>>
    /\ acks' = Tail(acks)
    /\ base' = IF \E k \in base .. (base + Window - 1) : (k + 1) % SEQ = Head(acks)
               THEN CHOOSE k \in (base + 1) .. (base + Window) : k % SEQ = Head(acks)
               ELSE base
    /\ next' = IF next < base' THEN base' ELSE next
    /\ UNCHANGED <<host, noisy, line, linkVars, outbox, queueVars, loopVars, history>>

HostNoise(n) ==
    /\ Room /\ noisy < MaxNoise
    /\ line' = Append(line, Frame(n, 0))
    /\ noisy' = noisy + 1
    /\ UNCHANGED <<host, base, next, acks, linkVars, outbox, queueVars, loopVars, history>>

-----------------------------------------------------------------------------
(* The USB task: tud_cdc_rx_cb, one frame at a time. *)

Receiving(kind, p) ==
    phase = "usb" /\ line # <<>> /\ Head(line) = Frame(kind, p) /\ line' = Tail(line)

Expected(p) == p % SEQ = m_packet_expected_seq_number

ack_transmit(number) == outbox' = Append(outbox, number)

\* SLIP decodes a frame into the registered buffer before anybody checks it.
Decoded(p) == content' = [content EXCEPT ![mp_slip_used_rx_buffer] = p]

\* A packet that does not fit the 5 bytes: HCI_SLIP_RX_OVERFLOW.
ReceiveDeaf(p) ==
    /\ Receiving("packet", p) /\ slip = "ack"
    /\ UNCHANGED <<hostVars, acks, linkVars, outbox, queueVars, loopVars, history>>

\* A repetition: the same buffer is registered again, and the host told what is expected.
ReceiveDuplicate(p) ==
    /\ Receiving("packet", p) /\ slip = "pool" /\ ~Expected(p)
    /\ Decoded(p)
    /\ ack_transmit(m_packet_expected_seq_number)
    /\ UNCHANGED <<hostVars, acks, linkVars, pool, slots, count, loopVars, history>>

\* DATA_QUEUE_FULL.
DataQueueFull == count = MAX_BUFFERS - 1

FreeSlots == {i \in Slot : slots[i] = NULL}

\* Mutant: the search for a free slot ends with the last one.
SlotLast == CHOOSE i \in FreeSlots : \A j \in FreeSlots : j <= i

\* data_queue_element_alloc: the first free slot.
SlotFor == CHOOSE i \in FreeSlots : \A j \in FreeSlots : i <= j

\* rpc_transport_event_handler: the packet at the read index is extracted.  When its type
\* or length is wrong, the scheduler is full or there is no slot, its buffer is consumed.
rpc_transport_event_handler(q, p) ==
    LET wellFormed == p \notin Refused
        scheduled == wellFormed /\ sched < SCHED
        queued == scheduled /\ ~DataQueueFull /\ FreeSlots # {}
        extracted == hci_mem_pool_rx_extract(q)
    IN
    /\ sched' = IF scheduled THEN sched + 1 ELSE sched
    /\ slots' = IF queued THEN [slots EXCEPT ![SlotFor] = q.read_index] ELSE slots
    /\ count' = IF queued THEN count + 1 ELSE count
    /\ pool' = IF queued THEN extracted ELSE hci_mem_pool_rx_consume(extracted, q.read_index)

\* rx_vendor_specific_pkt_type_handle: the packet is acknowledged, SLIP gets the next
\* buffer, or the 5 bytes when there is none, and the packet is reported.
ReceivePacket(p) ==
    /\ Receiving("packet", p) /\ slip = "pool" /\ Expected(p)
    /\ m_packet_expected_seq_number' = (p + 1) % SEQ
    /\ ack_transmit((p + 1) % SEQ)
    /\ Decoded(p)
    /\ mp_slip_used_rx_buffer' = IF CanProduce(pool) THEN pool.write_index ELSE NULL
    /\ slip' = IF CanProduce(pool) THEN "pool" ELSE "ack"
    /\ rpc_transport_event_handler(
          IF CanProduce(pool) THEN hci_mem_pool_rx_produce(pool) ELSE pool, p)
    /\ taken' = taken + 1
    /\ UNCHANGED <<hostVars, acks, phase, index, complete, handled, deafened>>

\* A frame that fails a check of is_rx_pkt_valid.  (It is longer than the 5 bytes.)
ReceiveInvalid ==
    /\ Receiving("invalid", 0)
    /\ IF slip = "pool" THEN Decoded(0) ELSE UNCHANGED content
    /\ UNCHANGED <<hostVars, acks, linkVars, outbox, pool, slots, count, loopVars, history>>

\* A short frame of another type: the buffer is registered again, or a new one produced.
ReceiveOther ==
    /\ Receiving("other", 0)
    /\ IF mp_slip_used_rx_buffer # NULL
       THEN slip' = "pool" /\ UNCHANGED <<mp_slip_used_rx_buffer, pool>>
       ELSE IF CanProduce(pool)
       THEN /\ slip' = "pool" /\ mp_slip_used_rx_buffer' = pool.write_index
            /\ pool' = hci_mem_pool_rx_produce(pool)
       ELSE UNCHANGED <<slip, mp_slip_used_rx_buffer, pool>>
    /\ IF slip = "pool" THEN Decoded(0) ELSE UNCHANGED content
    /\ UNCHANGED <<hostVars, acks, m_packet_expected_seq_number, outbox, slots, count, loopVars>>
    /\ UNCHANGED history

\* A frame longer than a receive buffer: HCI_SLIP_RX_OVERFLOW registers the 5 bytes, and
\* nothing but a short frame of another type brings the buffer back.
ReceiveOverlong ==
    /\ Receiving("overlong", 0)
    /\ slip' = "ack"
    /\ IF slip = "pool" THEN Decoded(0) ELSE UNCHANGED content
    /\ deafened' = TRUE
    /\ UNCHANGED <<hostVars, acks, m_packet_expected_seq_number, mp_slip_used_rx_buffer, outbox>>
    /\ UNCHANGED <<pool, slots, count, loopVars, taken, handled>>

-----------------------------------------------------------------------------
(* The main loop. *)

\* tud_cdc_write_flush, and the loop's exit: dfu_transport_serial_close consumes the
\* buffers of the queue.
UsbTaskEnds ==
    /\ phase = "usb"
    /\ phase' = IF complete THEN "closed" ELSE "sched"
    /\ acks' = acks \o outbox /\ outbox' = <<>>
    /\ slots' = IF complete THEN [i \in Slot |-> NULL] ELSE slots
    /\ count' = IF complete THEN 0 ELSE count
    /\ UNCHANGED <<hostVars, line, linkVars, content, pool, sched, index, complete, history>>

\* app_sched_execute.
NextEvent ==
    /\ phase = "sched"
    /\ phase' = IF sched > 0 THEN "process" ELSE "usb"
    /\ index' = 0
    /\ UNCHANGED <<hostVars, line, acks, linkVars, outbox, queueVars, sched, complete, history>>

Occupied == {i \in Slot : slots[i] # NULL}

\* The rest of this pass over the slots, or else the next pass.
ToVisit ==
    LET rest == {i \in Occupied : i >= index} IN
    IF rest # {} THEN rest ELSE IF count # 0 THEN Occupied ELSE {}

\* The event returns when a pass ends with an empty queue.
EventReturns ==
    /\ phase = "process"
    /\ count = 0 /\ ToVisit = {}
    /\ phase' = "sched" /\ sched' = sched - 1
    /\ UNCHANGED <<hostVars, line, acks, linkVars, outbox, queueVars, index, complete, history>>

\* The packets the DFU state machine must have been given for STOP to be accepted.
Stream(k) == SelectSeq([i \in 1 .. k |-> i], LAMBDA i : i \notin Refused)

\* dfu_image_validate and dfu_image_activate succeed, once.
StopAccepted == ~complete /\ handled = Stream(Last - 1)

\* Mutant: the slot is freed and not counted.
FreeSlotUncounted(i) ==
    /\ slots' = [slots EXCEPT ![i] = NULL]
    /\ pool' = hci_mem_pool_rx_consume(pool, slots[i])
    /\ UNCHANGED <<count, phase>>

\* Mutant: the slot is freed and its buffer is not.
FreeSlotOnly(i) ==
    /\ slots' = [slots EXCEPT ![i] = NULL]
    /\ count' = count - 1
    /\ UNCHANGED <<pool, phase>>

\* data_queue_element_free: a buffer the pool has released already is a fault.
FreeSlot(i) ==
    /\ slots' = [slots EXCEPT ![i] = NULL]
    /\ count' = count - 1
    /\ IF pool.free_available_count = 0
       THEN phase' = "reset" /\ UNCHANGED pool
       ELSE pool' = hci_mem_pool_rx_consume(pool, slots[i]) /\ UNCHANGED phase

\* process_dfu_packet: the next occupied slot.  A STOP that is accepted ends the event
\* and leaves its slot occupied.
HandleSlot ==
    /\ phase = "process"
    /\ \E i \in ToVisit :
          /\ \A j \in ToVisit : i <= j
          /\ handled' = IF content[slots[i]] = Last /\ complete THEN handled
                        ELSE Append(handled, content[slots[i]])
          /\ IF content[slots[i]] = Last /\ StopAccepted
             THEN /\ complete' = TRUE
                  /\ phase' = "sched" /\ sched' = sched - 1
                  /\ UNCHANGED <<slots, count, pool, index>>
             ELSE /\ FreeSlot(i)
                  /\ index' = i + 1
                  /\ UNCHANGED <<complete, sched>>
    /\ UNCHANGED <<hostVars, line, acks, linkVars, outbox, content, taken, deafened>>

Receive ==
    \/ \E p \in Packet : ReceivePacket(p) \/ ReceiveDuplicate(p) \/ ReceiveDeaf(p)
    \/ ReceiveInvalid \/ ReceiveOther \/ ReceiveOverlong

MainLoop == NextEvent \/ HandleSlot \/ EventReturns \/ UsbTaskEnds

Next ==
    \/ HostSends \/ HostTimeout \/ HostReadsAck \/ \E n \in Noise : HostNoise(n)
    \/ Receive \/ MainLoop

Spec == Init /\ [][Next]_vars

\* The main loop goes on; the USB stack delivers what either side wrote; the host sends
\* what is not acknowledged again, each time a little later.
FairSpec ==
    /\ Spec
    /\ WF_vars(MainLoop) /\ SF_vars(Receive) /\ WF_vars(HostReadsAck)
    /\ SF_vars(HostSends) /\ WF_vars(HostTimeout)

-----------------------------------------------------------------------------
(* Properties. *)

\* The types, and the accounts of the ring: every buffer is free, with SLIP, or queued,
\* and count is the number of occupied slots.
TypeOK ==
    /\ base \in 1 .. (Last + 1) /\ next \in base .. (Last + 1)
    /\ m_packet_expected_seq_number \in 0 .. (SEQ - 1)
    /\ mp_slip_used_rx_buffer \in Buffer \cup {NULL}
    /\ content \in [Buffer -> 0 .. Last]
    /\ slots \in [Slot -> Buffer \cup {NULL}]
    /\ count = Cardinality(Occupied) /\ count < MAX_BUFFERS
    /\ pool.free_window_count + pool.free_available_count + pool.read_available_count = POOL
    /\ pool.free_available_count \in 0 .. POOL /\ pool.read_available_count \in 0 .. POOL
    /\ sched \in 0 .. SCHED /\ index \in 0 .. MAX_BUFFERS

\* Packets in the queue, by what their buffers hold, without a STOP that is done.
Waiting == {content[slots[i]] : i \in Occupied} \ (IF complete THEN {Last} ELSE {})

Contract == INSTANCE StreamContract WITH
    refused <- Refused, taken <- taken, told <- base - 1, waiting <- Waiting, handled <- handled

\* The transport takes every packet over once, in order, and hands every packet that it
\* has acknowledged to the DFU state machine in that order, with the bytes it had on the
\* line: no acknowledged packet is dropped for want of a slot, overwritten in its buffer
\* by a later frame, or overtaken in the slots (process_dfu_packet).
ImplementsStream == Contract!Spec

\* SLIP has a full-size receive buffer that no queued packet uses, unless an overlong
\* frame took it away: the pool never runs out (rx_vendor_specific_pkt_type_handle).
ReceiverListens ==
    /\ slip = "pool" \/ deafened
    /\ mp_slip_used_rx_buffer # NULL
    /\ \A i \in Occupied : slots[i] # mp_slip_used_rx_buffer

\* A transfer ends with the activation of the image, whatever is repeated or garbled, if
\* no overlong frame is received.
TransferCompletes == <>(complete \/ deafened)
=============================================================================
