------------------------------ MODULE MemPool ------------------------------
(***************************************************************************)
(* The receive buffers of hci_mem_pool.c, which the serial and the BLE      *)
(* transport share: a ring.  A buffer is produced (to be filled), extracted *)
(* (handed to the DFU state machine) and consumed.  The bits of free_index  *)
(* are the buffers that are produced and not consumed.                      *)
(***************************************************************************)
EXTENDS Integers

CONSTANT POOL   \* HCI_RX_BUF_QUEUE_SIZE (16)

ASSUME PoolAssumption == POOL \in Nat \ {0}

Buffer == 0 .. (POOL - 1)

After(b) == (b + 1) % POOL

\* hci_mem_pool_open.
EmptyPool ==
    [free_window_count |-> POOL, free_available_count |-> 0, read_available_count |-> 0,
     write_index |-> 0, read_index |-> 0, free_index |-> {}]

CanProduce(q) == q.free_window_count # 0

hci_mem_pool_rx_produce(q) ==
    [q EXCEPT !.free_window_count = @ - 1, !.read_available_count = @ + 1,
              !.free_index = @ \cup {q.write_index}, !.write_index = After(@)]

hci_mem_pool_rx_extract(q) ==
    [q EXCEPT !.read_available_count = @ - 1, !.free_available_count = @ + 1,
              !.read_index = After(@)]

\* Mutant: every buffer that was extracted counts as consumed.
ReleasedAll(q, b) == q.free_available_count

\* How many buffers the consumption of b releases: none while an older one is out; the
\* loop goes on as long as the buffer behind b, which it never leaves, is free.
Released(q, b) ==
    IF (q.read_index - q.free_available_count) % POOL \in q.free_index THEN 0
    ELSE IF After(b) \in q.free_index THEN 1
    ELSE q.free_available_count

hci_mem_pool_rx_consume(q, b) ==
    LET r == [q EXCEPT !.free_index = @ \ {b}] IN
    [r EXCEPT !.free_available_count = @ - Released(r, b),
              !.free_window_count = @ + Released(r, b)]
=============================================================================
