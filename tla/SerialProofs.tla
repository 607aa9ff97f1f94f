---------------------------- MODULE SerialProofs ----------------------------
(***************************************************************************)
(* Proofs about the serial transport, for every size of the pool, number of *)
(* slots and of sequence numbers, and every host: the link implements       *)
(* StreamContract, and SLIP never runs out of receive buffers.              *)
(***************************************************************************)
EXTENDS SerialTransport, PoolProofs, FiniteSetTheorems, SequenceTheorems

-----------------------------------------------------------------------------
(* The inductive invariant.  Packet p is received into buffer (p - 1) % POOL, since every *)
(* packet taken over has SLIP produce one more buffer.                                    *)

BufferOf(p) == (p - 1) % POOL

\* The pool when t packets were taken over, f buffers are out, and the packets H hold one.
PoolRec(t, f, H) ==
    Ring(POOL - 1 - f, f, 1, BufferOf(t + 2), BufferOf(t + 1), {BufferOf(p) : p \in H \cup {t + 1}})

\* The buffers that are not released, and the oldest packet that has one.
Out == pool.free_available_count
Oldest == taken + 1 - Out

\* The packets since then that were not refused.
Held(t, f) == ((t + 1 - f) .. t) \ Refused

Queued == {content[slots[i]] : i \in Occupied}

FrameType == [kind : {"packet", "invalid", "other", "overlong"}, p : 0 .. Last]

Typed ==
    /\ host \in Hosts
    /\ base \in Nat /\ next \in Nat /\ taken \in Nat
    /\ line \in Seq(FrameType) /\ acks \in Seq(Nat) /\ outbox \in Seq(Nat)
    /\ slip \in {"pool", "ack"}
    /\ content \in [Buffer -> 0 .. Last]
    /\ slots \in [Slot -> Buffer \cup {NULL}]
    /\ count \in Nat /\ sched \in 0 .. SCHED /\ index \in 0 .. MAX_BUFFERS
    /\ phase \in {"sched", "process", "usb", "closed"}
    /\ complete \in BOOLEAN /\ deafened \in BOOLEAN

\* The host and the receiver are never further apart than a window.
WindowInv ==
    /\ 1 <= base /\ base <= taken + 1 /\ taken < base + Window /\ taken <= Last
    /\ base <= next /\ next <= Last + 1 /\ next <= base + Window
    /\ m_packet_expected_seq_number = (taken + 1) % SEQ

IsPacket(f) == f.kind = "packet"

\* A packet on the line was sent when its window had not moved on: neither the receiver nor
\* a packet before it is a window ahead.
LineInv ==
    \A i \in 1 .. Len(line) : IsPacket(line[i]) =>
        /\ 1 <= line[i].p /\ line[i].p < base + Window /\ taken < line[i].p + Window
        /\ \A j \in 1 .. (i - 1) : IsPacket(line[j]) => line[j].p < line[i].p + Window

\* Acknowledgements A stand for numbers from b to t, and do not decrease.
Means(A, b, t) == \A i \in 1 .. Len(A) : \E k \in b .. t : A[i] = k % SEQ
Ordered(A, b, t) ==
    \A i, j \in 1 .. Len(A) : \A k, l \in b .. t :
        i < j /\ A[i] = k % SEQ /\ A[j] = l % SEQ => k <= l

\* The receiver is in the USB task and takes packets over.
Taking == phase = "usb" /\ ~complete

AckInv ==
    /\ Means(acks \o outbox, base, taken + 1) /\ Ordered(acks \o outbox, base, taken + 1)
    /\ phase # "usb" => outbox = <<>>
    /\ Taking => Means(acks, base, Oldest)

PoolInv ==
    /\ Out \in 0 .. Window
    /\ pool = PoolRec(taken, Out, Held(taken, Out))
    /\ Out # 0 => Oldest \notin Refused
    /\ mp_slip_used_rx_buffer = BufferOf(taken + 1)
    /\ slip = "pool" \/ deafened
    /\ Taking => base <= Oldest

\* The queue: the packets not handled, in the order of the slots, each in its own buffer.
QueueInv ==
    /\ count <= Out
    /\ phase # "closed" => Queued = Held(taken, Out)
    /\ phase = "closed" => Occupied = {}
    /\ \A i \in Occupied : slots[i] = BufferOf(content[slots[i]])
    /\ \A i, j \in Occupied : i < j => content[slots[i]] < content[slots[j]]
    /\ complete => taken = Last /\ Queued \subseteq {Last}

\* The slots in use are count many from some first one; it is 0 where packets are queued,
\* and not before index where they are handled.
SlotsFrom(k) ==
    /\ Occupied = k .. (k + count - 1) /\ k + count <= MAX_BUFFERS
    /\ phase = "process" => index <= k
    /\ phase \in {"sched", "usb"} /\ ~complete => k = 0
SlotInv == \E k \in Nat : SlotsFrom(k)

LoopInv ==
    /\ phase = "process" => sched > 0
    /\ Taking => sched = count
    /\ phase = "sched" /\ ~complete /\ count # 0 => sched > 0

IInv == Typed /\ WindowInv /\ LineInv /\ AckInv /\ PoolInv /\ QueueInv /\ SlotInv /\ LoopInv

-----------------------------------------------------------------------------
(* The pool. *)

LEMMA Buffers ==
    ASSUME NEW p \in Int
    PROVE  /\ BufferOf(p) \in Buffer /\ BufferOf(p) # NULL
           /\ After(BufferOf(p)) = BufferOf(p + 1)
           /\ \A q \in Int : p - q < POOL /\ q - p < POOL /\ BufferOf(p) = BufferOf(q) => p = q
<1>1. POOL \in Nat \ {0}
  BY PoolAssumption
<1> DEFINE x == p - 1
<1>2. x \in Int /\ BufferOf(p) = x % POOL
  BY DEF BufferOf
<1>3. x % POOL \in Buffer /\ x % POOL # NULL
  <2> HIDE DEF x
  <2>1. PICK q \in Int : x = q * POOL + (x % POOL) /\ x % POOL \in 0 .. (POOL - 1)
    BY <1>1, <1>2, DivMod
  <2> QED BY <1>1, <2>1 DEF Buffer, NULL
<1>4. After(BufferOf(p)) = BufferOf(p + 1)
  <2>1. ((x % POOL) + 1) % POOL = (x + 1) % POOL
    <3> DEFINE c == 1
    <3>1. c \in Int
      OBVIOUS
    <3> HIDE DEF x, c
    <3>2. ((x % POOL) + c) % POOL = (x + c) % POOL
      BY <1>1, <1>2, <3>1, RestOfSum
    <3> QED BY <3>2 DEF c
  <2>2. x + 1 = (p + 1) - 1
    OBVIOUS
  <2> QED BY <1>2, <2>1, <2>2 DEF After, BufferOf
<1>5. ASSUME NEW q \in Int, p - q < POOL, q - p < POOL, BufferOf(p) = BufferOf(q) PROVE p = q
  <2> DEFINE y == q - 1
  <2>1. y \in Int /\ BufferOf(q) = y % POOL
    BY DEF BufferOf
  <2>2. x - y < POOL /\ y - x < POOL
    BY <1>1, <1>5
  <2>3. x = y
    BY <1>1, <1>2, <1>5, <2>1, <2>2, SameRest
  <2> QED BY <2>3
<1> QED BY <1>2, <1>3, <1>4, <1>5

Holding(H) == {BufferOf(p) : p \in H}

LEMMA PoolFields ==
    ASSUME NEW t \in Int, NEW f \in Int, NEW H \in SUBSET Int
    PROVE  LET q == PoolRec(t, f, H) IN
           /\ q \in PoolType
           /\ q.free_window_count = POOL - 1 - f /\ q.free_available_count = f
           /\ q.read_available_count = 1
           /\ q.write_index = BufferOf(t + 2) /\ q.read_index = BufferOf(t + 1)
           /\ q.free_index = Holding(H \cup {t + 1})
<1> DEFINE F == Holding(H \cup {t + 1})
           w == POOL - 1 - f
           x == BufferOf(t + 2)
           y == BufferOf(t + 1)
           one == 1
<1>1. w \in Int /\ x \in Int /\ y \in Int /\ one \in Int
  BY PoolAssumption, Buffers DEF Buffer
<1>2. F \in SUBSET Int
  BY PoolAssumption, Buffers DEF Buffer, Holding
<1>3. PoolRec(t, f, H) = Ring(w, f, one, x, y, F)
  BY DEF PoolRec, Holding
<1> HIDE DEF F, w, x, y, one
<1>4. LET q == Ring(w, f, one, x, y, F) IN
           /\ q \in PoolType
           /\ q.free_window_count = w /\ q.free_available_count = f /\ q.read_available_count = one
           /\ q.write_index = x /\ q.read_index = y /\ q.free_index = F
  BY <1>1, <1>2, RingTyped
<1> QED BY <1>3, <1>4, Zenon DEF F, w, x, y, one

LEMMA IsPoolRec ==
    ASSUME NEW t \in Int, NEW f \in Int, NEW H, NEW q \in PoolType,
           q.free_window_count = POOL - 1 - f, q.free_available_count = f,
           q.read_available_count = 1,
           q.write_index = BufferOf(t + 2), q.read_index = BufferOf(t + 1),
           q.free_index = Holding(H \cup {t + 1})
    PROVE  q = PoolRec(t, f, H)
<1>1. q = Ring(POOL - 1 - f, f, 1, BufferOf(t + 2), BufferOf(t + 1), Holding(H \cup {t + 1}))
  <2>1. q = Ring(q.free_window_count, q.free_available_count, q.read_available_count,
                 q.write_index, q.read_index, q.free_index)
    BY IsRing
  <2> QED BY <2>1, Zenon
<1> QED BY <1>1, Zenon DEF PoolRec, Holding

\* A packet is taken over: its buffer goes out, and SLIP gets the next one.
LEMMA Extracted ==
    ASSUME NEW t \in Nat, NEW f \in Nat, NEW H \in SUBSET Int
    PROVE  LET q == hci_mem_pool_rx_produce(PoolRec(t, f, H)) IN
           /\ f < POOL - 1 => CanProduce(PoolRec(t, f, H))
           /\ PoolRec(t, f, H).write_index = BufferOf(t + 2)
           /\ q.read_index = BufferOf(t + 1)
           /\ hci_mem_pool_rx_extract(q) = PoolRec(t + 1, f + 1, H \cup {t + 1})
<1> DEFINE r == PoolRec(t, f, H)
           q == hci_mem_pool_rx_produce(r)
           s == hci_mem_pool_rx_extract(q)
           K == H \cup {t + 1}
<1>1. POOL \in Nat /\ POOL > 0
  BY PoolAssumption
<1>2. (t + 1) + 1 = t + 2 /\ (t + 1) + 2 = t + 3 /\ (t + 2) + 1 = t + 3
  OBVIOUS
<1>3. Holding(K) \cup {BufferOf(t + 2)} = Holding(K \cup {(t + 1) + 1})
  BY <1>2 DEF Holding
<1>4. After(BufferOf(t + 1)) = BufferOf(t + 2) /\ After(BufferOf(t + 2)) = BufferOf(t + 3)
  BY <1>2, Buffers
<1>5. /\ r \in PoolType
      /\ r.free_window_count = POOL - 1 - f /\ r.free_available_count = f
      /\ r.read_available_count = 1
      /\ r.write_index = BufferOf(t + 2) /\ r.read_index = BufferOf(t + 1)
      /\ r.free_index = Holding(K)
  BY PoolFields
<1> HIDE DEF r, K
<1>6. /\ q \in PoolType
      /\ q.free_window_count = (POOL - 1 - f) - 1 /\ q.free_available_count = f
      /\ q.read_available_count = 1 + 1
      /\ q.write_index = BufferOf(t + 3) /\ q.read_index = BufferOf(t + 1)
      /\ q.free_index = Holding(K \cup {(t + 1) + 1})
  BY <1>3, <1>4, <1>5, ProduceRing
<1> HIDE DEF q
<1>7. /\ s \in PoolType
      /\ s.free_window_count = POOL - 1 - (f + 1) /\ s.free_available_count = f + 1
      /\ s.read_available_count = 1
      /\ s.write_index = BufferOf((t + 1) + 2) /\ s.read_index = BufferOf((t + 1) + 1)
      /\ s.free_index = Holding(K \cup {(t + 1) + 1})
  <2>1. (POOL - 1 - f) - 1 = POOL - 1 - (f + 1) /\ (1 + 1) - 1 = 1
    BY <1>1
  <2> QED BY <1>2, <1>4, <1>6, <2>1, ExtractRing
<1> HIDE DEF s
<1>8. s = PoolRec(t + 1, f + 1, K)
  BY <1>7, IsPoolRec
<1>9. f < POOL - 1 => CanProduce(r)
  BY <1>1, <1>5 DEF CanProduce
<1> QED BY <1>5, <1>6, <1>8, <1>9 DEF r, q, s, K

\* A buffer comes back.  It is released with the ones behind it when it is the oldest.
LEMMA Consumed ==
    ASSUME NEW t \in Nat, NEW f \in Nat, 0 < f, f < POOL,
           NEW H \in SUBSET ((t + 1 - f) .. t), NEW p \in (t + 1 - f) .. t
    PROVE  LET lo == t + 1 - f
               s == hci_mem_pool_rx_consume(PoolRec(t, f, H), BufferOf(p))
           IN /\ p # lo /\ lo \in H => s = PoolRec(t, f, H \ {p})
              /\ p = lo /\ lo + 1 \in H \cup {t + 1} => s = PoolRec(t, f - 1, H \ {p})
              /\ p = lo /\ lo + 1 \notin H \cup {t + 1} => s = PoolRec(t, 0, H \ {p})
<1> DEFINE lo == t + 1 - f
           q == PoolRec(t, f, H)
           b == BufferOf(p)
           s == hci_mem_pool_rx_consume(q, b)
           K == (H \ {p}) \cup {t + 1}
           r == PoolRec(t, f, H \ {p})
           n == IF p # lo /\ lo \in H THEN 0 ELSE IF lo + 1 \in H \cup {t + 1} THEN 1 ELSE f
<1>1. POOL \in Nat /\ POOL > 0 /\ t \in Int /\ f \in Int /\ lo \in Int /\ p \in Int
  BY PoolAssumption
<1>2. H \in SUBSET Int /\ H \ {p} \in SUBSET Int /\ K \in SUBSET Int
  OBVIOUS
<1>3. ASSUME NEW x \in lo .. (t + 1) PROVE BufferOf(x) \in Holding(K) <=> x \in K
  <2>1. ASSUME NEW y \in K, BufferOf(x) = BufferOf(y) PROVE x = y
    <3>1. y \in Int /\ x \in Int /\ x - y < POOL /\ y - x < POOL
      BY <1>1
    <3> QED BY <2>1, <3>1, Buffers
  <2> QED BY <2>1 DEF Holding
<1>4. Holding(H \cup {t + 1}) \ {b} = Holding(K)
  <2>1. b \notin Holding(K)
    BY <1>1, <1>3
  <2>2. H \cup {t + 1} = K \cup (H \cap {p})
    OBVIOUS
  <2> HIDE DEF K
  <2> QED BY <2>1, <2>2 DEF Holding
<1>5. /\ q \in PoolType
      /\ q.free_window_count = POOL - 1 - f /\ q.free_available_count = f
      /\ q.read_available_count = 1
      /\ q.write_index = BufferOf(t + 2) /\ q.read_index = BufferOf(t + 1)
      /\ q.free_index = Holding(H \cup {t + 1})
  BY <1>1, <1>2, PoolFields
<1>6. /\ r \in PoolType
      /\ r.free_window_count = POOL - 1 - f /\ r.free_available_count = f
      /\ r.read_available_count = 1
      /\ r.write_index = BufferOf(t + 2) /\ r.read_index = BufferOf(t + 1)
      /\ r.free_index = Holding(K)
  BY <1>1, <1>2, PoolFields
<1>7. (r.read_index - r.free_available_count) % POOL = BufferOf(lo)
  <2>1. BufferOf(t + 1) = t % POOL /\ BufferOf(lo) = (t - f) % POOL
    <3>1. (t + 1) - 1 = t /\ lo - 1 = t - f
      BY <1>1
    <3> QED BY <3>1 DEF BufferOf
  <2>2. ((t % POOL) + (-f)) % POOL = (t + (-f)) % POOL
    <3>1. -f \in Int /\ POOL \in Nat \ {0}
      BY <1>1
    <3> QED BY <1>1, <3>1, RestOfSum
  <2>3. t % POOL \in Int
    BY <1>1
  <2>4. (t % POOL) + (-f) = (t % POOL) - f /\ t + (-f) = t - f
    BY <1>1, <2>3
  <2> QED BY <1>6, <2>1, <2>2, <2>4
<1>8. After(b) = BufferOf(p + 1)
  BY <1>1, Buffers
<1> HIDE DEF q, r, K
<1>9. BufferOf(lo) \in r.free_index <=> p # lo /\ lo \in H
  BY <1>1, <1>3, <1>6 DEF K
<1>10. p = lo => (After(b) \in r.free_index <=> lo + 1 \in H \cup {t + 1})
  BY <1>1, <1>3, <1>6, <1>8 DEF K
<1>11. CASE p # lo /\ lo \notin H
  BY <1>11
<1>12. CASE p = lo \/ lo \in H
  <2>1. Released(r, b) = n
    <3> HIDE DEF b, lo
    <3>1. CASE p # lo
      BY <1>6, <1>7, <1>9, <1>12, <3>1 DEF Released
    <3>2. CASE p = lo
      BY <1>6, <1>7, <1>9, <1>10, <3>2 DEF Released
    <3> QED BY <3>1, <3>2
  <2>2. n \in Int
    BY <1>1
  <2>n. /\ p # lo /\ lo \in H => n = 0
        /\ p = lo /\ lo + 1 \in H \cup {t + 1} => n = 1
        /\ p = lo /\ lo + 1 \notin H \cup {t + 1} => n = f
    OBVIOUS
  <2> HIDE DEF n, lo, b
  <2>3. /\ s \in PoolType
        /\ s.free_window_count = (POOL - 1 - f) + n
        /\ s.free_available_count = f - n
        /\ s.read_available_count = 1
        /\ s.write_index = BufferOf(t + 2) /\ s.read_index = BufferOf(t + 1)
        /\ s.free_index = Holding(K)
    <3>1. /\ r.free_available_count = q.free_available_count /\ r.read_index = q.read_index
          /\ r.free_window_count = q.free_window_count /\ r.write_index = q.write_index
          /\ r.read_available_count = q.read_available_count
          /\ r.free_index = q.free_index \ {b}
      BY <1>4, <1>5, <1>6, Zenon
    <3>0. q \in PoolType /\ r \in PoolType
      BY <1>5, <1>6
    <3>2. /\ s \in PoolType
          /\ s.free_window_count = q.free_window_count + n
          /\ s.free_available_count = q.free_available_count - n
          /\ s.read_available_count = q.read_available_count
          /\ s.write_index = q.write_index /\ s.read_index = q.read_index
          /\ s.free_index = q.free_index \ {b}
      BY <2>1, <2>2, <3>0, <3>1, ConsumeRing
    <3> QED BY <1>4, <1>5, <3>2, Zenon
  <2> HIDE DEF s
  <2>4. (POOL - 1 - f) + n = POOL - 1 - (f - n) /\ f - n \in Int
    BY <1>1, <2>2
  <2>5. s = PoolRec(t, f - n, H \ {p})
    BY <1>1, <2>3, <2>4, IsPoolRec DEF K
  <2>6. f - 0 = f /\ f - f = 0
    OBVIOUS
  <2> QED BY <2>5, <2>6, <2>n DEF s, q, b, lo
<1> QED BY <1>11, <1>12

-----------------------------------------------------------------------------
(* The host. *)

LEMMA Constants ==
    /\ Last \in Nat /\ Last > 0 /\ SEQ \in Nat \ {0} /\ POOL \in Nat \ {0}
    /\ MAX_BUFFERS \in Nat /\ MAX_BUFFERS > 0 /\ SCHED \in Nat
    /\ Noise \subseteq {"invalid", "other", "overlong"}
  BY PoolAssumption, SerialConstants

LEMMA HostFacts ==
    ASSUME host \in Hosts
    PROVE  /\ Window \in Nat /\ Window > 0 /\ Window < MAX_BUFFERS /\ Window < SEQ /\ Window < POOL
           /\ Window <= SCHED /\ (Window <= 2 \/ Refused = {})
           /\ Refused \subseteq 1 .. (Last - 1)
  BY SerialConstants DEF Window, Refused

queueSide == <<host, linkVars, queueVars, loopVars, taken, deafened>>

\* What the host does alone leaves the receiver as it is.
LEMMA ReceiverSame ==
    ASSUME IInv, UNCHANGED queueSide, base' \in Nat, Taking => base' <= Oldest
    PROVE  PoolInv' /\ QueueInv' /\ SlotInv' /\ LoopInv'
<1>1. /\ host' = host /\ m_packet_expected_seq_number' = m_packet_expected_seq_number
      /\ mp_slip_used_rx_buffer' = mp_slip_used_rx_buffer /\ slip' = slip
      /\ content' = content /\ pool' = pool /\ slots' = slots /\ count' = count
      /\ sched' = sched /\ phase' = phase /\ index' = index /\ complete' = complete
      /\ taken' = taken /\ deafened' = deafened
  BY DEF queueSide, linkVars, queueVars, loopVars
<1>2. Out' = Out /\ Oldest' = Oldest /\ Window' = Window /\ Refused' = Refused
      /\ Occupied' = Occupied /\ Queued' = Queued /\ Taking' = Taking
  BY <1>1 DEF Out, Oldest, Window, Refused, Occupied, Queued, Taking
<1>3. Held(taken, Out)' = Held(taken, Out)
  BY <1>1, <1>2 DEF Held
<1>4. PoolInv'
  BY <1>1, <1>2, <1>3 DEF IInv, PoolInv, BufferOf
<1>5. QueueInv'
  BY <1>1, <1>2, <1>3 DEF IInv, QueueInv, BufferOf
<1>6. SlotInv'
  BY <1>1, <1>2 DEF IInv, SlotInv, SlotsFrom
<1>7. LoopInv'
  BY <1>1, <1>2 DEF IInv, LoopInv
<1> QED BY <1>4, <1>5, <1>6, <1>7

LEMMA InitInv == Init => IInv
<1> SUFFICES ASSUME Init PROVE IInv
  OBVIOUS
<1> USE DEF Init
<1>1. Window \in Nat /\ Window > 0
  BY HostFacts
<1>2. BufferOf(1) = 0 /\ BufferOf(2) = 1 % POOL
  <2>1. 1 - 1 = 0 /\ 2 - 1 = 1
    OBVIOUS
  <2>2. 0 % POOL = 0
    BY PoolAssumption
  <2> QED BY <2>1, <2>2 DEF BufferOf
<1>3. pool = PoolRec(0, 0, {})
  <2> DEFINE e == EmptyPool
  <2>1. /\ e \in PoolType /\ e.free_window_count = POOL /\ e.free_available_count = 0
        /\ e.read_available_count = 0 /\ e.write_index = 0 /\ e.read_index = 0 /\ e.free_index = {}
    BY PoolAssumption DEF EmptyPool, PoolType
  <2>2. pool = hci_mem_pool_rx_produce(e)
    OBVIOUS
  <2> HIDE DEF e, Init
  <2>3. /\ pool \in PoolType /\ pool.free_window_count = POOL - 1 /\ pool.free_available_count = 0
        /\ pool.read_available_count = 0 + 1 /\ pool.write_index = After(0) /\ pool.read_index = 0
        /\ pool.free_index = {} \cup {0}
    BY <2>1, <2>2, ProduceRing
  <2>4. Holding({} \cup {0 + 1}) = {BufferOf(1)}
    BY DEF Holding
  <2>5. After(0) = BufferOf(2)
    BY <1>2 DEF After
  <2> DEFINE z == 0
  <2>6. /\ z \in Int /\ pool.free_window_count = POOL - 1 - z /\ pool.free_available_count = z
        /\ pool.read_available_count = 1 /\ pool.write_index = BufferOf(z + 2)
        /\ pool.read_index = BufferOf(z + 1) /\ pool.free_index = Holding({} \cup {z + 1})
    BY PoolAssumption, <1>2, <2>3, <2>4, <2>5
  <2> HIDE DEF z
  <2>7. pool = PoolRec(z, z, {})
    BY <2>3, <2>6, IsPoolRec
  <2> QED BY <2>7 DEF z
<1>4. Out = 0 /\ Oldest = 1 /\ Held(taken, Out) = {} /\ Occupied = {} /\ Queued = {}
  <2>1. Out = 0
    <3> DEFINE z == 0
               q == PoolRec(z, z, {})
    <3>1. z \in Int
      OBVIOUS
    <3>2. pool = q
      BY <1>3
    <3> HIDE DEF z
    <3>3. q.free_available_count = z
      BY <3>1, PoolFields
    <3> QED BY <3>2, <3>3 DEF Out, z
  <2> QED BY <2>1 DEF Oldest, Held, Occupied, Queued
<1>5. Typed
  <2>1. content \in [Buffer -> 0 .. Last] /\ slots \in [Slot -> Buffer \cup {NULL}]
    BY Constants DEF Slot, NULL, Buffer
  <2>2. line \in Seq(FrameType) /\ acks \in Seq(Nat) /\ outbox \in Seq(Nat)
    OBVIOUS
  <2>3. sched \in 0 .. SCHED /\ index \in 0 .. MAX_BUFFERS
    BY Constants
  <2> QED BY <2>1, <2>2, <2>3 DEF Typed
<1>6. WindowInv
  BY Constants, <1>1 DEF WindowInv
<1>7. LineInv
  BY DEF LineInv
<1>8. AckInv
  <2>1. acks \o outbox = <<>>
    BY DEF Init
  <2> QED BY <2>1 DEF AckInv, Means, Ordered, Taking
<1>9. PoolInv
  <2>1. taken + 1 = 1 /\ taken = 0
    OBVIOUS
  <2>2. pool = PoolRec(taken, Out, Held(taken, Out))
    BY <1>3, <1>4, <2>1, Zenon
  <2>3. mp_slip_used_rx_buffer = BufferOf(taken + 1)
    BY <1>2, <2>1
  <2> QED BY <1>1, <1>4, <2>2, <2>3 DEF PoolInv, Taking
<1>10. QueueInv
  BY <1>4 DEF QueueInv
<1>11. SlotInv
  <2>1. SlotsFrom(0)
    BY <1>4, Constants DEF SlotsFrom
  <2> QED BY <2>1 DEF SlotInv
<1>12. LoopInv
  BY DEF LoopInv, Taking
<1> QED BY <1>5, <1>6, <1>7, <1>8, <1>9, <1>10, <1>11, <1>12 DEF IInv

\* One more frame on the line: LineInv.
LEMMA LineAppend ==
    ASSUME NEW f \in FrameType, Typed, WindowInv, LineInv, line' = Append(line, f),
           UNCHANGED <<host, base, taken>>,
           f.kind = "packet" => base <= f.p /\ f.p < base + Window
    PROVE  LineInv' /\ line' \in Seq(FrameType)
<1>1. line \in Seq(FrameType) /\ Len(line) \in Nat /\ base \in Nat /\ taken \in Nat /\ f.p \in Nat
      /\ Window \in Nat /\ Window > 0 /\ Window' = Window
  BY HostFacts, Constants DEF Typed, FrameType, Window
<1>2. /\ line' \in Seq(FrameType) /\ Len(line') = Len(line) + 1
      /\ \A i \in 1 .. Len(line) : line'[i] = line[i]
      /\ line'[Len(line) + 1] = f
  BY <1>1
<1>3. ASSUME NEW i \in 1 .. Len(line'), IsPacket(line'[i])
      PROVE  /\ 1 <= line'[i].p /\ line'[i].p < base' + Window' /\ taken' < line'[i].p + Window'
             /\ \A j \in 1 .. (i - 1) : IsPacket(line'[j]) => line'[j].p < line'[i].p + Window'
  <2>1. CASE i <= Len(line)
    <3>1. i \in 1 .. Len(line) /\ line'[i] = line[i]
      BY <1>1, <1>2, <2>1
    <3>2. \A j \in 1 .. (i - 1) : line'[j] = line[j]
      BY <1>1, <1>2, <2>1
    <3> QED BY <1>1, <1>3, <3>1, <3>2 DEF LineInv, IsPacket
  <2>2. CASE i = Len(line) + 1
    <3>1. line'[i] = f /\ f.kind = "packet"
      BY <1>2, <1>3, <2>2 DEF IsPacket
    <3>2. ASSUME NEW j \in 1 .. (i - 1), IsPacket(line'[j]) PROVE line'[j].p < f.p + Window
      <4>0. j \in 1 .. Len(line) /\ line'[j] = line[j] /\ line[j] \in FrameType
        BY <1>1, <1>2, <2>2
      <4>1. j \in 1 .. Len(line) /\ line'[j] = line[j] /\ line[j].p \in Nat
        BY <4>0, Constants DEF FrameType
      <4>2. line[j].p < base + Window
        BY <3>2, <4>1 DEF LineInv
      <4> QED BY <1>1, <3>1, <4>1, <4>2
    <3>3. 1 <= f.p /\ f.p < base + Window /\ taken < f.p + Window
      BY <1>1, <3>1 DEF WindowInv
    <3> QED BY <1>1, <3>1, <3>2, <3>3
  <2> QED BY <1>1, <1>2, <2>1, <2>2
<1>4. LineInv'
  BY <1>3 DEF LineInv, IsPacket
<1> QED BY <1>2, <1>4

LEMMA AckSame ==
    ASSUME AckInv, UNCHANGED <<acks, outbox, base, taken, phase, complete, pool>>
    PROVE  AckInv'
<1>1. Oldest' = Oldest /\ Taking' = Taking
  BY DEF Oldest, Out, Taking
<1>2. /\ Means(acks \o outbox, base, taken + 1)' /\ Ordered(acks \o outbox, base, taken + 1)'
      /\ (phase # "usb" => outbox = <<>>)'
  BY DEF AckInv, Means, Ordered
<1>3. Taking' => Means(acks, base, Oldest)'
  BY <1>1 DEF AckInv, Means
<1> QED BY <1>2, <1>3 DEF AckInv

LEMMA HostSendsInv == IInv /\ HostSends => IInv'
<1> SUFFICES ASSUME IInv, HostSends PROVE IInv'
  OBVIOUS
<1>1. /\ next <= Last /\ next < base + Window
      /\ line' = Append(line, Frame("packet", next)) /\ next' = next + 1
      /\ UNCHANGED <<host, base, noisy, acks, linkVars, outbox, queueVars, loopVars, history>>
  BY DEF HostSends
<1>2. /\ host' = host /\ base' = base /\ acks' = acks /\ outbox' = outbox /\ taken' = taken
      /\ UNCHANGED <<linkVars, queueVars, loopVars, deafened>>
  BY <1>1 DEF history
<1>3. Typed /\ WindowInv /\ LineInv /\ AckInv /\ PoolInv
  BY DEF IInv
<1>4. base \in Nat /\ next \in Nat /\ taken \in Nat /\ Window \in Nat /\ Window > 0 /\ Last \in Nat
  BY <1>3, HostFacts, Constants DEF Typed
<1>5. LineInv' /\ line' \in Seq(FrameType)
  <2> DEFINE f == Frame("packet", next)
  <2>1. f \in FrameType /\ f.p = next
    BY <1>1, <1>4 DEF Frame, FrameType
  <2>2. base <= f.p /\ f.p < base + Window
    BY <1>1, <1>3, <2>1 DEF WindowInv
  <2> HIDE DEF f
  <2> QED BY <1>1, <1>2, <1>3, <2>1, <2>2, LineAppend DEF f
<1>6. Typed'
  BY <1>1, <1>2, <1>3, <1>4, <1>5 DEF Typed, queueVars, loopVars, linkVars
<1>7. WindowInv'
  BY <1>1, <1>2, <1>3, <1>4 DEF WindowInv, Window, linkVars
<1>8. AckInv'
  BY <1>2, <1>3, AckSame DEF queueVars, loopVars
<1>9. PoolInv' /\ QueueInv' /\ SlotInv' /\ LoopInv'
  <2>1. UNCHANGED queueSide
    BY <1>2 DEF queueSide
  <2>2. Taking => base' <= Oldest
    BY <1>2, <1>3 DEF PoolInv
  <2> QED BY <1>2, <1>4, <2>1, <2>2, ReceiverSame
<1> QED BY <1>5, <1>6, <1>7, <1>8, <1>9 DEF IInv

LEMMA HostTimeoutInv == IInv /\ HostTimeout => IInv'
<1> SUFFICES ASSUME IInv, HostTimeout PROVE IInv'
  OBVIOUS
<1>1. /\ base < next /\ next' = base
      /\ UNCHANGED <<host, base, noisy, line, acks, linkVars, outbox, queueVars, loopVars, history>>
  BY DEF HostTimeout
<1>2. /\ host' = host /\ base' = base /\ acks' = acks /\ outbox' = outbox /\ taken' = taken
      /\ line' = line /\ UNCHANGED <<linkVars, queueVars, loopVars, deafened>>
  BY <1>1 DEF history
<1>3. Typed /\ WindowInv /\ LineInv /\ AckInv /\ PoolInv
  BY DEF IInv
<1>4. base \in Nat /\ next \in Nat /\ taken \in Nat /\ Window \in Nat /\ Window > 0 /\ Last \in Nat
  BY <1>3, HostFacts, Constants DEF Typed
<1>5. LineInv'
  BY <1>2, <1>3 DEF LineInv, Window
<1>6. Typed'
  BY <1>1, <1>2, <1>3, <1>4 DEF Typed, queueVars, loopVars, linkVars
<1>7. WindowInv'
  BY <1>1, <1>2, <1>3, <1>4 DEF WindowInv, Window, linkVars
<1>8. AckInv'
  BY <1>2, <1>3, AckSame DEF queueVars, loopVars
<1>9. PoolInv' /\ QueueInv' /\ SlotInv' /\ LoopInv'
  <2>1. UNCHANGED queueSide
    BY <1>2 DEF queueSide
  <2>2. Taking => base' <= Oldest
    BY <1>2, <1>3 DEF PoolInv
  <2> QED BY <1>2, <1>4, <2>1, <2>2, ReceiverSame
<1> QED BY <1>5, <1>6, <1>7, <1>8, <1>9 DEF IInv

LEMMA HostNoiseInv == ASSUME IInv, NEW n \in Noise, HostNoise(n) PROVE IInv'
<1>1. /\ line' = Append(line, Frame(n, 0))
      /\ UNCHANGED <<host, base, next, acks, linkVars, outbox, queueVars, loopVars, history>>
  BY DEF HostNoise
<1>2. /\ host' = host /\ base' = base /\ next' = next /\ acks' = acks /\ outbox' = outbox
      /\ taken' = taken /\ UNCHANGED <<linkVars, queueVars, loopVars, deafened>>
  BY <1>1 DEF history
<1>3. Typed /\ WindowInv /\ LineInv /\ AckInv /\ PoolInv
  BY DEF IInv
<1>4. base \in Nat /\ next \in Nat /\ taken \in Nat /\ Window \in Nat /\ Window > 0 /\ Last \in Nat
  BY <1>3, HostFacts, Constants DEF Typed
<1>5. LineInv' /\ line' \in Seq(FrameType)
  <2> DEFINE f == Frame(n, 0)
  <2>1. f \in FrameType /\ f.kind # "packet"
    BY <1>4, Constants DEF Frame, FrameType
  <2> HIDE DEF f
  <2> QED BY <1>1, <1>2, <1>3, <2>1, LineAppend DEF f
<1>6. Typed'
  BY <1>1, <1>2, <1>3, <1>4, <1>5 DEF Typed, queueVars, loopVars, linkVars
<1>7. WindowInv'
  BY <1>1, <1>2, <1>3, <1>4 DEF WindowInv, Window, linkVars
<1>8. AckInv'
  BY <1>2, <1>3, AckSame DEF queueVars, loopVars
<1>9. PoolInv' /\ QueueInv' /\ SlotInv' /\ LoopInv'
  <2>1. UNCHANGED queueSide
    BY <1>2 DEF queueSide
  <2>2. Taking => base' <= Oldest
    BY <1>2, <1>3 DEF PoolInv
  <2> QED BY <1>2, <1>4, <2>1, <2>2, ReceiverSame
<1> QED BY <1>5, <1>6, <1>7, <1>8, <1>9 DEF IInv

-----------------------------------------------------------------------------
(* Acknowledgements. *)

LEMMA OneMeaning ==
    ASSUME NEW b \in Int, NEW t \in Int, t - b < SEQ, NEW k \in b .. t, NEW l \in b .. t,
           k % SEQ = l % SEQ
    PROVE  k = l
<1>1. k \in Int /\ l \in Int /\ k - l < SEQ /\ l - k < SEQ
  BY Constants
<1> QED BY <1>1, Constants, SameRest

LEMMA TailOf ==
    ASSUME NEW S, NEW A \in Seq(S), A # <<>>
    PROVE  /\ Tail(A) \in Seq(S) /\ Len(A) \in Nat /\ Len(A) > 0 /\ Len(Tail(A)) = Len(A) - 1
           /\ Head(A) = A[1] /\ Head(A) \in S
           /\ \A i \in 1 .. (Len(A) - 1) : Tail(A)[i] = A[i + 1]
  OBVIOUS

\* The first acknowledgement is read: none behind it means less.
LEMMA AckRead ==
    ASSUME NEW A \in Seq(Nat), A # <<>>, NEW b \in Nat, NEW t \in Nat, NEW o \in Nat, o <= t,
           Means(A, b, o), Ordered(A, b, t), NEW k \in b .. t, A[1] = k % SEQ
    PROVE  Means(Tail(A), k, o)
<1>1. /\ Len(A) \in Nat /\ Len(Tail(A)) = Len(A) - 1
      /\ \A i \in 1 .. (Len(A) - 1) : Tail(A)[i] = A[i + 1]
  BY TailOf
<1>2. ASSUME NEW i \in 1 .. Len(Tail(A)) PROVE \E l \in k .. o : Tail(A)[i] = l % SEQ
  <2>1. i + 1 \in 1 .. Len(A) /\ 1 \in 1 .. Len(A) /\ 1 < i + 1 /\ Tail(A)[i] = A[i + 1]
    BY <1>1
  <2>2. PICK l \in b .. o : A[i + 1] = l % SEQ
    BY <2>1 DEF Means
  <2>3. l \in b .. t
    OBVIOUS
  <2>4. k <= l
    BY <2>1, <2>2, <2>3 DEF Ordered
  <2> QED BY <2>1, <2>2, <2>4
<1> QED BY <1>2 DEF Means

LEMMA AckReadOrdered ==
    ASSUME NEW A \in Seq(Nat), A # <<>>, NEW b \in Nat, NEW t \in Nat,
           Ordered(A, b, t), NEW k \in b .. t
    PROVE  Ordered(Tail(A), k, t)
<1>1. /\ Len(A) \in Nat /\ Len(Tail(A)) = Len(A) - 1
      /\ \A i \in 1 .. (Len(A) - 1) : Tail(A)[i] = A[i + 1]
  BY TailOf
<1>2. ASSUME NEW i \in 1 .. Len(Tail(A)), NEW j \in 1 .. Len(Tail(A)), NEW m \in k .. t, NEW l \in k .. t,
             i < j, Tail(A)[i] = m % SEQ, Tail(A)[j] = l % SEQ
      PROVE  m <= l
  <2>1. /\ i + 1 \in 1 .. Len(A) /\ j + 1 \in 1 .. Len(A) /\ i + 1 < j + 1
        /\ A[i + 1] = m % SEQ /\ A[j + 1] = l % SEQ /\ m \in b .. t /\ l \in b .. t
    BY <1>1, <1>2
  <2> QED BY <2>1 DEF Ordered
<1> QED BY <1>2 DEF Ordered

\* One more acknowledgement, for the packet expected now.
LEMMA AckAppend ==
    ASSUME NEW A \in Seq(Nat), NEW b \in Nat, NEW t \in Nat, NEW u \in Nat, b <= u, t <= u,
           u - b < SEQ, Means(A, b, t), Ordered(A, b, t), NEW e, e = u % SEQ
    PROVE  Means(Append(A, e), b, u) /\ Ordered(Append(A, e), b, u)
<1> DEFINE B == Append(A, e)
<1>1. /\ Len(A) \in Nat /\ Len(B) = Len(A) + 1 /\ B[Len(A) + 1] = e
      /\ \A i \in 1 .. Len(A) : B[i] = A[i]
  OBVIOUS
<1> HIDE DEF B
<1>2. ASSUME NEW i \in 1 .. Len(B) PROVE \E k \in b .. u : B[i] = k % SEQ
  <2>1. CASE i \in 1 .. Len(A)
    <3>1. PICK k \in b .. t : A[i] = k % SEQ
      BY <2>1 DEF Means
    <3>2. k \in b .. u
      OBVIOUS
    <3> QED BY <1>1, <2>1, <3>1, <3>2
  <2>2. CASE i = Len(A) + 1
    <3>1. u \in b .. u
      OBVIOUS
    <3> QED BY <1>1, <2>2, <3>1
  <2> QED BY <1>1, <2>1, <2>2
<1>3. ASSUME NEW i \in 1 .. Len(A), NEW k \in b .. u, B[i] = k % SEQ PROVE k \in b .. t
  <2>1. PICK l \in b .. t : A[i] = l % SEQ
    BY DEF Means
  <2>2. l \in b .. u
    OBVIOUS
  <2>3. k % SEQ = l % SEQ /\ b \in Int /\ u \in Int
    BY <1>1, <1>3, <2>1
  <2>4. k = l
    BY <2>2, <2>3, OneMeaning
  <2> QED BY <2>4
<1>4. ASSUME NEW i \in 1 .. Len(B), NEW j \in 1 .. Len(B), NEW k \in b .. u, NEW l \in b .. u,
             i < j, B[i] = k % SEQ, B[j] = l % SEQ
      PROVE  k <= l
  <2>1. CASE j \in 1 .. Len(A)
    <3>1. i \in 1 .. Len(A)
      BY <1>1, <1>4, <2>1
    <3>2. k \in b .. t /\ l \in b .. t
      BY <1>3, <1>4, <2>1, <3>1
    <3>3. A[i] = k % SEQ /\ A[j] = l % SEQ
      BY <1>1, <1>4, <2>1, <3>1
    <3> QED BY <1>4, <2>1, <3>1, <3>2, <3>3 DEF Ordered
  <2>2. CASE j = Len(A) + 1
    <3>1. l % SEQ = u % SEQ
      BY <1>1, <1>4, <2>2
    <3>2. u \in b .. u
      OBVIOUS
    <3>3. l = u
      BY <3>1, <3>2, OneMeaning
    <3> QED BY <3>3
  <2> QED BY <1>1, <2>1, <2>2
<1> QED BY <1>2, <1>4 DEF Means, Ordered, B

LEMMA CatFacts ==
    ASSUME NEW A \in Seq(Nat), NEW B \in Seq(Nat)
    PROVE  /\ A \o B \in Seq(Nat) /\ Len(A \o B) = Len(A) + Len(B)
           /\ \A i \in 1 .. Len(A) : (A \o B)[i] = A[i]
           /\ A # <<>> => A \o B # <<>> /\ Tail(A) \o B = Tail(A \o B)
           /\ \A e \in Nat : A \o Append(B, e) = Append(A \o B, e)
<1>1. /\ A \o B \in Seq(Nat) /\ Len(A \o B) = Len(A) + Len(B) /\ Len(A) \in Nat /\ Len(B) \in Nat
      /\ \A i \in 1 .. Len(A) : (A \o B)[i] = A[i]
  OBVIOUS
<1>2. ASSUME A # <<>> PROVE A \o B # <<>> /\ Tail(A) \o B = Tail(A \o B)
  <2>1. Len(A) > 0 /\ A \o B # <<>>
    BY <1>1, <1>2
  <2>2. Tail(A) \in Seq(Nat) /\ Tail(A) \o B \in Seq(Nat) /\ Tail(A \o B) \in Seq(Nat)
        /\ Len(Tail(A) \o B) = Len(A) - 1 + Len(B) /\ Len(Tail(A \o B)) = Len(A) + Len(B) - 1
    BY <1>1, <1>2, <2>1
  <2>3. \A i \in 1 .. Len(Tail(A) \o B) : (Tail(A) \o B)[i] = Tail(A \o B)[i]
    BY <1>1, <1>2, <2>1, <2>2
  <2>4. Len(Tail(A) \o B) = Len(Tail(A \o B))
    BY <1>1, <2>2
  <2>5. Tail(A) \o B = Tail(A \o B)
    <3> DEFINE x == Tail(A) \o B
               y == Tail(A \o B)
    <3>1. x \in Seq(Nat) /\ y \in Seq(Nat) /\ Len(x) = Len(y) /\ \A i \in 1 .. Len(x) : x[i] = y[i]
      BY <2>2, <2>3, <2>4
    <3> HIDE DEF x, y
    <3>2. x = y
      BY <3>1, SeqEqual
    <3> QED BY <3>2 DEF x, y
  <2> QED BY <2>1, <2>5
<1>3. ASSUME NEW e \in Nat PROVE A \o Append(B, e) = Append(A \o B, e)
  <2>1. /\ A \o Append(B, e) \in Seq(Nat) /\ Append(A \o B, e) \in Seq(Nat)
        /\ Len(A \o Append(B, e)) = Len(A) + Len(B) + 1
        /\ Len(Append(A \o B, e)) = Len(A) + Len(B) + 1
    BY <1>1
  <2>2. \A i \in 1 .. Len(A \o Append(B, e)) : (A \o Append(B, e))[i] = Append(A \o B, e)[i]
    BY <1>1, <2>1
  <2> QED BY <2>1, <2>2, SeqEqual
<1> QED BY <1>1, <1>2, <1>3

\* Which packet a host takes an acknowledgement for.
NewBase(b, w, h) ==
    IF \E k \in b .. (b + w - 1) : (k + 1) % SEQ = h
    THEN CHOOSE k \in (b + 1) .. (b + w) : k % SEQ = h
    ELSE b

LEMMA AckTaken ==
    ASSUME NEW b \in Nat, NEW w \in Nat, w < SEQ, NEW k \in b .. (b + w), NEW h \in Nat, h = k % SEQ
    PROVE  NewBase(b, w, h) = k
<1> DEFINE named == \E m \in b .. (b + w - 1) : (m + 1) % SEQ = h
           chosen == CHOOSE m \in (b + 1) .. (b + w) : m % SEQ = h
<1>0. SEQ \in Nat /\ b \in Int /\ b + w \in Int /\ (b + w) - b < SEQ /\ k \in Int
  BY Constants
<1>1. CASE k = b
  <2>1. ASSUME NEW m \in b .. (b + w - 1), (m + 1) % SEQ = h PROVE FALSE
    <3> DEFINE x == m + 1
    <3>1. x \in b .. (b + w) /\ x % SEQ = h /\ x # b
      BY <2>1
    <3> HIDE DEF x
    <3>2. x = k
      BY <1>0, <3>1, OneMeaning
    <3> QED BY <1>1, <3>1, <3>2
  <2>2. ~named
    BY <2>1
  <2> HIDE DEF named, chosen
  <2>3. (IF named THEN chosen ELSE b) = k
    BY <1>1, <2>2
  <2> QED BY <2>3 DEF NewBase, named, chosen
<1>2. CASE k # b
  <2>1. k \in (b + 1) .. (b + w)
    BY <1>0, <1>2
  <2>2. chosen \in (b + 1) .. (b + w) /\ chosen % SEQ = h
    BY <2>1
  <2> HIDE DEF chosen
  <2>3. chosen \in b .. (b + w)
    BY <1>0, <2>2
  <2>4. chosen = k
    BY <1>0, <2>2, <2>3, OneMeaning
  <2>5. named
    <3>1. k - 1 \in b .. (b + w - 1) /\ (k - 1) + 1 = k
      BY <1>0, <2>1
    <3> QED BY <3>1
  <2> HIDE DEF named
  <2>6. (IF named THEN chosen ELSE b) = k
    BY <2>4, <2>5
  <2> QED BY <2>6 DEF NewBase, named, chosen
<1> QED BY <1>1, <1>2

LEMMA HostReadsAckStep ==
    ASSUME IInv, HostReadsAck
    PROVE  /\ base' \in base .. (taken + 1) /\ (Taking => base' <= Oldest)
           /\ Means(acks' \o outbox, base', taken + 1) /\ Ordered(acks' \o outbox, base', taken + 1)
           /\ Taking => Means(acks', base', Oldest)
           /\ acks' \in Seq(Nat)
<1> DEFINE A == acks \o outbox
<1>1. acks # <<>> /\ acks' = Tail(acks)
  BY DEF HostReadsAck
<1>2. /\ base \in Nat /\ taken \in Nat /\ acks \in Seq(Nat) /\ outbox \in Seq(Nat)
      /\ Window \in Nat /\ Window < SEQ /\ base <= taken + 1 /\ taken < base + Window
      /\ Out \in Nat /\ Oldest \in Int /\ Oldest <= taken + 1
  BY HostFacts DEF IInv, Typed, WindowInv, PoolInv, Oldest
<1>3. /\ A \in Seq(Nat) /\ A # <<>> /\ Tail(acks) \o outbox = Tail(A) /\ A[1] = acks[1]
      /\ Head(acks) = acks[1] /\ Tail(acks) \in Seq(Nat) /\ Len(acks) \in Nat /\ Len(acks) > 0
      /\ Len(A) \in Nat /\ Len(acks) <= Len(A)
      /\ \A i \in 1 .. Len(acks) : A[i] = acks[i]
  <2>1. Len(acks) \in Nat /\ Len(outbox) \in Nat /\ Len(acks) > 0 /\ Head(acks) = acks[1]
        /\ Tail(acks) \in Seq(Nat)
    BY <1>1, <1>2, TailOf
  <2>2. /\ A \in Seq(Nat) /\ Len(A) = Len(acks) + Len(outbox)
        /\ \A i \in 1 .. Len(acks) : A[i] = acks[i]
        /\ A # <<>> /\ Tail(acks) \o outbox = Tail(A)
    BY <1>1, <1>2, CatFacts
  <2> HIDE DEF A
  <2>3. 1 \in 1 .. Len(acks) /\ Len(acks) <= Len(A) /\ Len(A) \in Nat
    BY <2>1, <2>2
  <2>4. A[1] = acks[1]
    BY <2>2, <2>3
  <2> QED BY <2>1, <2>2, <2>3, <2>4
<1>4. /\ Means(A, base, taken + 1) /\ Ordered(A, base, taken + 1)
      /\ Taking => Means(acks, base, Oldest)
  BY DEF IInv, AckInv
<1> HIDE DEF A
<1>5. PICK k \in base .. (taken + 1) : A[1] = k % SEQ
  <2>1. 1 \in 1 .. Len(A)
    BY <1>3
  <2> QED BY <1>4, <2>1 DEF Means
<1>6. base' = k
  <2>1. k \in base .. (base + Window)
    BY <1>2
  <2>2. Head(acks) = k % SEQ
    BY <1>3, <1>5
  <2>3. base' = NewBase(base, Window, Head(acks))
    BY Zenon DEF HostReadsAck, NewBase
  <2>4. Head(acks) \in Nat
    BY <1>1, <1>2, TailOf
  <2> QED BY <1>2, <2>1, <2>2, <2>3, <2>4, AckTaken
<1>7. Means(Tail(A), k, taken + 1) /\ Ordered(Tail(A), k, taken + 1)
  BY <1>2, <1>3, <1>4, <1>5, AckRead, AckReadOrdered
<1>8. ASSUME Taking PROVE k <= Oldest /\ Means(Tail(acks), k, Oldest)
  <2>1. 1 \in 1 .. Len(acks)
    BY <1>3
  <2>2. PICK l \in base .. Oldest : acks[1] = l % SEQ
    BY <1>4, <1>8, <2>1 DEF Means
  <2>3. k = l
    <3>1. l \in base .. (taken + 1) /\ k % SEQ = l % SEQ /\ (taken + 1) - base < SEQ
          /\ taken + 1 \in Int /\ base \in Int
      BY Constants, <1>2, <1>3, <1>5, <2>2
    <3> QED BY <3>1, OneMeaning
  <2>4. Ordered(acks, base, taken + 1)
    <3>1. ASSUME NEW i \in 1 .. Len(acks), NEW j \in 1 .. Len(acks), NEW m \in base .. (taken + 1),
                 NEW n \in base .. (taken + 1), i < j, acks[i] = m % SEQ, acks[j] = n % SEQ
          PROVE  m <= n
      <4>0. A[i] = acks[i] /\ A[j] = acks[j]
        BY <1>3
      <4>1. i \in 1 .. Len(A) /\ j \in 1 .. Len(A)
        <5> DEFINE x == Len(acks)
                   y == Len(A)
        <5>1. x \in Nat /\ y \in Nat /\ x <= y /\ i \in 1 .. x /\ j \in 1 .. x
          BY <1>3, Zenon
        <5> HIDE DEF x, y
        <5>2. i \in 1 .. y /\ j \in 1 .. y
          BY <5>1
        <5> QED BY <5>2 DEF y
      <4>2. A[i] = m % SEQ /\ A[j] = n % SEQ
        BY <3>1, <4>0
      <4> QED BY <1>4, <3>1, <4>1, <4>2 DEF Ordered
    <3> QED BY <3>1 DEF Ordered
  <2>5. Oldest \in Nat /\ k <= Oldest /\ taken + 1 \in Nat
    BY <1>2, <2>3
  <2> QED BY <1>1, <1>2, <1>3, <1>4, <1>5, <1>8, <2>4, <2>5, AckRead
<1> QED BY <1>1, <1>3, <1>6, <1>7, <1>8

LEMMA HostReadsAckInv == IInv /\ HostReadsAck => IInv'
<1> SUFFICES ASSUME IInv, HostReadsAck PROVE IInv'
  OBVIOUS
<1>1. /\ next' = IF next < base' THEN base' ELSE next
      /\ UNCHANGED <<host, noisy, line, linkVars, outbox, queueVars, loopVars, history>>
  BY DEF HostReadsAck
<1>2. /\ host' = host /\ outbox' = outbox /\ taken' = taken /\ line' = line
      /\ UNCHANGED <<linkVars, queueVars, loopVars, deafened>>
  BY <1>1 DEF history
<1>3. Typed /\ WindowInv /\ LineInv /\ AckInv /\ PoolInv
  BY DEF IInv
<1>4. base \in Nat /\ next \in Nat /\ taken \in Nat /\ Window \in Nat /\ Window > 0 /\ Last \in Nat
  BY <1>3, HostFacts, Constants DEF Typed
<1>5. /\ base' \in base .. (taken + 1) /\ (Taking => base' <= Oldest)
      /\ Means(acks' \o outbox, base', taken + 1) /\ Ordered(acks' \o outbox, base', taken + 1)
      /\ Taking => Means(acks', base', Oldest)
      /\ acks' \in Seq(Nat)
  BY HostReadsAckStep
<1>6. base' \in Nat /\ base <= base' /\ base' <= taken + 1
  BY <1>4, <1>5
<1>7. LineInv'
  <2>1. ASSUME NEW i \in 1 .. Len(line), IsPacket(line[i])
        PROVE  /\ 1 <= line[i].p /\ line[i].p < base' + Window /\ taken < line[i].p + Window
               /\ \A j \in 1 .. (i - 1) : IsPacket(line[j]) => line[j].p < line[i].p + Window
    <3>1. line[i] \in FrameType
      BY <1>3 DEF Typed
    <3>2. line[i].p \in Nat
      BY <3>1, Constants DEF FrameType
    <3>3. line[i].p < base + Window
      BY <1>3, <2>1 DEF LineInv
    <3> QED BY <1>3, <1>4, <1>6, <2>1, <3>2, <3>3 DEF LineInv
  <2> QED BY <1>2, <2>1 DEF LineInv, Window
<1>8. Typed'
  BY <1>1, <1>2, <1>3, <1>4, <1>5, <1>6 DEF Typed, queueVars, loopVars, linkVars
<1>9. WindowInv'
  BY <1>1, <1>2, <1>3, <1>4, <1>6 DEF WindowInv, Window, linkVars
<1>10. AckInv'
  <2>1. Taking' = Taking /\ Oldest' = Oldest /\ phase' = phase
    BY <1>2 DEF Taking, Oldest, Out, queueVars, loopVars
  <2>2. Means(acks \o outbox, base, taken + 1)' /\ Ordered(acks \o outbox, base, taken + 1)'
    BY <1>2, <1>5 DEF Means, Ordered
  <2>3. Taking' => Means(acks, base, Oldest)'
    BY <1>2, <1>5, <2>1 DEF Means
  <2> QED BY <1>2, <1>3, <2>1, <2>2, <2>3 DEF AckInv
<1>11. PoolInv' /\ QueueInv' /\ SlotInv' /\ LoopInv'
  <2>1. UNCHANGED queueSide
    BY <1>2 DEF queueSide
  <2> QED BY <1>5, <1>6, <2>1, ReceiverSame
<1> QED BY <1>7, <1>8, <1>9, <1>10, <1>11 DEF IInv

-----------------------------------------------------------------------------
(* The USB task. *)

\* The first frame is gone; the receiver has taken it over or has not.
LEMMA LineTail ==
    ASSUME Typed, LineInv, line # <<>>, line' = Tail(line), UNCHANGED <<host, base>>,
           taken' = taken \/ (IsPacket(Head(line)) /\ taken' = Head(line).p)
    PROVE  LineInv' /\ line' \in Seq(FrameType)
<1>1. /\ line \in Seq(FrameType) /\ base \in Nat /\ taken \in Nat
      /\ Window \in Nat /\ Window > 0 /\ Window' = Window
  BY HostFacts DEF Typed, Window
<1>2. /\ line' \in Seq(FrameType) /\ Len(line) \in Nat /\ Len(line) > 0 /\ Len(line') = Len(line) - 1
      /\ Head(line) = line[1]
      /\ \A i \in 1 .. (Len(line) - 1) : line'[i] = line[i + 1]
  BY <1>1, TailOf
<1>3. ASSUME NEW i \in 1 .. Len(line'), IsPacket(line'[i])
      PROVE  /\ 1 <= line'[i].p /\ line'[i].p < base' + Window' /\ taken' < line'[i].p + Window'
             /\ \A j \in 1 .. (i - 1) : IsPacket(line'[j]) => line'[j].p < line'[i].p + Window'
  <2>1. i + 1 \in 1 .. Len(line) /\ line'[i] = line[i + 1] /\ 1 \in 1 .. ((i + 1) - 1)
    BY <1>2
  <2>2. \A j \in 1 .. (i - 1) : line'[j] = line[j + 1] /\ j + 1 \in 1 .. ((i + 1) - 1)
    BY <1>2
  <2>3. /\ 1 <= line[i + 1].p /\ line[i + 1].p < base + Window /\ taken < line[i + 1].p + Window
        /\ \A j \in 1 .. ((i + 1) - 1) : IsPacket(line[j]) => line[j].p < line[i + 1].p + Window
    BY <1>3, <2>1 DEF LineInv
  <2>4. taken' < line[i + 1].p + Window
    <3>1. IsPacket(line[1]) => line[1].p < line[i + 1].p + Window
      BY <2>1, <2>3
    <3>2. taken' = taken \/ (IsPacket(line[1]) /\ taken' = line[1].p)
      BY <1>2
    <3> QED BY <2>3, <3>1, <3>2
  <2>5. ASSUME NEW j \in 1 .. (i - 1), IsPacket(line'[j]) PROVE line'[j].p < line[i + 1].p + Window
    BY <2>2, <2>3, <2>5
  <2>6. /\ 1 <= line'[i].p /\ line'[i].p < base + Window /\ taken' < line'[i].p + Window
    BY <2>1, <2>3, <2>4, Zenon
  <2>7. \A j \in 1 .. (i - 1) : IsPacket(line'[j]) => line'[j].p < line'[i].p + Window
    BY <2>1, <2>5, Zenon
  <2> QED BY <1>1, <2>6, <2>7
<1>4. LineInv'
  BY <1>3 DEF LineInv, IsPacket
<1> QED BY <1>2, <1>4

LEMMA QueueFacts ==
    ASSUME IInv
    PROVE  /\ base \in Nat /\ taken \in Nat /\ Out \in 0 .. Window /\ count \in Nat
           /\ Window \in Nat /\ Window > 0 /\ Window < POOL /\ Window < MAX_BUFFERS
           /\ Window < SEQ /\ Window <= SCHED
           /\ Oldest \in Int /\ Oldest = taken + 1 - Out
           /\ Held(taken, Out) = (Oldest .. taken) \ Refused
  BY HostFacts DEF IInv, Typed, PoolInv, Oldest, Held

\* No slot has the buffer that SLIP fills, and no two slots have the same.
LEMMA SlotBuffers ==
    ASSUME IInv, phase # "closed", NEW i \in Occupied
    PROVE  /\ i \in Slot /\ slots[i] \in Buffer /\ slots[i] # mp_slip_used_rx_buffer
           /\ content[slots[i]] \in Oldest .. taken
           /\ slots[i] = BufferOf(content[slots[i]])
<1>1. i \in Slot /\ slots[i] # NULL
  BY DEF Occupied
<1>2. slots[i] \in Buffer
  BY <1>1 DEF IInv, Typed
<1>3. content[slots[i]] \in Oldest .. taken
  <2>1. content[slots[i]] \in Queued
    BY DEF Queued
  <2>2. Queued = Held(taken, Out)
    BY DEF IInv, QueueInv
  <2> QED BY <2>1, <2>2, QueueFacts
<1>4. slots[i] = BufferOf(content[slots[i]]) /\ mp_slip_used_rx_buffer = BufferOf(taken + 1)
  BY DEF IInv, QueueInv, PoolInv
<1>5. slots[i] # mp_slip_used_rx_buffer
  <2> DEFINE c == content[slots[i]]
  <2>1. c \in Oldest .. taken /\ slots[i] = BufferOf(c)
    BY <1>3, <1>4
  <2> HIDE DEF c
  <2> DEFINE d == taken + 1
  <2>2. c \in Int /\ d \in Int /\ d - c < POOL /\ c - d < POOL /\ c # d
    <3>1. taken \in Nat /\ Out \in 0 .. Window /\ Window \in Nat /\ Window < POOL /\ POOL \in Nat
          /\ Oldest = taken + 1 - Out
      BY QueueFacts, Constants
    <3> QED BY <2>1, <3>1
  <2>3. mp_slip_used_rx_buffer = BufferOf(d)
    BY <1>4
  <2> HIDE DEF d
  <2> QED BY <2>1, <2>2, <2>3, Buffers
<1> QED BY <1>1, <1>2, <1>3, <1>4, <1>5

\* A frame is decoded: the packets in the slots keep their bytes.
LEMMA DecodedOnly ==
    ASSUME IInv, phase # "closed", NEW p \in 0 .. Last, Decoded(p)
    PROVE  /\ content' \in [Buffer -> 0 .. Last]
           /\ \A i \in Occupied : content'[slots[i]] = content[slots[i]]
           /\ content'[mp_slip_used_rx_buffer] = p
<1>1. mp_slip_used_rx_buffer \in Buffer
  <2>1. taken + 1 \in Int /\ mp_slip_used_rx_buffer = BufferOf(taken + 1)
    BY QueueFacts DEF IInv, PoolInv
  <2> QED BY <2>1, Buffers
<1>2. content \in [Buffer -> 0 .. Last]
  BY DEF IInv, Typed
<1> QED BY <1>1, <1>2, SlotBuffers DEF Decoded

LEMMA QueueSame ==
    ASSUME IInv, UNCHANGED <<host, slots, taken, pool, count, complete>>,
           (phase' = "closed") <=> (phase = "closed"),
           \A i \in Occupied : content'[slots[i]] = content[slots[i]]
    PROVE  QueueInv' /\ Occupied' = Occupied /\ Queued' = Queued
<1>1. Occupied' = Occupied /\ Out' = Out /\ Refused' = Refused
  BY DEF Occupied, Out, Refused
<1>2. Held(taken, Out)' = Held(taken, Out)
  BY <1>1 DEF Held
<1>3. Queued' = Queued
  BY <1>1 DEF Queued
<1>4. QueueInv'
  <2>1. /\ count' <= Out' /\ (phase' # "closed" => Queued' = Held(taken, Out)')
        /\ (phase' = "closed" => Occupied' = {})
        /\ (complete' => taken' = Last /\ Queued' \subseteq {Last})
    BY <1>1, <1>2, <1>3 DEF IInv, QueueInv
  <2>2. \A i \in Occupied' : slots'[i] = BufferOf(content'[slots'[i]])
    BY <1>1 DEF IInv, QueueInv
  <2>3. \A i, j \in Occupied' : i < j => content'[slots'[i]] < content'[slots'[j]]
    BY <1>1 DEF IInv, QueueInv
  <2> QED BY <2>1, <2>2, <2>3 DEF QueueInv, BufferOf
<1> QED BY <1>1, <1>3, <1>4

\* A frame that takes nothing over.
LEMMA ReceiveIdle ==
    ASSUME IInv, phase = "usb", line # <<>>, line' = Tail(line),
           UNCHANGED <<host, base, next, acks, m_packet_expected_seq_number,
                       mp_slip_used_rx_buffer, pool, slots, count, loopVars, taken>>,
           content' = content \/ \E p \in 0 .. Last : Decoded(p),
           outbox' = outbox \/ outbox' = Append(outbox, m_packet_expected_seq_number),
           slip' \in {"pool", "ack"}, deafened' \in BOOLEAN, slip' = "pool" \/ deafened'
    PROVE  IInv'
<1>1. Typed /\ WindowInv /\ LineInv /\ AckInv /\ PoolInv
  BY DEF IInv
<1>2. sched' = sched /\ phase' = phase /\ index' = index /\ complete' = complete
  BY DEF loopVars
<1>3. /\ base \in Nat /\ taken \in Nat /\ Window \in Nat /\ Window > 0 /\ Window < SEQ
      /\ taken + 1 \in Nat /\ (taken + 1) - base < SEQ /\ base <= taken + 1
      /\ acks \in Seq(Nat) /\ outbox \in Seq(Nat) /\ SEQ \in Nat /\ SEQ > 0
      /\ m_packet_expected_seq_number = (taken + 1) % SEQ
  BY <1>1, HostFacts, Constants DEF Typed, WindowInv
<1>4. m_packet_expected_seq_number \in Nat
  BY <1>3
<1>5. content' \in [Buffer -> 0 .. Last] /\ \A i \in Occupied : content'[slots[i]] = content[slots[i]]
  <2>1. CASE content' = content
    BY <1>1, <2>1 DEF Typed
  <2>2. CASE \E p \in 0 .. Last : Decoded(p)
    BY <2>2, DecodedOnly
  <2> QED BY <2>1, <2>2
<1>6. QueueInv' /\ Occupied' = Occupied
  BY <1>2, <1>5, QueueSame
<1>7. Out' = Out /\ Oldest' = Oldest /\ Taking' = Taking /\ Window' = Window /\ Refused' = Refused
  BY <1>2 DEF Out, Oldest, Taking, Window, Refused
<1>8. LineInv' /\ line' \in Seq(FrameType)
  BY <1>1, LineTail
<1>9. Typed'
  <2>1. outbox' \in Seq(Nat)
    <3>1. outbox \in Seq(Nat) /\ Append(outbox, m_packet_expected_seq_number) \in Seq(Nat)
      <4> DEFINE e == m_packet_expected_seq_number
      <4>1. e \in Nat /\ outbox \in Seq(Nat)
        BY <1>3, <1>4
      <4> HIDE DEF e
      <4>2. Append(outbox, e) \in Seq(Nat)
        BY <4>1
      <4> QED BY <4>1, <4>2 DEF e
    <3> QED BY <3>1
  <2> QED BY <1>1, <1>2, <1>5, <1>8, <2>1 DEF Typed
<1>10. WindowInv'
  BY <1>1, <1>7 DEF WindowInv
<1>11. AckInv'
  <2>1. Means(acks \o outbox', base, taken + 1) /\ Ordered(acks \o outbox', base, taken + 1)
    <3>1. CASE outbox' = outbox
      BY <1>1, <3>1 DEF AckInv
    <3>2. CASE outbox' = Append(outbox, m_packet_expected_seq_number)
      <4> DEFINE A == acks \o outbox
                 e == m_packet_expected_seq_number
                 t == taken + 1
      <4>1. A \in Seq(Nat) /\ acks \o outbox' = Append(A, e)
        BY <1>3, <1>4, <3>2, CatFacts
      <4>2. Means(A, base, t) /\ Ordered(A, base, t) /\ t \in Nat /\ t <= t /\ base <= t /\ t - base < SEQ
            /\ e = t % SEQ
        BY <1>1, <1>3 DEF AckInv
      <4> HIDE DEF A, e, t
      <4>3. Means(Append(A, e), base, t) /\ Ordered(Append(A, e), base, t)
        BY <1>3, <4>1, <4>2, AckAppend
      <4> QED BY <4>1, <4>3 DEF t
    <3> QED BY <3>1, <3>2
  <2>2. Means(acks \o outbox, base, taken + 1)' /\ Ordered(acks \o outbox, base, taken + 1)'
    BY <2>1 DEF Means, Ordered
  <2>3. Taking' => Means(acks, base, Oldest)'
    BY <1>1, <1>7 DEF AckInv, Means
  <2> QED BY <1>2, <2>2, <2>3 DEF AckInv
<1>12. PoolInv'
  <2>1. Held(taken, Out)' = Held(taken, Out)
    BY <1>7 DEF Held
  <2> QED BY <1>1, <1>7, <2>1 DEF PoolInv, BufferOf
<1>13. SlotInv'
  BY <1>2, <1>6 DEF IInv, SlotInv, SlotsFrom
<1>14. LoopInv'
  BY <1>2, <1>7 DEF IInv, LoopInv
<1> QED BY <1>6, <1>8, <1>9, <1>10, <1>11, <1>12, <1>13, <1>14 DEF IInv

LEMMA ReceiveIdleActions ==
    ASSUME IInv,
           (\E p \in Packet : ReceiveDuplicate(p) \/ ReceiveDeaf(p))
             \/ ReceiveInvalid \/ ReceiveOther \/ ReceiveOverlong
    PROVE  IInv' /\ UNCHANGED <<host, base, taken, handled>> /\ Occupied' = Occupied
           /\ UNCHANGED <<complete, slots>> /\ \A i \in Occupied : content'[slots[i]] = content[slots[i]]
<1>1. /\ slip \in {"pool", "ack"} /\ deafened \in BOOLEAN /\ (slip = "pool" \/ deafened)
      /\ mp_slip_used_rx_buffer # NULL /\ phase \in {"sched", "process", "usb", "closed"}
  <2>1. taken + 1 \in Int /\ mp_slip_used_rx_buffer = BufferOf(taken + 1)
    BY QueueFacts DEF IInv, PoolInv
  <2>2. mp_slip_used_rx_buffer # NULL
    BY <2>1, Buffers
  <2> QED BY <2>2 DEF IInv, Typed, PoolInv
<1>2. Last \in Nat /\ 0 \in 0 .. Last /\ Packet \subseteq 0 .. Last
  BY Constants DEF Packet
<1> DEFINE Idle ==
             /\ phase = "usb" /\ line # <<>> /\ line' = Tail(line)
             /\ UNCHANGED <<host, base, next, acks, m_packet_expected_seq_number,
                            mp_slip_used_rx_buffer, pool, slots, count, loopVars, taken, handled>>
             /\ content' = content \/ \E p \in 0 .. Last : Decoded(p)
             /\ outbox' = outbox \/ outbox' = Append(outbox, m_packet_expected_seq_number)
             /\ slip' \in {"pool", "ack"} /\ deafened' \in BOOLEAN /\ (slip' = "pool" \/ deafened')
<1>3. ASSUME NEW p \in Packet, ReceiveDuplicate(p) PROVE Idle
  BY <1>1, <1>2, <1>3 DEF ReceiveDuplicate, Receiving, ack_transmit, hostVars, linkVars, history
<1>4. ASSUME NEW p \in Packet, ReceiveDeaf(p) PROVE Idle
  BY <1>1, <1>2, <1>4 DEF ReceiveDeaf, Receiving, hostVars, linkVars, history, queueVars
<1>5. ASSUME ReceiveInvalid PROVE Idle
  BY <1>1, <1>2, <1>5 DEF ReceiveInvalid, Receiving, hostVars, linkVars, history, queueVars
<1>6. ASSUME ReceiveOther PROVE Idle
  BY <1>1, <1>2, <1>6 DEF ReceiveOther, Receiving, hostVars, linkVars, history, queueVars
<1>7. ASSUME ReceiveOverlong PROVE Idle
  BY <1>1, <1>2, <1>7 DEF ReceiveOverlong, Receiving, hostVars, linkVars, history, queueVars
<1>8. Idle
  BY <1>3, <1>4, <1>5, <1>6, <1>7
<1>9. IInv'
  BY <1>8, ReceiveIdle
<1>10. \A i \in Occupied : content'[slots[i]] = content[slots[i]]
  BY <1>8, DecodedOnly
<1>11. Occupied' = Occupied
  BY <1>8 DEF Occupied
<1> QED BY <1>8, <1>9, <1>10, <1>11 DEF loopVars

-----------------------------------------------------------------------------
(* The main loop. *)

\* A step of the loop that leaves the line, the host and the ring alone.
LEMMA LoopFrame ==
    ASSUME IInv, UNCHANGED <<host, base, next, line, linkVars, taken, deafened>>
    PROVE  LineInv' /\ WindowInv'
  BY DEF IInv, LineInv, WindowInv, Window, IsPacket, linkVars

LEMMA UsbTaskEndsInv ==
    ASSUME IInv, UsbTaskEnds
    PROVE  IInv' /\ UNCHANGED <<host, base, taken, handled>> /\ Waiting' = Waiting
<1>1. /\ phase = "usb" /\ phase' = IF complete THEN "closed" ELSE "sched"
      /\ acks' = acks \o outbox /\ outbox' = <<>>
      /\ slots' = IF complete THEN [i \in Slot |-> NULL] ELSE slots
      /\ count' = IF complete THEN 0 ELSE count
  BY DEF UsbTaskEnds
<1>2. /\ UNCHANGED <<host, base, next, line, linkVars, content, pool, sched, index, complete, taken>>
      /\ handled' = handled /\ deafened' = deafened
  BY DEF UsbTaskEnds, hostVars, history
<1>3. LineInv' /\ WindowInv'
  BY <1>2, LoopFrame
<1>4. Typed /\ AckInv /\ PoolInv /\ QueueInv
  BY DEF IInv
<1>5. acks \in Seq(Nat) /\ outbox \in Seq(Nat) /\ acks' \in Seq(Nat) /\ outbox' \in Seq(Nat)
      /\ acks' \o outbox' = acks \o outbox
  BY <1>1, <1>4 DEF Typed
<1>6. Typed'
  BY <1>1, <1>2, <1>4, <1>5 DEF Typed, linkVars
<1>7. ~Taking'
  BY <1>1, <1>2 DEF Taking
<1>8. AckInv'
  <2>1. Means(acks \o outbox, base, taken + 1)' /\ Ordered(acks \o outbox, base, taken + 1)'
    BY <1>2, <1>4, <1>5 DEF AckInv, Means, Ordered
  <2> QED BY <1>1, <1>7, <2>1 DEF AckInv
<1>9. Out' = Out /\ Oldest' = Oldest /\ Refused' = Refused /\ Window' = Window
  BY <1>2 DEF Out, Oldest, Refused, Window
<1>10. PoolInv'
  <2>1. Held(taken, Out)' = Held(taken, Out)
    BY <1>2, <1>9 DEF Held
  <2> QED BY <1>2, <1>4, <1>7, <1>9, <2>1 DEF PoolInv, BufferOf, linkVars
<1>11. CASE complete
  <2>1. Occupied' = {} /\ Queued' = {} /\ count' = 0 /\ phase' = "closed"
    BY <1>1, <1>11 DEF Occupied, Queued
  <2>2. QueueInv'
    BY <1>2, <1>4, <1>9, <2>1, QueueFacts DEF QueueInv
  <2>3. SlotInv'
    <3>1. SlotsFrom(0)'
      BY <2>1, Constants DEF SlotsFrom
    <3> QED BY <3>1 DEF SlotInv
  <2>4. LoopInv'
    BY <1>7, <2>1 DEF LoopInv
  <2>5. Waiting' = Waiting
    <3>1. Queued \subseteq {Last}
      BY <1>4, <1>11 DEF QueueInv
    <3> QED BY <1>2, <1>11, <2>1, <3>1 DEF Waiting, Queued
  <2> QED BY <1>2, <1>3, <1>6, <1>8, <1>10, <2>2, <2>3, <2>4, <2>5 DEF IInv
<1>12. CASE ~complete
  <2>1. slots' = slots /\ count' = count /\ phase' = "sched"
    BY <1>1, <1>12
  <2>2. QueueInv' /\ Occupied' = Occupied /\ Queued' = Queued
    BY <1>1, <1>2, <2>1, QueueSame
  <2>3. SlotInv'
    <3>1. PICK k \in Nat : SlotsFrom(k)
      BY DEF IInv, SlotInv
    <3>2. SlotsFrom(k)'
      BY <1>1, <1>2, <1>12, <2>1, <2>2, <3>1 DEF SlotsFrom
    <3> QED BY <3>2 DEF SlotInv
  <2>4. LoopInv'
    <3>1. sched = count /\ count \in Nat
      BY <1>1, <1>4, <1>12 DEF IInv, LoopInv, Taking, Typed
    <3> QED BY <1>2, <1>7, <2>1, <3>1 DEF LoopInv
  <2>5. Waiting' = Waiting
    BY <1>2, <2>2 DEF Waiting, Queued
  <2> QED BY <1>2, <1>3, <1>6, <1>8, <1>10, <2>2, <2>3, <2>4, <2>5 DEF IInv
<1> QED BY <1>11, <1>12

\* Nothing is queued when no slot is in use, and then no buffer is out.
LEMMA NothingOut ==
    ASSUME IInv, phase # "closed", count = 0
    PROVE  Occupied = {} /\ Out = 0
<1>1. PICK k \in Nat : SlotsFrom(k)
  BY DEF IInv, SlotInv
<1>2. Occupied = {}
  BY <1>1 DEF SlotsFrom
<1>3. Queued = {}
  BY <1>2 DEF Queued
<1>4. Queued = Held(taken, Out)
  BY DEF IInv, QueueInv
<1>5. ASSUME Out # 0 PROVE FALSE
  <2>1. Oldest \notin Refused
    BY <1>5 DEF IInv, PoolInv
  <2>2. Oldest \in Oldest .. taken
    BY <1>5, QueueFacts
  <2> QED BY <1>3, <1>4, <2>1, <2>2, QueueFacts
<1> QED BY <1>2, <1>5

LEMMA NextEventInv ==
    ASSUME IInv, NextEvent
    PROVE  IInv' /\ UNCHANGED <<host, base, taken, handled, complete, content, slots>>
<1>1. /\ phase = "sched" /\ phase' = IF sched > 0 THEN "process" ELSE "usb"
      /\ index' = 0
  BY DEF NextEvent
<1>2. /\ UNCHANGED <<host, base, next, line, acks, linkVars, outbox, content, pool, slots, count>>
      /\ UNCHANGED <<sched, complete, taken, deafened, handled>>
  BY DEF NextEvent, hostVars, history, queueVars
<1>3. LineInv' /\ WindowInv'
  BY <1>2, LoopFrame
<1>4. Typed /\ AckInv /\ PoolInv /\ QueueInv /\ LoopInv
  BY DEF IInv
<1>5. Typed'
  BY <1>1, <1>2, <1>4, Constants DEF Typed, linkVars
<1>6. Out' = Out /\ Oldest' = Oldest /\ Refused' = Refused /\ Window' = Window
  BY <1>2 DEF Out, Oldest, Refused, Window
<1>7. QueueInv' /\ Occupied' = Occupied /\ Queued' = Queued
  BY <1>1, <1>2, QueueSame
<1>8. SlotInv'
  <2>1. PICK k \in Nat : SlotsFrom(k)
    BY DEF IInv, SlotInv
  <2>2. SlotsFrom(k)'
    BY <1>1, <1>2, <1>7, <2>1 DEF SlotsFrom
  <2> QED BY <2>2 DEF SlotInv
<1>9. ASSUME Taking' PROVE sched = 0 /\ count = 0 /\ Out = 0 /\ Oldest = taken + 1
  <2>1. phase' = "usb" /\ ~complete
    BY <1>2, <1>9 DEF Taking
  <2>2. sched \in Nat /\ count \in Nat
    BY <1>4, Constants DEF Typed
  <2>3. sched = 0 /\ count = 0
    BY <1>1, <1>4, <2>1, <2>2 DEF LoopInv
  <2> QED BY <1>1, <2>3, NothingOut, QueueFacts
<1>10. LoopInv'
  BY <1>1, <1>2, <1>9 DEF LoopInv
<1>11. AckInv'
  <2>1. Means(acks \o outbox, base, taken + 1)' /\ Ordered(acks \o outbox, base, taken + 1)'
    BY <1>2, <1>4 DEF AckInv, Means, Ordered
  <2>2. outbox = <<>> /\ outbox' = <<>>
    BY <1>1, <1>2, <1>4 DEF AckInv
  <2>3. acks \o outbox = acks
    BY <1>4, <2>2 DEF Typed
  <2>4. ASSUME Taking' PROVE Means(acks, base, Oldest)'
    <3>1. Means(acks, base, taken + 1)
      BY <1>4, <2>3 DEF AckInv
    <3> QED BY <1>2, <1>6, <1>9, <2>4, <3>1 DEF Means
  <2> QED BY <2>1, <2>2, <2>4 DEF AckInv
<1>12. PoolInv'
  <2>1. Held(taken, Out)' = Held(taken, Out)
    BY <1>2, <1>6 DEF Held
  <2>2. Taking' => base' <= Oldest'
    BY <1>2, <1>6, <1>9 DEF IInv, WindowInv
  <2> QED BY <1>2, <1>4, <1>6, <2>1, <2>2 DEF PoolInv, BufferOf, linkVars
<1> QED BY <1>2, <1>3, <1>5, <1>7, <1>8, <1>10, <1>11, <1>12 DEF IInv

LEMMA EventReturnsInv ==
    ASSUME IInv, EventReturns
    PROVE  IInv' /\ UNCHANGED <<host, base, taken, handled, complete, content, slots>>
<1>1. /\ phase = "process" /\ phase' = "sched" /\ sched' = sched - 1 /\ count = 0
  BY DEF EventReturns
<1>2. /\ UNCHANGED <<host, base, next, line, acks, linkVars, outbox, content, pool, slots, count>>
      /\ UNCHANGED <<index, complete, taken, deafened, handled>>
  BY DEF EventReturns, hostVars, history, queueVars
<1>3. LineInv' /\ WindowInv'
  BY <1>2, LoopFrame
<1>4. Typed /\ AckInv /\ PoolInv /\ QueueInv /\ LoopInv
  BY DEF IInv
<1>5. Typed'
  <2>1. sched \in 0 .. SCHED /\ sched > 0
    BY <1>1, <1>4 DEF Typed, LoopInv
  <2>2. sched' \in 0 .. SCHED
    BY <1>1, <2>1, Constants
  <2> QED BY <1>1, <1>2, <1>4, <2>2 DEF Typed, linkVars
<1>6. Out' = Out /\ Oldest' = Oldest /\ Refused' = Refused /\ Window' = Window /\ ~Taking'
  BY <1>1, <1>2 DEF Out, Oldest, Refused, Window, Taking
<1>7. QueueInv' /\ Occupied' = Occupied /\ Queued' = Queued
  BY <1>1, <1>2, QueueSame
<1>8. SlotInv'
  <2>1. Occupied' = {} /\ count' = 0
    BY <1>1, <1>2, <1>7, NothingOut
  <2>2. SlotsFrom(0)'
    BY <1>1, <2>1, Constants DEF SlotsFrom
  <2> QED BY <2>2 DEF SlotInv
<1>9. LoopInv'
  BY <1>1, <1>2, <1>6 DEF LoopInv
<1>10. AckInv'
  <2>1. Means(acks \o outbox, base, taken + 1)' /\ Ordered(acks \o outbox, base, taken + 1)'
    BY <1>2, <1>4 DEF AckInv, Means, Ordered
  <2> QED BY <1>1, <1>2, <1>4, <1>6, <2>1 DEF AckInv
<1>11. PoolInv'
  <2>1. Held(taken, Out)' = Held(taken, Out)
    BY <1>2, <1>6 DEF Held
  <2> QED BY <1>2, <1>4, <1>6, <2>1 DEF PoolInv, BufferOf, linkVars
<1> QED BY <1>2, <1>3, <1>5, <1>7, <1>8, <1>9, <1>10, <1>11 DEF IInv

\* The oldest buffer comes back: the packets left are the ones with buffers that are out.
LEMMA ReleaseOldest ==
    ASSUME IInv, Out > 0
    PROVE  \E f \in 0 .. (Out - 1) :
              /\ hci_mem_pool_rx_consume(pool, BufferOf(Oldest)) = PoolRec(taken, f, Held(taken, f))
              /\ Held(taken, f) = Held(taken, Out) \ {Oldest}
              /\ f # 0 => taken + 1 - f \notin Refused
              /\ f = Out - 1 \/ Held(taken, Out) = {Oldest}
<1> DEFINE t == taken
           f0 == Out
           H == Held(taken, Out)
           lo == Oldest
           s == hci_mem_pool_rx_consume(pool, BufferOf(lo))
<1>1. /\ t \in Nat /\ f0 \in Nat /\ 0 < f0 /\ f0 < POOL /\ f0 <= Window /\ Window \in Nat
      /\ lo = t + 1 - f0 /\ H = (lo .. t) \ Refused /\ pool = PoolRec(t, f0, H) /\ POOL \in Nat
      /\ lo \notin Refused /\ (Window <= 2 \/ Refused = {})
  <2>1. Out \in 0 .. Window /\ Window \in Nat /\ Window < POOL /\ POOL \in Nat /\ taken \in Nat
        /\ Oldest = taken + 1 - Out /\ Held(taken, Out) = (Oldest .. taken) \ Refused
    BY QueueFacts, Constants
  <2>2. pool = PoolRec(taken, Out, Held(taken, Out)) /\ (Out # 0 => Oldest \notin Refused)
    BY DEF IInv, PoolInv
  <2>3. Window <= 2 \/ Refused = {}
    BY HostFacts DEF IInv, Typed
  <2> QED BY <2>1, <2>2, <2>3
<1>d. \A f : Held(taken, f) = ((t + 1 - f) .. t) \ Refused
  BY DEF Held
<1> HIDE DEF t, f0, H, lo
<1>2. H \in SUBSET ((t + 1 - f0) .. t) /\ lo \in (t + 1 - f0) .. t /\ lo \in Int /\ lo \in H
  BY <1>1
<1>3. /\ lo + 1 \in H \cup {t + 1} => s = PoolRec(t, f0 - 1, H \ {lo})
      /\ lo + 1 \notin H \cup {t + 1} => s = PoolRec(t, 0, H \ {lo})
  BY <1>1, <1>2, Consumed
<1> HIDE DEF s
<1>4. CASE lo + 1 \in H \cup {t + 1}
  <2> DEFINE f == f0 - 1
  <2>1. f \in 0 .. (f0 - 1)
    BY <1>1
  <2>2. Held(taken, f) = H \ {lo}
    <3>1. t + 1 - f = lo + 1
      BY <1>1
    <3>2. ((lo + 1) .. t) \ Refused = ((lo .. t) \ Refused) \ {lo}
      BY <1>1, <1>2
    <3> QED BY <1>d, <1>1, <3>1, <3>2
  <2>3. f # 0 => t + 1 - f \notin Refused
    <3>1. t + 1 - f = lo + 1
      BY <1>1
    <3>2. f # 0 => lo + 1 # t + 1
      BY <1>1
    <3> QED BY <1>1, <1>4, <3>1, <3>2
  <2>4. s = PoolRec(t, f, Held(taken, f))
    BY <1>3, <1>4, <2>2
  <2> QED BY <2>1, <2>2, <2>3, <2>4 DEF s, t, f0, H, lo
<1>5. CASE lo + 1 \notin H \cup {t + 1}
  <2>1. f0 = 2 /\ t = lo + 1
    <3>1. lo + 1 \in lo .. t
      BY <1>1, <1>2, <1>5
    <3>2. lo + 1 \in Refused
      BY <1>1, <1>5, <3>1
    <3>3. f0 <= 2
      BY <1>1, <3>2
    <3> QED BY <1>1, <3>1, <3>3
  <2>2. H = {lo}
    <3>1. lo .. t = {lo, lo + 1}
      BY <1>2, <2>1
    <3>2. lo + 1 \notin H /\ lo + 1 \in lo .. t
      BY <1>5, <3>1
    <3> QED BY <1>1, <1>2, <3>1, <3>2
  <2>3. Held(taken, 0) = {}
    BY <1>d, <1>1
  <2>4. Held(taken, 0) = H \ {lo}
    BY <2>2, <2>3
  <2>5. 0 \in 0 .. (f0 - 1)
    BY <1>1
  <2>6. s = PoolRec(t, 0, Held(taken, 0))
    BY <1>3, <1>5, <2>4
  <2> QED BY <2>2, <2>4, <2>5, <2>6 DEF s, t, f0, H, lo
<1> QED BY <1>4, <1>5

\* process_dfu_packet visits the oldest packet.
LEMMA VisitFirst ==
    ASSUME IInv, phase = "process", NEW i \in ToVisit, \A j \in ToVisit : i <= j
    PROVE  /\ i \in Nat /\ i \in Occupied /\ SlotsFrom(i) /\ count > 0 /\ Out > 0
           /\ content[slots[i]] = Oldest /\ slots[i] = BufferOf(Oldest) /\ Oldest \notin Refused
           /\ \A j \in Occupied : j # i => Oldest < content[slots[j]]
<1>1. PICK k \in Nat : SlotsFrom(k)
  BY DEF IInv, SlotInv
<1>2. count \in Nat /\ index \in Nat
  BY Constants DEF IInv, Typed
<1>3. Occupied = k .. (k + count - 1) /\ index <= k
  BY <1>1 DEF SlotsFrom
<1>4. ToVisit = Occupied /\ count > 0
  <2>1. {j \in Occupied : j >= index} = Occupied
    BY <1>2, <1>3
  <2>2. CASE count = 0
    <3>1. Occupied = {}
      BY <1>2, <1>3, <2>2
    <3>2. ToVisit = {}
      BY <2>1, <2>2, <3>1 DEF ToVisit
    <3> QED BY <3>2
  <2>3. CASE count # 0
    <3>1. ToVisit = Occupied
      BY <2>1, <2>3 DEF ToVisit
    <3> QED BY <1>2, <2>3, <3>1
  <2> QED BY <2>2, <2>3
<1>5. i = k
  BY <1>2, <1>3, <1>4
<1>6. Out > 0 /\ Oldest \notin Refused /\ Oldest \in Queued
  <2>1. count <= Out
    BY DEF IInv, QueueInv
  <2>2. Out \in Nat /\ Out > 0 /\ Oldest \in Oldest .. taken
    BY <1>2, <1>4, <2>1, QueueFacts
  <2>3. Oldest \notin Refused
    BY <2>2 DEF IInv, PoolInv
  <2>4. Queued = Held(taken, Out)
    BY DEF IInv, QueueInv
  <2> QED BY <2>2, <2>3, <2>4, QueueFacts
<1>7. PICK j \in Occupied : content[slots[j]] = Oldest
  BY <1>6 DEF Queued
<1>8. \A m \in Occupied : content[slots[m]] \in Oldest .. taken
  BY SlotBuffers
<1>9. \A m, n \in Occupied : m < n => content[slots[m]] < content[slots[n]]
  BY DEF IInv, QueueInv
<1>10. i \in Occupied /\ \A m \in Occupied : m \in Int /\ i <= m
  BY <1>2, <1>3, <1>4
<1>11. j = i
  <2>1. CASE i < j
    <3>1. content[slots[i]] < content[slots[j]]
      BY <1>9, <1>10, <2>1
    <3>2. content[slots[i]] \in Oldest .. taken
      BY <1>8, <1>10
    <3> QED BY <1>7, <3>1, <3>2, QueueFacts
  <2> QED BY <1>3, <1>5, <1>10, <2>1
<1>12. \A m \in Occupied : m # i => Oldest < content[slots[m]]
  <2> SUFFICES ASSUME NEW m \in Occupied, m # i PROVE Oldest < content[slots[m]]
    OBVIOUS
  <2>1. i < m
    BY <1>3, <1>5, <1>10
  <2> QED BY <1>7, <1>9, <1>10, <1>11, <2>1
<1>13. slots[i] = BufferOf(Oldest)
  BY <1>7, <1>11, SlotBuffers
<1> QED BY <1>1, <1>4, <1>5, <1>6, <1>7, <1>10, <1>11, <1>12, <1>13

\* A packet is handled, and its slot and its buffer are free again.
LEMMA FreeSlotInv ==
    ASSUME IInv, phase = "process", NEW i \in ToVisit, \A j \in ToVisit : i <= j,
           FreeSlot(i), index' = i + 1, UNCHANGED <<complete, sched>>,
           UNCHANGED <<hostVars, line, acks, linkVars, outbox, content, taken, deafened>>
    PROVE  IInv' /\ Queued' = Queued \ {Oldest}
<1>1. /\ i \in Nat /\ i \in Occupied /\ SlotsFrom(i) /\ count > 0 /\ Out > 0
      /\ content[slots[i]] = Oldest /\ slots[i] = BufferOf(Oldest) /\ Oldest \notin Refused
      /\ \A j \in Occupied : j # i => Oldest < content[slots[j]]
  BY VisitFirst
<1>2. Typed /\ AckInv /\ PoolInv /\ QueueInv /\ LoopInv
  BY DEF IInv
<1>3. /\ slots' = [slots EXCEPT ![i] = NULL] /\ count' = count - 1
      /\ pool' = hci_mem_pool_rx_consume(pool, slots[i]) /\ phase' = "process"
  <2>1. pool.free_available_count # 0
    BY <1>1, QueueFacts DEF Out
  <2> QED BY <2>1 DEF FreeSlot
<1>4. UNCHANGED <<host, base, next, line, acks, linkVars, outbox, content, taken, deafened>>
  BY DEF hostVars
<1>5. LineInv' /\ WindowInv'
  BY <1>4, LoopFrame
<1>6. PICK f \in 0 .. (Out - 1) :
              /\ hci_mem_pool_rx_consume(pool, BufferOf(Oldest)) = PoolRec(taken, f, Held(taken, f))
              /\ Held(taken, f) = Held(taken, Out) \ {Oldest}
              /\ f # 0 => taken + 1 - f \notin Refused
              /\ f = Out - 1 \/ Held(taken, Out) = {Oldest}
  BY <1>1, ReleaseOldest
<1>7. /\ taken \in Nat /\ Out \in Nat /\ f \in Nat /\ f <= Out - 1 /\ Out <= Window /\ Window \in Nat
      /\ count \in Nat
  BY QueueFacts
<1>8. pool' = PoolRec(taken, f, Held(taken, f)) /\ Out' = f /\ Refused' = Refused
      /\ Held(taken, Out)' = Held(taken, f) /\ Window' = Window /\ ~Taking' /\ Oldest' = taken + 1 - f
  <2>1. pool' = PoolRec(taken, f, Held(taken, f))
    BY <1>1, <1>3, <1>6
  <2>2. Held(taken, f) \in SUBSET Int
    BY DEF Held
  <2>3. pool'.free_available_count = f
    <3> DEFINE H == Held(taken, f)
               q == PoolRec(taken, f, H)
    <3>1. H \in SUBSET Int /\ taken \in Int /\ f \in Int /\ pool' = q
      BY <1>7, <2>1, <2>2
    <3> HIDE DEF H
    <3>2. q.free_available_count = f
      BY <3>1, PoolFields
    <3> QED BY <3>1, <3>2
  <2>4. Out' = f /\ Refused' = Refused /\ Window' = Window /\ ~Taking'
    BY <1>3, <1>4, <2>3 DEF Out, Refused, Window, Taking
  <2>5. Held(taken, Out)' = Held(taken, f) /\ Oldest' = taken + 1 - f
    BY <1>4, <2>4 DEF Held, Oldest
  <2> QED BY <2>1, <2>4, <2>5
<1>9. PoolInv'
  <2>1. Out' \in 0 .. Window'
    BY <1>7, <1>8
  <2>2. pool' = PoolRec(taken', Out', Held(taken, Out)')
    BY <1>4, <1>8
  <2>3. Out' # 0 => Oldest' \notin Refused'
    BY <1>6, <1>8
  <2> QED BY <1>2, <1>4, <1>8, <2>1, <2>2, <2>3 DEF PoolInv, BufferOf, linkVars, PoolRec, Ring
<1>10. Occupied' = Occupied \ {i} /\ \A j \in Occupied' : slots'[j] = slots[j]
  BY <1>2, <1>3 DEF Occupied, Typed
<1>11. Queued' = Queued \ {Oldest}
  <2>1. \A j \in Occupied \ {i} : content'[slots'[j]] = content[slots[j]] /\ content[slots[j]] # Oldest
    <3> SUFFICES ASSUME NEW j \in Occupied \ {i}
                 PROVE  content'[slots'[j]] = content[slots[j]] /\ content[slots[j]] # Oldest
      OBVIOUS
    <3>1. Oldest < content[slots[j]]
      BY <1>1
    <3>2. Oldest \in Int /\ content[slots[j]] \in Oldest .. taken
      BY SlotBuffers, QueueFacts
    <3> QED BY <1>4, <1>7, <1>10, <3>1, <3>2
  <2> QED BY <1>1, <1>10, <2>1 DEF Queued
<1>12. QueueInv'
  <2>1. count' <= Out'
    <3>1. count <= Out
      BY <1>2 DEF QueueInv
    <3>2. CASE f = Out - 1
      BY <1>3, <1>7, <1>8, <3>1, <3>2
    <3>3. CASE Held(taken, Out) = {Oldest}
      <4>1. Queued = {Oldest}
        BY <1>2, <3>3 DEF QueueInv
      <4>2. \A j \in Occupied : content[slots[j]] = Oldest
        BY <4>1 DEF Queued
      <4>3. Occupied \subseteq {i}
        <5> SUFFICES ASSUME NEW j \in Occupied, j # i PROVE FALSE
          OBVIOUS
        <5> QED BY <1>1, <4>2, QueueFacts
      <4>4. count = 1
        <5>1. Occupied = i .. (i + count - 1)
          BY <1>1 DEF SlotsFrom
        <5>2. count > 1 => i + 1 \in Occupied
          BY <1>1, <1>7, <5>1
        <5> QED BY <1>1, <1>7, <4>3, <5>2
      <4> QED BY <1>3, <1>7, <1>8, <4>4
    <3> QED BY <1>6, <3>2, <3>3
  <2>2. Queued' = Held(taken, Out)'
    BY <1>2, <1>6, <1>8, <1>11 DEF QueueInv
  <2>3. \A j \in Occupied' : slots'[j] = BufferOf(content'[slots'[j]])
    BY <1>2, <1>4, <1>10 DEF QueueInv
  <2>4. \A j, m \in Occupied' : j < m => content'[slots'[j]] < content'[slots'[m]]
    BY <1>2, <1>4, <1>10 DEF QueueInv
  <2>5. complete' => taken' = Last /\ Queued' \subseteq {Last}
    BY <1>2, <1>4, <1>11 DEF QueueInv
  <2> QED BY <1>3, <2>1, <2>2, <2>3, <2>4, <2>5 DEF QueueInv, BufferOf
<1>13. Typed'
  <2>1. slots' \in [Slot -> Buffer \cup {NULL}]
    BY <1>1, <1>2, <1>3 DEF Typed
  <2>2. count' \in Nat
    BY <1>1, <1>3, <1>7
  <2>3. index' \in 0 .. MAX_BUFFERS
    <3>1. i + count <= MAX_BUFFERS
      BY <1>1 DEF SlotsFrom
    <3> QED BY <1>1, <1>7, <3>1, Constants
  <2> QED BY <1>2, <1>3, <1>4, <2>1, <2>2, <2>3 DEF Typed, linkVars
<1>14. SlotInv'
  <2>1. Occupied = i .. (i + count - 1) /\ i + count <= MAX_BUFFERS
    BY <1>1 DEF SlotsFrom
  <2>2. Occupied' = (i + 1) .. ((i + 1) + count' - 1)
    BY <1>1, <1>3, <1>7, <1>10, <2>1
  <2>3. (i + 1) + count' <= MAX_BUFFERS
    BY <1>1, <1>3, <1>7, <2>1, Constants
  <2>4. i + 1 \in Nat /\ index' <= i + 1
    BY <1>1
  <2>5. SlotsFrom(i + 1)'
    BY <1>3, <2>2, <2>3, <2>4 DEF SlotsFrom
  <2> QED BY <2>4, <2>5 DEF SlotInv
<1>15. LoopInv'
  BY <1>2, <1>3, <1>8 DEF LoopInv
<1>16. AckInv'
  <2>1. Means(acks \o outbox, base, taken + 1)' /\ Ordered(acks \o outbox, base, taken + 1)'
    BY <1>2, <1>4 DEF AckInv, Means, Ordered
  <2> QED BY <1>2, <1>3, <1>4, <1>8, <2>1 DEF AckInv
<1> QED BY <1>5, <1>9, <1>11, <1>12, <1>13, <1>14, <1>15, <1>16 DEF IInv

\* STOP_DATA_PACKET is accepted: it was the last packet, and nothing else waits.
LEMMA StopInv ==
    ASSUME IInv, phase = "process", NEW i \in ToVisit, \A j \in ToVisit : i <= j,
           content[slots[i]] = Last, complete' = TRUE, phase' = "sched", sched' = sched - 1,
           UNCHANGED <<slots, count, pool, index>>,
           UNCHANGED <<hostVars, line, acks, linkVars, outbox, content, taken, deafened>>
    PROVE  IInv' /\ Queued' = Queued
<1>1. /\ i \in Nat /\ i \in Occupied /\ SlotsFrom(i) /\ count > 0 /\ Out > 0
      /\ content[slots[i]] = Oldest /\ Oldest \notin Refused
  BY VisitFirst
<1>2. Typed /\ AckInv /\ PoolInv /\ QueueInv /\ LoopInv /\ WindowInv
  BY DEF IInv
<1>3. UNCHANGED <<host, base, next, line, acks, linkVars, outbox, content, taken, deafened>>
  BY DEF hostVars
<1>4. LineInv' /\ WindowInv'
  BY <1>3, LoopFrame
<1>5. taken = Last /\ Queued \subseteq {Last}
  <2>1. Oldest = Last /\ taken \in Nat /\ Last \in Nat /\ taken <= Last /\ Oldest = taken + 1 - Out
        /\ Out \in Nat
    BY <1>1, <1>2, QueueFacts, Constants DEF WindowInv
  <2>2. taken = Last
    BY <1>1, <2>1
  <2>3. Queued = (Oldest .. taken) \ Refused
    BY <1>2, QueueFacts DEF QueueInv
  <2>4. Last .. Last = {Last}
    BY <2>1
  <2>5. Queued \subseteq Last .. Last
    BY <2>1, <2>2, <2>3, Zenon
  <2> QED BY <2>2, <2>4, <2>5, Zenon
<1>6. Out' = Out /\ Oldest' = Oldest /\ Refused' = Refused /\ Window' = Window /\ ~Taking'
      /\ Occupied' = Occupied
  BY <1>3 DEF Out, Oldest, Refused, Window, Taking, Occupied
<1>7. Queued' = Queued /\ Held(taken, Out)' = Held(taken, Out)
  BY <1>3, <1>6 DEF Queued, Held
<1>8. Typed'
  <2>1. sched \in 0 .. SCHED /\ sched > 0
    BY <1>2 DEF Typed, LoopInv
  <2>2. sched' \in 0 .. SCHED
    BY <2>1, Constants
  <2> QED BY <1>2, <1>3, <2>2 DEF Typed, linkVars
<1>9. QueueInv'
  <2>1. \A j \in Occupied' : slots'[j] = BufferOf(content'[slots'[j]])
    BY <1>2, <1>3, <1>6 DEF QueueInv
  <2>2. \A j, m \in Occupied' : j < m => content'[slots'[j]] < content'[slots'[m]]
    BY <1>2, <1>3, <1>6 DEF QueueInv
  <2> QED BY <1>2, <1>3, <1>5, <1>6, <1>7, <2>1, <2>2 DEF QueueInv, BufferOf
<1>10. PoolInv'
  BY <1>2, <1>3, <1>6, <1>7 DEF PoolInv, BufferOf, linkVars
<1>11. SlotInv'
  <2>1. SlotsFrom(i)'
    BY <1>1, <1>6 DEF SlotsFrom
  <2> QED BY <1>1, <2>1 DEF SlotInv
<1>12. LoopInv'
  BY <1>6 DEF LoopInv
<1>13. AckInv'
  <2>1. Means(acks \o outbox, base, taken + 1)' /\ Ordered(acks \o outbox, base, taken + 1)'
    BY <1>2, <1>3 DEF AckInv, Means, Ordered
  <2> QED BY <1>2, <1>3, <1>6, <2>1 DEF AckInv
<1> QED BY <1>4, <1>7, <1>8, <1>9, <1>10, <1>11, <1>12, <1>13 DEF IInv

\* The next packet of the contract is handled, or, when the image is activated already,
\* nothing that counts.
LEMMA HandleSlotInv ==
    ASSUME IInv, HandleSlot
    PROVE  /\ IInv' /\ UNCHANGED <<host, base, taken>>
           /\ \/ handled' = handled /\ Waiting' = Waiting
              \/ \E p \in Waiting : /\ \A q \in Waiting : p <= q
                                    /\ handled' = Append(handled, p) /\ Waiting' = Waiting \ {p}
<1>1. PICK i \in ToVisit :
          /\ \A j \in ToVisit : i <= j
          /\ handled' = IF content[slots[i]] = Last /\ complete THEN handled
                        ELSE Append(handled, content[slots[i]])
          /\ IF content[slots[i]] = Last /\ StopAccepted
             THEN /\ complete' = TRUE
                  /\ phase' = "sched" /\ sched' = sched - 1
                  /\ UNCHANGED <<slots, count, pool, index>>
             ELSE /\ FreeSlot(i)
                  /\ index' = i + 1
                  /\ UNCHANGED <<complete, sched>>
  BY DEF HandleSlot
<1>2. phase = "process" /\ UNCHANGED <<hostVars, line, acks, linkVars, outbox, content, taken, deafened>>
  BY DEF HandleSlot
<1>3. UNCHANGED <<host, base, taken>>
  BY <1>2 DEF hostVars
<1>4. i \in Occupied /\ content[slots[i]] = Oldest /\ Out > 0 /\ Oldest \notin Refused
  BY <1>1, <1>2, VisitFirst
<1>5. Oldest \in Queued
  BY <1>4 DEF Queued
<1>6. \A q \in Queued : Oldest <= q
  <2>1. Queued = Held(taken, Out)
    BY <1>2 DEF IInv, QueueInv
  <2> QED BY <2>1, QueueFacts
<1>7. complete => Queued \subseteq {Last}
  BY DEF IInv, QueueInv
<1>8. complete \in BOOLEAN
  BY DEF IInv, Typed
<1>9. Waiting = Queued \ (IF complete THEN {Last} ELSE {})
      /\ Waiting' = Queued' \ (IF complete' THEN {Last} ELSE {})
  BY DEF Waiting, Queued
<1>10. CASE content[slots[i]] = Last /\ StopAccepted
  <2>1. IInv' /\ Queued' = Queued
    BY <1>1, <1>2, <1>10, StopInv
  <2>2. ~complete /\ complete'
    BY <1>1, <1>10 DEF StopAccepted
  <2>3. Waiting = Queued /\ Waiting' = Queued \ {Oldest} /\ handled' = Append(handled, Oldest)
    BY <1>1, <1>4, <1>9, <1>10, <2>1, <2>2
  <2> QED BY <1>3, <1>5, <1>6, <2>1, <2>3
<1>11. CASE ~(content[slots[i]] = Last /\ StopAccepted)
  <2>1. IInv' /\ Queued' = Queued \ {Oldest} /\ complete' = complete
    BY <1>1, <1>2, <1>11, FreeSlotInv
  <2>2. CASE complete
    <3>1. Oldest = Last
      BY <1>5, <1>7, <2>2
    <3>2. handled' = handled /\ Waiting' = Waiting
      BY <1>1, <1>4, <1>7, <1>9, <2>1, <2>2, <3>1
    <3> QED BY <1>3, <2>1, <3>2
  <2>3. CASE ~complete
    <3>1. Waiting = Queued /\ Waiting' = Queued \ {Oldest} /\ handled' = Append(handled, Oldest)
      BY <1>1, <1>4, <1>9, <2>1, <2>3
    <3> QED BY <1>3, <1>5, <1>6, <2>1, <3>1
  <2> QED BY <1>8, <2>2, <2>3
<1> QED BY <1>10, <1>11

-----------------------------------------------------------------------------
(* A packet is taken over. *)

\* A frame that has the number expected is the next packet, not one of a window before or
\* after it, and there is room for it.
LEMMA NextPacket ==
    ASSUME IInv, NEW p \in Packet, ReceivePacket(p)
    PROVE  /\ p = taken + 1 /\ taken < Last /\ ~complete /\ Taking
           /\ Out < Window /\ base <= Oldest /\ p < base + Window
           /\ IsPacket(Head(line)) /\ Head(line).p = p /\ line # <<>>
<1>1. phase = "usb" /\ line # <<>> /\ Head(line) = Frame("packet", p)
      /\ p % SEQ = m_packet_expected_seq_number
  BY DEF ReceivePacket, Receiving, Expected
<1>2. IsPacket(Head(line)) /\ Head(line).p = p
  BY <1>1 DEF IsPacket, Frame
<1>3. line \in Seq(FrameType) /\ Len(line) \in Nat /\ Len(line) > 0 /\ Head(line) = line[1]
  <2>1. line \in Seq(FrameType)
    BY DEF IInv, Typed
  <2> QED BY <1>1, <2>1, TailOf
<1>4. p < base + Window /\ taken < p + Window
  <2>1. 1 \in 1 .. Len(line)
    BY <1>3
  <2> QED BY <1>2, <1>3, <2>1 DEF IInv, LineInv
<1>5. /\ taken \in Nat /\ base \in Nat /\ Window \in Nat /\ Window > 0 /\ Window < SEQ
      /\ Out \in 0 .. Window /\ Oldest = taken + 1 - Out
      /\ SEQ \in Nat \ {0} /\ Last \in Nat
  BY QueueFacts, Constants
<1>6. base <= taken + 1 /\ m_packet_expected_seq_number = (taken + 1) % SEQ
  BY DEF IInv, WindowInv
<1>7. p \in Nat /\ p <= Last
  BY <1>5 DEF Packet
<1>8. p = taken + 1
  <2> DEFINE x == taken + 1
  <2>1. x \in Int /\ p \in Int /\ p - x < SEQ /\ x - p < SEQ /\ p % SEQ = x % SEQ
    BY <1>1, <1>4, <1>5, <1>6, <1>7
  <2> HIDE DEF x
  <2>2. p = x
    BY <1>5, <2>1, SameRest
  <2> QED BY <2>2 DEF x
<1>9. ~complete
  <2>1. complete => taken = Last
    BY DEF IInv, QueueInv
  <2> QED BY <1>5, <1>7, <1>8, <2>1
<1>10. Taking
  BY <1>1, <1>9 DEF Taking
<1>11. base <= Oldest
  BY <1>10 DEF IInv, PoolInv
<1>12. Out < Window
  BY <1>4, <1>5, <1>8, <1>11
<1> QED BY <1>1, <1>2, <1>4, <1>5, <1>7, <1>8, <1>9, <1>10, <1>11, <1>12

\* The ring after rpc_transport_event_handler.
LEMMA PoolTaken ==
    ASSUME IInv, NEW p, p = taken + 1, Out < Window
    PROVE  LET q == hci_mem_pool_rx_produce(pool)
               e == hci_mem_pool_rx_extract(q)
               c == hci_mem_pool_rx_consume(e, q.read_index)
           IN /\ CanProduce(pool) /\ pool.write_index = BufferOf(p + 1) /\ q.read_index = BufferOf(p)
              /\ p \notin Refused => e = PoolRec(p, Out + 1, Held(p, Out + 1))
              /\ p \in Refused =>
                   LET f == IF Out = 0 THEN 0 ELSE Out + 1 IN c = PoolRec(p, f, Held(p, f))
              /\ Held(p, Out + 1) = Held(taken, Out) \cup ({p} \ Refused)
<1> DEFINE t == taken
           f0 == Out
           H == Held(taken, Out)
           q == hci_mem_pool_rx_produce(pool)
           e == hci_mem_pool_rx_extract(q)
           c == hci_mem_pool_rx_consume(e, q.read_index)
<1>1. /\ t \in Nat /\ f0 \in Nat /\ f0 < Window /\ Window < POOL /\ Window \in Nat /\ POOL \in Nat
      /\ H = ((t + 1 - f0) .. t) \ Refused /\ pool = PoolRec(t, f0, H)
      /\ (f0 # 0 => t + 1 - f0 \notin Refused)
  <2>1. Out \in 0 .. Window /\ Window \in Nat /\ Window < POOL /\ POOL \in Nat /\ taken \in Nat
        /\ Oldest = taken + 1 - Out /\ Held(taken, Out) = (Oldest .. taken) \ Refused
    BY QueueFacts, Constants
  <2>2. pool = PoolRec(taken, Out, Held(taken, Out)) /\ (Out # 0 => Oldest \notin Refused)
    BY DEF IInv, PoolInv
  <2> QED BY <2>1, <2>2
<1>d. \A x, f : Held(x, f) = ((x + 1 - f) .. x) \ Refused
  BY DEF Held
<1>p. p = t + 1
  OBVIOUS
<1> HIDE DEF t, f0, H
<1>2. H \in SUBSET Int /\ f0 < POOL - 1 /\ p \in Nat /\ p \in Int
  BY <1>1, <1>p
<1>3. /\ CanProduce(pool) /\ pool.write_index = BufferOf(t + 2) /\ q.read_index = BufferOf(t + 1)
      /\ e = PoolRec(t + 1, f0 + 1, H \cup {t + 1})
  BY <1>1, <1>2, Extracted
<1>4. t + 2 = p + 1
  BY <1>1, <1>p
<1>5. Held(p, f0 + 1) = H \cup ({p} \ Refused)
  <2>1. p + 1 - (f0 + 1) = t + 1 - f0
    BY <1>1, <1>p
  <2>2. (t + 1 - f0) .. p = ((t + 1 - f0) .. t) \cup {p}
    BY <1>1, <1>p
  <2>3. Held(p, f0 + 1) = ((p + 1 - (f0 + 1)) .. p) \ Refused
    BY <1>d
  <2>4. Held(p, f0 + 1) = (((t + 1 - f0) .. t) \cup {p}) \ Refused
    BY <2>1, <2>2, <2>3
  <2> QED BY <1>1, <2>4
<1>6. p \notin Refused => e = PoolRec(p, f0 + 1, Held(p, f0 + 1))
  <2> SUFFICES ASSUME p \notin Refused PROVE e = PoolRec(p, f0 + 1, Held(p, f0 + 1))
    OBVIOUS
  <2>1. Held(p, f0 + 1) = H \cup {p}
    BY <1>5
  <2> QED BY <1>3, <1>p, <2>1
<1>7. ASSUME p \in Refused
      PROVE  LET f == IF f0 = 0 THEN 0 ELSE f0 + 1 IN c = PoolRec(p, f, Held(p, f))
  <2> DEFINE g == f0 + 1
             K == H \cup {p}
             lo == p + 1 - g
  <2>1. g \in Nat /\ 0 < g /\ g < POOL /\ K \in SUBSET (lo .. p) /\ p \in lo .. p /\ lo = t + 1 - f0
    BY <1>1, <1>2, <1>p
  <2>2. e = PoolRec(p, g, K) /\ q.read_index = BufferOf(p)
    BY <1>3, <1>p
  <2> HIDE DEF g, K, q, e
  <2>3. /\ p # lo /\ lo \in K => c = PoolRec(p, g, K \ {p})
        /\ p = lo /\ lo + 1 \in K \cup {p + 1} => c = PoolRec(p, g - 1, K \ {p})
    BY <1>2, <2>1, <2>2, Consumed
  <2>4. p \notin H /\ K \ {p} = H
    BY <1>1, <1>p DEF K
  <2>5. CASE f0 = 0
    <3>1. H = {} /\ p = lo /\ g - 1 = 0
      BY <1>1, <1>p, <2>1, <2>5 DEF g
    <3>2. Held(p, 0) = {}
      BY <1>2, <1>d
    <3>3. c = PoolRec(p, 0, Held(p, 0))
      BY <2>3, <2>4, <3>1, <3>2
    <3> QED BY <2>5, <3>3
  <2>6. CASE f0 # 0
    <3>1. p # lo /\ lo \in H
      BY <1>1, <1>p, <2>1, <2>6
    <3>2. lo \in K
      BY <3>1 DEF K
    <3>3. Held(p, f0 + 1) = H
      BY <1>5, <1>7
    <3>4. c = PoolRec(p, f0 + 1, Held(p, f0 + 1))
      BY <2>3, <2>4, <3>1, <3>2, <3>3 DEF g
    <3> QED BY <2>6, <3>4
  <2> QED BY <2>5, <2>6
<1> QED BY <1>3, <1>4, <1>p, <1>5, <1>6, <1>7 DEF t, f0, H

\* There is a slot and a place in the scheduler: the packet is queued, unless refused.
LEMMA RoomForPacket ==
    ASSUME IInv, NEW p \in Packet, ReceivePacket(p)
    PROVE  /\ sched = count /\ count <= Out /\ count < MAX_BUFFERS - 1
           /\ Occupied = 0 .. (count - 1) /\ count \in Slot
           /\ IF p \in Refused
              THEN /\ UNCHANGED <<sched, slots, count>>
                   /\ LET q == hci_mem_pool_rx_produce(pool) IN
                      pool' = hci_mem_pool_rx_consume(hci_mem_pool_rx_extract(q), q.read_index)
              ELSE /\ sched' = sched + 1 /\ count' = count + 1
                   /\ slots' = [slots EXCEPT ![count] = BufferOf(p)]
                   /\ pool' = hci_mem_pool_rx_extract(hci_mem_pool_rx_produce(pool))
<1> DEFINE q == hci_mem_pool_rx_produce(pool)
<1>1. p = taken + 1 /\ Taking /\ phase = "usb" /\ ~complete /\ Out < Window
  BY NextPacket DEF Taking
<1>2. /\ count \in Nat /\ Window \in Nat /\ Window < MAX_BUFFERS /\ Window <= SCHED /\ Out \in Nat
      /\ MAX_BUFFERS \in Nat /\ SCHED \in Nat
  BY QueueFacts, Constants
<1>3. sched = count /\ count <= Out
  BY <1>1 DEF IInv, LoopInv, QueueInv
<1>4. Occupied = 0 .. (count - 1)
  <2>1. PICK k \in Nat : SlotsFrom(k)
    BY DEF IInv, SlotInv
  <2>2. k = 0 /\ Occupied = k .. (k + count - 1)
    BY <1>1, <2>1 DEF SlotsFrom
  <2>3. 0 + count - 1 = count - 1
    BY <1>2
  <2> QED BY <2>2, <2>3
<1>5. count \in Slot /\ count < MAX_BUFFERS - 1 /\ sched < SCHED
  BY <1>1, <1>2, <1>3 DEF Slot
<1>6. FreeSlots = count .. (MAX_BUFFERS - 1)
  <2>1. \A i \in Slot : i \in FreeSlots <=> i \notin Occupied
    BY DEF FreeSlots, Occupied
  <2>2. FreeSlots \subseteq Slot
    BY DEF FreeSlots
  <2>3. \A i : i \in Slot /\ i \notin Occupied <=> i \in count .. (MAX_BUFFERS - 1)
    <3>1. MAX_BUFFERS \in Nat /\ count \in Nat /\ count < MAX_BUFFERS - 1
      BY <1>2, <1>5
    <3>2. ASSUME NEW i \in Int
          PROVE  i \in 0 .. (MAX_BUFFERS - 1) /\ i \notin 0 .. (count - 1) <=> i \in count .. (MAX_BUFFERS - 1)
      BY <3>1
    <3>3. 0 .. (MAX_BUFFERS - 1) \subseteq Int /\ count .. (MAX_BUFFERS - 1) \subseteq Int
      OBVIOUS
    <3> QED BY <1>4, <3>2, <3>3, Zenon DEF Slot
  <2> QED BY <2>1, <2>2, <2>3, Zenon
<1>7. SlotFor = count
  <2>1. \E i \in FreeSlots : \A j \in FreeSlots : i <= j
    BY <1>2, <1>5, <1>6
  <2>2. SlotFor \in FreeSlots /\ \A j \in FreeSlots : SlotFor <= j
    BY <2>1, Zenon DEF SlotFor
  <2> HIDE DEF SlotFor
  <2> QED BY <1>2, <1>5, <1>6, <2>2
<1>8. CanProduce(pool) /\ q.read_index = BufferOf(p)
  BY <1>1, PoolTaken
<1>9. rpc_transport_event_handler(q, p)
  BY <1>8 DEF ReceivePacket
<1>10. ~DataQueueFull /\ FreeSlots # {}
  <2>1. count \in FreeSlots
    BY <1>2, <1>5, <1>6
  <2> QED BY <1>2, <1>5, <2>1 DEF DataQueueFull
<1> HIDE DEF q
<1>11. CASE p \in Refused
  <2>1. UNCHANGED <<sched, slots, count>>
        /\ pool' = hci_mem_pool_rx_consume(hci_mem_pool_rx_extract(q), q.read_index)
    BY <1>9, <1>11 DEF rpc_transport_event_handler
  <2> QED BY <1>3, <1>4, <1>5, <1>11, <2>1 DEF q
<1>12. CASE p \notin Refused
  <2>1. sched' = sched + 1 /\ count' = count + 1 /\ slots' = [slots EXCEPT ![count] = BufferOf(p)]
        /\ pool' = hci_mem_pool_rx_extract(q)
    BY <1>5, <1>7, <1>8, <1>9, <1>10, <1>12 DEF rpc_transport_event_handler
  <2> QED BY <1>3, <1>4, <1>5, <1>12, <2>1 DEF q
<1> QED BY <1>11, <1>12

LEMMA ReceivePacketInv ==
    ASSUME IInv, NEW p \in Packet, ReceivePacket(p)
    PROVE  /\ IInv' /\ taken < Last /\ taken' = taken + 1
           /\ Waiting' = Waiting \cup ({taken'} \ Refused)
           /\ UNCHANGED <<host, base, handled>>
<1> DEFINE g == IF p \in Refused /\ Out = 0 THEN 0 ELSE Out + 1
           b == BufferOf(p)
<1>1. /\ p = taken + 1 /\ taken < Last /\ ~complete /\ Taking /\ phase = "usb"
      /\ Out < Window /\ base <= Oldest /\ p < base + Window
      /\ IsPacket(Head(line)) /\ Head(line).p = p /\ line # <<>>
  BY NextPacket DEF Taking
<1>2. /\ m_packet_expected_seq_number' = (p + 1) % SEQ /\ outbox' = Append(outbox, (p + 1) % SEQ)
      /\ Decoded(p) /\ taken' = taken + 1 /\ line' = Tail(line)
      /\ UNCHANGED <<hostVars, acks, phase, index, complete, handled, deafened>>
  BY DEF ReceivePacket, ack_transmit, Receiving
<1>3. /\ host' = host /\ base' = base /\ next' = next /\ acks' = acks /\ phase' = "usb"
      /\ index' = index /\ complete' = complete /\ deafened' = deafened /\ taken' = p
  BY <1>1, <1>2 DEF hostVars
<1>4. Typed /\ WindowInv /\ LineInv /\ AckInv /\ PoolInv /\ QueueInv /\ LoopInv
  BY DEF IInv
<1>5. /\ base \in Nat /\ taken \in Nat /\ Out \in Nat /\ count \in Nat /\ p \in Nat
      /\ Window \in Nat /\ Window > 0 /\ Window < POOL /\ Window < MAX_BUFFERS /\ Window < SEQ
      /\ Window <= SCHED /\ Oldest = taken + 1 - Out
      /\ Held(taken, Out) = (Oldest .. taken) \ Refused
      /\ POOL \in Nat /\ MAX_BUFFERS \in Nat /\ SCHED \in Nat /\ SEQ \in Nat /\ SEQ > 0 /\ Last \in Nat
  BY <1>1, QueueFacts, Constants
<1>6. /\ sched = count /\ count <= Out /\ count < MAX_BUFFERS - 1
      /\ Occupied = 0 .. (count - 1) /\ count \in Slot
      /\ IF p \in Refused
         THEN /\ UNCHANGED <<sched, slots, count>>
              /\ LET q == hci_mem_pool_rx_produce(pool) IN
                 pool' = hci_mem_pool_rx_consume(hci_mem_pool_rx_extract(q), q.read_index)
         ELSE /\ sched' = sched + 1 /\ count' = count + 1
              /\ slots' = [slots EXCEPT ![count] = BufferOf(p)]
              /\ pool' = hci_mem_pool_rx_extract(hci_mem_pool_rx_produce(pool))
  BY RoomForPacket
<1>7. /\ CanProduce(pool) /\ pool.write_index = BufferOf(p + 1)
      /\ pool' = PoolRec(p, g, Held(p, g)) /\ g \in Nat /\ g <= Window
      /\ Held(p, g) = Held(taken, Out) \cup ({p} \ Refused)
      /\ (g # 0 => p + 1 - g \notin Refused) /\ count' <= g
      /\ Oldest <= p + 1 - g
  <2>1. CanProduce(pool) /\ pool.write_index = BufferOf(p + 1)
        /\ Held(p, Out + 1) = Held(taken, Out) \cup ({p} \ Refused)
    BY <1>1, PoolTaken
  <2>2. Out # 0 => Oldest \notin Refused
    BY <1>4 DEF PoolInv
  <2>3. CASE p \notin Refused
    <3>1. g = Out + 1
      BY <2>3
    <3>2. pool' = PoolRec(p, Out + 1, Held(p, Out + 1))
      BY <1>1, <1>6, <2>3, PoolTaken
    <3>3. p + 1 - g = Oldest /\ count' = count + 1
      BY <1>1, <1>5, <1>6, <2>3, <3>1
    <3>4. Out = 0 => Oldest = p
      BY <1>1, <1>5
    <3>5. count' <= g /\ Oldest <= p + 1 - g /\ g <= Window /\ g \in Nat
      BY <1>1, <1>5, <1>6, <3>1, <3>3
    <3>6. p + 1 - g \notin Refused
      BY <2>2, <2>3, <3>3, <3>4
    <3> HIDE DEF g
    <3> QED BY <2>1, <3>1, <3>2, <3>5, <3>6
  <2>4. CASE p \in Refused
    <3> DEFINE f == IF Out = 0 THEN 0 ELSE Out + 1
    <3>1. g = f
      BY <2>4
    <3>2. pool' = PoolRec(p, f, Held(p, f))
      BY <1>1, <1>6, <2>4, PoolTaken
    <3>3. Held(p, f) = Held(p, Out + 1)
      <4>1. CASE Out = 0
        <5>1. Held(taken, Out) = {} /\ {p} \ Refused = {}
          BY <1>5, <2>4, <4>1
        <5>2. Held(p, 0) = {}
          BY <1>5 DEF Held
        <5> QED BY <2>1, <4>1, <5>1, <5>2
      <4>2. CASE Out # 0
        BY <4>2
      <4> QED BY <4>1, <4>2
    <3>4. count' = count /\ f \in Nat /\ f <= Window /\ count' <= f
      BY <1>1, <1>5, <1>6, <2>4
    <3>5. (f # 0 => p + 1 - f = Oldest) /\ (f = 0 => p + 1 - f = taken + 2) /\ (f # 0 => Out # 0)
      BY <1>1, <1>5
    <3>6. (f # 0 => p + 1 - f \notin Refused) /\ Oldest <= p + 1 - f
      BY <1>5, <2>2, <3>4, <3>5
    <3> HIDE DEF f, g
    <3> QED BY <2>1, <3>1, <3>2, <3>3, <3>4, <3>6
  <2> QED BY <2>3, <2>4
<1> HIDE DEF g
<1>8. Out' = g /\ Refused' = Refused /\ Window' = Window /\ Taking' /\ Oldest' = p + 1 - g
      /\ Held(taken, Out)' = Held(p, g)
  <2>1. Out' = g
    <3> DEFINE H == Held(p, g)
               q == PoolRec(p, g, H)
    <3>1. H \in SUBSET Int /\ p \in Int /\ g \in Int /\ pool' = q
      BY <1>5, <1>7 DEF Held
    <3> HIDE DEF H
    <3>2. q.free_available_count = g
      BY <3>1, PoolFields
    <3> QED BY <3>1, <3>2 DEF Out
  <2>2. Refused' = Refused /\ Window' = Window /\ Taking'
    BY <1>1, <1>3 DEF Refused, Window, Taking
  <2>3. Oldest' = p + 1 - g /\ Held(taken, Out)' = Held(p, g)
    BY <1>3, <2>1, <2>2 DEF Oldest, Held
  <2> QED BY <2>1, <2>2, <2>3
<1>9. /\ mp_slip_used_rx_buffer' = BufferOf(p + 1) /\ slip' = "pool"
      /\ mp_slip_used_rx_buffer = b
  <2>1. mp_slip_used_rx_buffer' = BufferOf(p + 1) /\ slip' = "pool"
    BY <1>7 DEF ReceivePacket
  <2> QED BY <1>1, <1>4, <2>1 DEF PoolInv
<1>10. /\ content' \in [Buffer -> 0 .. Last] /\ content'[b] = p
       /\ \A i \in Occupied : content'[slots[i]] = content[slots[i]]
  <2>1. p \in 0 .. Last
    BY <1>5 DEF Packet
  <2> QED BY <1>1, <1>2, <1>9, <2>1, DecodedOnly
<1>11. PoolInv'
  <2>1. pool' = PoolRec(taken', Out', Held(taken, Out)') /\ Out' \in 0 .. Window'
    BY <1>3, <1>5, <1>7, <1>8
  <2>2. (Out' # 0 => Oldest' \notin Refused') /\ (Taking' => base' <= Oldest')
    BY <1>1, <1>3, <1>5, <1>7, <1>8
  <2>3. mp_slip_used_rx_buffer' = BufferOf(taken' + 1)
    BY <1>3, <1>9
  <2> QED BY <1>9, <2>1, <2>2, <2>3 DEF PoolInv, BufferOf, PoolRec, Ring
<1>12. LineInv' /\ line' \in Seq(FrameType)
  BY <1>1, <1>2, <1>3, <1>4, LineTail
<1>13. WindowInv'
  BY <1>1, <1>2, <1>3, <1>4, <1>5, <1>8 DEF WindowInv
<1> DEFINE e == (p + 1) % SEQ
           A == acks \o outbox
<1>14. acks \in Seq(Nat) /\ outbox \in Seq(Nat) /\ e \in Nat
  BY <1>4, <1>5 DEF Typed
<1>15. outbox' \in Seq(Nat) /\ A \in Seq(Nat) /\ acks \o outbox' = Append(A, e)
  <2> HIDE DEF e
  <2>1. outbox' = Append(outbox, e)
    BY <1>2 DEF e
  <2>2. outbox' \in Seq(Nat)
    BY <1>14, <2>1
  <2> QED BY <1>14, <2>1, <2>2, CatFacts
<1>16. AckInv'
  <2>1. Means(A, base, p) /\ Ordered(A, base, p)
    BY <1>1, <1>4 DEF AckInv
  <2> DEFINE u == p + 1
  <2>2. u \in Nat /\ p <= u /\ base <= u /\ u - base < SEQ /\ e = u % SEQ
    BY <1>1, <1>4, <1>5 DEF WindowInv
  <2> HIDE DEF e, u, A
  <2>3. Means(Append(A, e), base, u) /\ Ordered(Append(A, e), base, u)
    BY <1>5, <1>15, <2>1, <2>2, AckAppend
  <2>4. Means(acks \o outbox', base, p + 1) /\ Ordered(acks \o outbox', base, p + 1)
    BY <1>15, <2>3 DEF u
  <2>5. Means(acks \o outbox, base, taken + 1)' /\ Ordered(acks \o outbox, base, taken + 1)'
    BY <1>3, <2>4 DEF Means, Ordered
  <2>6. Means(acks, base, Oldest)'
    <3>1. Means(acks, base, Oldest)
      BY <1>1, <1>4 DEF AckInv
    <3>2. \A x \in base .. Oldest : x \in base .. Oldest'
      BY <1>5, <1>7, <1>8
    <3> QED BY <1>3, <3>1, <3>2 DEF Means
  <2> QED BY <1>3, <2>5, <2>6 DEF AckInv
<1>17. Typed'
  <2>1. slots' \in [Slot -> Buffer \cup {NULL}] /\ count' \in Nat /\ sched' \in 0 .. SCHED
    <3>1. b \in Buffer /\ slots \in [Slot -> Buffer \cup {NULL}] /\ sched \in 0 .. SCHED
      BY <1>4, <1>5, Buffers DEF Typed
    <3>2. sched < SCHED
      BY <1>1, <1>5, <1>6
    <3> QED BY <1>5, <1>6, <3>1, <3>2
  <2>2. taken' \in Nat
    BY <1>3, <1>5
  <2> QED BY <1>3, <1>4, <1>9, <1>10, <1>12, <1>15, <2>1, <2>2 DEF Typed
<1>18. /\ Occupied' = Occupied \cup (IF p \in Refused THEN {} ELSE {count})
       /\ \A i \in Occupied : slots'[i] = slots[i] /\ i < count
       /\ p \notin Refused => slots'[count] = b
  <2>1. slots \in [Slot -> Buffer \cup {NULL}] /\ b # NULL /\ Occupied \subseteq Slot
    BY <1>4, <1>5, Buffers DEF Typed, Occupied
  <2>2. count \notin Occupied /\ \A i \in Occupied : i < count
    BY <1>5, <1>6
  <2>3. CASE p \in Refused
    BY <1>6, <2>2, <2>3 DEF Occupied
  <2>4. CASE p \notin Refused
    <3>1. slots' = [slots EXCEPT ![count] = b]
      BY <1>6, <2>4
    <3>2. slots'[count] = b /\ \A i \in Slot : i # count => slots'[i] = slots[i]
      BY <1>6, <2>1, <3>1
    <3> HIDE DEF b
    <3>3. Occupied' = Occupied \cup {count}
      BY <1>6, <2>1, <3>2 DEF Occupied
    <3> QED BY <2>1, <2>2, <2>4, <3>2, <3>3
  <2> QED BY <2>3, <2>4
<1>19. /\ \A i \in Occupied : content'[slots'[i]] = content[slots[i]]
       /\ p \notin Refused => content'[slots'[count]] = p
  BY <1>10, <1>18
<1>20. Queued' = Queued \cup ({p} \ Refused)
  <2>1. CASE p \in Refused
    BY <1>18, <1>19, <2>1 DEF Queued
  <2>2. CASE p \notin Refused
    BY <1>18, <1>19, <2>2 DEF Queued
  <2> QED BY <2>1, <2>2
<1>21. QueueInv'
  <2>1. count' <= Out' /\ Queued' = Held(taken, Out)' /\ phase' # "closed" /\ ~complete'
    BY <1>1, <1>3, <1>4, <1>7, <1>8, <1>20 DEF QueueInv
  <2>2. ASSUME NEW i \in Occupied' PROVE slots'[i] = BufferOf(content'[slots'[i]])
    <3>1. CASE i \in Occupied
      <4>1. slots[i] = BufferOf(content[slots[i]])
        BY <1>1, <3>1, SlotBuffers
      <4>2. slots'[i] = slots[i] /\ content'[slots'[i]] = content[slots[i]]
        BY <1>18, <1>19, <3>1
      <4> QED BY <4>1, <4>2, Zenon
    <3>2. CASE i \notin Occupied
      <4>1. p \notin Refused /\ i = count
        BY <1>18, <3>2
      <4> QED BY <1>18, <1>19, <4>1
    <3> QED BY <3>1, <3>2
  <2>3. ASSUME NEW i \in Occupied', NEW j \in Occupied', i < j
        PROVE  content'[slots'[i]] < content'[slots'[j]]
    <3>1. CASE j \in Occupied
      <4>1. i \in Occupied
        BY <1>5, <1>6, <1>18, <2>3, <3>1
      <4>2. content[slots[i]] < content[slots[j]]
        BY <1>4, <2>3, <3>1, <4>1 DEF QueueInv
      <4> QED BY <1>19, <3>1, <4>1, <4>2
    <3>2. CASE j \notin Occupied
      <4>1. p \notin Refused /\ j = count
        BY <1>18, <3>2
      <4>2. i \in Occupied
        BY <1>5, <1>18, <2>3, <4>1
      <4>3. content[slots[i]] \in Oldest .. taken
        BY <1>1, <4>2, SlotBuffers
      <4> QED BY <1>1, <1>5, <1>19, <4>1, <4>2, <4>3
    <3> QED BY <3>1, <3>2
  <2> QED BY <2>1, <2>2, <2>3 DEF QueueInv, BufferOf
<1>22. SlotInv'
  <2>1. Occupied' = 0 .. (0 + count' - 1) /\ 0 + count' <= MAX_BUFFERS
    BY <1>5, <1>6, <1>18
  <2>2. SlotsFrom(0)'
    BY <1>3, <2>1 DEF SlotsFrom
  <2> QED BY <2>2 DEF SlotInv
<1>23. LoopInv'
  BY <1>3, <1>6 DEF LoopInv
<1>24. Waiting' = Waiting \cup ({taken'} \ Refused)
  <2>1. Waiting = Queued /\ Waiting' = Queued'
    BY <1>1, <1>3 DEF Waiting, Queued
  <2> QED BY <1>3, <1>20, <2>1
<1> QED BY <1>1, <1>2, <1>3, <1>11, <1>12, <1>13, <1>16, <1>17, <1>21, <1>22, <1>23, <1>24 DEF IInv

-----------------------------------------------------------------------------
(* The theorems. *)

LEMMA StepInv == IInv /\ [Next]_vars => IInv'
<1> SUFFICES ASSUME IInv, [Next]_vars PROVE IInv'
  OBVIOUS
<1>1. CASE HostSends
  BY <1>1, HostSendsInv
<1>2. CASE HostTimeout
  BY <1>2, HostTimeoutInv
<1>3. CASE HostReadsAck
  BY <1>3, HostReadsAckInv
<1>4. CASE \E n \in Noise : HostNoise(n)
  BY <1>4, HostNoiseInv
<1>5. CASE Receive
  BY <1>5, ReceivePacketInv, ReceiveIdleActions DEF Receive
<1>6. CASE MainLoop
  BY <1>6, NextEventInv, HandleSlotInv, EventReturnsInv, UsbTaskEndsInv DEF MainLoop
<1>7. CASE UNCHANGED vars
  <2>1. /\ UNCHANGED <<host, base, next, line, acks, linkVars, outbox, queueVars, loopVars>>
        /\ UNCHANGED <<taken, deafened>>
    BY <1>7 DEF vars, hostVars, history
  <2>2. UNCHANGED queueSide
    BY <2>1 DEF queueSide
  <2>3. PoolInv /\ base \in Nat /\ AckInv
    BY DEF IInv, Typed
  <2>4. PoolInv' /\ QueueInv' /\ SlotInv' /\ LoopInv'
    BY <2>1, <2>2, <2>3, ReceiverSame DEF PoolInv
  <2>5. LineInv' /\ WindowInv'
    BY <2>1, LoopFrame
  <2>6. AckInv'
    BY <2>1, <2>3, AckSame DEF queueVars, loopVars
  <2>7. Typed'
    BY <2>1 DEF IInv, Typed, queueVars, loopVars, linkVars
  <2> QED BY <2>4, <2>5, <2>6, <2>7 DEF IInv
<1> QED BY <1>1, <1>2, <1>3, <1>4, <1>5, <1>6, <1>7 DEF Next

LEMMA Inductive == Spec => []IInv
<1>1. Init => IInv
  BY InitInv
<1>2. IInv /\ [Next]_vars => IInv'
  BY StepInv
<1> QED BY <1>1, <1>2, PTL DEF Spec

LEMMA TypeOKHolds == IInv => TypeOK
<1> SUFFICES ASSUME IInv PROVE TypeOK
  OBVIOUS
<1>1. Typed /\ WindowInv /\ PoolInv /\ QueueInv
  BY DEF IInv
<1>2. /\ base \in Nat /\ taken \in Nat /\ Out \in 0 .. Window /\ count \in Nat
      /\ Window \in Nat /\ Window < POOL /\ Window < MAX_BUFFERS
      /\ Last \in Nat /\ SEQ \in Nat /\ SEQ > 0 /\ POOL \in Nat /\ MAX_BUFFERS \in Nat
  BY QueueFacts, Constants
<1>3. base \in 1 .. (Last + 1) /\ next \in base .. (Last + 1)
  BY <1>1, <1>2 DEF WindowInv, Typed
<1>4. m_packet_expected_seq_number \in 0 .. (SEQ - 1)
  BY <1>1, <1>2 DEF WindowInv
<1>5. mp_slip_used_rx_buffer \in Buffer \cup {NULL}
  <2>1. taken + 1 \in Int /\ mp_slip_used_rx_buffer = BufferOf(taken + 1)
    BY <1>1, <1>2 DEF PoolInv
  <2> QED BY <2>1, Buffers
<1>6. count = Cardinality(Occupied) /\ count < MAX_BUFFERS
  <2>1. PICK k \in Nat : SlotsFrom(k)
    BY DEF IInv, SlotInv
  <2>2. Occupied = k .. (k + count - 1)
    BY <2>1 DEF SlotsFrom
  <2> DEFINE m == k + count - 1
  <2>3. k \in Int /\ m \in Int
    BY <1>2
  <2>4. Cardinality(k .. m) = IF k > m THEN 0 ELSE m - k + 1
    BY <2>3, FS_Interval
  <2>5. (IF k > m THEN 0 ELSE m - k + 1) = count
    BY <1>2
  <2>6. count <= Out
    BY <1>1 DEF QueueInv
  <2> QED BY <1>2, <2>2, <2>4, <2>5, <2>6
<1>7. /\ pool.free_window_count + pool.free_available_count + pool.read_available_count = POOL
      /\ pool.free_available_count \in 0 .. POOL /\ pool.read_available_count \in 0 .. POOL
  <2> DEFINE H == Held(taken, Out)
             q == PoolRec(taken, Out, H)
  <2>1. H \in SUBSET Int /\ pool = q /\ taken \in Int /\ Out \in Int
    BY <1>1, <1>2 DEF Held, PoolInv
  <2> HIDE DEF H
  <2>2. /\ q.free_window_count = POOL - 1 - Out /\ q.free_available_count = Out
        /\ q.read_available_count = 1
    BY <2>1, PoolFields
  <2> QED BY <1>2, <2>1, <2>2
<1> QED BY <1>1, <1>3, <1>4, <1>5, <1>6, <1>7 DEF Typed, TypeOK

\* The types, and the accounts of the receive queue: every buffer of hci_mem_pool is free, with
\* SLIP or out, and data_queue's count is the number of slots in use, for any number of
\* buffers, slots and sequence numbers and any host with a window smaller than each.
THEOREM TypeCorrect == Spec => []TypeOK
<1>1. IInv => TypeOK
  BY TypeOKHolds
<1> QED BY <1>1, Inductive, PTL

\* rx_vendor_specific_pkt_type_handle never runs out of receive buffers, and the one that
\* SLIP fills is never one that a queued packet still uses.
THEOREM AlwaysListens == Spec => []ReceiverListens
<1>1. IInv => ReceiverListens
  <2> SUFFICES ASSUME IInv PROVE ReceiverListens
    OBVIOUS
  <2>1. slip = "pool" \/ deafened
    BY DEF IInv, PoolInv
  <2>2. mp_slip_used_rx_buffer # NULL
    <3>1. taken + 1 \in Int /\ mp_slip_used_rx_buffer = BufferOf(taken + 1)
      BY QueueFacts DEF IInv, PoolInv
    <3> QED BY <3>1, Buffers
  <2>3. \A i \in Occupied : slots[i] # mp_slip_used_rx_buffer
    <3>1. CASE phase = "closed"
      BY <3>1 DEF IInv, QueueInv
    <3>2. CASE phase # "closed"
      BY <3>2, SlotBuffers
    <3> QED BY <3>1, <3>2
  <2> QED BY <2>1, <2>2, <2>3 DEF ReceiverListens
<1> QED BY <1>1, Inductive, PTL

LEMMA InitRefines == Init => Contract!Init
<1> SUFFICES ASSUME Init PROVE Contract!Init
  OBVIOUS
<1>1. Refused \subseteq 1 .. Last
  <2>1. Refused \subseteq 1 .. (Last - 1) /\ Last \in Nat
    BY HostFacts, Constants DEF Init
  <2> QED BY <2>1
<1>2. Waiting = {}
  BY DEF Init, Waiting, Occupied
<1> QED BY <1>1, <1>2 DEF Contract!Init, Init

LEMMA ToldMore ==
    ASSUME NEW b \in Nat, NEW t \in Nat, NEW c \in b .. (t + 1), c # b
    PROVE  b - 1 < t /\ c - 1 \in ((b - 1) + 1) .. t
<1>1. (b - 1) + 1 = b
  OBVIOUS
<1>2. b < c /\ c <= t + 1 /\ c \in Int
  OBVIOUS
<1>3. b - 1 < t
  BY <1>2
<1>4. b <= c - 1 /\ c - 1 <= t
  BY <1>2
<1> QED BY <1>1, <1>3, <1>4

\* Every step takes a packet over, tells the host, hands a packet on, or changes nothing
\* that the contract knows.
LEMMA StepRefines == IInv /\ [Next]_vars => [Contract!Next]_(Contract!streamVars)
<1> SUFFICES ASSUME IInv, [Next]_vars PROVE Contract!Next \/ UNCHANGED Contract!streamVars
  OBVIOUS
<1>s. ASSUME UNCHANGED <<host, base, taken, handled>>, Waiting' = Waiting
      PROVE  UNCHANGED Contract!streamVars
  BY <1>s DEF Contract!streamVars, Refused
<1>w. ASSUME UNCHANGED <<complete, slots>>, \A i \in Occupied : content'[slots[i]] = content[slots[i]]
      PROVE  Waiting' = Waiting
  <2>1. Occupied' = Occupied
    BY <1>w DEF Occupied
  <2> QED BY <1>w, <2>1 DEF Waiting
<1>1. CASE HostSends \/ HostTimeout \/ \E n \in Noise : HostNoise(n)
  <2>1. UNCHANGED <<host, base, queueVars, loopVars, history>>
    BY <1>1 DEF HostSends, HostTimeout, HostNoise
  <2>2. UNCHANGED <<host, base, taken, handled, complete, slots, content>>
    BY <2>1 DEF queueVars, loopVars, history
  <2> QED BY <1>s, <1>w, <2>2
<1>2. CASE HostReadsAck
  <2>1. UNCHANGED <<host, queueVars, loopVars, history>>
    BY <1>2 DEF HostReadsAck
  <2>2. UNCHANGED <<host, taken, handled, complete, slots, content>>
    BY <2>1 DEF queueVars, loopVars, history
  <2>3. Waiting' = Waiting
    BY <1>w, <2>2
  <2>4. base' \in base .. (taken + 1) /\ base \in Nat /\ taken \in Nat
    BY <1>2, HostReadsAckStep, QueueFacts
  <2>5. CASE base' = base
    BY <1>s, <2>2, <2>3, <2>5
  <2>6. CASE base' # base
    <3>1. base - 1 < taken /\ base' - 1 \in ((base - 1) + 1) .. taken
      BY <2>4, <2>6, ToldMore
    <3>2. Contract!Tell
      BY <2>2, <2>3, <3>1 DEF Contract!Tell, Refused
    <3> QED BY <3>2 DEF Contract!Next
  <2> QED BY <2>5, <2>6
<1>3. CASE Receive
  <2>1. CASE \E p \in Packet : ReceivePacket(p)
    <3>1. /\ taken < Last /\ taken' = taken + 1
          /\ Waiting' = Waiting \cup ({taken'} \ Refused) /\ UNCHANGED <<host, base, handled>>
      BY <2>1, ReceivePacketInv
    <3>2. Contract!Take
      BY <3>1 DEF Contract!Take, Refused
    <3> QED BY <3>2 DEF Contract!Next
  <2>2. CASE (\E p \in Packet : ReceiveDuplicate(p) \/ ReceiveDeaf(p))
               \/ ReceiveInvalid \/ ReceiveOther \/ ReceiveOverlong
    <3>1. UNCHANGED <<host, base, taken, handled, complete, slots>>
          /\ \A i \in Occupied : content'[slots[i]] = content[slots[i]]
      BY <2>2, ReceiveIdleActions
    <3> QED BY <1>s, <1>w, <3>1
  <2> QED BY <1>3, <2>1, <2>2 DEF Receive
<1>4. CASE NextEvent \/ EventReturns
  <2>1. UNCHANGED <<host, base, taken, handled, complete, content, slots>>
    BY <1>4, NextEventInv, EventReturnsInv
  <2> QED BY <1>s, <1>w, <2>1
<1>5. CASE HandleSlot
  <2>1. /\ UNCHANGED <<host, base, taken>>
        /\ \/ handled' = handled /\ Waiting' = Waiting
           \/ \E p \in Waiting : /\ \A q \in Waiting : p <= q
                                 /\ handled' = Append(handled, p) /\ Waiting' = Waiting \ {p}
    BY <1>5, HandleSlotInv
  <2>2. CASE handled' = handled /\ Waiting' = Waiting
    BY <1>s, <2>1, <2>2
  <2>3. CASE \E p \in Waiting : /\ \A q \in Waiting : p <= q
                                /\ handled' = Append(handled, p) /\ Waiting' = Waiting \ {p}
    <3>1. Contract!Handle
      BY <2>1, <2>3 DEF Contract!Handle, Refused
    <3> QED BY <3>1 DEF Contract!Next
  <2> QED BY <2>1, <2>2, <2>3
<1>6. CASE UsbTaskEnds
  <2>1. UNCHANGED <<host, base, taken, handled>> /\ Waiting' = Waiting
    BY <1>6, UsbTaskEndsInv
  <2> QED BY <1>s, <2>1
<1>7. CASE UNCHANGED vars
  <2>1. UNCHANGED <<host, base, taken, handled, complete, slots, content>>
    BY <1>7 DEF vars, hostVars, history, queueVars, loopVars
  <2> QED BY <1>s, <1>w, <2>1
<1> QED BY <1>1, <1>2, <1>3, <1>4, <1>5, <1>6, <1>7 DEF Next, MainLoop

\* What rx_vendor_specific_pkt_type_handle has acknowledged, process_dfu_packet hands to the
\* DFU state machine, in order, each packet once and with its own bytes: the transport
\* implements StreamContract, whatever the host repeats and whatever else is on the line.
THEOREM Refinement == Spec => ImplementsStream
<1>1. Init => Contract!Init
  BY InitRefines
<1>2. IInv /\ [Next]_vars => [Contract!Next]_(Contract!streamVars)
  BY StepRefines
<1> QED BY <1>1, <1>2, Inductive, PTL DEF Spec, ImplementsStream, Contract!Spec
=============================================================================
