----------------------------- MODULE BleProofs -----------------------------
(***************************************************************************)
(* Proofs about the BLE transport, for every size of image, word,           *)
(* accumulator and pool, and every controller of Peers: the accounts of the *)
(* data path hold, what the DFU state machine is given is a prefix of the   *)
(* image, and the image is reported as received only when flash holds it.   *)
(***************************************************************************)
EXTENDS BleTransport, PoolProofs, SequenceTheorems, WellFoundedInduction

-----------------------------------------------------------------------------
(* The receive buffers that are out while data is received. *)

\* st: the stores under way; late: the timer has expired, and every packet is refused.
Rings(q, st, late) ==
    LET f == q.free_available_count
        L == Len(st)
    IN  /\ q \in PoolType /\ q.write_index \in Buffer /\ q.read_index = q.write_index
        /\ q.read_available_count = 0
        /\ L <= f /\ f <= POOL /\ q.free_window_count = POOL - f
        /\ (L = 0 => f = 0) /\ (~late => f = L)
        /\ q.free_index = {st[i] : i \in 1 .. L}
        /\ \A i \in 1 .. L : st[i] = Behind(q.write_index, i - 1 - f)

LEMMA NewBuffer ==
    ASSUME NEW q, NEW st \in Seq(Buffer), NEW late, Rings(q, st, late), CanProduce(q)
    PROVE  /\ q.free_available_count < POOL
           /\ \A i \in 1 .. Len(st) : st[i] # q.write_index
<1> DEFINE f == q.free_available_count
           w == q.write_index
<1>1. POOL \in Nat \ {0} /\ f \in Int /\ w \in Buffer /\ w \in Int /\ Len(st) \in Nat
  BY PoolAssumption DEF Rings, PoolType
<1>2. f < POOL
  BY <1>1 DEF Rings, CanProduce
<1>3. ASSUME NEW i \in 1 .. Len(st), st[i] = w PROVE FALSE
  <2> DEFINE k == i - 1 - f
             zero == 0
  <2>1. k \in Int /\ zero \in Int /\ k - zero < POOL /\ zero - k < POOL /\ k # zero
    BY <1>1, <1>2, <1>3 DEF Rings
  <2>2. Behind(w, k) = Behind(w, zero)
    BY <1>1, <1>3, BehindZero DEF Rings
  <2> HIDE DEF k, zero, w
  <2> QED BY <1>1, <2>1, <2>2, BehindFacts
<1> QED BY <1>2, <1>3

\* A packet that is accepted.
LEMMA RingTakes ==
    ASSUME NEW q, NEW st \in Seq(Buffer), Rings(q, st, FALSE), CanProduce(q)
    PROVE  Rings(hci_mem_pool_rx_extract(hci_mem_pool_rx_produce(q)),
                 Append(st, q.write_index), FALSE)
<1> DEFINE f == q.free_available_count
           w == q.write_index
           L == Len(st)
           s == hci_mem_pool_rx_extract(hci_mem_pool_rx_produce(q))
           tt == Append(st, w)
<1>1. POOL \in Nat \ {0} /\ f \in Int /\ w \in Buffer /\ w \in Int /\ L \in Nat /\ f = L
  BY PoolAssumption DEF Rings, PoolType
<1>2. f < POOL
  BY NewBuffer
<1>3. /\ s \in PoolType
      /\ s.free_window_count = POOL - f - 1 /\ s.free_available_count = f + 1
      /\ s.read_available_count = 0
      /\ s.write_index = After(w) /\ s.read_index = After(w)
      /\ s.free_index = q.free_index \cup {w}
  BY <1>1, TakeBuffer DEF Rings
<1>4. Len(tt) = L + 1 /\ \A i \in 1 .. (L + 1) : tt[i] = IF i = L + 1 THEN w ELSE st[i]
  BY <1>1
<1>5. After(w) \in Buffer
  BY <1>1, AfterBuffer
<1>6. ASSUME NEW i \in 1 .. (L + 1) PROVE tt[i] = Behind(After(w), i - 1 - (f + 1))
  <2> DEFINE k == i - 1 - (f + 1)
  <2>1. k \in Int /\ k + 1 = i - 1 - f
    BY <1>1
  <2> HIDE DEF k, w
  <2>2. Behind(After(w), k) = Behind(w, k + 1)
    BY <1>1, <2>1, BehindFacts
  <2>3. tt[i] = Behind(w, i - 1 - f)
    <3>1. CASE i = L + 1
      BY <1>1, <1>4, <3>1, BehindZero
    <3>2. CASE i \in 1 .. L
      BY <1>1, <1>4, <3>2 DEF Rings, w
    <3> QED BY <1>1, <3>1, <3>2
  <2> QED BY <2>1, <2>2, <2>3 DEF k
<1>7. q.free_index \cup {w} = {tt[i] : i \in 1 .. (L + 1)}
  <2>1. q.free_index = {st[i] : i \in 1 .. L}
    BY DEF Rings
  <2> HIDE DEF tt, w
  <2> QED BY <1>1, <1>4, <2>1
<1>8. (POOL - f) - 1 = POOL - (f + 1)
  BY <1>1
<1> HIDE DEF s, tt, w, f, L
<1>9. /\ Len(tt) <= f + 1 /\ f + 1 <= POOL /\ s.free_window_count = POOL - (f + 1)
      /\ Len(tt) # 0 /\ f + 1 = Len(tt)
  BY <1>1, <1>2, <1>3, <1>4, <1>8
<1>10. s.free_index = {tt[i] : i \in 1 .. Len(tt)}
  BY <1>3, <1>4, <1>7, Zenon
<1>11. \A i \in 1 .. Len(tt) : tt[i] = Behind(After(w), i - 1 - (f + 1))
  BY <1>4, <1>6, Zenon
<1>12. Rings(s, tt, FALSE)
  BY <1>3, <1>5, <1>9, <1>10, <1>11, Zenon DEF Rings
<1> QED BY <1>12 DEF s, tt, w

LEMMA IsRings ==
    ASSUME NEW s \in PoolType, NEW tt, NEW f, NEW w \in Buffer, NEW late,
           s.free_available_count = f, s.write_index = w, s.read_index = w,
           s.read_available_count = 0, Len(tt) <= f, f <= POOL, s.free_window_count = POOL - f,
           Len(tt) = 0 => f = 0, ~late => f = Len(tt),
           s.free_index = {tt[i] : i \in 1 .. Len(tt)},
           \A i \in 1 .. Len(tt) : tt[i] = Behind(w, i - 1 - f)
    PROVE  Rings(s, tt, late)
  BY Zenon DEF Rings

\* A packet that is refused since the timer has expired, or data is not received yet.
LEMMA RingRefuses ==
    ASSUME NEW q, NEW st \in Seq(Buffer), NEW late, Rings(q, st, late), CanProduce(q),
           late \/ st = <<>>
    PROVE  LET p == hci_mem_pool_rx_extract(hci_mem_pool_rx_produce(q)) IN
           Rings(hci_mem_pool_rx_consume(p, q.write_index), st, late)
<1> DEFINE f == q.free_available_count
           w == q.write_index
           L == Len(st)
           p == hci_mem_pool_rx_extract(hci_mem_pool_rx_produce(q))
           s == hci_mem_pool_rx_consume(p, w)
           n == Frees(p, w)
           F == {st[i] : i \in 1 .. L}
           v == After(w)
<1>1. /\ POOL \in Nat \ {0} /\ f \in Int /\ w \in Buffer /\ w \in Int /\ L \in Nat
      /\ L <= f /\ (L = 0 => f = 0)
  BY PoolAssumption DEF Rings, PoolType
<1>2. f < POOL /\ w \notin F
  BY NewBuffer
<1>3. /\ p \in PoolType
      /\ p.free_window_count = POOL - f - 1 /\ p.free_available_count = f + 1
      /\ p.read_available_count = 0
      /\ p.write_index = v /\ p.read_index = v
      /\ p.free_index = F \cup {w}
  BY <1>1, TakeBuffer DEF Rings
<1>4. p.free_index \ {w} = F
  BY <1>2, <1>3
<1>5. v \in Buffer /\ v \in Int
  BY <1>1, AfterBuffer, BehindZero
<1>6. ASSUME NEW i \in Int PROVE Behind(v, i - 1 - (f + 1)) = Behind(w, i - 1 - f)
  <2> DEFINE k == i - 1 - (f + 1)
  <2>1. k \in Int /\ k + 1 = i - 1 - f
    BY <1>1
  <2> HIDE DEF k, w
  <2>2. Behind(After(w), k) = Behind(w, k + 1)
    BY <1>1, <2>1, BehindFacts
  <2> QED BY <2>1, <2>2 DEF k
<1>7. (p.read_index - p.free_available_count) % POOL = Behind(w, 1 - 1 - f)
  <2>1. v - (f + 1) = v + (1 - 1 - (f + 1))
    BY <1>1, <1>5
  <2>2. (v - (f + 1)) % POOL = Behind(v, 1 - 1 - (f + 1))
    BY <2>1 DEF Behind
  <2> QED BY <1>3, <1>6, <2>2
<1>8. L # 0 => n = 0
  <2> SUFFICES ASSUME L # 0 PROVE n = 0
    OBVIOUS
  <2>1. 1 \in 1 .. L /\ st[1] = Behind(w, 1 - 1 - f)
    BY <1>1 DEF Rings
  <2>2. Behind(w, 1 - 1 - f) \in F
    BY <2>1
  <2> HIDE DEF p, F, w, f
  <2> QED BY <1>4, <1>7, <2>2, Zenon DEF Frees
<1>9. L = 0 => n = 1
  <2> SUFFICES ASSUME L = 0 PROVE n = 1
    OBVIOUS
  <2>1. F = {} /\ f + 1 = 1
    BY <1>1
  <2> HIDE DEF p, F, w, f
  <2> QED BY <1>3, <1>4, <2>1, Zenon DEF Frees
<1>10. /\ s \in PoolType /\ n \in Int
       /\ s.free_window_count = (POOL - f - 1) + n
       /\ s.free_available_count = (f + 1) - n
       /\ s.read_available_count = 0
       /\ s.write_index = v /\ s.read_index = v
       /\ s.free_index = F
  <2> HIDE DEF p, w, F, v, f
  <2> QED BY <1>3, <1>4, ConsumeBuffer
<1> DEFINE g == (f + 1) - n
<1>11. /\ L <= g /\ g <= POOL /\ s.free_window_count = POOL - g
       /\ (L = 0 => g = 0) /\ (~late => g = L)
  <2> HIDE DEF s, n, f
  <2>1. ~late => L = 0
    BY <1>1
  <2> QED BY <1>1, <1>2, <1>8, <1>9, <1>10, <2>1
<1>12. \A i \in 1 .. L : st[i] = Behind(v, i - 1 - g)
  <2> SUFFICES ASSUME NEW i \in 1 .. L PROVE st[i] = Behind(v, i - 1 - g)
    OBVIOUS
  <2>1. i \in Int /\ L # 0 /\ st[i] = Behind(w, i - 1 - f)
    BY <1>1 DEF Rings
  <2>2. g = f + 1
    <3> HIDE DEF n, f
    <3> QED BY <1>1, <1>8, <2>1
  <2> HIDE DEF g, w, v, f
  <2> QED BY <1>6, <2>1, <2>2
<1> HIDE DEF s, n, f, g, v, w, p, F
<1>13. Rings(s, st, late)
  BY <1>5, <1>10, <1>11, <1>12, IsRings DEF g, F
<1> QED BY <1>13 DEF s, p, w

\* The oldest store is done.
LEMMA RingStored ==
    ASSUME NEW q, NEW st \in Seq(Buffer), NEW late, Rings(q, st, late), st # <<>>
    PROVE  /\ q.free_available_count # 0
           /\ Rings(hci_mem_pool_rx_consume(q, Head(st)), Tail(st), late)
           /\ \A i \in 1 .. Len(st) : st[i] = st[1] => i = 1
<1> DEFINE f == q.free_available_count
           w == q.write_index
           L == Len(st)
           b == Head(st)
           tt == Tail(st)
           s == hci_mem_pool_rx_consume(q, b)
           n == Frees(q, b)
           F == {tt[i] : i \in 1 .. Len(tt)}
<1>1. /\ POOL \in Nat \ {0} /\ f \in Int /\ w \in Buffer /\ w \in Int /\ L \in Nat
      /\ L <= f /\ f <= POOL /\ L > 0 /\ (~late => f = L)
  BY PoolAssumption DEF Rings, PoolType
<1>2. b = st[1] /\ Len(tt) = L - 1 /\ \A i \in 1 .. (L - 1) : tt[i] = st[i + 1]
  BY <1>1
<1>3. \A i \in 1 .. L : st[i] = Behind(w, i - 1 - f)
  BY DEF Rings
<1>4. \A i, j \in 1 .. L : st[i] = st[j] => i = j
  <2> SUFFICES ASSUME NEW i \in 1 .. L, NEW j \in 1 .. L, st[i] = st[j] PROVE i = j
    OBVIOUS
  <2> DEFINE k == i - 1 - f
             l == j - 1 - f
  <2>0. i \in Int /\ j \in Int /\ 1 <= i /\ i <= L /\ 1 <= j /\ j <= L
    BY <1>1
  <2>1. k \in Int /\ l \in Int /\ k - l < POOL /\ l - k < POOL
    <3> HIDE DEF L, f
    <3> QED BY <1>1, <2>0
  <2>3. Behind(w, k) = Behind(w, l)
    BY <1>3
  <2>2. k = l
    <3> HIDE DEF k, l, w
    <3> QED BY <1>1, <2>1, <2>3, BehindFacts
  <2> QED BY <1>1, <2>0, <2>2
<1>5. q.free_index \ {b} = F
  <2>1. q.free_index = {st[i] : i \in 1 .. L}
    BY DEF Rings
  <2>2. \A i \in 1 .. L : i = 1 \/ (i - 1 \in 1 .. (L - 1) /\ (i - 1) + 1 = i)
    BY <1>1
  <2>3. \A i \in 1 .. (L - 1) : i + 1 \in 1 .. L /\ i + 1 # 1
    BY <1>1
  <2>4. 1 \in 1 .. L
    BY <1>1
  <2> HIDE DEF b, tt, L
  <2>5. ASSUME NEW x \in q.free_index, x # b PROVE x \in F
    <3>1. PICK i \in 1 .. L : x = st[i]
      BY <2>1
    <3>2. i - 1 \in 1 .. (L - 1) /\ tt[i - 1] = x
      BY <1>2, <2>2, <2>5, <3>1
    <3> QED BY <1>2, <3>2
  <2>6. ASSUME NEW x \in F PROVE x \in q.free_index /\ x # b
    <3>1. PICK i \in 1 .. (L - 1) : x = tt[i]
      BY <1>2
    <3>2. x = st[i + 1] /\ i + 1 \in 1 .. L /\ i + 1 # 1
      BY <1>2, <2>3, <3>1
    <3> QED BY <1>2, <1>4, <2>1, <2>4, <3>2
  <2> QED BY <2>5, <2>6
<1>6. (q.read_index - q.free_available_count) % POOL \notin F
  <2>1. q.read_index = w
    BY DEF Rings
  <2>2. w - f = w + (1 - 1 - f) /\ 1 \in 1 .. L
    BY <1>1
  <2>3. (w - f) % POOL = st[1]
    BY <1>3, <2>2 DEF Behind
  <2> QED BY <1>2, <1>5, <2>1, <2>3
<1>7. L > 1 => n = 1
  <2> SUFFICES ASSUME L > 1 PROVE n = 1
    OBVIOUS
  <2>1. 2 \in 1 .. L /\ 1 \in 1 .. L /\ 1 \in 1 .. (L - 1) /\ 1 + 1 = 2
    BY <1>1
  <2> DEFINE k == 1 - 1 - f
  <2>2. k \in Int /\ k + 1 = 2 - 1 - f
    BY <1>1
  <2>3. After(Behind(w, k)) = Behind(w, k + 1)
    <3> HIDE DEF k, w
    <3> QED BY <1>1, <2>2, BehindFacts
  <2>4. After(b) = st[2]
    BY <1>2, <1>3, <2>1, <2>2, <2>3
  <2>5. st[2] = tt[1] /\ tt[1] \in F
    BY <1>2, <2>1
  <2> HIDE DEF F, b, f
  <2> QED BY <1>5, <1>6, <2>4, <2>5 DEF Frees
<1>8. L = 1 => n = f
  <2> SUFFICES ASSUME L = 1 PROVE n = f
    OBVIOUS
  <2>0. Len(tt) = 0
    BY <1>2
  <2>1. F = {}
    <3> HIDE DEF tt
    <3> QED BY <2>0
  <2> HIDE DEF F, b
  <2> QED BY <1>5, <2>1 DEF Frees
<1>9. /\ s \in PoolType /\ n \in Int
      /\ s.free_window_count = (POOL - f) + n
      /\ s.free_available_count = f - n
      /\ s.read_available_count = 0
      /\ s.write_index = w /\ s.read_index = w
      /\ s.free_index = F
  <2>1. /\ q \in PoolType /\ q.read_index = w /\ q.read_available_count = 0
        /\ q.free_window_count = POOL - f
    BY DEF Rings
  <2> HIDE DEF b, F, f, w
  <2>2. /\ s \in PoolType /\ n \in Int
        /\ s.free_window_count = q.free_window_count + n
        /\ s.free_available_count = q.free_available_count - n
        /\ s.read_available_count = q.read_available_count
        /\ s.write_index = q.write_index /\ s.read_index = q.read_index
        /\ s.free_index = q.free_index \ {b}
    BY <2>1, ConsumeBuffer
  <2> QED BY <1>5, <2>1, <2>2 DEF w, f
<1> DEFINE g == f - n
<1>10. /\ Len(tt) <= g /\ g <= POOL /\ s.free_window_count = POOL - g
       /\ (Len(tt) = 0 => g = 0) /\ (~late => g = Len(tt))
  <2> HIDE DEF s, n, f, tt
  <2> QED BY <1>1, <1>2, <1>7, <1>8, <1>9
<1>11. \A i \in 1 .. Len(tt) : tt[i] = Behind(w, i - 1 - g)
  <2> SUFFICES ASSUME NEW i \in 1 .. (L - 1) PROVE tt[i] = Behind(w, i - 1 - g)
    BY <1>2
  <2>1. i + 1 \in 1 .. L /\ i \in Int /\ L > 1 /\ tt[i] = st[i + 1]
    BY <1>1, <1>2
  <2>2. tt[i] = Behind(w, (i + 1) - 1 - f)
    BY <1>3, <2>1
  <2>3. (i + 1) - 1 - f = i - 1 - g
    <3> HIDE DEF n, f
    <3> QED BY <1>1, <1>7, <2>1
  <2> HIDE DEF g, f, w
  <2> QED BY <2>2, <2>3
<1>12. f # 0 /\ 1 \in 1 .. L
  BY <1>1
<1> HIDE DEF s, n, f, g, w, F, tt, b
<1>13. Rings(s, tt, late)
  BY <1>1, <1>9, <1>10, <1>11, IsRings DEF g, F
<1> QED BY <1>4, <1>12, <1>13 DEF s, tt, b, f

-----------------------------------------------------------------------------
(* What is in flash and what the buffers hold is what was given. *)

\* The bytes of c are those of g behind the first k.
Holds(c, g, k) == \A j \in 1 .. Len(c) : c[j] = g[k + j]

\* off[i]: where the i-th store under way begins.
Offsets(st, ct, g, fl, off) ==
    /\ off \in [1 .. (Len(st) + 1) -> Nat]
    /\ off[1] = Len(fl) /\ off[Len(st) + 1] = Len(g)
    /\ \A i \in 1 .. Len(st) :
          off[i + 1] = off[i] + Len(ct[st[i]]) /\ Holds(ct[st[i]], g, off[i])
    /\ \A i \in 1 .. (Len(st) + 1) : off[i] <= Len(g)
    /\ Holds(fl, g, 0)

Stored(st, ct, g, fl) == \E off : Offsets(st, ct, g, fl, off)

LEMMA StoredFirst == Stored(<<>>, [b \in Buffer |-> <<>>], <<>>, <<>>)
<1> DEFINE off == [i \in 1 .. 1 |-> 0]
<1>1. Offsets(<<>>, [b \in Buffer |-> <<>>], <<>>, <<>>, off)
  BY DEF Offsets, Holds
<1> QED BY <1>1 DEF Stored

LEMMA HoldsMore ==
    ASSUME NEW S, NEW c \in Seq(S), NEW g \in Seq(S), NEW d \in Seq(S), NEW k \in Nat,
           Holds(c, g, k), k + Len(c) <= Len(g)
    PROVE  Holds(c, g \o d, k)
<1> SUFFICES ASSUME NEW j \in 1 .. Len(c) PROVE c[j] = (g \o d)[k + j]
  BY DEF Holds
<1>1. k + j \in 1 .. Len(g) /\ c[j] = g[k + j]
  BY DEF Holds
<1>2. (g \o d)[k + j] = g[k + j]
  BY <1>1, ConcatProperties
<1> QED BY <1>1, <1>2

LEMMA StoredAppend ==
    ASSUME NEW st \in Seq(Buffer), NEW ct \in [Buffer -> Seq(Nat)], NEW g \in Seq(Nat),
           NEW fl \in Seq(Nat), NEW b \in Buffer, NEW d \in Seq(Nat),
           \A i \in 1 .. Len(st) : st[i] # b, Stored(st, ct, g, fl)
    PROVE  Stored(Append(st, b), [ct EXCEPT ![b] = d], g \o d, fl)
<1>1. PICK off : Offsets(st, ct, g, fl, off)
  BY DEF Stored
<1> DEFINE L == Len(st)
           tt == Append(st, b)
           cu == [ct EXCEPT ![b] = d]
           h == g \o d
           on == [i \in 1 .. (L + 2) |-> IF i = L + 2 THEN Len(g) + Len(d) ELSE off[i]]
<1>2. /\ L \in Nat /\ Len(tt) = L + 1 /\ Len(g) \in Nat /\ Len(d) \in Nat /\ Len(fl) \in Nat
      /\ \A i \in 1 .. L : tt[i] = st[i] /\ st[i] \in Buffer
      /\ tt[L + 1] = b
  OBVIOUS
<1>3. h \in Seq(Nat) /\ Len(h) = Len(g) + Len(d)
  BY ConcatProperties
<1>4. \A i \in 1 .. (L + 1) : off[i] \in Nat /\ off[i] <= Len(g)
  BY <1>1, <1>2 DEF Offsets
<1>5. on \in [1 .. (Len(tt) + 1) -> Nat]
  BY <1>2, <1>4
<1>6. on[1] = Len(fl) /\ on[Len(tt) + 1] = Len(h)
  BY <1>1, <1>2, <1>3 DEF Offsets
<1>7. ASSUME NEW i \in 1 .. Len(tt)
      PROVE  on[i + 1] = on[i] + Len(cu[tt[i]]) /\ Holds(cu[tt[i]], h, on[i])
  <2>1. CASE i \in 1 .. L
    <3>1. /\ tt[i] = st[i] /\ cu[tt[i]] = ct[st[i]] /\ ct[st[i]] \in Seq(Nat)
          /\ on[i] = off[i] /\ on[i + 1] = off[i + 1] /\ i \in 1 .. (L + 1) /\ i + 1 \in 1 .. (L + 1)
      BY <1>2, <2>1
    <3>2. off[i + 1] = off[i] + Len(ct[st[i]]) /\ Holds(ct[st[i]], g, off[i])
      BY <1>1, <2>1 DEF Offsets
    <3> DEFINE c == ct[st[i]]
               k == off[i]
    <3>3. c \in Seq(Nat) /\ k \in Nat /\ Holds(c, g, k) /\ k + Len(c) <= Len(g)
      BY <1>4, <3>1, <3>2
    <3> HIDE DEF c, k
    <3>4. Holds(c, h, k)
      BY <3>3, HoldsMore
    <3> HIDE DEF on, cu, tt, h
    <3> QED BY <3>1, <3>2, <3>4 DEF c, k
  <2>2. CASE i = L + 1
    <3>1. tt[i] = b /\ cu[tt[i]] = d /\ on[i] = Len(g) /\ on[i + 1] = Len(g) + Len(d)
      BY <1>1, <1>2, <2>2 DEF Offsets
    <3>2. Holds(d, h, Len(g))
      <4> SUFFICES ASSUME NEW j \in 1 .. Len(d) PROVE d[j] = h[Len(g) + j]
        BY DEF Holds
      <4>1. Len(g) + j \in (Len(g) + 1) .. (Len(g) + Len(d)) /\ (Len(g) + j) - Len(g) = j
        BY <1>2
      <4> QED BY <4>1, ConcatProperties
    <3> HIDE DEF on, cu, tt, h
    <3> QED BY <3>1, <3>2
  <2> QED BY <1>2, <2>1, <2>2
<1>8. ASSUME NEW i \in 1 .. (Len(tt) + 1) PROVE on[i] <= Len(h)
  <2>1. i \in Nat /\ i \in 1 .. (L + 2)
    BY <1>2
  <2>2. CASE i = L + 2
    <3>1. on[i] = Len(g) + Len(d)
      BY <2>1, <2>2
    <3> QED BY <1>2, <1>3, <3>1
  <2>3. CASE i # L + 2
    <3>1. on[i] = off[i] /\ i \in 1 .. (L + 1)
      BY <1>2, <2>1, <2>3
    <3> HIDE DEF on, h, L
    <3> QED BY <1>2, <1>3, <1>4, <3>1
  <2> QED BY <2>2, <2>3
<1>9. Holds(fl, h, 0)
  <2> DEFINE zero == 0
  <2>1. Holds(fl, g, zero) /\ Len(fl) <= Len(g) /\ zero + Len(fl) = Len(fl) /\ zero \in Nat
    <3>1. 1 \in 1 .. (L + 1) /\ off[1] = Len(fl)
      BY <1>1, <1>2 DEF Offsets
    <3> QED BY <1>1, <1>2, <1>4, <3>1 DEF Offsets
  <2> HIDE DEF zero
  <2>2. Holds(fl, h, zero)
    BY <2>1, HoldsMore
  <2> QED BY <2>2 DEF zero
<1> HIDE DEF on, tt, cu, h
<1>10. Offsets(tt, cu, h, fl, on)
  BY <1>5, <1>6, <1>7, <1>8, <1>9 DEF Offsets
<1> QED BY <1>10 DEF Stored, tt, cu, h

\* A buffer that is not out may be written.
LEMMA StoredSame ==
    ASSUME NEW st, NEW ct, NEW cu, NEW g, NEW fl,
           \A i \in 1 .. Len(st) : cu[st[i]] = ct[st[i]], Stored(st, ct, g, fl)
    PROVE  Stored(st, cu, g, fl)
<1>1. PICK off : Offsets(st, ct, g, fl, off)
  BY DEF Stored
<1>2. Offsets(st, cu, g, fl, off)
  BY <1>1 DEF Offsets
<1> QED BY <1>2 DEF Stored

LEMMA StoredDone ==
    ASSUME NEW st \in Seq(Buffer), NEW ct \in [Buffer -> Seq(Nat)], NEW g \in Seq(Nat),
           NEW fl \in Seq(Nat), st # <<>>, Stored(st, ct, g, fl)
    PROVE  Stored(Tail(st), ct, g, fl \o ct[Head(st)])
<1>1. PICK off : Offsets(st, ct, g, fl, off)
  BY DEF Stored
<1> DEFINE L == Len(st)
           tt == Tail(st)
           c == ct[Head(st)]
           fm == fl \o c
           on == [i \in 1 .. L |-> off[i + 1]]
<1>2. /\ L \in Nat /\ L > 0 /\ Len(tt) = L - 1 /\ Len(g) \in Nat /\ Len(fl) \in Nat
      /\ \A i \in 1 .. (L - 1) : tt[i] = st[i + 1]
      /\ Head(st) = st[1] /\ st[1] \in Buffer /\ c \in Seq(Nat) /\ 1 \in 1 .. L
  OBVIOUS
<1>3. \A i \in 1 .. (L + 1) : off[i] \in Nat /\ off[i] <= Len(g)
  BY <1>1, <1>2 DEF Offsets
<1>4. fm \in Seq(Nat) /\ Len(fm) = Len(fl) + Len(c)
  BY <1>2, ConcatProperties
<1>5. off[1] = Len(fl) /\ off[1 + 1] = Len(fl) + Len(c) /\ Holds(c, g, Len(fl))
  BY <1>1, <1>2 DEF Offsets
<1>6. on \in [1 .. (Len(tt) + 1) -> Nat]
  BY <1>2, <1>3
<1>7. on[1] = Len(fm) /\ on[Len(tt) + 1] = Len(g)
  BY <1>1, <1>2, <1>4, <1>5 DEF Offsets
<1>8. ASSUME NEW i \in 1 .. Len(tt)
      PROVE  on[i + 1] = on[i] + Len(ct[tt[i]]) /\ Holds(ct[tt[i]], g, on[i])
  <2>1. i + 1 \in 1 .. L /\ i \in 1 .. L /\ on[i] = off[i + 1] /\ on[i + 1] = off[(i + 1) + 1] /\ tt[i] = st[i + 1]
    BY <1>2
  <2> HIDE DEF on, tt
  <2> QED BY <1>1, <2>1 DEF Offsets
<1>9. \A i \in 1 .. (Len(tt) + 1) : on[i] <= Len(g)
  BY <1>2, <1>3
<1>10. Holds(fm, g, 0)
  <2> SUFFICES ASSUME NEW j \in 1 .. Len(fm) PROVE fm[j] = g[0 + j]
    BY DEF Holds
  <2>0. j \in Nat /\ 0 + j = j /\ Len(c) \in Nat
    BY <1>2, <1>4
  <2>1. CASE j \in 1 .. Len(fl)
    <3>1. fm[j] = fl[j]
      BY <1>2, <2>1, ConcatProperties
    <3>2. fl[j] = g[0 + j]
      BY <1>1, <2>1 DEF Offsets, Holds
    <3> QED BY <3>1, <3>2
  <2>2. CASE j \in (Len(fl) + 1) .. (Len(fl) + Len(c))
    <3>1. fm[j] = c[j - Len(fl)]
      BY <1>2, <2>2, ConcatProperties
    <3>2. j - Len(fl) \in 1 .. Len(c) /\ Len(fl) + (j - Len(fl)) = j
      BY <1>2, <2>0, <2>2
    <3>3. c[j - Len(fl)] = g[Len(fl) + (j - Len(fl))]
      BY <1>5, <3>2 DEF Holds
    <3> QED BY <2>0, <3>1, <3>2, <3>3
  <2> QED BY <1>2, <1>4, <2>0, <2>1, <2>2
<1> HIDE DEF on, tt, fm
<1>11. Offsets(tt, ct, g, fm, on)
  BY <1>6, <1>7, <1>8, <1>9, <1>10 DEF Offsets
<1> QED BY <1>11 DEF Stored, tt, fm, c

\* Nothing is under way and everything was given.
LEMMA StoredAll ==
    ASSUME NEW ct, NEW g \in Seq(Nat), NEW fl \in Seq(Nat), Stored(<<>>, ct, g, fl)
    PROVE  fl = g
<1>1. PICK off : Offsets(<<>>, ct, g, fl, off)
  BY DEF Stored
<1>2. Len(fl) = Len(g)
  BY <1>1 DEF Offsets
<1>3. \A j \in 1 .. Len(fl) : fl[j] = g[j]
  BY <1>1 DEF Offsets, Holds
<1> QED BY <1>2, <1>3, SeqEqual

-----------------------------------------------------------------------------
(* The data path: what every operator on rx keeps. *)

RxFields ==
    {"m_num_of_firmware_bytes_rcvd", "m_accum_buf", "m_accum_active", "m_reported_image_size",
     "mp_final_packet", "m_pkt_rcpt_notif_enabled", "m_pkt_notif_target",
     "m_pkt_notif_target_cnt", "pool", "content", "stores", "given", "note"}

RxType(r) ==
    /\ DOMAIN r = RxFields
    /\ r.given \in Seq(Nat) /\ Len(r.given) <= Size
    /\ r.m_num_of_firmware_bytes_rcvd = Len(r.given)
    /\ r.m_accum_buf \in Seq(Nat) /\ r.m_accum_active \in BOOLEAN
    /\ (r.m_accum_buf # <<>> => r.m_accum_active)
    /\ r.content \in [Buffer -> Seq(Nat)] /\ r.stores \in Seq(Buffer)
    /\ r.mp_final_packet \in Buffer \cup {NULL}
    /\ r.m_reported_image_size \in {0, Size}
    /\ r.pool \in PoolType /\ r.pool.read_available_count = 0 /\ r.pool.write_index \in Buffer

\* Nothing was given yet.
Fresh(r) ==
    /\ r.given = <<>> /\ r.stores = <<>> /\ r.mp_final_packet = NULL
    /\ Rings(r.pool, r.stores, FALSE)

\* The final packet is the last store of a whole image.
FinalOf(fin, g, st) ==
    fin # NULL => Len(g) = Size /\ (st # <<>> => fin = st[Len(st)])

Early == {"idle", "preparing", "rdy", "rx_init"}
Late == {"rx_data", "validate", "wait_activate"}

Receives(r) ==
    /\ Rings(r.pool, r.stores, m_dfu_timed_out)
    /\ FinalOf(r.mp_final_packet, r.given, r.stores)
    /\ Stored(r.stores, r.content, r.given, flash)

Keeps(r) ==
    /\ RxType(r)
    /\ (m_dfu_state \in Early => Fresh(r))
    /\ (m_dfu_state = "rx_data" => Receives(r))

NoteType ==
    {n \in [proc : {"start", "init", "receive", "receipt", "count", "validate"},
            result : {"SUCCESS", "INVALID_LENGTH", "NO_MEM", "INVALID_STATE", "DATA_SIZE", "FAILED"},
            n : 0 .. Size] :
        n.proc \in {"receipt", "count"} => n.result = "SUCCESS"}

ErrorNote(n) == n \in NoteType /\ n.proc = "receive" /\ n.result # "SUCCESS"

\* The rest of what the operators take and leave alone.
SamePath(r, s) ==
    s.m_accum_active = r.m_accum_active /\ s.m_reported_image_size = r.m_reported_image_size

\* Nothing more is given; the controller is told.
Fails(r, s) ==
    /\ ErrorNote(s.note) /\ s.given = r.given /\ s.stores = r.stores

Gives(r, s, bytes) ==
    /\ s.note = r.note /\ s.given = r.given \o bytes /\ Len(bytes) > 0

LEMMA SizeNat == Size \in Nat /\ Size > 0 /\ WORD \in Nat /\ WORD > 0 /\ ACCUM \in Nat /\ ACCUM > 0
  BY BleConstants

LEMMA KeepsFields ==
    ASSUME NEW r, NEW s, Keeps(r), DOMAIN s = RxFields, s.given = r.given,
           s.m_num_of_firmware_bytes_rcvd = r.m_num_of_firmware_bytes_rcvd,
           s.content = r.content, s.stores = r.stores, s.mp_final_packet = r.mp_final_packet,
           s.pool = r.pool, s.m_reported_image_size \in {0, Size}, s.m_accum_buf \in Seq(Nat),
           s.m_accum_active \in BOOLEAN, s.m_accum_buf # <<>> => s.m_accum_active
    PROVE  Keeps(s)
<1>1. RxType(s)
  BY DEF Keeps, RxType
<1>2. m_dfu_state \in Early => Fresh(s)
  BY DEF Keeps, Fresh
<1>3. m_dfu_state = "rx_data" => Receives(s)
  BY DEF Keeps, Receives
<1> QED BY <1>1, <1>2, <1>3 DEF Keeps

LEMMA NotifyKeeps ==
    ASSUME NEW r, Keeps(r), NEW e \in {"INVALID_LENGTH", "NO_MEM", "INVALID_STATE", "DATA_SIZE"}
    PROVE  LET s == dfu_error_notify(r, e) IN
           Keeps(s) /\ SamePath(r, s) /\ Fails(r, s) /\ s.m_accum_buf = r.m_accum_buf
<1> DEFINE n == Response("receive", e)
           s == [r EXCEPT !.note = n]
<1>0. s = dfu_error_notify(r, e)
  BY DEF dfu_error_notify
<1>1. DOMAIN r = RxFields
  BY DEF Keeps, RxType
<1>2. DOMAIN s = RxFields
  BY <1>1
<1>3. /\ s.given = r.given /\ s.m_num_of_firmware_bytes_rcvd = r.m_num_of_firmware_bytes_rcvd
      /\ s.content = r.content /\ s.stores = r.stores /\ s.mp_final_packet = r.mp_final_packet
      /\ s.pool = r.pool /\ s.m_reported_image_size = r.m_reported_image_size
      /\ s.m_accum_buf = r.m_accum_buf /\ s.m_accum_active = r.m_accum_active
      /\ s.note = n
  BY <1>1 DEF RxFields
<1>4. ErrorNote(n)
  BY SizeNat DEF ErrorNote, NoteType, Response, Note
<1> HIDE DEF s, n
<1>5. Keeps(s)
  <2>1. /\ r.m_reported_image_size \in {0, Size} /\ r.m_accum_buf \in Seq(Nat)
        /\ r.m_accum_active \in BOOLEAN /\ (r.m_accum_buf # <<>> => r.m_accum_active)
    BY DEF Keeps, RxType
  <2> QED BY <1>2, <1>3, <2>1, KeepsFields
<1> QED BY <1>0, <1>3, <1>4, <1>5 DEF SamePath, Fails

\* The packet is refused, and its buffer comes back out of turn.
LEMMA RefusedKeeps ==
    ASSUME NEW r, Keeps(r), NEW bytes \in Seq(Nat), CanProduce(r.pool), ~CoreTakes(r, bytes),
           Len(r.given) + Len(bytes) <= Size, m_dfu_timed_out \in BOOLEAN
    PROVE  LET b == r.pool.write_index
               q == hci_mem_pool_rx_extract(hci_mem_pool_rx_produce(r.pool))
               s == [r EXCEPT !.pool = hci_mem_pool_rx_consume(q, b), !.content[b] = bytes]
           IN  /\ Keeps(s) /\ SamePath(r, s) /\ s.m_accum_buf = r.m_accum_buf
               /\ s.given = r.given /\ s.stores = r.stores
<1> DEFINE b == r.pool.write_index
           q == hci_mem_pool_rx_extract(hci_mem_pool_rx_produce(r.pool))
           p == hci_mem_pool_rx_consume(q, b)
           cu == [r.content EXCEPT ![b] = bytes]
           s == [r EXCEPT !.pool = p, !.content[b] = bytes]
<1>1. RxType(r)
  BY DEF Keeps
<1>2. /\ DOMAIN s = RxFields
      /\ s.given = r.given /\ s.m_num_of_firmware_bytes_rcvd = r.m_num_of_firmware_bytes_rcvd
      /\ s.content = cu /\ s.stores = r.stores /\ s.mp_final_packet = r.mp_final_packet
      /\ s.pool = p /\ s.m_reported_image_size = r.m_reported_image_size
      /\ s.m_accum_buf = r.m_accum_buf /\ s.m_accum_active = r.m_accum_active
  <2> HIDE DEF p, b
  <2> QED BY <1>1 DEF RxType, RxFields
<1>3. /\ r.pool \in PoolType /\ b \in Buffer /\ r.pool.read_available_count = 0
      /\ r.stores \in Seq(Buffer) /\ r.content \in [Buffer -> Seq(Nat)]
  BY <1>1 DEF RxType
<1>4. b \in Int
  BY <1>3, BehindZero
<1>5. p \in PoolType /\ p.read_available_count = 0 /\ p.write_index \in Buffer
  <2> DEFINE v == r.pool
  <2>0. v \in PoolType /\ v.read_available_count = 0 /\ v.write_index = b
    BY <1>3
  <2>1. /\ q \in PoolType /\ q.read_available_count = 0 /\ q.write_index = After(b)
    <3> HIDE DEF v, b
    <3>1. LET z == hci_mem_pool_rx_extract(hci_mem_pool_rx_produce(v)) IN
          /\ z \in PoolType /\ z.read_available_count = v.read_available_count
          /\ z.write_index = After(v.write_index)
      BY <2>0, TakeBuffer
    <3> QED BY <2>0, <3>1 DEF v
  <2>2. p \in PoolType /\ p.read_available_count = q.read_available_count /\ p.write_index = q.write_index
    <3> HIDE DEF q, b
    <3> QED BY <2>1, ConsumeBuffer
  <2> HIDE DEF p, q, b
  <2> QED BY <1>4, <2>1, <2>2, AfterBuffer
<1>6. cu \in [Buffer -> Seq(Nat)]
  <2> HIDE DEF b
  <2> QED BY <1>3
<1>7. RxType(s)
  <2> HIDE DEF s, p, cu
  <2> QED BY <1>1, <1>2, <1>5, <1>6 DEF RxType
<1>8. ASSUME NEW late \in BOOLEAN, Rings(r.pool, r.stores, late), late \/ r.stores = <<>>
      PROVE  Rings(p, r.stores, late) /\ \A i \in 1 .. Len(r.stores) : r.stores[i] # b
  <2> DEFINE v == r.pool
             st == r.stores
  <2>1. st \in Seq(Buffer) /\ Rings(v, st, late) /\ (late \/ st = <<>>) /\ CanProduce(v)
    BY <1>3, <1>8
  <2> HIDE DEF v, st
  <2>2. LET z == hci_mem_pool_rx_extract(hci_mem_pool_rx_produce(v)) IN
        Rings(hci_mem_pool_rx_consume(z, v.write_index), st, late)
    BY <2>1, RingRefuses
  <2>3. \A i \in 1 .. Len(st) : st[i] # v.write_index
    BY <2>1, NewBuffer
  <2> QED BY <2>2, <2>3 DEF v, st
<1> HIDE DEF s, p, q, cu
<1>9. ASSUME m_dfu_state \in Early PROVE Fresh(s)
  <2>1. Fresh(r)
    BY <1>9 DEF Keeps
  <2>2. Rings(p, r.stores, FALSE)
    BY <1>8, <2>1 DEF Fresh
  <2> QED BY <1>2, <2>1, <2>2 DEF Fresh
<1>10. ASSUME m_dfu_state = "rx_data" PROVE Receives(s)
  <2>1. Receives(r) /\ m_dfu_timed_out
    BY <1>10 DEF Keeps, CoreTakes
  <2>2. Rings(p, r.stores, m_dfu_timed_out) /\ \A i \in 1 .. Len(r.stores) : r.stores[i] # b
    BY <1>8, <2>1 DEF Receives
  <2>3. Stored(r.stores, cu, r.given, flash)
    <3>1. \A i \in 1 .. Len(r.stores) : r.stores[i] \in Buffer
      BY <1>3
    <3>2. \A i \in 1 .. Len(r.stores) : cu[r.stores[i]] = r.content[r.stores[i]]
      <4> HIDE DEF b
      <4> QED BY <1>3, <2>2, <3>1 DEF cu
    <3> QED BY <2>1, <3>2, StoredSame DEF Receives
  <2> QED BY <1>2, <2>1, <2>2, <2>3 DEF Receives
<1>11. Keeps(s)
  BY <1>7, <1>9, <1>10 DEF Keeps
<1> QED BY <1>2, <1>11 DEF SamePath, s, p, q

\* The packet is accepted.
LEMMA TakenKeeps ==
    ASSUME NEW r, Keeps(r), NEW bytes \in Seq(Nat), CanProduce(r.pool), CoreTakes(r, bytes),
           Len(bytes) > 0, m_dfu_timed_out \in BOOLEAN, flash \in Seq(Nat)
    PROVE  LET b == r.pool.write_index
               q == hci_mem_pool_rx_extract(hci_mem_pool_rx_produce(r.pool))
               all == r.given \o bytes
               s == [r EXCEPT !.pool = q, !.content[b] = bytes, !.stores = Append(@, b), !.given = all,
                   !.m_num_of_firmware_bytes_rcvd = @ + Len(bytes),
                   !.mp_final_packet = IF Len(all) = Size THEN b ELSE @]
           IN  /\ Keeps(s) /\ SamePath(r, s) /\ s.m_accum_buf = r.m_accum_buf
               /\ Gives(r, s, bytes)
<1> DEFINE b == r.pool.write_index
           q == hci_mem_pool_rx_extract(hci_mem_pool_rx_produce(r.pool))
           cu == [r.content EXCEPT ![b] = bytes]
           all == r.given \o bytes
           tt == Append(r.stores, b)
           num == r.m_num_of_firmware_bytes_rcvd + Len(bytes)
           fin == IF Len(all) = Size THEN b ELSE r.mp_final_packet
           s == [r EXCEPT !.pool = q, !.content[b] = bytes, !.stores = tt, !.given = all,
                          !.m_num_of_firmware_bytes_rcvd = num, !.mp_final_packet = fin]
<1>1. RxType(r) /\ Receives(r) /\ m_dfu_state = "rx_data" /\ ~m_dfu_timed_out
      /\ Len(r.given) + Len(bytes) <= Size
  BY DEF Keeps, CoreTakes
<1>2. /\ DOMAIN s = RxFields
      /\ s.given = all /\ s.m_num_of_firmware_bytes_rcvd = num
      /\ s.content = cu /\ s.stores = tt /\ s.mp_final_packet = fin
      /\ s.pool = q /\ s.m_reported_image_size = r.m_reported_image_size
      /\ s.m_accum_buf = r.m_accum_buf /\ s.m_accum_active = r.m_accum_active
      /\ s.note = r.note
  <2> HIDE DEF q, b, all, tt, num, fin
  <2> QED BY <1>1 DEF RxType, RxFields
<1>3. /\ r.pool \in PoolType /\ b \in Buffer /\ r.pool.read_available_count = 0
      /\ r.stores \in Seq(Buffer) /\ r.content \in [Buffer -> Seq(Nat)]
      /\ r.given \in Seq(Nat) /\ r.m_num_of_firmware_bytes_rcvd = Len(r.given)
      /\ r.mp_final_packet \in Buffer \cup {NULL}
  BY <1>1 DEF RxType
<1>4. all \in Seq(Nat) /\ Len(all) = Len(r.given) + Len(bytes)
  BY <1>3, ConcatProperties
<1>5. /\ Rings(q, tt, FALSE) /\ \A i \in 1 .. Len(r.stores) : r.stores[i] # b
  <2> DEFINE v == r.pool
             st == r.stores
  <2>1. st \in Seq(Buffer) /\ Rings(v, st, FALSE) /\ CanProduce(v)
    BY <1>1, <1>3 DEF Receives
  <2> HIDE DEF v, st
  <2>2. Rings(hci_mem_pool_rx_extract(hci_mem_pool_rx_produce(v)), Append(st, v.write_index), FALSE)
    BY <2>1, RingTakes
  <2>3. \A i \in 1 .. Len(st) : st[i] # v.write_index
    BY <2>1, NewBuffer
  <2> QED BY <2>2, <2>3 DEF v, st
<1>6. tt \in Seq(Buffer) /\ cu \in [Buffer -> Seq(Nat)] /\ fin \in Buffer \cup {NULL}
      /\ Len(tt) = Len(r.stores) + 1 /\ tt[Len(r.stores) + 1] = b /\ tt # <<>>
  <2> DEFINE st == r.stores
  <2>1. st \in Seq(Buffer)
    BY <1>3
  <2> HIDE DEF b, all, st
  <2>2. /\ Append(st, b) \in Seq(Buffer) /\ Len(Append(st, b)) = Len(st) + 1
        /\ Append(st, b)[Len(st) + 1] = b /\ Append(st, b) # <<>>
    <3>1. b \in Buffer
      BY <1>3
    <3> QED BY <2>1, <3>1, AppendProperties
  <2>3. cu \in [Buffer -> Seq(Nat)]
    BY <1>3
  <2>4. fin \in Buffer \cup {NULL}
    BY <1>3
  <2> QED BY <2>2, <2>3, <2>4 DEF st
<1>7. q \in PoolType /\ q.read_available_count = 0 /\ q.write_index \in Buffer
  <2> HIDE DEF q, tt
  <2> QED BY <1>5 DEF Rings
<1>8. num = Len(all) /\ Len(all) <= Size
  BY <1>1, <1>3, <1>4
<1>9. FinalOf(fin, all, tt)
  <2>1. CASE Len(all) = Size
    BY <1>6, <2>1 DEF FinalOf
  <2>2. CASE Len(all) # Size
    <3>1. r.mp_final_packet = NULL
      <4>1. Len(r.given) # Size
        BY <1>3, <1>4, <1>8, SizeNat
      <4> QED BY <1>1, <4>1 DEF Receives, FinalOf
    <3> QED BY <2>2, <3>1 DEF FinalOf
  <2> QED BY <2>1, <2>2
<1>10. Stored(tt, cu, all, flash)
  <2> DEFINE st == r.stores
             ct == r.content
             g == r.given
  <2>1. /\ st \in Seq(Buffer) /\ ct \in [Buffer -> Seq(Nat)] /\ g \in Seq(Nat)
        /\ Stored(st, ct, g, flash) /\ \A i \in 1 .. Len(st) : st[i] # b
    BY <1>1, <1>3, <1>5 DEF Receives
  <2> HIDE DEF st, ct, g, b
  <2>2. Stored(Append(st, b), [ct EXCEPT ![b] = bytes], g \o bytes, flash)
    BY <1>3, <2>1, StoredAppend
  <2> QED BY <2>2 DEF st, ct, g
<1> HIDE DEF s, q, cu, all, tt, num, fin
<1>11. RxType(s)
  BY <1>1, <1>2, <1>4, <1>6, <1>7, <1>8 DEF RxType
<1>12. Receives(s)
  BY <1>1, <1>2, <1>5, <1>9, <1>10 DEF Receives
<1>13. Keeps(s)
  BY <1>1, <1>11, <1>12 DEF Keeps, Early
<1>14. Gives(r, s, bytes)
  BY <1>2 DEF Gives, all
<1> QED BY <1>2, <1>13, <1>14 DEF SamePath, s, q, cu, all, tt, num, fin

\* The packet is passed on or the controller is told of an error.
LEMMA AlignedKeeps ==
    ASSUME NEW r, Keeps(r), NEW bytes \in Seq(Nat), Len(r.given) + Len(bytes) <= Size,
           m_dfu_timed_out \in BOOLEAN, flash \in Seq(Nat)
    PROVE  LET s == aligned_data_process(r, bytes) IN
           /\ Keeps(s) /\ SamePath(r, s) /\ s.m_accum_buf = r.m_accum_buf
           /\ Fails(r, s) \/ Gives(r, s, bytes)
<1> DEFINE s == aligned_data_process(r, bytes)
           b == r.pool.write_index
           q == hci_mem_pool_rx_extract(hci_mem_pool_rx_produce(r.pool))
           all == r.given \o bytes
           t == [r EXCEPT !.pool = hci_mem_pool_rx_consume(q, b), !.content[b] = bytes]
           u == [r EXCEPT !.pool = q, !.content[b] = bytes, !.stores = Append(@, b), !.given = all,
                   !.m_num_of_firmware_bytes_rcvd = @ + Len(bytes),
                   !.mp_final_packet = IF Len(all) = Size THEN b ELSE @]
<1>1. s = IF Len(bytes) = 0 \/ Odd(Len(bytes)) THEN dfu_error_notify(r, "INVALID_LENGTH")
          ELSE IF ~CanProduce(r.pool) THEN dfu_error_notify(r, "NO_MEM")
          ELSE IF ~CoreTakes(r, bytes) THEN dfu_error_notify(t, "INVALID_STATE") ELSE u
  BY DEF aligned_data_process
<1>2. CASE Len(bytes) = 0 \/ Odd(Len(bytes))
  <2>1. s = dfu_error_notify(r, "INVALID_LENGTH")
    BY <1>1, <1>2
  <2> HIDE DEF s
  <2> QED BY <2>1, NotifyKeeps DEF s
<1>3. CASE ~(Len(bytes) = 0 \/ Odd(Len(bytes))) /\ ~CanProduce(r.pool)
  <2>1. s = dfu_error_notify(r, "NO_MEM")
    BY <1>1, <1>3
  <2> HIDE DEF s
  <2> QED BY <2>1, NotifyKeeps DEF s
<1>4. CASE ~(Len(bytes) = 0 \/ Odd(Len(bytes))) /\ CanProduce(r.pool) /\ ~CoreTakes(r, bytes)
  <2>1. /\ Keeps(t) /\ SamePath(r, t) /\ t.m_accum_buf = r.m_accum_buf
        /\ t.given = r.given /\ t.stores = r.stores
    BY <1>4, RefusedKeeps
  <2>2. s = dfu_error_notify(t, "INVALID_STATE")
    BY <1>1, <1>4
  <2> HIDE DEF s, t
  <2>3. Keeps(s) /\ SamePath(t, s) /\ Fails(t, s) /\ s.m_accum_buf = t.m_accum_buf
    BY <2>1, <2>2, NotifyKeeps
  <2> QED BY <2>1, <2>3 DEF SamePath, Fails, s
<1>5. CASE ~(Len(bytes) = 0 \/ Odd(Len(bytes))) /\ CanProduce(r.pool) /\ CoreTakes(r, bytes)
  <2>1. Len(bytes) > 0
    BY <1>5
  <2>2. s = u
    BY <1>1, <1>5
  <2>3. Keeps(u) /\ SamePath(r, u) /\ u.m_accum_buf = r.m_accum_buf /\ Gives(r, u, bytes)
    BY <1>5, <2>1, TakenKeeps
  <2> HIDE DEF s, u
  <2> QED BY <2>2, <2>3 DEF s
<1> QED BY <1>2, <1>3, <1>4, <1>5

\* What was given and what waits in the accumulator are the image up to there.
Prefix(r) ==
    /\ \A i \in 1 .. Len(r.given) : r.given[i] = i
    /\ \A i \in 1 .. Len(r.m_accum_buf) : r.m_accum_buf[i] = Len(r.given) + i

\* From r to s bytes are passed on: all is kept, with m bytes left in the accumulator, or
\* there is an error, and the accumulator is empty.
Path(r, s, m) ==
    /\ Keeps(s) /\ SamePath(r, s)
    /\ (Len(r.given) = Size => s.given = r.given /\ s.stores = r.stores)
    /\ \/ ErrorNote(s.note) /\ s.m_accum_buf = <<>>
       \/ /\ s.note = r.note /\ Received(s) = Received(r) /\ Len(s.m_accum_buf) = m
          /\ (Prefix(r) => Prefix(s))

LEMMA PathSelf ==
    ASSUME NEW r, Keeps(r) PROVE Path(r, r, Len(r.m_accum_buf))
  BY DEF Path, SamePath

LEMMA PathJoins ==
    ASSUME NEW r, NEW s, NEW t, NEW m, NEW k, Path(r, s, m), Path(s, t, k), ~ErrorNote(s.note)
    PROVE  Path(r, t, k)
  BY DEF Path, SamePath

LEMMA PassOnPath ==
    ASSUME NEW r, Keeps(r), ~Failed(r), Received(r) <= Size, NEW n \in 1 .. Len(r.m_accum_buf),
           m_dfu_timed_out \in BOOLEAN, flash \in Seq(Nat)
    PROVE  Path(r, PassOn(r, n), Len(r.m_accum_buf) - n)
<1> DEFINE buf == r.m_accum_buf
           bytes == [i \in 1 .. n |-> IF i <= Len(buf) THEN buf[i] ELSE 0]
           s == aligned_data_process(r, bytes)
           rest == IF Failed(s) THEN <<>> ELSE SubSeq(buf, n + 1, Len(buf))
           t == [s EXCEPT !.m_accum_buf = rest]
<1>1. t = PassOn(r, n)
  BY DEF PassOn
<1>0. /\ buf \in Seq(Nat) /\ r.given \in Seq(Nat)
      /\ r.m_num_of_firmware_bytes_rcvd = Len(r.given) /\ (buf # <<>> => r.m_accum_active)
  BY DEF Keeps, RxType
<1>2. /\ buf \in Seq(Nat) /\ r.given \in Seq(Nat) /\ Len(r.given) \in Nat
      /\ r.m_num_of_firmware_bytes_rcvd = Len(r.given) /\ Len(buf) \in Nat
      /\ n \in Nat /\ n > 0 /\ n <= Len(buf)
      /\ Len(r.given) + Len(buf) <= Size /\ (buf # <<>> => r.m_accum_active)
  <2>1. Len(r.given) \in Nat /\ Len(buf) \in Nat
    BY <1>0
  <2>2. n \in Nat /\ n > 0 /\ n <= Len(buf)
    BY <2>1
  <2>3. Len(r.given) + Len(buf) <= Size
    BY <1>0 DEF Received
  <2> QED BY <1>0, <2>1, <2>2, <2>3
<1>3. bytes \in Seq(Nat) /\ Len(bytes) = n /\ \A i \in 1 .. n : bytes[i] = buf[i]
  BY <1>2
<1>4. Len(r.given) + n <= Size
  <2> DEFINE x == Len(r.given)
             y == Len(buf)
  <2>1. x \in Nat /\ y \in Nat /\ n \in Nat /\ n <= y /\ x + y <= Size
    BY <1>2
  <2> HIDE DEF x, y
  <2>2. x + n <= Size
    BY <2>1, SizeNat
  <2> QED BY <2>2 DEF x
<1>5. /\ Keeps(s) /\ SamePath(r, s) /\ s.m_accum_buf = buf
      /\ Fails(r, s) \/ Gives(r, s, bytes)
  <2> HIDE DEF bytes
  <2> QED BY <1>3, <1>4, AlignedKeeps
<1> HIDE DEF s, bytes
<1>6. buf # <<>> /\ s.m_accum_active
  BY <1>2, <1>5 DEF SamePath
<1>7. /\ SubSeq(buf, n + 1, Len(buf)) \in Seq(Nat)
      /\ Len(SubSeq(buf, n + 1, Len(buf))) = Len(buf) - n
      /\ \A i \in 1 .. (Len(buf) - n) : SubSeq(buf, n + 1, Len(buf))[i] = buf[n + i]
  <2>1. \A i \in 1 .. (Len(buf) - n) : (n + 1) + i - 1 = n + i
    BY <1>2
  <2> HIDE DEF buf
  <2> QED BY <1>2, <2>1
<1>8. /\ DOMAIN t = RxFields
      /\ t.given = s.given /\ t.m_num_of_firmware_bytes_rcvd = s.m_num_of_firmware_bytes_rcvd
      /\ t.content = s.content /\ t.stores = s.stores /\ t.mp_final_packet = s.mp_final_packet
      /\ t.pool = s.pool /\ t.m_reported_image_size = s.m_reported_image_size
      /\ t.m_accum_buf = rest /\ t.m_accum_active = s.m_accum_active
      /\ t.note = s.note
  <2> HIDE DEF rest
  <2> QED BY <1>5 DEF Keeps, RxType, RxFields
<1>9. rest \in Seq(Nat) /\ s.m_accum_active \in BOOLEAN /\ s.m_reported_image_size \in {0, Size}
  BY <1>5, <1>7 DEF Keeps, RxType
<1> HIDE DEF t
<1>10. Keeps(t) /\ SamePath(r, t)
  <2>1. Keeps(t)
    <3> HIDE DEF rest
    <3> QED BY <1>5, <1>6, <1>8, <1>9, KeepsFields
  <2> QED BY <1>5, <1>8, <2>1 DEF SamePath
<1>11. CASE Fails(r, s)
  <2>1. rest = <<>>
    BY <1>11 DEF Fails, ErrorNote, Failed
  <2> HIDE DEF rest
  <2> QED BY <1>1, <1>8, <1>10, <1>11, <2>1 DEF Path, Fails
<1>12. CASE Gives(r, s, bytes)
  <2>1. s.note = r.note /\ s.given = r.given \o bytes
    BY <1>12 DEF Gives
  <2>2. rest = SubSeq(buf, n + 1, Len(buf))
    BY <2>1 DEF Failed
  <2>3. /\ Len(s.given) = Len(r.given) + n
        /\ \A i \in 1 .. (Len(r.given) + n) :
              s.given[i] = IF i <= Len(r.given) THEN r.given[i] ELSE bytes[i - Len(r.given)]
    <3> DEFINE g == r.given
    <3>1. g \in Seq(Nat) /\ bytes \in Seq(Nat)
      BY <1>2, <1>3
    <3> HIDE DEF g
    <3>2. /\ Len(g \o bytes) = Len(g) + Len(bytes)
          /\ \A i \in 1 .. Len(g) + Len(bytes) :
                (g \o bytes)[i] = IF i <= Len(g) THEN g[i] ELSE bytes[i - Len(g)]
      BY <3>1, ConcatProperties
    <3> QED BY <1>3, <2>1, <3>2 DEF g
  <2> HIDE DEF rest
  <2>4. Received(t) = Received(r) /\ Len(t.m_accum_buf) = Len(buf) - n
    <3>1. t.m_num_of_firmware_bytes_rcvd = Len(t.given)
      BY <1>10 DEF Keeps, RxType
    <3> DEFINE x == Len(r.given)
               y == Len(buf)
    <3>2. Len(t.m_accum_buf) = y - n /\ Len(t.given) = x + n
      BY <1>7, <1>8, <2>2, <2>3
    <3>3. x \in Nat /\ y \in Nat /\ n \in Nat
      BY <1>2
    <3>4. Received(r) = x + y /\ Received(t) = Len(t.given) + Len(t.m_accum_buf)
      BY <1>2, <3>1 DEF Received
    <3> HIDE DEF x, y
    <3>5. (x + n) + (y - n) = x + y
      BY <3>3
    <3>6. Received(t) = Received(r) /\ Len(t.m_accum_buf) = y - n
      BY <3>2, <3>4, <3>5
    <3> QED BY <3>6 DEF y
  <2>5. Prefix(r) => Prefix(t)
    <3> SUFFICES ASSUME Prefix(r) PROVE Prefix(t)
      OBVIOUS
    <3>1. ASSUME NEW i \in 1 .. Len(t.given) PROVE t.given[i] = i
      <4>1. i \in Nat /\ i \in 1 .. (Len(r.given) + n) /\ t.given[i] = s.given[i]
        BY <1>8, <2>3
      <4>2. CASE i <= Len(r.given)
        <5>1. i \in 1 .. Len(r.given) /\ s.given[i] = r.given[i]
          BY <1>2, <2>3, <4>1, <4>2
        <5> QED BY <4>1, <5>1 DEF Prefix
      <4>3. CASE ~(i <= Len(r.given))
        <5>1. /\ i - Len(r.given) \in 1 .. n /\ i - Len(r.given) \in 1 .. Len(buf)
              /\ s.given[i] = bytes[i - Len(r.given)] /\ Len(r.given) + (i - Len(r.given)) = i
          BY <1>2, <2>3, <4>1, <4>3
        <5>2. bytes[i - Len(r.given)] = buf[i - Len(r.given)]
          BY <1>3, <5>1
        <5>3. buf[i - Len(r.given)] = Len(r.given) + (i - Len(r.given))
          BY <5>1 DEF Prefix
        <5> QED BY <4>1, <5>1, <5>2, <5>3
      <4> QED BY <4>2, <4>3
    <3>2. ASSUME NEW i \in 1 .. Len(t.m_accum_buf) PROVE t.m_accum_buf[i] = Len(t.given) + i
      <4>1. /\ i \in Nat /\ i \in 1 .. (Len(buf) - n) /\ n + i \in 1 .. Len(buf)
            /\ Len(t.given) + i = Len(r.given) + (n + i)
        <5> DEFINE x == Len(r.given)
                   y == Len(buf)
        <5>1. Len(t.m_accum_buf) = y - n /\ Len(t.given) = x + n
          BY <1>7, <1>8, <2>2, <2>3
        <5>2. x \in Nat /\ y \in Nat /\ n \in Nat
          BY <1>2
        <5>3. i \in 1 .. (y - n)
          BY <5>1
        <5> HIDE DEF x, y
        <5>4. /\ i \in Nat /\ i \in 1 .. (y - n) /\ n + i \in 1 .. y
              /\ Len(t.given) + i = x + (n + i)
          BY <5>1, <5>2, <5>3
        <5> QED BY <5>4 DEF x, y
      <4>2. t.m_accum_buf[i] = buf[n + i]
        BY <1>7, <1>8, <2>2, <4>1
      <4>3. buf[n + i] = Len(r.given) + (n + i)
        BY <4>1 DEF Prefix
      <4> QED BY <4>1, <4>2, <4>3
    <3> QED BY <3>1, <3>2 DEF Prefix
  <2>6. Len(r.given) # Size
    BY <1>2, <1>4, SizeNat
  <2> QED BY <1>1, <1>8, <1>10, <2>1, <2>4, <2>5, <2>6 DEF Path
<1> QED BY <1>5, <1>11, <1>12

-----------------------------------------------------------------------------
(* accum_append: the recursive function exists, and what it computes. *)

LEMMA Induction ==
    ASSUME NEW S \in SUBSET Nat, 0 \in S, \A n \in S : n + 1 \in S
    PROVE  S = Nat
<1> SUFFICES ASSUME Nat \ S # {} PROVE FALSE
  OBVIOUS
<1>1. IsWellFoundedOn(OpToRel(<, Nat), Nat)
  BY NatLessThanWellFounded
<1>2. PICK m \in Nat \ S : \A k \in Nat \ S : ~ (<<k, m>> \in OpToRel(<, Nat))
  <2> DEFINE R == OpToRel(<, Nat)
             U == Nat \ S
  <2>1. U # {} /\ U \subseteq Nat
    OBVIOUS
  <2> HIDE DEF R, U
  <2>2. IsWellFoundedOn(R, Nat)
    BY <1>1 DEF R
  <2>3. \E x \in U : \A y \in U : ~ (<<y, x>> \in R)
    BY <2>1, <2>2, WFMin
  <2> QED BY <2>3 DEF R, U
<1>3. \A k \in Nat : k < m => k \in S
  BY <1>2 DEF OpToRel
<1>4. m # 0 /\ m - 1 \in Nat /\ m - 1 \in S
  BY <1>3
<1>5. (m - 1) + 1 = m
  OBVIOUS
<1> QED BY <1>4, <1>5

\* One round of accum_append, and its first rounds from r.
Flush(s) == IF Failed(s) THEN s ELSE PassOn(s, ACCUM)

IsRun(f, r, n) ==
    /\ DOMAIN f = 0 .. n /\ f[0] = r
    /\ \A k \in 1 .. n : f[k] = Flush(f[k - 1])

LEMMA RunsAgree ==
    ASSUME NEW r, NEW n \in Nat, NEW m \in Nat, NEW f, NEW g, IsRun(f, r, n), IsRun(g, r, m)
    PROVE  \A k \in Nat : k <= n /\ k <= m => f[k] = g[k]
<1> DEFINE S == {k \in Nat : k <= n /\ k <= m => f[k] = g[k]}
<1>1. 0 \in S
  BY DEF IsRun
<1>2. ASSUME NEW k \in S PROVE k + 1 \in S
  <2>1. CASE k + 1 <= n /\ k + 1 <= m
    <3>1. k + 1 \in 1 .. n /\ k + 1 \in 1 .. m /\ (k + 1) - 1 = k /\ f[k] = g[k]
      BY <2>1
    <3>2. f[k + 1] = Flush(f[k]) /\ g[k + 1] = Flush(g[k])
      BY <3>1 DEF IsRun
    <3> QED BY <3>1, <3>2
  <2> QED BY <2>1
<1> HIDE DEF S
<1>3. S = Nat
  <2>1. S \in SUBSET Nat
    BY DEF S
  <2> QED BY <1>1, <1>2, <2>1, Induction
<1> QED BY <1>3 DEF S

LEMMA RunExists ==
    ASSUME NEW r PROVE \A n \in Nat : \E f : IsRun(f, r, n)
<1> DEFINE S == {n \in Nat : \E f : IsRun(f, r, n)}
<1>1. 0 \in S
  <2> DEFINE f == [k \in 0 .. 0 |-> r]
  <2>1. IsRun(f, r, 0)
    BY DEF IsRun
  <2> HIDE DEF f
  <2> QED BY <2>1
<1>2. ASSUME NEW n \in S PROVE n + 1 \in S
  <2>1. PICK f : IsRun(f, r, n)
    OBVIOUS
  <2> DEFINE g == [k \in 0 .. (n + 1) |-> IF k = n + 1 THEN Flush(f[n]) ELSE f[k]]
  <2>2. IsRun(g, r, n + 1)
    BY <2>1 DEF IsRun
  <2> HIDE DEF g
  <2> QED BY <2>2
<1> HIDE DEF S
<1>3. S = Nat
  <2>1. S \in SUBSET Nat
    BY DEF S
  <2> QED BY <1>1, <1>2, <2>1, Induction
<1> QED BY <1>3 DEF S

\* The rounds of accum_append are a function.
Run(z) ==
    CHOOSE f : f = [k \in Nat |-> IF k = 0 THEN z
                       ELSE LET s == f[k - 1] IN IF Failed(s) THEN s ELSE PassOn(s, ACCUM)]

LEMMA RunIsRun ==
    ASSUME NEW z
    PROVE  Run(z)[0] = z /\ \A n \in Nat : Run(z)[n + 1] = Flush(Run(z)[n])
<1> DEFINE h == [n \in Nat |-> CHOOSE f : IsRun(f, z, n)]
           F == [n \in Nat |-> h[n][n]]
           G == CHOOSE f : f = [k \in Nat |-> IF k = 0 THEN z
                   ELSE LET s == f[k - 1] IN IF Failed(s) THEN s ELSE PassOn(s, ACCUM)]
<1>0. G = Run(z)
  BY DEF Run
<1>1. \A n \in Nat : IsRun(h[n], z, n)
  BY RunExists
<1> HIDE DEF h
<1>2. \A k \in Nat : F[k] = IF k = 0 THEN z ELSE Flush(F[k - 1])
  <2> SUFFICES ASSUME NEW k \in Nat PROVE F[k] = IF k = 0 THEN z ELSE Flush(F[k - 1])
    OBVIOUS
  <2>1. CASE k = 0
    BY <1>1, <2>1 DEF IsRun
  <2>2. CASE k # 0
    <3>1. k - 1 \in Nat /\ k \in 1 .. k /\ k - 1 <= k /\ k - 1 <= k - 1
      BY <2>2
    <3>2. h[k][k] = Flush(h[k][k - 1])
      BY <1>1, <3>1 DEF IsRun
    <3> DEFINE j == k - 1
    <3>3. j \in Nat /\ j <= k /\ j <= j
      BY <3>1
    <3> HIDE DEF j
    <3>4. IsRun(h[k], z, k) /\ IsRun(h[j], z, j)
      BY <1>1, <3>3
    <3>5. h[k][j] = h[j][j]
      BY <3>3, <3>4, RunsAgree
    <3> QED BY <2>2, <3>1, <3>2, <3>5 DEF j
  <2> QED BY <2>1, <2>2
<1>3. F = [k \in Nat |-> IF k = 0 THEN z
             ELSE LET s == F[k - 1] IN IF Failed(s) THEN s ELSE PassOn(s, ACCUM)]
  <2>1. F = [k \in Nat |-> F[k]]
    OBVIOUS
  <2> HIDE DEF F
  <2> QED BY <1>2, <2>1 DEF Flush
<1> HIDE DEF F
<1>4. G = [k \in Nat |-> IF k = 0 THEN z
             ELSE LET s == G[k - 1] IN IF Failed(s) THEN s ELSE PassOn(s, ACCUM)]
  BY <1>3
<1> HIDE DEF G
<1>5. G[0] = z /\ \A n \in Nat : G[n + 1] = Flush(G[n])
  BY <1>4 DEF Flush
<1> QED BY <1>0, <1>5

LEMMA Rounds ==
    ASSUME NEW r, NEW bytes
    PROVE  accum_append(r, bytes)
              = Run([r EXCEPT !.m_accum_buf = r.m_accum_buf \o bytes])
                   [Len(r.m_accum_buf \o bytes) \div ACCUM]
  BY DEF accum_append, Run

\* The bytes go on behind the first k of the image.
Follows(bytes, k) == \A j \in 1 .. Len(bytes) : bytes[j] = k + j

\* The bytes are in the accumulator.
LEMMA Appended ==
    ASSUME NEW r, Keeps(r), r.m_accum_active, NEW bytes \in Seq(Nat)
    PROVE  LET z == [r EXCEPT !.m_accum_buf = r.m_accum_buf \o bytes] IN
           /\ Keeps(z) /\ SamePath(r, z) /\ z.given = r.given /\ z.stores = r.stores
           /\ z.note = r.note /\ Received(z) = Received(r) + Len(bytes)
           /\ z.m_accum_buf = r.m_accum_buf \o bytes
           /\ Prefix(r) /\ Follows(bytes, Received(r)) => Prefix(z)
<1> DEFINE buf == r.m_accum_buf
           all == buf \o bytes
           z == [r EXCEPT !.m_accum_buf = all]
<1>1. /\ buf \in Seq(Nat) /\ r.given \in Seq(Nat) /\ r.m_num_of_firmware_bytes_rcvd = Len(r.given)
      /\ DOMAIN r = RxFields /\ r.m_reported_image_size \in {0, Size}
  BY DEF Keeps, RxType
<1>2. /\ DOMAIN z = RxFields
      /\ z.given = r.given /\ z.m_num_of_firmware_bytes_rcvd = r.m_num_of_firmware_bytes_rcvd
      /\ z.content = r.content /\ z.stores = r.stores /\ z.mp_final_packet = r.mp_final_packet
      /\ z.pool = r.pool /\ z.m_reported_image_size = r.m_reported_image_size
      /\ z.m_accum_buf = all /\ z.m_accum_active = r.m_accum_active
      /\ z.note = r.note
  <2> HIDE DEF all
  <2> QED BY <1>1 DEF RxFields
<1>3. /\ all \in Seq(Nat) /\ Len(all) = Len(buf) + Len(bytes)
      /\ \A i \in 1 .. Len(buf) + Len(bytes) :
            all[i] = IF i <= Len(buf) THEN buf[i] ELSE bytes[i - Len(buf)]
  <2>1. buf \in Seq(Nat)
    BY <1>1
  <2> HIDE DEF buf
  <2> QED BY <2>1, ConcatProperties
<1> DEFINE x == Len(r.given)
           y == Len(buf)
           w == Len(bytes)
<1>4. x \in Nat /\ y \in Nat /\ w \in Nat /\ Received(r) = x + y
  BY <1>1 DEF Received
<1> HIDE DEF z, all
<1>5. Keeps(z)
  <2>1. r.m_accum_active \in BOOLEAN
    BY DEF Keeps, RxType
  <2> QED BY <1>1, <1>2, <1>3, <2>1, KeepsFields
<1>6. Received(z) = Received(r) + Len(bytes)
  <2>1. Received(z) = x + Len(all) /\ Len(all) = y + w
    BY <1>1, <1>2, <1>3 DEF Received
  <2>2. x + (y + w) = (x + y) + w
    <3> HIDE DEF x, y, w
    <3> QED BY <1>4
  <2> QED BY <1>4, <2>1, <2>2
<1>7. ASSUME Prefix(r), Follows(bytes, Received(r)) PROVE Prefix(z)
  <2>1. ASSUME NEW i \in 1 .. Len(all) PROVE all[i] = x + i
    <3>1. i \in Nat /\ i \in 1 .. (y + w)
      BY <1>3
    <3>2. CASE i <= y
      <4>1. i \in 1 .. y /\ all[i] = buf[i]
        BY <1>3, <1>4, <3>1, <3>2
      <4> QED BY <1>7, <4>1 DEF Prefix
    <3>3. CASE ~(i <= y)
      <4>1. i - y \in 1 .. w /\ (x + y) + (i - y) = x + i
        <5> HIDE DEF x, y, w
        <5> QED BY <1>4, <3>1, <3>3
      <4>2. all[i] = bytes[i - y]
        BY <1>3, <3>1, <3>3
      <4>3. bytes[i - y] = (x + y) + (i - y)
        BY <1>4, <1>7, <4>1 DEF Follows
      <4> QED BY <4>1, <4>2, <4>3
    <3> QED BY <3>2, <3>3
  <2> QED BY <1>2, <1>7, <2>1 DEF Prefix
<1> QED BY <1>2, <1>5, <1>6, <1>7 DEF SamePath, z, all

LEMMA FlushPath ==
    ASSUME NEW z, NEW s, NEW m \in Nat, Path(z, s, m), ~Failed(z), Received(z) <= Size,
           ACCUM <= m, m_dfu_timed_out \in BOOLEAN, flash \in Seq(Nat)
    PROVE  Path(z, Flush(s), m - ACCUM)
<1>1. CASE ErrorNote(s.note) /\ s.m_accum_buf = <<>>
  <2>1. Flush(s) = s
    BY <1>1 DEF ErrorNote, Flush, Failed
  <2> QED BY <1>1, <2>1 DEF Path
<1>2. CASE /\ s.note = z.note /\ Received(s) = Received(z) /\ Len(s.m_accum_buf) = m
           /\ (Prefix(z) => Prefix(s))
  <2>1. ~Failed(s) /\ ~ErrorNote(s.note) /\ Keeps(s) /\ Received(s) <= Size
    BY <1>2 DEF Path, Failed, ErrorNote
  <2>2. Flush(s) = PassOn(s, ACCUM)
    BY <2>1 DEF Flush
  <2>3. ACCUM \in 1 .. Len(s.m_accum_buf)
    BY <1>2, SizeNat
  <2>4. Path(s, PassOn(s, ACCUM), Len(s.m_accum_buf) - ACCUM)
    BY <2>1, <2>3, PassOnPath
  <2>5. Path(s, Flush(s), m - ACCUM)
    BY <1>2, <2>2, <2>4
  <2> QED BY <2>1, <2>5, PathJoins
<1> QED BY <1>1, <1>2 DEF Path

LEMMA AppendPath ==
    ASSUME NEW r, Keeps(r), ~Failed(r), r.m_accum_active, NEW bytes \in Seq(Nat),
           Received(r) + Len(bytes) <= Size, m_dfu_timed_out \in BOOLEAN, flash \in Seq(Nat)
    PROVE  LET z == [r EXCEPT !.m_accum_buf = r.m_accum_buf \o bytes] IN
           \E m \in Nat : m < ACCUM /\ Path(z, accum_append(r, bytes), m)
<1> DEFINE all == r.m_accum_buf \o bytes
           z == [r EXCEPT !.m_accum_buf = all]
           N == Len(all) \div ACCUM
<1>1. /\ Keeps(z) /\ ~Failed(z) /\ Received(z) <= Size /\ z.m_accum_buf = all
  BY Appended DEF Failed
<1>2. all \in Seq(Nat) /\ Len(all) \in Nat
  BY <1>1 DEF Keeps, RxType
<1> DEFINE g == Run(z)
<1>3. /\ accum_append(r, bytes) = g[N] /\ g[0] = z
      /\ \A n \in Nat : g[n + 1] = Flush(g[n])
  <2>1. accum_append(r, bytes) = g[N]
    BY Rounds
  <2> HIDE DEF z
  <2> QED BY <2>1, RunIsRun
<1> HIDE DEF g
<1> HIDE DEF z, all
<1> DEFINE S == {k \in Nat : k * ACCUM <= Len(all) => Path(z, g[k], Len(all) - k * ACCUM)}
<1>4. 0 \in S
  <2>1. 0 * ACCUM = 0 /\ Len(all) - 0 = Len(all)
    BY <1>2, SizeNat
  <2>2. Path(z, g[0], Len(all))
    BY <1>1, <1>3, PathSelf
  <2> QED BY <2>1, <2>2
<1>5. ASSUME NEW k \in S PROVE k + 1 \in S
  <2> SUFFICES ASSUME (k + 1) * ACCUM <= Len(all) PROVE Path(z, g[k + 1], Len(all) - (k + 1) * ACCUM)
    OBVIOUS
  <2> DEFINE x == k * ACCUM
             y == (k + 1) * ACCUM
             m == Len(all) - x
  <2>1. x \in Nat /\ y = x + ACCUM /\ y <= Len(all)
    BY SizeNat
  <2>2. x <= Len(all) /\ m \in Nat /\ ACCUM <= m /\ m - ACCUM = Len(all) - y
    <3> HIDE DEF x, y
    <3> QED BY <1>2, <2>1, SizeNat
  <2>3. Path(z, g[k], m)
    BY <2>2
  <2>4. Path(z, Flush(g[k]), m - ACCUM)
    <3> HIDE DEF m
    <3> QED BY <1>1, <2>2, <2>3, FlushPath
  <2> QED BY <1>3, <2>2, <2>4
<1> HIDE DEF S
<1>6. S = Nat
  <2>1. S \in SUBSET Nat
    BY DEF S
  <2> QED BY <1>4, <1>5, <2>1, Induction
<1> DEFINE x == N * ACCUM
           m == Len(all) - x
<1>7. N \in Nat /\ x \in Nat /\ x <= Len(all) /\ Len(all) - x < ACCUM
  <2> DEFINE l == Len(all)
  <2>1. l \in Nat
    BY <1>2
  <2> HIDE DEF l
  <2>2. /\ l \div ACCUM \in Nat /\ l % ACCUM \in 0 .. (ACCUM - 1)
        /\ l = (l \div ACCUM) * ACCUM + (l % ACCUM)
    BY <2>1, SizeNat, SMT
  <2> DEFINE q == l \div ACCUM
             p == q * ACCUM
  <2>3. p \in Nat /\ l = p + (l % ACCUM)
    <3>1. q \in Nat /\ l = q * ACCUM + (l % ACCUM)
      BY <2>2
    <3> HIDE DEF q
    <3> QED BY <3>1, SizeNat
  <2> HIDE DEF p
  <2>4. p <= l /\ l - p < ACCUM
    BY <2>1, <2>2, <2>3, SizeNat
  <2> QED BY <2>2, <2>3, <2>4 DEF l, p
<1>8. Path(z, g[N], m)
  <2> HIDE DEF N
  <2> QED BY <1>6, <1>7 DEF S
<1>9. m \in Nat /\ m < ACCUM
  <2> HIDE DEF x
  <2> QED BY <1>2, <1>7, SizeNat
<1> HIDE DEF m, N
<1> QED BY <1>3, <1>8, <1>9 DEF z, all

-----------------------------------------------------------------------------
(* A whole packet. *)

ReceiptNote(n) == n \in NoteType /\ n.proc = "receipt" /\ n.result = "SUCCESS"

\* Everything but the note, the receipts and the flag of the accumulator.
SameData(r, s) ==
    /\ DOMAIN s = RxFields
    /\ s.given = r.given /\ s.m_num_of_firmware_bytes_rcvd = r.m_num_of_firmware_bytes_rcvd
    /\ s.content = r.content /\ s.stores = r.stores /\ s.mp_final_packet = r.mp_final_packet
    /\ s.pool = r.pool /\ s.m_reported_image_size = r.m_reported_image_size
    /\ s.m_accum_buf = r.m_accum_buf

LEMMA SameDataKeeps ==
    ASSUME NEW r, NEW s, Keeps(r), SameData(r, s), s.m_accum_active \in BOOLEAN,
           s.m_accum_buf # <<>> => s.m_accum_active
    PROVE  Keeps(s) /\ Received(s) = Received(r) /\ (Prefix(r) => Prefix(s))
<1>1. r.m_reported_image_size \in {0, Size} /\ r.m_accum_buf \in Seq(Nat)
  BY DEF Keeps, RxType
<1>2. Keeps(s)
  BY <1>1, KeepsFields DEF SameData
<1> QED BY <1>2 DEF SameData, Received, Prefix

\* What is received when a packet, or a part of its handling, is done.
Ends(r, s) ==
    /\ Keeps(s) /\ s.m_reported_image_size = r.m_reported_image_size
    /\ (Len(r.given) = Size => s.given = r.given /\ s.stores = r.stores)
    /\ Len(s.m_accum_buf) < ACCUM /\ Received(s) <= Size
    /\ \/ ErrorNote(s.note)
       \/ /\ s.note = NoNote \/ ReceiptNote(s.note)
          /\ Received(s) = Received(r) /\ (Prefix(r) => Prefix(s))

LEMMA ReceivedNat ==
    ASSUME NEW r, Keeps(r)
    PROVE  /\ Received(r) \in Nat /\ Len(r.given) \in Nat /\ Len(r.m_accum_buf) \in Nat
           /\ Received(r) = Len(r.given) + Len(r.m_accum_buf) /\ Len(r.given) <= Size
           /\ r.given \in Seq(Nat) /\ r.m_accum_buf \in Seq(Nat)
<1>1. /\ r.given \in Seq(Nat) /\ r.m_accum_buf \in Seq(Nat) /\ Len(r.given) <= Size
      /\ r.m_num_of_firmware_bytes_rcvd = Len(r.given)
  BY DEF Keeps, RxType
<1>2. Len(r.given) \in Nat /\ Len(r.m_accum_buf) \in Nat
  BY <1>1
<1>3. Received(r) = Len(r.given) + Len(r.m_accum_buf)
  BY <1>1 DEF Received
<1> DEFINE x == Len(r.given)
           y == Len(r.m_accum_buf)
<1>4. Received(r) \in Nat
  <2>1. x \in Nat /\ y \in Nat /\ Received(r) = x + y
    BY <1>2, <1>3
  <2> HIDE DEF x, y
  <2> QED BY <2>1
<1> QED BY <1>1, <1>2, <1>3, <1>4

LEMMA PathEnds ==
    ASSUME NEW r, NEW s, NEW m \in Nat, Path(r, s, m), m < ACCUM, r.note = NoNote, Keeps(r),
           Received(r) <= Size
    PROVE  Ends(r, s)
<1>1. Keeps(s) /\ SamePath(r, s)
  BY DEF Path
<1>2. CASE ErrorNote(s.note) /\ s.m_accum_buf = <<>>
  <2>1. Len(s.m_accum_buf) = 0
    BY <1>2
  <2>2. Len(s.m_accum_buf) < ACCUM /\ Received(s) <= Size
    <3> DEFINE x == Len(s.given)
               y == Len(s.m_accum_buf)
    <3>1. Received(s) = x + y /\ x \in Nat /\ x <= Size /\ y = 0
      BY <1>1, <2>1, ReceivedNat
    <3> HIDE DEF x, y
    <3>2. y < ACCUM /\ Received(s) <= Size
      BY <3>1, SizeNat
    <3> QED BY <3>2 DEF y
  <2> QED BY <1>1, <1>2, <2>2 DEF Ends, Path, SamePath
<1>3. CASE ~(ErrorNote(s.note) /\ s.m_accum_buf = <<>>)
  BY <1>1, <1>3 DEF Ends, Path, SamePath
<1> QED BY <1>2, <1>3

LEMMA EndsJoins ==
    ASSUME NEW r, NEW s, NEW t, NEW m, Path(r, s, m), ~ErrorNote(s.note), Ends(s, t)
    PROVE  Ends(r, t)
  BY DEF Ends, Path, SamePath

\* Complete words leave the accumulator.
LEMMA FlushedPath ==
    ASSUME NEW r, Keeps(r), ~Failed(r), Received(r) <= Size,
           m_dfu_timed_out \in BOOLEAN, flash \in Seq(Nat)
    PROVE  \E m \in Nat : m <= Len(r.m_accum_buf) /\ Path(r, accum_flush(r), m)
<1> DEFINE l == Len(r.m_accum_buf)
           n == WholeWords(l)
<1>1. l \in Nat
  BY ReceivedNat
<1>2. n \in Nat /\ n <= l
  <2> HIDE DEF l
  <2>1. /\ l \div WORD \in Nat /\ l % WORD \in 0 .. (WORD - 1)
        /\ l = (l \div WORD) * WORD + (l % WORD)
    BY <1>1, SizeNat, SMT
  <2> DEFINE q == l \div WORD
             c == l % WORD
  <2>2. q \in Nat /\ c \in Nat /\ l = q * WORD + c /\ n = q * WORD
    BY <2>1, SizeNat DEF WholeWords
  <2> HIDE DEF q, c, n
  <2>3. q * WORD \in Nat
    BY <2>2, SizeNat
  <2> QED BY <1>1, <2>2, <2>3
<1>3. CASE n = 0
  <2>1. accum_flush(r) = r
    BY <1>3 DEF accum_flush
  <2>2. Path(r, accum_flush(r), l)
    BY <2>1, PathSelf
  <2> QED BY <1>1, <2>2
<1>4. CASE n # 0
  <2>1. accum_flush(r) = PassOn(r, n)
    BY <1>4 DEF accum_flush
  <2> HIDE DEF n
  <2>2. n \in 1 .. l /\ l - n \in Nat /\ l - n <= l
    <3> HIDE DEF l
    <3> QED BY <1>1, <1>2, <1>4
  <2>3. Path(r, PassOn(r, n), l - n)
    BY <2>2, PassOnPath
  <2> QED BY <2>1, <2>2, <2>3
<1> QED BY <1>3, <1>4

LEMMA CountPacketEnds ==
    ASSUME NEW r, Keeps(r), r.note = NoNote, Received(r) <= Size, Len(r.m_accum_buf) < ACCUM,
           m_dfu_timed_out \in BOOLEAN, flash \in Seq(Nat)
    PROVE  Ends(r, CountPacket(r))
<1> DEFINE s == [r EXCEPT !.m_pkt_notif_target_cnt = (@ - 1) % 2 ^ 16]
           t == accum_flush(s)
           note == Note("receipt", "SUCCESS", Received(t))
           u == [t EXCEPT !.note = note, !.m_pkt_notif_target_cnt = t.m_pkt_notif_target]
<1>1. \/ CountPacket(r) = r \/ CountPacket(r) = s
      \/ Failed(t) /\ CountPacket(r) = t
      \/ ~Failed(t) /\ CountPacket(r) = u
  BY Zenon DEF CountPacket
<1>2. DOMAIN r = RxFields /\ r.m_accum_active \in BOOLEAN
      /\ (r.m_accum_buf # <<>> => r.m_accum_active)
  BY DEF Keeps, RxType
<1>3. SameData(r, s) /\ s.m_accum_active = r.m_accum_active /\ s.note = r.note
  BY <1>2 DEF SameData, RxFields
<1> DEFINE l == Len(r.m_accum_buf)
<1>4. l \in Nat /\ l < ACCUM
  BY ReceivedNat
<1> HIDE DEF s
<1>5. Path(r, s, l) /\ Keeps(s) /\ Received(s) <= Size /\ ~Failed(s) /\ Len(s.m_accum_buf) = l
  <2>1. Keeps(s) /\ Received(s) = Received(r) /\ (Prefix(r) => Prefix(s))
    BY <1>2, <1>3, SameDataKeeps DEF SameData
  <2>2. s.m_accum_buf = r.m_accum_buf /\ s.given = r.given /\ s.stores = r.stores /\ SamePath(r, s)
    BY <1>3 DEF SameData, SamePath
  <2>3. Path(r, s, l)
    BY <1>3, <2>1, <2>2 DEF Path
  <2> QED BY <1>3, <2>1, <2>2, <2>3 DEF Failed, NoNote, Response, Note
<1>6. PICK m \in Nat : m <= l /\ Path(s, t, m)
  BY <1>5, FlushedPath
<1>7. Path(r, t, m) /\ m < ACCUM
  <2>1. ~ErrorNote(s.note)
    BY <1>5 DEF Failed, ErrorNote
  <2> HIDE DEF t, l
  <2> QED BY <1>4, <1>5, <1>6, <2>1, PathJoins, SizeNat
<1>8. Ends(r, r) /\ Ends(r, s) /\ Ends(r, t)
  <2> HIDE DEF t
  <2>1. Path(r, r, l)
    BY PathSelf
  <2> HIDE DEF l
  <2> QED BY <1>4, <1>5, <1>7, <2>1, PathEnds
<1> HIDE DEF t
<1>9. ASSUME ~Failed(t) PROVE Ends(r, u)
  <2>1. Keeps(t) /\ ~ErrorNote(t.note)
    BY <1>7, <1>9 DEF Path, Failed, ErrorNote
  <2>2. DOMAIN t = RxFields /\ t.m_accum_active \in BOOLEAN
        /\ (t.m_accum_buf # <<>> => t.m_accum_active)
    BY <2>1 DEF Keeps, RxType
  <2>3. SameData(t, u) /\ u.m_accum_active = t.m_accum_active /\ u.note = note
    <3> HIDE DEF note
    <3> QED BY <2>2 DEF SameData, RxFields
  <2> HIDE DEF u
  <2>4. Keeps(u) /\ Received(u) = Received(t) /\ (Prefix(t) => Prefix(u))
    BY <2>1, <2>2, <2>3, SameDataKeeps DEF SameData
  <2>5. Received(t) \in 0 .. Size
    <3> DEFINE x == Received(t)
    <3>1. x \in Nat /\ x <= Size
      BY <1>8, <2>1, ReceivedNat DEF Ends
    <3> HIDE DEF x
    <3>2. x \in 0 .. Size
      BY <3>1, SizeNat
    <3> QED BY <3>2 DEF x
  <2>6. ReceiptNote(note)
    BY <2>5 DEF ReceiptNote, NoteType, Note
  <2> QED BY <1>8, <2>1, <2>3, <2>4, <2>6 DEF Ends, SameData
<1> HIDE DEF u
<1> QED BY <1>1, <1>8, <1>9

\* The packet is handled: its bytes are received, or the controller is told of an error.
Takes(r, s, bytes) ==
    /\ Keeps(s) /\ s.m_reported_image_size = r.m_reported_image_size
    /\ (Len(r.given) = Size => s.given = r.given /\ s.stores = r.stores)
    /\ Len(s.m_accum_buf) < ACCUM /\ Received(s) <= Size
    /\ \/ ErrorNote(s.note)
       \/ /\ s.note = NoNote \/ ReceiptNote(s.note)
          /\ Received(s) = Received(r) + Len(bytes)
          /\ (Prefix(r) /\ Follows(bytes, Received(r)) => Prefix(s))

\* From r to s the bytes were taken in, without a note.
TakesIn(r, s, bytes) ==
    /\ Keeps(s) /\ s.m_reported_image_size = r.m_reported_image_size
    /\ (Len(r.given) = Size => s.given = r.given /\ s.stores = r.stores)
    /\ Received(s) = Received(r) + Len(bytes)
    /\ (Prefix(r) /\ Follows(bytes, Received(r)) => Prefix(s))

LEMMA TakesEnds ==
    ASSUME NEW r, NEW s, NEW t, NEW bytes, TakesIn(r, s, bytes), Ends(s, t)
    PROVE  Takes(r, t, bytes)
  BY DEF Takes, TakesIn, Ends

LEMMA ErrorTakes ==
    ASSUME NEW r, NEW s, NEW bytes, NEW e \in {"INVALID_LENGTH", "NO_MEM", "INVALID_STATE", "DATA_SIZE"},
           Keeps(s), s.m_reported_image_size = r.m_reported_image_size,
           Len(r.given) = Size => s.given = r.given /\ s.stores = r.stores,
           Len(s.m_accum_buf) < ACCUM, Received(s) <= Size
    PROVE  Takes(r, dfu_error_notify(s, e), bytes)
<1> DEFINE t == dfu_error_notify(s, e)
<1>1. Keeps(t) /\ SamePath(s, t) /\ Fails(s, t) /\ t.m_accum_buf = s.m_accum_buf
  BY NotifyKeeps
<1> HIDE DEF t
<1>2. Received(t) = Received(s)
  BY <1>1 DEF Received, Keeps, RxType, Fails
<1> QED BY <1>1, <1>2 DEF Takes, SamePath, Fails, t

LEMMA AccumulateTakes ==
    ASSUME NEW r, Keeps(r), r.note = NoNote, r.m_accum_active, NEW bytes \in Seq(Nat),
           Received(r) + Len(bytes) <= Size, m_dfu_timed_out \in BOOLEAN, flash \in Seq(Nat)
    PROVE  Takes(r, Accumulate(r, bytes), bytes)
<1> DEFINE z == [r EXCEPT !.m_accum_buf = r.m_accum_buf \o bytes]
           s == accum_append(r, bytes)
           t == accum_flush(s)
<1>0. ~Failed(r)
  BY DEF Failed, NoNote, Response, Note
<1>1. /\ Keeps(z) /\ SamePath(r, z) /\ z.given = r.given /\ z.stores = r.stores
      /\ z.note = r.note /\ Received(z) = Received(r) + Len(bytes)
      /\ Prefix(r) /\ Follows(bytes, Received(r)) => Prefix(z)
  BY Appended
<1>2. PICK m \in Nat : m < ACCUM /\ Path(z, s, m)
  BY <1>0, AppendPath
<1>3. \/ Accumulate(r, bytes) = s
      \/ ~Failed(s) /\ (Accumulate(r, bytes) = t \/ Accumulate(r, bytes) = CountPacket(s))
      \/ ~Failed(s) /\ ~Failed(t) /\ Accumulate(r, bytes) = dfu_error_notify(t, "INVALID_LENGTH")
  BY Zenon DEF Accumulate
<1> HIDE DEF z, s
<1>4. TakesIn(r, z, bytes) /\ z.note = NoNote /\ Received(z) <= Size
  BY <1>1 DEF TakesIn, SamePath
<1>5. Ends(z, s)
  BY <1>1, <1>2, <1>4, PathEnds
<1>6. ASSUME ~Failed(s)
      PROVE  /\ Ends(z, t) /\ Ends(z, CountPacket(s))
             /\ (~Failed(t) => Ends(z, t) /\ Keeps(t))
  <2>1. /\ ~ErrorNote(s.note) /\ Keeps(s) /\ s.note = NoNote
        /\ Received(s) <= Size /\ Len(s.m_accum_buf) = m
    BY <1>2, <1>4, <1>6 DEF Failed, ErrorNote, Path
  <2>2. PICK k \in Nat : k <= m /\ Path(s, t, k)
    BY <1>6, <2>1, FlushedPath
  <2>3. k < ACCUM
    BY <1>2, <2>2, SizeNat
  <2>4. Ends(s, t)
    <3> HIDE DEF t
    <3> QED BY <2>1, <2>2, <2>3, PathEnds
  <2>5. Ends(s, CountPacket(s))
    BY <1>2, <2>1, CountPacketEnds
  <2>6. Ends(z, t) /\ Ends(z, CountPacket(s))
    <3> HIDE DEF t
    <3> QED BY <1>2, <2>1, <2>4, <2>5, EndsJoins
  <2> QED BY <2>6 DEF Ends
<1> HIDE DEF t
<1>7. CASE Accumulate(r, bytes) = s
  BY <1>4, <1>5, <1>7, TakesEnds
<1>8. CASE ~Failed(s) /\ (Accumulate(r, bytes) = t \/ Accumulate(r, bytes) = CountPacket(s))
  BY <1>4, <1>6, <1>8, TakesEnds
<1>9. CASE ~Failed(s) /\ ~Failed(t) /\ Accumulate(r, bytes) = dfu_error_notify(t, "INVALID_LENGTH")
  <2>1. Takes(r, t, bytes)
    BY <1>4, <1>6, <1>9, TakesEnds
  <2> DEFINE e == "INVALID_LENGTH"
  <2>2. e \in {"INVALID_LENGTH", "NO_MEM", "INVALID_STATE", "DATA_SIZE"}
    OBVIOUS
  <2> HIDE DEF e
  <2>3. Takes(r, dfu_error_notify(t, e), bytes)
    BY <2>1, <2>2, ErrorTakes DEF Takes
  <2> QED BY <1>9, <2>3 DEF e
<1> QED BY <1>3, <1>7, <1>8, <1>9

LEMMA DirectTakes ==
    ASSUME NEW r, Keeps(r), r.note = NoNote, r.m_accum_buf = <<>>, NEW bytes \in Seq(Nat),
           Received(r) + Len(bytes) <= Size, m_dfu_timed_out \in BOOLEAN, flash \in Seq(Nat)
    PROVE  Takes(r, Direct(r, bytes), bytes)
<1> DEFINE s == aligned_data_process(r, bytes)
           x == Len(r.given)
           w == Len(bytes)
<1>0. /\ x \in Nat /\ x <= Size /\ r.given \in Seq(Nat) /\ w \in Nat /\ Received(r) = x
      /\ x + w <= Size
  <2>1. Received(r) = x + Len(r.m_accum_buf) /\ x \in Nat /\ w \in Nat /\ Len(r.m_accum_buf) = 0
        /\ x <= Size /\ r.given \in Seq(Nat)
    <3>1. Len(r.m_accum_buf) = 0 /\ w \in Nat
      OBVIOUS
    <3>2. Received(r) = x + Len(r.m_accum_buf) /\ x \in Nat /\ x <= Size /\ r.given \in Seq(Nat)
      BY ReceivedNat
    <3> QED BY <3>1, <3>2
  <2> HIDE DEF x, w
  <2>2. Received(r) = x
    BY <2>1
  <2>3. x + w <= Size
    BY <2>2 DEF w
  <2> QED BY <2>1, <2>2, <2>3
<1>1. /\ Keeps(s) /\ SamePath(r, s) /\ s.m_accum_buf = r.m_accum_buf
      /\ Fails(r, s) \/ Gives(r, s, bytes)
  BY <1>0, AlignedKeeps
<1>2. \/ Direct(r, bytes) = s
      \/ ~Failed(s) /\ Direct(r, bytes) = CountPacket(s)
  BY Zenon DEF Direct
<1> HIDE DEF s
<1>3. /\ Len(s.m_accum_buf) < ACCUM /\ Received(s) <= Size /\ Received(s) = Len(s.given)
  <2> DEFINE y == Len(s.given)
  <2>1. y \in Nat /\ y <= Size /\ Received(s) = y + Len(s.m_accum_buf) /\ Len(s.m_accum_buf) = 0
    <3>1. Len(s.m_accum_buf) = 0
      BY <1>1
    <3>2. Received(s) = y + Len(s.m_accum_buf) /\ y \in Nat /\ y <= Size
      BY <1>1, ReceivedNat
    <3> QED BY <3>1, <3>2
  <2> HIDE DEF y
  <2>2. Len(s.m_accum_buf) < ACCUM /\ Received(s) <= Size /\ Received(s) = y
    BY <2>1, SizeNat
  <2> QED BY <2>2 DEF y
<1>4. CASE Fails(r, s)
  <2>1. Direct(r, bytes) = s
    BY <1>2, <1>4 DEF Fails, ErrorNote, Failed
  <2> QED BY <1>1, <1>3, <1>4, <2>1 DEF Takes, Fails, SamePath
<1>5. CASE Gives(r, s, bytes)
  <2>1. s.note = NoNote /\ s.given = r.given \o bytes /\ w > 0
    BY <1>5 DEF Gives
  <2>2. /\ Len(s.given) = x + w
        /\ \A i \in 1 .. (x + w) : s.given[i] = IF i <= x THEN r.given[i] ELSE bytes[i - x]
    <3> DEFINE g == r.given
    <3>1. g \in Seq(Nat)
      BY <1>0
    <3> HIDE DEF g
    <3>2. /\ Len(g \o bytes) = Len(g) + Len(bytes)
          /\ \A i \in 1 .. Len(g) + Len(bytes) :
                (g \o bytes)[i] = IF i <= Len(g) THEN g[i] ELSE bytes[i - Len(g)]
      BY <3>1, ConcatProperties
    <3> QED BY <2>1, <3>2 DEF g
  <2>3. x # Size
    <3> HIDE DEF x, w
    <3> QED BY <1>0, <2>1, SizeNat
  <2>4. ASSUME Prefix(r), Follows(bytes, Received(r)) PROVE Prefix(s)
    <3>1. ASSUME NEW i \in 1 .. (x + w) PROVE s.given[i] = i
      <4>0. i \in Nat
        BY <1>0
      <4>1. CASE i <= x
        <5>1. i \in 1 .. x
          BY <1>0, <4>1
        <5>2. s.given[i] = r.given[i]
          BY <2>2, <4>1
        <5> QED BY <2>4, <5>1, <5>2 DEF Prefix
      <4>2. CASE ~(i <= x)
        <5>1. i - x \in 1 .. w /\ x + (i - x) = i
          <6> HIDE DEF x, w
          <6> QED BY <1>0, <4>0, <4>2
        <5>2. s.given[i] = bytes[i - x]
          BY <2>2, <4>2
        <5>3. bytes[i - x] = x + (i - x)
          BY <1>0, <2>4, <5>1 DEF Follows
        <5> QED BY <5>1, <5>2, <5>3
      <4> QED BY <4>1, <4>2
    <3>2. s.m_accum_buf = <<>>
      BY <1>1
    <3> QED BY <2>2, <3>1, <3>2 DEF Prefix
  <2>5. TakesIn(r, s, bytes)
    BY <1>0, <1>1, <1>3, <2>2, <2>3, <2>4 DEF TakesIn, SamePath
  <2>6. Ends(s, CountPacket(s))
    BY <1>1, <1>3, <2>1, CountPacketEnds
  <2>7. Ends(s, s)
    BY <1>1, <1>3, <2>1 DEF Ends
  <2> QED BY <1>2, <2>5, <2>6, <2>7, TakesEnds
<1> QED BY <1>1, <1>4, <1>5

\* app_data_process, when nothing is to be sent yet.
LEMMA PacketTakes ==
    ASSUME NEW r, Keeps(r), r.note = NoNote, NEW bytes \in Seq(Nat), Received(r) <= Size,
           Len(r.m_accum_buf) < ACCUM, m_dfu_timed_out \in BOOLEAN, flash \in Seq(Nat)
    PROVE  Takes(r, app_data_process(r, bytes), bytes)
<1> DEFINE n == Len(bytes)
           a == Accumulates(r, n)
           s == [r EXCEPT !.m_accum_active = a]
           t == app_data_process(r, bytes)
<1>1. /\ DOMAIN r = RxFields /\ r.m_reported_image_size \in {0, Size}
      /\ (r.m_accum_buf # <<>> => r.m_accum_active)
  BY DEF Keeps, RxType
<1>2. Received(r) \in Nat /\ n \in Nat /\ Received(r) = Len(r.given) + Len(r.m_accum_buf)
      /\ Len(r.given) \in Nat /\ r.m_accum_buf \in Seq(Nat)
  <2>1. n \in Nat
    OBVIOUS
  <2> HIDE DEF n
  <2> QED BY <2>1, ReceivedNat
<1>3. a \in BOOLEAN /\ (r.m_accum_buf # <<>> => a)
  <2>1. a \in BOOLEAN
    BY <1>1 DEF Accumulates, Odd, Keeps, RxType
  <2>2. ASSUME r.m_accum_buf # <<>> PROVE Received(r) # 0
    <3> DEFINE x == Len(r.given)
               y == Len(r.m_accum_buf)
    <3>1. y \in Nat /\ y # 0
      BY <1>2, <2>2
    <3>2. x \in Nat /\ Received(r) = x + y
      BY <1>2
    <3> HIDE DEF x, y
    <3> QED BY <3>1, <3>2
  <2> QED BY <1>1, <2>1, <2>2 DEF Accumulates
<1>4. SameData(r, s) /\ s.m_accum_active = a /\ s.note = r.note
  <2> HIDE DEF a
  <2> QED BY <1>1 DEF SameData, RxFields
<1> HIDE DEF a
<1>5. t = IF n = 0 \/ Received(r) + n > r.m_reported_image_size THEN dfu_error_notify(r, "DATA_SIZE")
          ELSE IF a THEN Accumulate(s, bytes) ELSE Direct(s, bytes)
  <2>1. t = IF n = 0 \/ Received(r) + n > r.m_reported_image_size THEN dfu_error_notify(r, "DATA_SIZE")
            ELSE IF s.m_accum_active THEN Accumulate(s, bytes) ELSE Direct(s, bytes)
    BY DEF app_data_process, a
  <2> HIDE DEF t, s
  <2> QED BY <1>4, <2>1
<1> HIDE DEF s, t
<1>6. Keeps(s) /\ Received(s) = Received(r) /\ (Prefix(r) => Prefix(s))
  BY <1>3, <1>4, SameDataKeeps DEF SameData
<1>7. CASE n = 0 \/ Received(r) + n > r.m_reported_image_size
  <2> DEFINE e == "DATA_SIZE"
  <2>2. e \in {"INVALID_LENGTH", "NO_MEM", "INVALID_STATE", "DATA_SIZE"} /\ t = dfu_error_notify(r, e)
    BY <1>5, <1>7
  <2> HIDE DEF e
  <2>3. Takes(r, dfu_error_notify(r, e), bytes)
    BY <2>2, ErrorTakes
  <2> QED BY <2>2, <2>3 DEF t
<1>8. CASE ~(n = 0 \/ Received(r) + n > r.m_reported_image_size)
  <2>1. Received(s) + n <= Size
    <3> DEFINE y == r.m_reported_image_size
               x == Received(r)
    <3>1. x \in Nat /\ n \in Nat /\ y \in {0, Size} /\ ~(x + n > y) /\ Received(s) = x
      BY <1>1, <1>2, <1>6, <1>8
    <3> HIDE DEF y, x, n
    <3> QED BY <3>1, SizeNat
  <2>2. Takes(s, t, bytes)
    <3>1. CASE a
      <4>1. t = Accumulate(s, bytes)
        BY <1>5, <1>8, <3>1
      <4> QED BY <1>4, <1>6, <2>1, <3>1, <4>1, AccumulateTakes
    <3>2. CASE ~a
      <4>1. t = Direct(s, bytes) /\ s.m_accum_buf = <<>>
        BY <1>3, <1>4, <1>5, <1>8, <3>2 DEF SameData
      <4> QED BY <1>4, <1>6, <2>1, <4>1, DirectTakes
    <3> QED BY <3>1, <3>2
  <2> QED BY <1>4, <1>6, <2>2 DEF Takes, SameData, t
<1> QED BY <1>7, <1>8

-----------------------------------------------------------------------------
(* The state of the device's data path, whatever a controller does. *)

\* Keeps, of the state of the DFU state machine, its timer and the flash.
KeptBy(r, state, late, fl) ==
    /\ RxType(r)
    /\ (state \in Early => Fresh(r))
    /\ (state = "rx_data" =>
          /\ Rings(r.pool, r.stores, late) /\ FinalOf(r.mp_final_packet, r.given, r.stores)
          /\ Stored(r.stores, r.content, r.given, fl))

\* Once the controller was told that the image is received, all of it is in flash.
AllStored(r, state, fl) ==
    state \in Late /\ r.stores = <<>> /\ fl = r.given /\ Len(r.given) = Size

Data(r, state, late, fl, tld) ==
    /\ KeptBy(r, state, late, fl)
    /\ r.note = NoNote /\ Len(r.m_accum_buf) < ACCUM /\ Received(r) <= Size
    /\ (state \in {"rdy", "rx_init"} => fl = <<>>)
    /\ (tld => AllStored(r, state, fl))

LEMMA KeepsIsKeptBy ==
    \A r : Keeps(r) <=> KeptBy(r, m_dfu_state, m_dfu_timed_out, flash)
  BY DEF Keeps, KeptBy, Receives

LEMMA NoDataKept ==
    ASSUME NEW fl PROVE Data(NoData, "idle", FALSE, fl, FALSE)
<1> DEFINE r == NoData
           st == <<>>
<1>1. DOMAIN r = RxFields /\ st \in Seq(Buffer)
  BY DEF NoData, RxFields
<1>2. /\ r.given = <<>> /\ r.m_num_of_firmware_bytes_rcvd = 0 /\ r.m_accum_buf = <<>>
      /\ r.m_accum_active = FALSE /\ r.content = [b \in Buffer |-> <<>>] /\ r.stores = st
      /\ r.mp_final_packet = NULL /\ r.m_reported_image_size = 0 /\ r.pool = EmptyPool
      /\ r.note = NoNote
  BY DEF NoData
<1>3. /\ EmptyPool \in PoolType /\ EmptyPool.read_available_count = 0
      /\ EmptyPool.write_index \in Buffer /\ Rings(EmptyPool, st, FALSE)
  <2>1. EmptyPool \in PoolType
    BY PoolAssumption DEF EmptyPool, PoolType, Buffer
  <2>2. /\ EmptyPool.free_available_count = 0 /\ EmptyPool.write_index = 0
        /\ EmptyPool.read_index = 0 /\ EmptyPool.read_available_count = 0
        /\ EmptyPool.free_window_count = POOL /\ EmptyPool.free_index = {}
    BY DEF EmptyPool
  <2>3. 0 \in Buffer /\ POOL - 0 = POOL /\ Len(st) = 0
    BY PoolAssumption DEF Buffer
  <2>4. Rings(EmptyPool, st, FALSE)
    <3> HIDE DEF st
    <3> QED BY <2>1, <2>2, <2>3, PoolAssumption DEF Rings
  <2> QED BY <2>1, <2>2, <2>3, <2>4
<1>4. RxType(r)
  <2> HIDE DEF r, st
  <2>1. <<>> \in Seq(Nat) /\ Len(<<>>) = 0 /\ [b \in Buffer |-> <<>>] \in [Buffer -> Seq(Nat)]
    OBVIOUS
  <2>2. Len(<<>>) <= Size
    BY <2>1, SizeNat
  <2>3. r.stores \in Seq(Buffer) /\ r.m_accum_active \in BOOLEAN
        /\ r.mp_final_packet \in Buffer \cup {NULL} /\ r.m_reported_image_size \in {0, Size}
    BY <1>1, <1>2
  <2> HIDE DEF NoData
  <2> QED BY <1>1, <1>2, <1>3, <2>1, <2>2, <2>3, Zenon DEF RxType
<1>5. Len(<<>>) < ACCUM /\ Received(r) <= Size
  <2> HIDE DEF r
  <2> QED BY <1>2, SizeNat DEF Received
<1> HIDE DEF r, st
<1>6. Fresh(r)
  BY <1>2, <1>3 DEF Fresh, st
<1>7. Data(r, "idle", FALSE, fl, FALSE)
  BY <1>2, <1>4, <1>5, <1>6 DEF Data, KeptBy
<1> QED BY <1>7 DEF r

\* Fields that do not matter here.
LEMMA DataAside ==
    ASSUME NEW r, NEW s, NEW state, NEW late, NEW fl, NEW tld, Data(r, state, late, fl, tld),
           SameData(r, s), s.m_accum_active = r.m_accum_active, s.note = r.note
    PROVE  Data(s, state, late, fl, tld)
<1>1. RxType(s)
  BY DEF RxType, SameData, Data, KeptBy
<1>2. KeptBy(s, state, late, fl)
  BY <1>1 DEF SameData, Data, KeptBy, Fresh
<1> QED BY <1>2 DEF SameData, Data, AllStored, Received

\* Another state of the DFU state machine.
LEMMA DataStates ==
    ASSUME NEW r, NEW state, NEW late, NEW fl, NEW tld, NEW s2, NEW f2,
           Data(r, state, late, fl, tld),
           \/ state = "idle" /\ s2 = "preparing" /\ f2 = fl
           \/ state = "preparing" /\ s2 = "rdy" /\ f2 = <<>>
           \/ state \in {"rdy", "rx_init"} /\ s2 = "rx_init" /\ f2 = fl
           \/ state = "rx_data" /\ s2 \in {"wait_activate", "validate"} /\ f2 = fl
    PROVE  Data(r, s2, late, f2, tld)
  BY DEF Data, KeptBy, AllStored, Early, Late

LEMMA DataBegins ==
    ASSUME NEW r, NEW late, NEW fl, NEW tld, Data(r, "rx_init", late, fl, tld)
    PROVE  Data(r, "rx_data", late, fl, tld)
<1>1. Fresh(r) /\ fl = <<>> /\ RxType(r) /\ ~tld
  BY DEF Data, KeptBy, Early, AllStored, Late
<1>2. Rings(r.pool, r.stores, late)
  BY <1>1 DEF Fresh, Rings
<1>3. Stored(<<>>, r.content, <<>>, <<>>)
  <2> DEFINE st == <<>>
             ct == [b \in Buffer |-> <<>>]
             cu == r.content
             e == <<>>
  <2>1. Stored(st, ct, e, e)
    BY StoredFirst
  <2>2. \A i \in 1 .. Len(st) : cu[st[i]] = ct[st[i]]
    OBVIOUS
  <2> HIDE DEF st, ct, cu, e
  <2>3. Stored(st, cu, e, e)
    BY <2>1, <2>2, StoredSame
  <2> QED BY <2>3 DEF st, cu, e
<1>4. FinalOf(r.mp_final_packet, r.given, r.stores)
  BY <1>1 DEF Fresh, FinalOf
<1> QED BY <1>1, <1>2, <1>3, <1>4 DEF Data, KeptBy, Fresh, Early

LEMMA DataLate ==
    ASSUME NEW r, NEW state, NEW late, NEW fl, NEW tld, Data(r, state, late, fl, tld)
    PROVE  Data(r, state, TRUE, fl, tld)
<1>1. Rings(r.pool, r.stores, late) => Rings(r.pool, r.stores, TRUE)
  BY DEF Rings
<1> QED BY <1>1 DEF Data, KeptBy

\* DISCONNECTED.
LEMMA DataDropped ==
    ASSUME NEW r, NEW state, NEW late, NEW fl, NEW tld, Data(r, state, late, fl, tld)
    PROVE  LET s == [r EXCEPT !.m_accum_buf = <<>>, !.m_accum_active = FALSE, !.mp_final_packet = NULL]
           IN  Data(s, state, late, fl, tld) /\ (Prefix(r) => Prefix(s)) /\ Received(s) = Len(r.given)
               /\ s.m_accum_buf = <<>>
<1> DEFINE s == [r EXCEPT !.m_accum_buf = <<>>, !.m_accum_active = FALSE, !.mp_final_packet = NULL]
<1>1. RxType(r)
  BY DEF Data, KeptBy
<1>2. /\ DOMAIN s = RxFields
      /\ s.given = r.given /\ s.m_num_of_firmware_bytes_rcvd = r.m_num_of_firmware_bytes_rcvd
      /\ s.content = r.content /\ s.stores = r.stores /\ s.mp_final_packet = NULL
      /\ s.pool = r.pool /\ s.m_reported_image_size = r.m_reported_image_size
      /\ s.m_accum_buf = <<>> /\ s.m_accum_active = FALSE /\ s.note = r.note
  BY <1>1 DEF RxType, RxFields
<1> HIDE DEF s
<1>3. <<>> \in Seq(Nat) /\ Len(<<>>) = 0
  OBVIOUS
<1>4. RxType(s)
  BY <1>1, <1>2, <1>3 DEF RxType
<1> DEFINE x == Len(r.given)
<1>5. x \in Nat /\ x <= Size /\ s.m_num_of_firmware_bytes_rcvd = x
  BY <1>1, <1>2 DEF RxType
<1>6. Received(s) = x /\ Received(s) <= Size /\ Len(s.m_accum_buf) < ACCUM
  <2> HIDE DEF x
  <2> QED BY <1>2, <1>3, <1>5, SizeNat DEF Received
<1>7. KeptBy(s, state, late, fl)
  BY <1>2, <1>4 DEF Data, KeptBy, Fresh, FinalOf
<1>8. Data(s, state, late, fl, tld)
  BY <1>2, <1>6, <1>7 DEF Data, AllStored
<1>9. Prefix(r) => Prefix(s)
  BY <1>2 DEF Prefix
<1> QED BY <1>2, <1>6, <1>8, <1>9 DEF s

\* The oldest store is done while data is received.
LEMMA DataStoredKeeps ==
    ASSUME NEW r, NEW late, NEW fl \in Seq(Nat), NEW tld, Data(r, "rx_data", late, fl, tld),
           r.stores # <<>>
    PROVE  LET b == Head(r.stores)
               s == [r EXCEPT !.stores = Tail(@), !.pool = hci_mem_pool_rx_consume(@, b)]
               f2 == fl \o r.content[b]
           IN  /\ r.pool.free_available_count # 0 /\ ~tld /\ f2 \in Seq(Nat)
               /\ Data(s, "rx_data", late, f2, FALSE)
               /\ (b = r.mp_final_packet => Data(s, "rx_data", late, f2, TRUE))
               /\ (Prefix(r) => Prefix(s)) /\ Received(s) = Received(r) /\ s.m_accum_buf = r.m_accum_buf
<1> DEFINE st == r.stores
           b == Head(st)
           tt == Tail(st)
           q == r.pool
           p == hci_mem_pool_rx_consume(q, b)
           ct == r.content
           c == ct[b]
           g == r.given
           f2 == fl \o c
           s == [r EXCEPT !.stores = tt, !.pool = p]
<1>1. RxType(r) /\ Rings(q, st, late) /\ FinalOf(r.mp_final_packet, g, st) /\ Stored(st, ct, g, fl)
      /\ ~tld
  BY DEF Data, KeptBy, AllStored
<1>2. /\ DOMAIN s = RxFields
      /\ s.given = g /\ s.m_num_of_firmware_bytes_rcvd = r.m_num_of_firmware_bytes_rcvd
      /\ s.content = ct /\ s.stores = tt /\ s.mp_final_packet = r.mp_final_packet
      /\ s.pool = p /\ s.m_reported_image_size = r.m_reported_image_size
      /\ s.m_accum_buf = r.m_accum_buf /\ s.m_accum_active = r.m_accum_active
      /\ s.note = r.note
  <2> HIDE DEF tt, p
  <2> QED BY <1>1 DEF RxType, RxFields
<1>3. /\ st \in Seq(Buffer) /\ st # <<>> /\ ct \in [Buffer -> Seq(Nat)] /\ g \in Seq(Nat)
      /\ r.mp_final_packet \in Buffer \cup {NULL}
  BY <1>1 DEF RxType
<1> HIDE DEF s, ct, g, q, st
<1>4. /\ q.free_available_count # 0 /\ Rings(p, tt, late)
      /\ \A i \in 1 .. Len(st) : st[i] = st[1] => i = 1
  BY <1>1, <1>3, RingStored
<1>5. Stored(tt, ct, g, f2)
  BY <1>1, <1>3, StoredDone
<1>6. /\ b \in Buffer /\ b = st[1] /\ tt \in Seq(Buffer) /\ Len(st) \in Nat /\ Len(st) > 0
      /\ Len(tt) = Len(st) - 1 /\ \A i \in 1 .. (Len(st) - 1) : tt[i] = st[i + 1]
  BY <1>3
<1>7. f2 \in Seq(Nat) /\ c \in Seq(Nat)
  <2>1. c \in Seq(Nat)
    BY <1>3, <1>6
  <2> HIDE DEF c
  <2> QED BY <2>1, ConcatProperties
<1>8. tt # <<>> => tt[Len(tt)] = st[Len(st)]
  <2> SUFFICES ASSUME tt # <<>> PROVE tt[Len(tt)] = st[Len(st)]
    OBVIOUS
  <2> DEFINE l == Len(st)
  <2>0. Len(tt) # 0
    <3> HIDE DEF tt
    <3> QED BY <1>6
  <2>1. l - 1 \in 1 .. (l - 1) /\ (l - 1) + 1 = l
    <3>1. l \in Nat /\ Len(tt) = l - 1
      BY <1>6
    <3> HIDE DEF l, tt
    <3> QED BY <2>0, <3>1
  <2>2. tt[l - 1] = st[(l - 1) + 1]
    BY <1>6, <2>1
  <2> HIDE DEF tt
  <2> QED BY <1>6, <2>1, <2>2
<1>9. FinalOf(r.mp_final_packet, g, tt)
  <2> HIDE DEF tt
  <2> QED BY <1>1, <1>3, <1>8 DEF FinalOf
<1> HIDE DEF tt, p, b
<1>10. RxType(s)
  <2>1. p \in PoolType /\ p.read_available_count = 0 /\ p.write_index \in Buffer
    BY <1>4 DEF Rings
  <2> QED BY <1>1, <1>2, <1>6, <2>1 DEF RxType, ct, g
<1>11. KeptBy(s, "rx_data", late, f2)
  <2> HIDE DEF f2
  <2> QED BY <1>2, <1>4, <1>5, <1>9, <1>10 DEF KeptBy, Early
<1>12. Received(s) = Received(r) /\ (Prefix(r) => Prefix(s))
  BY <1>2 DEF Received, Prefix, g
<1> HIDE DEF f2
<1>13. Data(s, "rx_data", late, f2, FALSE)
  BY <1>2, <1>11, <1>12 DEF Data
<1>14. ASSUME b = r.mp_final_packet PROVE Data(s, "rx_data", late, f2, TRUE)
  <2>1. b # NULL
    <3>1. b \in Int /\ b >= 0
      BY <1>6, PoolAssumption DEF Buffer
    <3> QED BY <3>1 DEF NULL
  <2>2. Len(g) = Size /\ st[Len(st)] = st[1]
    BY <1>1, <1>3, <1>6, <1>14, <2>1 DEF FinalOf
  <2>3. Len(st) = 1
    BY <1>4, <1>6, <2>2
  <2>4. tt = <<>>
    <3>1. Len(tt) = 0
      BY <1>6, <2>3
    <3> QED BY <1>6, <3>1
  <2>5. f2 = g
    <3>1. Stored(<<>>, ct, g, f2)
      BY <1>5, <2>4
    <3> QED BY <1>3, <1>7, <3>1, StoredAll
  <2> QED BY <1>2, <1>13, <2>2, <2>4, <2>5 DEF Data, AllStored, Late
<1> QED BY <1>1, <1>2, <1>4, <1>7, <1>12, <1>13, <1>14 DEF s, p, q, st, tt, b, f2, ct

\* A store that ends when data is not received any more.
LEMMA DataStoredLater ==
    ASSUME NEW r, NEW state, NEW late, NEW fl \in Seq(Nat), NEW tld,
           Data(r, state, late, fl, tld), r.stores # <<>>, state # "rx_data"
    PROVE  LET s == [r EXCEPT !.stores = Tail(@)]
               f2 == fl \o r.content[Head(r.stores)]
           IN  /\ Data(s, state, late, f2, tld) /\ f2 \in Seq(Nat)
               /\ (Prefix(r) => Prefix(s)) /\ Received(s) = Received(r) /\ s.m_accum_buf = r.m_accum_buf
<1> DEFINE st == r.stores
           tt == Tail(st)
           ct == r.content
           c == ct[Head(st)]
           f2 == fl \o c
           s == [r EXCEPT !.stores = tt]
<1>1. RxType(r) /\ state \notin Early /\ ~tld
  BY DEF Data, KeptBy, AllStored, Fresh
<1>2. /\ DOMAIN s = RxFields
      /\ s.given = r.given /\ s.m_num_of_firmware_bytes_rcvd = r.m_num_of_firmware_bytes_rcvd
      /\ s.content = ct /\ s.stores = tt /\ s.mp_final_packet = r.mp_final_packet
      /\ s.pool = r.pool /\ s.m_reported_image_size = r.m_reported_image_size
      /\ s.m_accum_buf = r.m_accum_buf /\ s.m_accum_active = r.m_accum_active
      /\ s.note = r.note
  <2> HIDE DEF tt
  <2> QED BY <1>1 DEF RxType, RxFields
<1>3. st \in Seq(Buffer) /\ st # <<>> /\ ct \in [Buffer -> Seq(Nat)]
  BY <1>1 DEF RxType
<1> HIDE DEF s, ct, st
<1>4. tt \in Seq(Buffer) /\ c \in Seq(Nat)
  BY <1>3
<1>5. f2 \in Seq(Nat)
  <2> HIDE DEF c
  <2> QED BY <1>4, ConcatProperties
<1> HIDE DEF tt, f2
<1>6. RxType(s)
  BY <1>1, <1>2, <1>4 DEF RxType, ct
<1>7. Data(s, state, late, f2, tld)
  BY <1>1, <1>2, <1>6 DEF Data, KeptBy, Received, Early
<1>8. Received(s) = Received(r) /\ (Prefix(r) => Prefix(s))
  BY <1>2 DEF Received, Prefix
<1> QED BY <1>2, <1>5, <1>7, <1>8 DEF s, tt, st, f2, ct

-----------------------------------------------------------------------------
(* Types. *)

EventKinds ==
    {"connected", "disconnected", "packet", "op_count", "op_start", "op_init", "op_complete",
     "op_prn", "op_receive", "op_validate", "op_activate", "op_reset"}

EventType == [kind : EventKinds, bytes : Seq(Nat)]

Pcs ==
    {"scan", "query", "count_wait", "start", "start_pkt", "start_wait", "init", "init_pkt",
     "init_done", "init_wait", "prn", "receive", "data", "validate", "validate_wait",
     "activate", "activate_wait", "give_back", "give_wait", "done", "aborted", "confused"}

LEMMA ScriptType ==
    /\ DOMAIN Script = {"query", "start", "start_pkt", "init", "init_pkt", "init_done", "prn",
                        "receive", "validate", "activate", "give_back"}
    /\ \A p \in DOMAIN Script : Script[p].event \in EventKinds /\ Script[p].next \in Pcs
  BY DEF Script, EventKinds, Pcs

LEMMA AfterNoteIs ==
    ASSUME NEW note \in NoteType
    PROVE  /\ note.proc \in {"start", "init", "receive", "receipt", "count", "validate"}
           /\ note.result \in {"SUCCESS", "INVALID_LENGTH", "NO_MEM", "INVALID_STATE", "DATA_SIZE", "FAILED"}
           /\ note.n \in 0 .. Size
           /\ (note.proc = "receipt" => note.result = "SUCCESS" /\ AfterNote(note) = IF note.n = sent THEN pc ELSE "confused")
           /\ (note.proc = "count" => note.result = "SUCCESS" /\ AfterNote(note) =
                 IF note.n = 0 THEN "start" ELSE IF note.n = Size THEN "validate" ELSE "prn")
           /\ (note.result # "SUCCESS" =>
                 AfterNote(note) = IF note.proc = "receive" THEN "aborted" ELSE "give_back")
           /\ (note.result = "SUCCESS" /\ note.proc = "start" => AfterNote(note) = "init")
           /\ (note.result = "SUCCESS" /\ note.proc = "init" => AfterNote(note) = "prn")
           /\ (note.result = "SUCCESS" /\ note.proc = "receive" => AfterNote(note) = "validate")
           /\ (note.result = "SUCCESS" /\ note.proc = "validate" => AfterNote(note) = "activate")
<1>1. /\ note.proc \in {"start", "init", "receive", "receipt", "count", "validate"}
      /\ note.result \in {"SUCCESS", "INVALID_LENGTH", "NO_MEM", "INVALID_STATE", "DATA_SIZE", "FAILED"}
      /\ note.n \in 0 .. Size
      /\ (note.proc \in {"receipt", "count"} => note.result = "SUCCESS")
  BY DEF NoteType
<1>2. CASE note.proc = "receipt"
  <2>1. AfterNote(note) = IF note.n = sent THEN pc ELSE "confused"
    BY <1>1, <1>2, Zenon DEF AfterNote
  <2> QED BY <1>1, <1>2, <2>1
<1>3. CASE note.proc = "count"
  <2>1. AfterNote(note) = IF note.n = 0 THEN "start" ELSE IF note.n = Size THEN "validate" ELSE "prn"
    BY <1>1, <1>3, Zenon DEF AfterNote
  <2> QED BY <1>1, <1>3, <2>1
<1>4. CASE note.proc \notin {"receipt", "count"} /\ note.result # "SUCCESS"
  <2>1. AfterNote(note) = IF note.proc = "receive" THEN "aborted" ELSE "give_back"
    BY <1>4, Zenon DEF AfterNote
  <2> QED BY <1>1, <1>4, <2>1
<1>5. CASE note.proc = "start" /\ note.result = "SUCCESS"
  BY <1>1, <1>5, Zenon DEF AfterNote
<1>6. CASE note.proc = "init" /\ note.result = "SUCCESS"
  BY <1>1, <1>6, Zenon DEF AfterNote
<1>7. CASE note.proc = "receive" /\ note.result = "SUCCESS"
  BY <1>1, <1>7, Zenon DEF AfterNote
<1>8. CASE note.proc = "validate" /\ note.result = "SUCCESS"
  BY <1>1, <1>8, Zenon DEF AfterNote
<1> QED BY <1>1, <1>2, <1>3, <1>4, <1>5, <1>6, <1>7, <1>8

Typed ==
    /\ peer \in Peers /\ pc \in Pcs /\ began \in BOOLEAN /\ sent \in 0 .. Size
    /\ notes \in Seq(NoteType) /\ events \in Seq(EventType)
    /\ radio \in {"advertising", "linked", "idle"}
    /\ mode \in {"dfu", "leaving", "fault", "activated"}
    /\ m_conn_handle \in BOOLEAN /\ m_is_advertising \in BOOLEAN
    /\ m_tear_down_in_progress \in BOOLEAN
    /\ m_pkt_type \in {"invalid", "start", "init", "data"}
    /\ m_dfu_state \in Early \cup Late /\ m_dfu_timed_out \in BOOLEAN
    /\ flash \in Seq(Nat) /\ told \in BOOLEAN /\ erred \in BOOLEAN

DataInv == Data(rx, m_dfu_state, m_dfu_timed_out, flash, told)

LEMMA TailTyped ==
    ASSUME NEW S, NEW s \in Seq(S), s # <<>>
    PROVE  Tail(s) \in Seq(S) /\ Head(s) \in S
  OBVIOUS

LEMMA NotifyTyped ==
    ASSUME Typed, NEW note, note = NoNote \/ note \in NoteType, Notify(note)
    PROVE  notes' \in Seq(NoteType) /\ mode' \in {"dfu", "leaving", "fault", "activated"}
<1>1. notes \in Seq(NoteType) /\ mode \in {"dfu", "leaving", "fault", "activated"}
  BY DEF Typed
<1>2. CASE note = NoNote
  BY <1>1, <1>2 DEF Notify
<1>3. CASE note # NoNote /\ m_conn_handle /\ radio = "linked"
  BY <1>1, <1>3, AppendProperties DEF Notify
<1>4. CASE note # NoNote /\ ~(m_conn_handle /\ radio = "linked")
  BY <1>1, <1>4 DEF Notify
<1> QED BY <1>2, <1>3, <1>4

LEMMA ResponseTyped ==
    /\ \A proc \in {"start", "init", "receive", "validate"} :
       \A result \in {"SUCCESS", "INVALID_STATE", "FAILED"} : Response(proc, result) \in NoteType
    /\ \A n \in 0 .. Size : Note("count", "SUCCESS", n) \in NoteType
  BY SizeNat DEF Response, Note, NoteType

LEMMA EventTyped ==
    ASSUME NEW E \in Seq(EventType), NEW kind \in EventKinds, NEW bytes \in Seq(Nat)
    PROVE  Append(E, Event(kind, bytes)) \in Seq(EventType)
<1>1. Event(kind, bytes) \in EventType
  BY DEF Event, EventType
<1> QED BY <1>1, AppendProperties

LEMMA PeerTyped ==
    ASSUME Typed, DataInv, Peer
    PROVE  Typed' /\ DataInv'
<1>0. UNCHANGED <<deviceVars, told, peer, erred>>
  BY DEF Peer, PeerConnects, PeerWrites, PeerSendsData, PeerReads, deviceVars, history
<1>1. DataInv'
  BY <1>0 DEF DataInv, deviceVars, coreVars
<1>2. /\ mode' \in {"dfu", "leaving", "fault", "activated"} /\ m_conn_handle' \in BOOLEAN
      /\ m_is_advertising' \in BOOLEAN /\ m_tear_down_in_progress' \in BOOLEAN
      /\ m_pkt_type' \in {"invalid", "start", "init", "data"}
      /\ m_dfu_state' \in Early \cup Late /\ m_dfu_timed_out' \in BOOLEAN
      /\ flash' \in Seq(Nat) /\ told' \in BOOLEAN /\ erred' \in BOOLEAN /\ peer' \in Peers
  BY <1>0 DEF Typed, deviceVars, linkVars, coreVars
<1>t. <<>> \in Seq(Nat)
  OBVIOUS
<1>3. CASE PeerConnects
  <2>1. Append(events, Event("connected", <<>>)) \in Seq(EventType)
    BY <1>t, EventTyped DEF Typed, EventKinds
  <2> QED BY <1>1, <1>2, <1>3, <2>1 DEF PeerConnects, Typed, Pcs
<1>4. CASE PeerWrites
  <2>1. pc \in DOMAIN Script /\ pc' = Script[pc].next
        /\ events' = Append(events, Event(Script[pc].event, <<>>))
        /\ UNCHANGED <<sent, notes, radio>> /\ began' = (began \/ pc = "receive")
    BY <1>4 DEF PeerWrites
  <2>2. events' \in Seq(EventType)
    <3> DEFINE k == Script[pc].event
    <3>1. k \in EventKinds /\ events' = Append(events, Event(k, <<>>))
      BY <2>1, ScriptType
    <3> HIDE DEF k
    <3> QED BY <1>t, <3>1, EventTyped DEF Typed
  <2>3. pc' \in Pcs /\ began' \in BOOLEAN
    BY <2>1, ScriptType DEF Typed
  <2> QED BY <1>1, <1>2, <2>1, <2>2, <2>3 DEF Typed
<1>5. CASE PeerSendsData
  <2>1. PICK f \in peer.fragments :
          LET end == IF sent + f < Size THEN sent + f ELSE Size IN
          /\ events' = Append(events, Event("packet", SubSeq(Image, sent + 1, end)))
          /\ sent' = end
    BY <1>5 DEF PeerSendsData
  <2> DEFINE end == IF sent + f < Size THEN sent + f ELSE Size
             bytes == SubSeq(Image, sent + 1, end)
  <2>2. f \in Nat /\ sent \in Nat /\ sent <= Size
    BY BleConstants DEF Typed
  <2>3. end \in Nat /\ sent <= end /\ end <= Size
    BY <2>2, SizeNat
  <2> HIDE DEF end
  <2>4. bytes \in Seq(Nat)
    BY <2>2, <2>3, SizeNat DEF Image
  <2> HIDE DEF bytes
  <2>5. events' \in Seq(EventType)
    <3>1. events' = Append(events, Event("packet", bytes))
      BY <2>1 DEF end, bytes
    <3> DEFINE k == "packet"
    <3>2. k \in EventKinds /\ events' = Append(events, Event(k, bytes)) /\ events \in Seq(EventType)
      BY <3>1 DEF EventKinds, Typed
    <3> HIDE DEF k
    <3> QED BY <2>4, <3>2, EventTyped
  <2>6. sent' \in 0 .. Size
    <3>1. sent' = end
      BY <2>1 DEF end
    <3> QED BY <2>3, <3>1, SizeNat
  <2>7. UNCHANGED <<pc, began, notes, radio>>
    BY <1>5 DEF PeerSendsData
  <2> QED BY <1>1, <1>2, <2>5, <2>6, <2>7 DEF Typed
<1>6. CASE PeerReads
  <2> DEFINE note == Head(notes)
  <2>1. /\ notes # <<>> /\ notes' = Tail(notes) /\ UNCHANGED <<radio, events>>
        /\ pc' = AfterNote(note)
        /\ sent' = IF note.proc = "count" THEN note.n
                   ELSE IF note.proc = "init" THEN 0 ELSE sent
        /\ began' = (began /\ pc' \notin {"give_back", "start"})
    BY <1>6 DEF PeerReads
  <2>2. notes' \in Seq(NoteType) /\ note \in NoteType
    BY <2>1, TailTyped DEF Typed
  <2> HIDE DEF note
  <2>3. pc' \in Pcs
    BY <2>1, <2>2, AfterNoteIs DEF Typed, Pcs
  <2>4. sent' \in 0 .. Size
    BY <2>1, <2>2, AfterNoteIs, SizeNat DEF Typed
  <2>5. began' \in BOOLEAN
    BY <2>1 DEF Typed
  <2> QED BY <1>1, <1>2, <2>1, <2>2, <2>3, <2>4, <2>5 DEF Typed
<1> QED BY <1>3, <1>4, <1>5, <1>6 DEF Peer

\* What a data packet does.
LEMMA DataPacketDoes ==
    ASSUME Typed, DataInv, OnDataPacket
    PROVE  LET bytes == Head(events).bytes IN
           \E note : /\ note = NoNote \/ ReceiptNote(note) \/ ErrorNote(note)
                     /\ Notify(note) /\ Data(rx', m_dfu_state, m_dfu_timed_out, flash, told)
                     /\ (ErrorNote(note) => erred') /\ (~ErrorNote(note) => erred' = erred)
                     /\ (~ErrorNote(note) =>
                           /\ Received(rx') = Received(rx) + Len(bytes)
                           /\ (Prefix(rx) /\ Follows(bytes, Received(rx)) => Prefix(rx')))
<1> DEFINE bytes == Head(events).bytes
           r == app_data_process(rx, bytes)
<1>1. /\ rx' = [r EXCEPT !.note = NoNote] /\ Notify(r.note) /\ erred' = (erred \/ Failed(r))
      /\ events # <<>>
  BY DEF OnDataPacket, Handling
<1>2. bytes \in Seq(Nat)
  <2>1. Head(events) \in EventType
    BY <1>1, TailTyped DEF Typed
  <2> QED BY <2>1 DEF EventType
<1>3. Keeps(rx) /\ rx.note = NoNote /\ Received(rx) <= Size /\ Len(rx.m_accum_buf) < ACCUM
      /\ m_dfu_timed_out \in BOOLEAN /\ flash \in Seq(Nat)
  BY KeepsIsKeptBy DEF DataInv, Data, Typed
<1> HIDE DEF bytes
<1>4. Takes(rx, r, bytes)
  BY <1>2, <1>3, PacketTakes
<1> HIDE DEF r
<1>5. Keeps(r)
  BY <1>4 DEF Takes
<1>6. SameData(r, rx') /\ rx'.m_accum_active = r.m_accum_active /\ rx'.note = NoNote
  <2>1. DOMAIN r = RxFields
    BY <1>5 DEF Keeps, RxType
  <2> DEFINE no == NoNote
             s == [r EXCEPT !.note = no]
  <2>2. rx' = s
    BY <1>1
  <2> HIDE DEF no
  <2>3. SameData(r, s) /\ s.m_accum_active = r.m_accum_active /\ s.note = no
    BY <2>1 DEF SameData, RxFields
  <2> QED BY <2>2, <2>3 DEF no
<1>7. /\ Received(rx') = Received(r) /\ (Prefix(r) => Prefix(rx'))
  BY <1>6 DEF SameData, Received, Prefix
<1>8. KeptBy(rx', m_dfu_state, m_dfu_timed_out, flash)
  <2>1. KeptBy(r, m_dfu_state, m_dfu_timed_out, flash)
    BY <1>5, KeepsIsKeptBy
  <2>2. RxType(rx')
    BY <1>6, <2>1 DEF KeptBy, RxType, SameData
  <2> QED BY <1>6, <2>1, <2>2 DEF KeptBy, SameData, Fresh
<1>9. Data(rx', m_dfu_state, m_dfu_timed_out, flash, told)
  <2>1. Len(rx'.m_accum_buf) < ACCUM /\ Received(rx') <= Size
    BY <1>4, <1>6, <1>7 DEF Takes, SameData
  <2>2. told => AllStored(rx', m_dfu_state, flash)
    BY <1>4, <1>6 DEF Takes, SameData, DataInv, Data, AllStored
  <2> QED BY <1>6, <1>8, <2>1, <2>2 DEF DataInv, Data
<1>10. r.note = NoNote \/ ReceiptNote(r.note) \/ ErrorNote(r.note)
  BY <1>4 DEF Takes
<1>11. ErrorNote(r.note) => erred'
  BY <1>1 DEF ErrorNote, Failed
<1>12. ~ErrorNote(r.note) => erred' = erred
  <2>1. ~ErrorNote(r.note) => ~Failed(r)
    BY <1>10 DEF ReceiptNote, Failed, NoNote, Response, Note
  <2> QED BY <1>1, <2>1 DEF Typed
<1>13. ~ErrorNote(r.note) => /\ Received(rx') = Received(rx) + Len(bytes)
                             /\ (Prefix(rx) /\ Follows(bytes, Received(rx)) => Prefix(rx'))
  BY <1>4, <1>7 DEF Takes
<1>14. \E note : /\ note = NoNote \/ ReceiptNote(note) \/ ErrorNote(note)
                 /\ Notify(note) /\ Data(rx', m_dfu_state, m_dfu_timed_out, flash, told)
                 /\ (ErrorNote(note) => erred') /\ (~ErrorNote(note) => erred' = erred)
                 /\ (~ErrorNote(note) =>
                       /\ Received(rx') = Received(rx) + Len(bytes)
                       /\ (Prefix(rx) /\ Follows(bytes, Received(rx)) => Prefix(rx')))
  BY <1>1, <1>9, <1>10, <1>11, <1>12, <1>13, Zenon
<1> QED BY <1>14 DEF bytes

LEMMA HandlesTyped ==
    ASSUME Typed, NEW kind, Handling(kind)
    PROVE  Tail(events) \in Seq(EventType) /\ Head(events) \in EventType /\ peer' \in Peers
           /\ Head(events).kind = kind /\ events # <<>> /\ mode \in {"dfu", "leaving"}
<1>1. events # <<>> /\ events \in Seq(EventType)
  BY DEF Typed, Handling
<1> QED BY <1>1, TailTyped DEF Typed, Handling

LEMMA ConnectedTyped ==
    ASSUME Typed, DataInv, OnConnected PROVE Typed' /\ DataInv'
<1>1. Tail(events) \in Seq(EventType) /\ peer' \in Peers
  BY HandlesTyped DEF OnConnected
<1>2. Typed'
  BY <1>1 DEF OnConnected, Typed, peerState, coreVars, history
<1> QED BY <1>2 DEF OnConnected, DataInv, coreVars, history

LEMMA DisconnectedTyped ==
    ASSUME Typed, DataInv, OnDisconnected PROVE Typed' /\ DataInv'
<1>1. Tail(events) \in Seq(EventType) /\ peer' \in Peers
  BY HandlesTyped DEF OnDisconnected
<1>2. m_is_advertising' \in BOOLEAN /\ radio' \in {"advertising", "linked", "idle"}
  BY DEF OnDisconnected, Typed
<1>3. Typed'
  BY <1>1, <1>2 DEF OnDisconnected, Typed, peerState, coreVars, history
<1>4. Data(rx', m_dfu_state, m_dfu_timed_out, flash, told)
  BY DataDropped DEF OnDisconnected, DataInv
<1> QED BY <1>3, <1>4 DEF OnDisconnected, DataInv, coreVars, history

LEMMA StartPacketTyped ==
    ASSUME Typed, DataInv, OnStartPacket PROVE Typed' /\ DataInv'
<1>1. Tail(events) \in Seq(EventType) /\ peer' \in Peers
  BY HandlesTyped DEF OnStartPacket
<1>2. /\ events' = Tail(events) /\ UNCHANGED <<pc, began, sent, radio, m_conn_handle, m_is_advertising>>
      /\ UNCHANGED <<m_tear_down_in_progress, m_pkt_type, m_dfu_timed_out, flash, told>>
  BY DEF OnStartPacket, peerState, linkVars
<1>3. CASE m_dfu_state = "idle" /\ ~m_dfu_timed_out
  <2>1. /\ m_dfu_state' = "preparing" /\ rx' = [rx EXCEPT !.m_reported_image_size = Size]
        /\ erred' = FALSE /\ UNCHANGED <<notes, mode>>
    BY <1>3 DEF OnStartPacket
  <2>2. Typed'
    BY <1>1, <1>2, <2>1 DEF Typed, Early
  <2>3. Data(rx, "preparing", m_dfu_timed_out, flash, told)
    <3> DEFINE s2 == "preparing"
    <3>1. s2 = "preparing" /\ Data(rx, m_dfu_state, m_dfu_timed_out, flash, told)
      BY DEF DataInv
    <3> HIDE DEF s2
    <3>2. Data(rx, s2, m_dfu_timed_out, flash, told)
      BY <1>3, <3>1, DataStates
    <3> QED BY <3>1, <3>2
  <2>4. RxType(rx) /\ DOMAIN rx = RxFields
    BY DEF DataInv, Data, KeptBy, RxType
  <2>5. /\ DOMAIN rx' = RxFields /\ rx'.given = rx.given
        /\ rx'.m_num_of_firmware_bytes_rcvd = rx.m_num_of_firmware_bytes_rcvd
        /\ rx'.content = rx.content /\ rx'.stores = rx.stores
        /\ rx'.mp_final_packet = rx.mp_final_packet /\ rx'.pool = rx.pool
        /\ rx'.m_reported_image_size = Size /\ rx'.m_accum_buf = rx.m_accum_buf
        /\ rx'.m_accum_active = rx.m_accum_active /\ rx'.note = rx.note
    BY <2>1, <2>4 DEF RxFields
  <2>6. RxType(rx')
    BY <2>4, <2>5 DEF RxType
  <2>7. Data(rx', "preparing", m_dfu_timed_out, flash, told)
    BY <2>3, <2>5, <2>6 DEF Data, KeptBy, Fresh, AllStored, Received
  <2> QED BY <1>2, <2>1, <2>2, <2>7 DEF DataInv
<1>4. CASE ~(m_dfu_state = "idle" /\ ~m_dfu_timed_out)
  <2>1. Notify(Response("start", "INVALID_STATE")) /\ UNCHANGED <<m_dfu_state, rx, erred>>
    BY <1>4 DEF OnStartPacket
  <2>2. notes' \in Seq(NoteType) /\ mode' \in {"dfu", "leaving", "fault", "activated"}
    BY <2>1, ResponseTyped, NotifyTyped
  <2>3. Typed'
    BY <1>1, <1>2, <2>1, <2>2 DEF Typed
  <2> QED BY <1>2, <2>1, <2>3 DEF DataInv
<1> QED BY <1>3, <1>4

LEMMA InitPacketTyped ==
    ASSUME Typed, DataInv, OnInitPacket PROVE Typed' /\ DataInv'
<1>1. Tail(events) \in Seq(EventType) /\ peer' \in Peers
  BY HandlesTyped DEF OnInitPacket
<1>2. /\ events' = Tail(events) /\ UNCHANGED <<pc, began, sent, radio, m_conn_handle, m_is_advertising>>
      /\ UNCHANGED <<m_tear_down_in_progress, m_pkt_type, m_dfu_timed_out, flash, told, erred, rx>>
  BY DEF OnInitPacket, peerState, linkVars, history
<1>3. CASE m_dfu_state \in {"rdy", "rx_init"} /\ ~m_dfu_timed_out
  <2>1. m_dfu_state' = "rx_init" /\ UNCHANGED <<notes, mode>>
    BY <1>3 DEF OnInitPacket
  <2>2. Typed'
    BY <1>1, <1>2, <2>1 DEF Typed, Early
  <2>3. Data(rx, m_dfu_state', m_dfu_timed_out, flash, told)
    BY <1>3, <2>1, DataStates DEF DataInv
  <2> QED BY <1>2, <2>2, <2>3 DEF DataInv
<1>4. CASE ~(m_dfu_state \in {"rdy", "rx_init"} /\ ~m_dfu_timed_out)
  <2>1. Notify(Response("init", "INVALID_STATE")) /\ UNCHANGED m_dfu_state
    BY <1>4 DEF OnInitPacket
  <2>2. notes' \in Seq(NoteType) /\ mode' \in {"dfu", "leaving", "fault", "activated"}
    BY <2>1, ResponseTyped, NotifyTyped
  <2>3. Typed'
    BY <1>1, <1>2, <2>1, <2>2 DEF Typed
  <2> QED BY <1>2, <2>1, <2>3 DEF DataInv
<1> QED BY <1>3, <1>4

LEMMA DataPacketTyped ==
    ASSUME Typed, DataInv, OnDataPacket PROVE Typed' /\ DataInv'
<1>1. Tail(events) \in Seq(EventType) /\ peer' \in Peers
  BY HandlesTyped DEF OnDataPacket
<1>2. /\ events' = Tail(events) /\ UNCHANGED <<pc, began, sent, radio, m_conn_handle, m_is_advertising>>
      /\ UNCHANGED <<m_tear_down_in_progress, m_pkt_type, m_dfu_state, m_dfu_timed_out, flash, told>>
  BY DEF OnDataPacket, peerState, linkVars, coreVars
<1>3. PICK note : /\ note = NoNote \/ ReceiptNote(note) \/ ErrorNote(note)
                  /\ Notify(note) /\ Data(rx', m_dfu_state, m_dfu_timed_out, flash, told)
                  /\ (ErrorNote(note) => erred') /\ (~ErrorNote(note) => erred' = erred)
  BY DataPacketDoes, Zenon
<1>4. notes' \in Seq(NoteType) /\ mode' \in {"dfu", "leaving", "fault", "activated"}
  BY <1>3, NotifyTyped DEF ReceiptNote, ErrorNote
<1>5. erred' \in BOOLEAN
  BY DEF OnDataPacket
<1>6. Typed'
  BY <1>1, <1>2, <1>4, <1>5 DEF Typed
<1> QED BY <1>2, <1>3, <1>6 DEF DataInv

LEMMA UnlinkedTyped ==
    ASSUME Typed, DataInv, OnCtrlPtUnlinked PROVE Typed' /\ DataInv'
<1>1. PICK i \in DOMAIN Script : Handling(Script[i].event)
  BY DEF OnCtrlPtUnlinked
<1>2. Tail(events) \in Seq(EventType) /\ peer' \in Peers
  BY <1>1, HandlesTyped
<1>3. Typed'
  BY <1>2 DEF OnCtrlPtUnlinked, Typed, peerState, linkVars, coreVars, history
<1> QED BY <1>3 DEF OnCtrlPtUnlinked, DataInv, coreVars, history

LEMMA PacketTypeTyped ==
    ASSUME Typed, DataInv, NEW op, NEW type \in {"start", "init", "data"}, OpPacketType(op, type)
    PROVE  Typed' /\ DataInv'
<1>1. Tail(events) \in Seq(EventType) /\ peer' \in Peers
  BY HandlesTyped DEF OpPacketType, OnCtrlPt
<1>2. Typed'
  BY <1>1 DEF OpPacketType, Typed, peerState, linkVars, coreVars, history
<1> QED BY <1>2 DEF OpPacketType, DataInv, coreVars, history

LEMMA InitCompleteTyped ==
    ASSUME Typed, DataInv, OpInitComplete PROVE Typed' /\ DataInv'
<1>1. Tail(events) \in Seq(EventType) /\ peer' \in Peers
  BY HandlesTyped DEF OpInitComplete, OnCtrlPt
<1>2. /\ events' = Tail(events) /\ UNCHANGED <<pc, began, sent, radio, m_conn_handle, m_is_advertising>>
      /\ UNCHANGED <<m_tear_down_in_progress, m_dfu_timed_out, flash, told, erred, rx>>
      /\ m_pkt_type' = "init"
      /\ m_dfu_state' = IF m_dfu_state = "rx_init" THEN "rx_data" ELSE m_dfu_state
  BY DEF OpInitComplete, peerState, linkVars, history
<1>3. notes' \in Seq(NoteType) /\ mode' \in {"dfu", "leaving", "fault", "activated"}
  <2>1. PICK result \in {"SUCCESS", "INVALID_STATE", "FAILED"} : Notify(Response("init", result))
    BY DEF OpInitComplete
  <2> QED BY <2>1, ResponseTyped, NotifyTyped
<1>4. Typed'
  BY <1>1, <1>2, <1>3 DEF Typed, Late
<1>5. Data(rx, m_dfu_state', m_dfu_timed_out, flash, told)
  BY <1>2, DataBegins DEF DataInv
<1> QED BY <1>2, <1>4, <1>5 DEF DataInv

LEMMA ReceiptsTyped ==
    ASSUME Typed, DataInv, OpPacketReceipts
    PROVE  Typed' /\ DataInv' /\ SameData(rx, rx')
<1>1. Tail(events) \in Seq(EventType) /\ peer' \in Peers
  BY HandlesTyped DEF OpPacketReceipts, OnCtrlPt
<1>2. Typed'
  BY <1>1 DEF OpPacketReceipts, Typed, peerState, linkVars, coreVars, history
<1>3. DOMAIN rx = RxFields
  BY DEF DataInv, Data, KeptBy, RxType
<1>4. SameData(rx, rx') /\ rx'.m_accum_active = rx.m_accum_active /\ rx'.note = rx.note
  <2>1. CASE peer.prn = 0
    <3>1. rx' = [rx EXCEPT !.m_pkt_rcpt_notif_enabled = FALSE, !.m_pkt_notif_target = 0]
      BY <2>1 DEF OpPacketReceipts
    <3> QED BY <1>3, <3>1 DEF SameData, RxFields
  <2>2. CASE peer.prn # 0
    <3>1. rx' = [rx EXCEPT !.m_pkt_rcpt_notif_enabled = TRUE, !.m_pkt_notif_target = peer.prn,
                           !.m_pkt_notif_target_cnt = peer.prn]
      BY <2>2 DEF OpPacketReceipts
    <3> QED BY <1>3, <3>1 DEF SameData, RxFields
  <2> QED BY <2>1, <2>2
<1>5. Data(rx', m_dfu_state, m_dfu_timed_out, flash, told)
  BY <1>4, DataAside DEF DataInv
<1> QED BY <1>2, <1>4, <1>5 DEF OpPacketReceipts, DataInv, coreVars, history

LEMMA BytesReceivedTyped ==
    ASSUME Typed, DataInv, OpBytesReceived PROVE Typed' /\ DataInv'
<1>1. Tail(events) \in Seq(EventType) /\ peer' \in Peers
  BY HandlesTyped DEF OpBytesReceived, OnCtrlPt
<1>2. Received(rx) \in 0 .. Size
  <2> DEFINE x == Received(rx)
  <2>1. x \in Nat /\ x <= Size
    BY KeepsIsKeptBy, ReceivedNat DEF DataInv, Data
  <2> HIDE DEF x
  <2>2. x \in 0 .. Size
    BY <2>1, SizeNat
  <2> QED BY <2>2 DEF x
<1>3. notes' \in Seq(NoteType) /\ mode' \in {"dfu", "leaving", "fault", "activated"}
  BY <1>2, ResponseTyped, NotifyTyped DEF OpBytesReceived
<1>4. Typed'
  BY <1>1, <1>3 DEF OpBytesReceived, Typed, peerState, linkVars, coreVars, history
<1> QED BY <1>4 DEF OpBytesReceived, DataInv, coreVars, history

LEMMA ValidateTyped ==
    ASSUME Typed, DataInv, OpValidate
    PROVE  /\ Typed' /\ DataInv'
           /\ m_dfu_state' # m_dfu_state => m_dfu_state = "rx_data" /\ m_dfu_state' \in Late
<1>1. Tail(events) \in Seq(EventType) /\ peer' \in Peers
  BY HandlesTyped DEF OpValidate, OnCtrlPt
<1>2. /\ events' = Tail(events) /\ UNCHANGED <<pc, began, sent, radio, m_conn_handle, m_is_advertising>>
      /\ UNCHANGED <<m_tear_down_in_progress, m_dfu_timed_out, m_pkt_type, flash, told, erred, rx>>
  BY DEF OpValidate, peerState, linkVars, history
<1>3. \/ m_dfu_state' = m_dfu_state
      \/ m_dfu_state = "rx_data" /\ m_dfu_state' \in {"wait_activate", "validate"}
  BY DEF OpValidate
<1>4. notes' \in Seq(NoteType) /\ mode' \in {"dfu", "leaving", "fault", "activated"}
  <2>1. PICK result \in {"SUCCESS", "INVALID_STATE", "FAILED"} : Notify(Response("validate", result))
    BY DEF OpValidate
  <2> QED BY <2>1, ResponseTyped, NotifyTyped
<1>5. Typed'
  BY <1>1, <1>2, <1>3, <1>4 DEF Typed, Late
<1>6. Data(rx, m_dfu_state', m_dfu_timed_out, flash, told)
  BY <1>3, DataStates DEF DataInv
<1> QED BY <1>2, <1>3, <1>5, <1>6 DEF DataInv, Late

\* What closing the transport leaves.
LEMMA CloseTyped ==
    ASSUME Typed, NEW after \in Seq(EventType), NEW ending \in {"leaving", "activated"},
           dfu_transport_ble_close(after, ending)
    PROVE  /\ m_tear_down_in_progress' \in BOOLEAN /\ m_is_advertising' \in BOOLEAN
           /\ radio' \in {"advertising", "linked", "idle"}
           /\ mode' \in {"dfu", "leaving", "fault", "activated"} /\ events' \in Seq(EventType)
<1>1. Append(after, Event("disconnected", <<>>)) \in Seq(EventType)
  <2>1. <<>> \in Seq(Nat)
    OBVIOUS
  <2> QED BY <2>1, EventTyped DEF EventKinds
<1> QED BY <1>1 DEF dfu_transport_ble_close, Typed

LEMMA CutOffTyped == ASSUME Typed, PeerCutOff PROVE pc' \in Pcs
  BY DEF Typed, PeerCutOff, Pcs

LEMMA ActivateTyped ==
    ASSUME Typed, DataInv, OpActivate PROVE Typed' /\ DataInv'
<1>1. Tail(events) \in Seq(EventType) /\ peer' \in Peers
  BY HandlesTyped DEF OpActivate, OnCtrlPt
<1>2. PICK ending \in {"leaving", "activated"} : dfu_transport_ble_close(Tail(events), ending)
  BY DEF OpActivate
<1>3. Typed'
  BY <1>1, <1>2, CloseTyped DEF OpActivate, Typed, coreVars, history, Pcs
<1> QED BY <1>3 DEF OpActivate, DataInv, coreVars, history

LEMMA ResetTyped ==
    ASSUME Typed, DataInv, OpSysReset PROVE Typed' /\ DataInv'
<1>1. Tail(events) \in Seq(EventType) /\ peer' \in Peers
  BY HandlesTyped DEF OpSysReset, OnCtrlPt
<1>2. dfu_transport_ble_close(Tail(events), "leaving") /\ pc' \in Pcs
  BY CutOffTyped DEF OpSysReset
<1>3. Typed'
  BY <1>1, <1>2, CloseTyped DEF OpSysReset, Typed, coreVars, history
<1> QED BY <1>3 DEF OpSysReset, DataInv, coreVars, history

LEMMA UnheardTyped ==
    ASSUME Typed, DataInv, OpActivateUnheard PROVE Typed' /\ DataInv'
<1>1. Tail(events) \in Seq(EventType)
  BY TailTyped DEF OpActivateUnheard, Typed
<1>2. <<>> \in Seq(NoteType)
  OBVIOUS
<1>3. Typed'
  BY <1>1, <1>2 DEF OpActivateUnheard, Typed, coreVars, Pcs
<1> QED BY <1>3 DEF OpActivateUnheard, DataInv, coreVars

LEMMA LostTyped ==
    ASSUME Typed, DataInv, LinkLost PROVE Typed' /\ DataInv'
<1>1. Append(events, Event("disconnected", <<>>)) \in Seq(EventType)
  <2>1. <<>> \in Seq(Nat)
    OBVIOUS
  <2> QED BY <2>1, EventTyped DEF EventKinds, Typed
<1>2. <<>> \in Seq(NoteType)
  OBVIOUS
<1>3. Typed'
  BY <1>1, <1>2, CutOffTyped DEF LinkLost, Typed, deviceVars, linkVars, coreVars, history
<1> QED BY <1>3 DEF LinkLost, DataInv, deviceVars, coreVars, history

LEMMA EraseTyped ==
    ASSUME Typed, DataInv, EraseDone PROVE Typed' /\ DataInv'
<1>1. /\ UNCHANGED <<peer, pc, began, sent, radio, events, m_conn_handle, m_is_advertising>>
      /\ UNCHANGED <<m_tear_down_in_progress, m_pkt_type, m_dfu_timed_out, told, erred, rx>>
      /\ m_dfu_state = "preparing" /\ m_dfu_state' = "rdy" /\ flash' = <<>>
  BY DEF EraseDone, peerVars, linkVars, history
<1>2. notes' \in Seq(NoteType) /\ mode' \in {"dfu", "leaving", "fault", "activated"}
  BY ResponseTyped, NotifyTyped DEF EraseDone
<1>3. <<>> \in Seq(Nat)
  OBVIOUS
<1>4. Typed'
  BY <1>1, <1>2, <1>3 DEF Typed, Early
<1>5. Data(rx, m_dfu_state', m_dfu_timed_out, flash', told)
  BY <1>1, DataStates DEF DataInv
<1> QED BY <1>1, <1>4, <1>5 DEF DataInv

LEMMA StoreTyped ==
    ASSUME Typed, DataInv, StoreDone
    PROVE  /\ Typed' /\ DataInv' /\ (Prefix(rx) => Prefix(rx'))
           /\ Received(rx') = Received(rx) /\ rx'.m_accum_buf = rx.m_accum_buf
<1>1. /\ UNCHANGED <<peer, pc, began, sent, radio, events, m_conn_handle, m_is_advertising>>
      /\ UNCHANGED <<m_tear_down_in_progress, m_pkt_type, m_dfu_state, m_dfu_timed_out, erred>>
      /\ rx.stores # <<>> /\ flash' = flash \o rx.content[Head(rx.stores)]
  BY DEF StoreDone, peerVars, linkVars, coreVars
<1>2. CASE m_dfu_state = "rx_data"
  <2> DEFINE b == Head(rx.stores)
             s == [rx EXCEPT !.stores = Tail(@), !.pool = hci_mem_pool_rx_consume(@, b)]
             fin == Final(b)
  <2>1. DataStored(b)
    BY <1>2 DEF StoreDone
  <2>2. /\ rx.pool.free_available_count # 0 /\ ~told /\ flash' \in Seq(Nat)
        /\ Data(s, "rx_data", m_dfu_timed_out, flash', FALSE)
        /\ (fin => Data(s, "rx_data", m_dfu_timed_out, flash', TRUE))
        /\ (Prefix(rx) => Prefix(s)) /\ Received(s) = Received(rx) /\ s.m_accum_buf = rx.m_accum_buf
    <3>1. Data(rx, "rx_data", m_dfu_timed_out, flash, told) /\ flash \in Seq(Nat)
      BY <1>2 DEF DataInv, Typed
    <3> QED BY <1>1, <3>1, DataStoredKeeps DEF Final
  <2>3. /\ rx' = s /\ Notify(IF fin THEN Response("receive", "SUCCESS") ELSE NoNote)
        /\ told' = (told \/ (fin /\ mode' # "fault"))
    BY <2>1, <2>2 DEF DataStored
  <2>4. notes' \in Seq(NoteType) /\ mode' \in {"dfu", "leaving", "fault", "activated"}
    <3>1. PICK note : (note = NoNote \/ note \in NoteType) /\ Notify(note)
      BY <2>3, ResponseTyped
    <3> QED BY <3>1, NotifyTyped
  <2> HIDE DEF s, fin
  <2>5. told' \in BOOLEAN /\ (told' => fin)
    BY <2>2, <2>3
  <2>6. Typed'
    BY <1>1, <2>2, <2>4, <2>5 DEF Typed
  <2>7. Data(s, "rx_data", m_dfu_timed_out, flash', told')
    BY <2>2, <2>5
  <2> QED BY <1>1, <1>2, <2>2, <2>3, <2>6, <2>7 DEF DataInv
<1>3. CASE m_dfu_state # "rx_data"
  <2> DEFINE s == [rx EXCEPT !.stores = Tail(@)]
  <2>1. rx' = s /\ UNCHANGED <<notes, mode, told>>
    BY <1>3 DEF StoreDone
  <2>2. /\ Data(s, m_dfu_state, m_dfu_timed_out, flash', told) /\ flash' \in Seq(Nat)
        /\ (Prefix(rx) => Prefix(s)) /\ Received(s) = Received(rx) /\ s.m_accum_buf = rx.m_accum_buf
    <3>1. Data(rx, m_dfu_state, m_dfu_timed_out, flash, told) /\ flash \in Seq(Nat)
      BY DEF DataInv, Typed
    <3> QED BY <1>1, <1>3, <3>1, DataStoredLater
  <2> HIDE DEF s
  <2>3. Typed'
    BY <1>1, <2>1, <2>2 DEF Typed
  <2> QED BY <1>1, <2>1, <2>2, <2>3 DEF DataInv
<1> QED BY <1>2, <1>3

LEMMA FailsTyped ==
    ASSUME Typed, DataInv, FlashFails PROVE Typed' /\ DataInv'
<1>1. Typed'
  BY DEF FlashFails, Typed, peerVars, linkVars, coreVars, history
<1> QED BY <1>1 DEF FlashFails, DataInv, coreVars, history

LEMMA TimeoutTyped ==
    ASSUME Typed, DataInv, DfuTimeout PROVE Typed' /\ DataInv'
<1>1. dfu_transport_ble_close(events, "leaving") /\ events \in Seq(EventType)
  BY DEF DfuTimeout, Typed
<1>2. /\ m_tear_down_in_progress' \in BOOLEAN /\ m_is_advertising' \in BOOLEAN
      /\ radio' \in {"advertising", "linked", "idle"}
      /\ mode' \in {"dfu", "leaving", "fault", "activated"} /\ events' \in Seq(EventType)
  BY <1>1, CloseTyped
<1>3. pc' \in Pcs
  BY CutOffTyped DEF DfuTimeout, Typed
<1>4. Typed'
  BY <1>2, <1>3 DEF DfuTimeout, Typed, history
<1>5. Data(rx, m_dfu_state, TRUE, flash, told)
  BY DataLate DEF DataInv
<1> QED BY <1>4, <1>5 DEF DfuTimeout, DataInv, history

LEMMA RestartTyped ==
    ASSUME Typed, Restart PROVE Typed' /\ DataInv'
<1>1. <<>> \in Seq(NoteType) /\ <<>> \in Seq(EventType)
  OBVIOUS
<1>2. Typed'
  BY <1>1, CutOffTyped DEF Restart, Typed, Early
<1>3. Data(NoData, "idle", FALSE, flash, FALSE)
  BY NoDataKept
<1> QED BY <1>2, <1>3 DEF Restart, DataInv

LEMMA InitTyped == Init => Typed /\ DataInv
<1> SUFFICES ASSUME Init PROVE Typed /\ DataInv
  OBVIOUS
<1>1. <<>> \in Seq(NoteType) /\ <<>> \in Seq(EventType) /\ <<>> \in Seq(Nat) /\ 0 \in 0 .. Size
  BY SizeNat
<1>2. Typed
  BY <1>1 DEF Init, Typed, Early, Pcs
<1>3. Data(NoData, "idle", FALSE, flash, FALSE)
  BY NoDataKept
<1> QED BY <1>2, <1>3 DEF Init, DataInv

LEMMA TypedInductive == Typed /\ DataInv /\ [Next]_vars => Typed' /\ DataInv'
<1> SUFFICES ASSUME Typed, DataInv, [Next]_vars PROVE Typed' /\ DataInv'
  OBVIOUS
<1>1. CASE Next
  <2>1. CASE HandleEvent
    <3>1. ASSUME NEW op, NEW type, OpPacketType(op, type), type \in {"start", "init", "data"}
          PROVE  Typed' /\ DataInv'
      BY <3>1, PacketTypeTyped
    <3> QED BY <2>1, <3>1, ConnectedTyped, DisconnectedTyped, StartPacketTyped, InitPacketTyped,
               DataPacketTyped, UnlinkedTyped, InitCompleteTyped, ReceiptsTyped,
               BytesReceivedTyped, ValidateTyped, ActivateTyped, ResetTyped DEF HandleEvent
  <2> QED BY <1>1, <2>1, PeerTyped, LostTyped, UnheardTyped, EraseTyped, StoreTyped, FailsTyped,
             TimeoutTyped, RestartTyped DEF Next
<1>2. CASE UNCHANGED vars
  <2>1. Typed'
    BY <1>2 DEF vars, Typed, peerVars, linkVars, coreVars, history
  <2> QED BY <1>2, <2>1 DEF vars, DataInv, coreVars, history
<1> QED BY <1>1, <1>2

\* The accounts of the data path hold in every state, for every image, fragment and loss of
\* the link: what counts as received is what the DFU state machine has, the accumulator
\* never reaches its size, and a receive buffer is out exactly as long as its store is.
THEOREM TypeCorrect == Spec => []TypeOK
<1>1. Typed /\ DataInv => TypeOK
  <2> SUFFICES ASSUME Typed, DataInv PROVE TypeOK
    OBVIOUS
  <2>1. RxType(rx) /\ Len(rx.m_accum_buf) < ACCUM
    BY DEF DataInv, Data, KeptBy
  <2>2. m_dfu_state = "rx_data" => Rings(rx.pool, rx.stores, m_dfu_timed_out)
    BY DEF DataInv, Data, KeptBy
  <2>3. m_dfu_state = "rx_data" => rx.pool.free_index = {rx.stores[i] : i \in 1 .. Len(rx.stores)}
    BY <2>2 DEF Rings
  <2> QED BY <2>1, <2>3 DEF TypeOK, Typed, RxType
<1> QED BY <1>1, InitTyped, TypedInductive, PTL DEF Spec

-----------------------------------------------------------------------------
(* The controller and the device: what is said only once. *)

Kinds(E) == {E[i].kind : i \in 1 .. Len(E)}

\* An event with bytes of the image.
HasData(E) == \E i \in 1 .. Len(E) : E[i].bytes # <<>>

\* One write to the control point at a time.
OneCtrl(E) ==
    \A i, j \in 1 .. Len(E) : E[i].kind # "packet" /\ E[j].kind # "packet" => i = j

\* A notification after which the controller goes on towards the image; the steps and the
\* writes that lead to one.
Token(n) == n.proc = "count" \/ (n.result = "SUCCESS" /\ n.proc \in {"start", "init"})
HasToken(N) == \E i \in 1 .. Len(N) : Token(N[i])
OneToken(N) == \A i, j \in 1 .. Len(N) : Token(N[i]) /\ Token(N[j]) => i = j
TokenPc == {"query", "init", "init_pkt", "init_done", "prn", "receive", "data"}
TokenOp == {"op_count", "op_complete"}

NoToken(p, E, N) == p \notin TokenPc /\ Kinds(E) \cap TokenOp = {} /\ ~HasToken(N)

\* There is one token, and none but the step "data" while data is on its way.
Exclusive(p, E, N) ==
    /\ OneCtrl(E) /\ OneToken(N)
    /\ (p \in TokenPc => Kinds(E) \cap TokenOp = {} /\ ~HasToken(N))
    /\ (Kinds(E) \cap TokenOp # {} => ~HasToken(N))
    /\ (HasData(E) => /\ Kinds(E) \cap TokenOp = {} /\ ~HasToken(N)
                      /\ (p \in TokenPc => p = "data"))

\* The token fits the state of the DFU state machine, and what it counts is right.
Starting == {"preparing", "rdy", "rx_init"}
Initing == {"rdy", "rx_init"}

NoteFits(n, state, count) ==
    /\ (n.proc = "count" => n.n = count /\ state \notin Starting)
    /\ (n.proc = "start" /\ n.result = "SUCCESS" => state \in Initing)
    /\ (n.proc = "init" /\ n.result = "SUCCESS" => state \in Late /\ count = 0)

Staged(p, E, N, state, count, out) ==
    /\ (p = "query" => state \notin Starting)
    /\ (p \in {"init", "init_pkt", "init_done"} => state \in Initing)
    /\ (p \in {"prn", "receive", "data"} => state \in Late)
    /\ (p \in {"prn", "receive"} => out = count)
    /\ ("op_count" \in Kinds(E) => state \notin Starting)
    /\ ("op_complete" \in Kinds(E) => state \in Initing)
    /\ \A i \in 1 .. Len(N) : NoteFits(N[i], state, count)

\* Before START the controller has asked for the count, or has not begun.
Asks(p, E, N, begun) ==
    \/ /\ p \in {"query", "count_wait"} /\ Kinds(E) \subseteq {"connected", "op_count"}
       /\ \A i \in 1 .. Len(N) : N[i].proc = "count"
    \/ NoToken(p, E, N) /\ ~begun

\* The device awaits data from a controller that sends it.
Sends(p, E, type) ==
    p = "data" => /\ Kinds(E) \subseteq {"packet", "op_receive"}
                  /\ type = "data" \/ "op_receive" \in Kinds(E)

\* Bytes of the image are handled as such.
Ready(E, type) ==
    \A i \in 1 .. Len(E) : E[i].bytes # <<>> =>
        /\ E[i].kind = "packet"
        /\ \A j \in 1 .. (i - 1) : E[j].kind \notin {"op_start", "op_init", "op_complete"}
        /\ type = "data" \/ \E j \in 1 .. (i - 1) : E[j].kind = "op_receive"

\* The bytes in E lead from the first n of the image to the first m.
Chained(E, n, m, at) ==
    /\ at \in [0 .. Len(E) -> Nat] /\ at[0] = n /\ at[Len(E)] = m
    /\ \A i \in 1 .. Len(E) : at[i] = at[i - 1] + Len(E[i].bytes) /\ Follows(E[i].bytes, at[i - 1])
Chain(E, n, m) == \E at : Chained(E, n, m, at)

Running == mode \in {"dfu", "leaving"}

LinkInv == Running =>
    /\ (radio = "advertising" => events = <<>> /\ notes = <<>>)
    /\ (radio # "linked" /\ ~m_tear_down_in_progress => notes = <<>>)
    /\ \A i \in 1 .. Len(events) : events[i].kind = "disconnected" => i = Len(events) /\ radio # "linked"

EarlyInv == Running /\ m_dfu_state \in Early =>
    /\ ~erred /\ m_pkt_type # "data" /\ rx.m_accum_buf = <<>> /\ "op_receive" \notin Kinds(events)
    /\ (m_dfu_state # "idle" \/ "packet" \in Kinds(events) => ~began)

SessionInv == Running /\ ~erred /\ radio = "linked" =>
    /\ Exclusive(pc, events, notes)
    /\ Staged(pc, events, notes, m_dfu_state, Received(rx), sent)
    /\ (m_dfu_state = "idle" => Asks(pc, events, notes, began))
    /\ Sends(pc, events, m_pkt_type)

ChainInv == Running /\ ~erred =>
    /\ Ready(events, m_pkt_type)
    /\ \E m \in Nat : Chain(events, Received(rx), m) /\ (radio = "linked" /\ pc = "data" => m = sent)

PrefixInv == ~erred => Prefix(rx)

-----------------------------------------------------------------------------
(* Events that are handled and added. *)

LEMMA TailIs ==
    ASSUME NEW S, NEW s \in Seq(S), s # <<>>
    PROVE  /\ Len(s) \in Nat /\ Len(s) > 0 /\ Len(Tail(s)) = Len(s) - 1 /\ Head(s) = s[1]
           /\ \A i \in 1 .. Len(Tail(s)) : i + 1 \in 1 .. Len(s) /\ Tail(s)[i] = s[i + 1]
           /\ 1 \in 1 .. Len(s)
  OBVIOUS

LEMMA AppendIs ==
    ASSUME NEW S, NEW s \in Seq(S), NEW e \in S
    PROVE  /\ Len(s) \in Nat /\ Len(Append(s, e)) = Len(s) + 1
           /\ \A i \in 1 .. Len(s) : i \in 1 .. Len(Append(s, e)) /\ Append(s, e)[i] = s[i]
           /\ Len(s) + 1 \in 1 .. Len(Append(s, e)) /\ Append(s, e)[Len(s) + 1] = e
           /\ \A i \in 1 .. Len(Append(s, e)) : i \in 1 .. Len(s) \/ i = Len(s) + 1
           /\ \A i \in 1 .. Len(s) : i # Len(s) + 1
  OBVIOUS

LEMMA KindsTail ==
    ASSUME NEW S, NEW E \in Seq(S), E # <<>>
    PROVE  /\ Kinds(Tail(E)) \subseteq Kinds(E) /\ Head(E).kind \in Kinds(E)
           /\ Kinds(E) \subseteq Kinds(Tail(E)) \cup {Head(E).kind}
           /\ (HasData(Tail(E)) => HasData(E))
           /\ (OneCtrl(E) => OneCtrl(Tail(E)))
           /\ (OneCtrl(E) /\ Head(E).kind # "packet" => Kinds(Tail(E)) \subseteq {"packet"})
           /\ (Head(E).bytes # <<>> => HasData(E))
<1> DEFINE T == Tail(E)
<1>1. /\ Head(E) = E[1] /\ 1 \in 1 .. Len(E) /\ Len(E) \in Nat
      /\ \A i \in 1 .. Len(T) : i + 1 \in 1 .. Len(E) /\ T[i] = E[i + 1]
  BY TailIs
<1>2. \A i \in 1 .. Len(T) : i + 1 # 1 /\ \A j \in 1 .. Len(T) : i + 1 = j + 1 => i = j
  OBVIOUS
<1> HIDE DEF T
<1>3. Kinds(T) \subseteq Kinds(E) /\ Head(E).kind \in Kinds(E)
  BY <1>1 DEF Kinds
<1>7. Kinds(E) \subseteq Kinds(T) \cup {Head(E).kind}
  <2>1. \A i \in 1 .. Len(E) : i = 1 \/ (i - 1 \in 1 .. Len(T) /\ (i - 1) + 1 = i)
    BY TailIs DEF T
  <2> SUFFICES ASSUME NEW i \in 1 .. Len(E), i # 1 PROVE E[i].kind \in Kinds(T)
    BY <1>1 DEF Kinds
  <2> DEFINE j == i - 1
  <2>2. j \in 1 .. Len(T) /\ j + 1 = i
    BY <2>1
  <2> HIDE DEF j
  <2>3. T[j] = E[i]
    BY <1>1, <2>2
  <2>4. T[j].kind \in Kinds(T)
    BY <2>2 DEF Kinds
  <2> QED BY <2>3, <2>4
<1>4. (HasData(T) => HasData(E)) /\ (Head(E).bytes # <<>> => HasData(E))
  BY <1>1 DEF HasData
<1>5. OneCtrl(E) => OneCtrl(T)
  <2> SUFFICES ASSUME OneCtrl(E), NEW i \in 1 .. Len(T), NEW j \in 1 .. Len(T),
                      T[i].kind # "packet", T[j].kind # "packet"
               PROVE  i = j
    BY DEF OneCtrl
  <2> DEFINE k == i + 1
             l == j + 1
  <2>1. k \in 1 .. Len(E) /\ l \in 1 .. Len(E) /\ E[k].kind # "packet" /\ E[l].kind # "packet"
    BY <1>1
  <2> HIDE DEF k, l
  <2>2. k = l
    BY <2>1 DEF OneCtrl
  <2> QED BY <1>2, <2>2 DEF k, l
<1>6. OneCtrl(E) /\ Head(E).kind # "packet" => Kinds(T) \subseteq {"packet"}
  <2> SUFFICES ASSUME OneCtrl(E), Head(E).kind # "packet", NEW i \in 1 .. Len(T), T[i].kind # "packet"
               PROVE  FALSE
    BY DEF Kinds
  <2> DEFINE k == i + 1
  <2>1. k \in 1 .. Len(E) /\ E[k].kind # "packet" /\ k # 1
    BY <1>1, <1>2
  <2> HIDE DEF k
  <2> QED BY <1>1, <2>1 DEF OneCtrl
<1> QED BY <1>3, <1>4, <1>5, <1>6, <1>7 DEF T

LEMMA KindsAppend ==
    ASSUME NEW S, NEW E \in Seq(S), NEW e \in S
    PROVE  /\ Kinds(Append(E, e)) = Kinds(E) \cup {e.kind}
           /\ (HasData(Append(E, e)) <=> HasData(E) \/ e.bytes # <<>>)
           /\ (OneCtrl(E) /\ (e.kind = "packet" \/ Kinds(E) \subseteq {"packet"})
                 => OneCtrl(Append(E, e)))
<1> DEFINE A == Append(E, e)
           l == Len(E) + 1
<1>1. /\ \A i \in 1 .. Len(E) : i \in 1 .. Len(A) /\ A[i] = E[i] /\ i # l
      /\ l \in 1 .. Len(A) /\ A[l] = e
      /\ \A i \in 1 .. Len(A) : i \in 1 .. Len(E) \/ i = l
  BY AppendIs
<1> HIDE DEF A, l
<1>2. Kinds(A) = Kinds(E) \cup {e.kind}
  BY <1>1 DEF Kinds
<1>3. HasData(A) <=> HasData(E) \/ e.bytes # <<>>
  BY <1>1 DEF HasData
<1>4. ASSUME OneCtrl(E), e.kind = "packet" \/ Kinds(E) \subseteq {"packet"} PROVE OneCtrl(A)
  <2> SUFFICES ASSUME NEW i \in 1 .. Len(A), NEW j \in 1 .. Len(A),
                      A[i].kind # "packet", A[j].kind # "packet"
               PROVE  i = j
    BY DEF OneCtrl
  <2>1. CASE e.kind = "packet"
    BY <1>1, <1>4, <2>1 DEF OneCtrl
  <2>2. CASE Kinds(E) \subseteq {"packet"}
    <3>1. \A k \in 1 .. Len(E) : E[k].kind = "packet"
      BY <2>2 DEF Kinds
    <3> QED BY <1>1, <3>1
  <2> QED BY <1>4, <2>1, <2>2
<1> QED BY <1>2, <1>3, <1>4 DEF A

LEMMA KindsAnswered == Answered => Kinds(events) \subseteq {"packet"}
  BY DEF Answered, Kinds

LEMMA NotesTail ==
    ASSUME NEW S, NEW N \in Seq(S), N # <<>>
    PROVE  /\ (HasToken(Tail(N)) => HasToken(N)) /\ (Token(Head(N)) => HasToken(N))
           /\ (OneToken(N) => OneToken(Tail(N)))
           /\ (OneToken(N) /\ Token(Head(N)) => ~HasToken(Tail(N)))
           /\ \A i \in 1 .. Len(Tail(N)) : \E j \in 1 .. Len(N) : Tail(N)[i] = N[j]
           /\ \E j \in 1 .. Len(N) : Head(N) = N[j]
<1> DEFINE T == Tail(N)
<1>1. /\ Head(N) = N[1] /\ 1 \in 1 .. Len(N) /\ Len(N) \in Nat
      /\ \A i \in 1 .. Len(T) : i + 1 \in 1 .. Len(N) /\ T[i] = N[i + 1]
  BY TailIs
<1>2. \A i \in 1 .. Len(T) : i + 1 # 1 /\ \A j \in 1 .. Len(T) : i + 1 = j + 1 => i = j
  OBVIOUS
<1> HIDE DEF T
<1>3. (HasToken(T) => HasToken(N)) /\ (Token(Head(N)) => HasToken(N))
  BY <1>1 DEF HasToken
<1>4. OneToken(N) => OneToken(T)
  <2> SUFFICES ASSUME OneToken(N), NEW i \in 1 .. Len(T), NEW j \in 1 .. Len(T),
                      Token(T[i]), Token(T[j])
               PROVE  i = j
    BY DEF OneToken
  <2> DEFINE k == i + 1
             l == j + 1
  <2>1. k \in 1 .. Len(N) /\ l \in 1 .. Len(N) /\ Token(N[k]) /\ Token(N[l])
    BY <1>1
  <2> HIDE DEF k, l
  <2>2. k = l
    BY <2>1 DEF OneToken
  <2> QED BY <1>2, <2>2 DEF k, l
<1>5. OneToken(N) /\ Token(Head(N)) => ~HasToken(T)
  <2> SUFFICES ASSUME OneToken(N), Token(Head(N)), NEW i \in 1 .. Len(T), Token(T[i]) PROVE FALSE
    BY DEF HasToken
  <2> DEFINE k == i + 1
  <2>1. k \in 1 .. Len(N) /\ Token(N[k]) /\ k # 1
    BY <1>1, <1>2
  <2> HIDE DEF k
  <2> QED BY <1>1, <2>1 DEF OneToken
<1>6. \A i \in 1 .. Len(T) : \E j \in 1 .. Len(N) : T[i] = N[j]
  BY <1>1
<1>7. \E j \in 1 .. Len(N) : Head(N) = N[j]
  BY <1>1
<1> QED BY <1>3, <1>4, <1>5, <1>6, <1>7 DEF T

LEMMA NotesAppend ==
    ASSUME NEW S, NEW N \in Seq(S), NEW n \in S
    PROVE  /\ (HasToken(Append(N, n)) => HasToken(N) \/ Token(n))
           /\ (OneToken(N) /\ (~Token(n) \/ ~HasToken(N)) => OneToken(Append(N, n)))
           /\ \A i \in 1 .. Len(Append(N, n)) :
                 Append(N, n)[i] = n \/ \E j \in 1 .. Len(N) : Append(N, n)[i] = N[j]
<1> DEFINE A == Append(N, n)
           l == Len(N) + 1
<1>1. /\ \A i \in 1 .. Len(N) : i \in 1 .. Len(A) /\ A[i] = N[i] /\ i # l
      /\ l \in 1 .. Len(A) /\ A[l] = n
      /\ \A i \in 1 .. Len(A) : i \in 1 .. Len(N) \/ i = l
  BY AppendIs
<1> HIDE DEF A, l
<1>2. HasToken(A) => HasToken(N) \/ Token(n)
  BY <1>1 DEF HasToken
<1>3. OneToken(N) /\ (~Token(n) \/ ~HasToken(N)) => OneToken(A)
  BY <1>1 DEF OneToken, HasToken
<1>4. \A i \in 1 .. Len(A) : A[i] = n \/ \E j \in 1 .. Len(N) : A[i] = N[j]
  BY <1>1
<1> QED BY <1>2, <1>3, <1>4 DEF A

LEMMA ReadyTail ==
    ASSUME NEW S, NEW E \in Seq(S), E # <<>>, NEW type, Ready(E, type)
    PROVE  /\ (Head(E).kind \notin {"op_start", "op_init", "op_complete", "op_receive"}
                 => Ready(Tail(E), type))
           /\ (Head(E).kind = "op_receive" => Ready(Tail(E), "data"))
           /\ (Head(E).kind \in {"op_start", "op_init", "op_complete"} =>
                 \A t : Ready(Tail(E), t))
           /\ (Head(E).bytes # <<>> => type = "data" /\ Head(E).kind = "packet")
<1> DEFINE T == Tail(E)
<1>1. /\ Head(E) = E[1] /\ 1 \in 1 .. Len(E) /\ Len(E) \in Nat
      /\ \A i \in 1 .. Len(T) : i + 1 \in 1 .. Len(E) /\ T[i] = E[i + 1]
  BY TailIs
<1>2. /\ \A i \in 1 .. Len(T) : 1 \in 1 .. ((i + 1) - 1)
      /\ \A i \in 1 .. Len(T) : \A j \in 1 .. (i - 1) :
            j \in 1 .. Len(T) /\ j + 1 \in 1 .. ((i + 1) - 1)
      /\ \A i \in 1 .. Len(T) : \A j \in 1 .. ((i + 1) - 1) :
            j = 1 \/ (j - 1 \in 1 .. (i - 1) /\ j - 1 \in 1 .. Len(T) /\ (j - 1) + 1 = j)
  BY <1>1
<1> HIDE DEF T
<1>3. ASSUME NEW i \in 1 .. Len(T), T[i].bytes # <<>>
      PROVE  /\ T[i].kind = "packet"
             /\ Head(E).kind \notin {"op_start", "op_init", "op_complete"}
             /\ \A j \in 1 .. (i - 1) : T[j].kind \notin {"op_start", "op_init", "op_complete"}
             /\ \/ type = "data" \/ Head(E).kind = "op_receive"
                \/ \E j \in 1 .. (i - 1) : T[j].kind = "op_receive"
  <2> DEFINE k == i + 1
  <2>1. k \in 1 .. Len(E) /\ T[i] = E[k] /\ E[k].bytes # <<>>
    BY <1>1, <1>3
  <2>2. /\ 1 \in 1 .. (k - 1)
        /\ \A j \in 1 .. (i - 1) : j + 1 \in 1 .. (k - 1) /\ T[j] = E[j + 1]
        /\ \A j \in 1 .. (k - 1) : j = 1 \/ (j - 1 \in 1 .. (i - 1) /\ T[j - 1] = E[j])
    BY <1>1, <1>2
  <2> HIDE DEF k
  <2>3. /\ E[k].kind = "packet"
        /\ \A j \in 1 .. (k - 1) : E[j].kind \notin {"op_start", "op_init", "op_complete"}
        /\ type = "data" \/ \E j \in 1 .. (k - 1) : E[j].kind = "op_receive"
    BY <2>1 DEF Ready
  <2>4. \A j \in 1 .. (i - 1) : T[j].kind \notin {"op_start", "op_init", "op_complete"}
    BY <2>2, <2>3
  <2>5. ASSUME NEW j \in 1 .. (k - 1), E[j].kind = "op_receive"
        PROVE  Head(E).kind = "op_receive" \/ \E l \in 1 .. (i - 1) : T[l].kind = "op_receive"
    BY <1>1, <2>2, <2>5
  <2> QED BY <1>1, <2>1, <2>2, <2>3, <2>4, <2>5
<1>4. Head(E).kind \notin {"op_start", "op_init", "op_complete", "op_receive"} => Ready(T, type)
  BY <1>3 DEF Ready
<1>5. Head(E).kind = "op_receive" => Ready(T, "data")
  BY <1>3 DEF Ready
<1>6. Head(E).kind \in {"op_start", "op_init", "op_complete"} => \A t : Ready(T, t)
  BY <1>3 DEF Ready
<1>7. Head(E).bytes # <<>> => type = "data" /\ Head(E).kind = "packet"
  <2>1. \A j \in 1 .. (1 - 1) : FALSE
    OBVIOUS
  <2> QED BY <1>1, <2>1 DEF Ready
<1> QED BY <1>4, <1>5, <1>6, <1>7 DEF T

LEMMA ReadyAppend ==
    ASSUME NEW S, NEW E \in Seq(S), NEW e \in S, NEW type, Ready(E, type),
           e.bytes # <<>> => /\ e.kind = "packet" /\ Kinds(E) \subseteq {"packet", "op_receive"}
                             /\ type = "data" \/ "op_receive" \in Kinds(E)
    PROVE  Ready(Append(E, e), type)
<1> DEFINE A == Append(E, e)
           l == Len(E) + 1
<1>1. /\ \A i \in 1 .. Len(E) : i \in 1 .. Len(A) /\ A[i] = E[i] /\ i # l
      /\ l \in 1 .. Len(A) /\ A[l] = e /\ Len(E) \in Nat
      /\ \A i \in 1 .. Len(A) : i \in 1 .. Len(E) \/ i = l
  BY AppendIs
<1>2. l - 1 = Len(E) /\ \A i \in 1 .. Len(E) : \A j \in 1 .. (i - 1) : j \in 1 .. Len(E)
  BY <1>1
<1> HIDE DEF A, l
<1>3. ASSUME NEW i \in 1 .. Len(E), A[i].bytes # <<>>
      PROVE  /\ A[i].kind = "packet"
             /\ \A j \in 1 .. (i - 1) : A[j].kind \notin {"op_start", "op_init", "op_complete"}
             /\ type = "data" \/ \E j \in 1 .. (i - 1) : A[j].kind = "op_receive"
  <2>1. /\ E[i].kind = "packet"
        /\ \A j \in 1 .. (i - 1) : E[j].kind \notin {"op_start", "op_init", "op_complete"}
        /\ type = "data" \/ \E j \in 1 .. (i - 1) : E[j].kind = "op_receive"
    BY <1>1, <1>3 DEF Ready
  <2>2. \A j \in 1 .. (i - 1) : A[j] = E[j]
    BY <1>1, <1>2
  <2> QED BY <1>1, <2>1, <2>2
<1>4. ASSUME A[l].bytes # <<>>
      PROVE  /\ A[l].kind = "packet"
             /\ \A j \in 1 .. (l - 1) : A[j].kind \notin {"op_start", "op_init", "op_complete"}
             /\ type = "data" \/ \E j \in 1 .. (l - 1) : A[j].kind = "op_receive"
  <2>1. /\ e.kind = "packet" /\ Kinds(E) \subseteq {"packet", "op_receive"}
        /\ type = "data" \/ "op_receive" \in Kinds(E)
    BY <1>1, <1>4
  <2>2. \A j \in 1 .. Len(E) : A[j].kind \in {"packet", "op_receive"}
    BY <1>1, <2>1 DEF Kinds
  <2>3. "op_receive" \in Kinds(E) => \E j \in 1 .. Len(E) : A[j].kind = "op_receive"
    BY <1>1 DEF Kinds
  <2> QED BY <1>1, <1>2, <2>1, <2>2, <2>3
<1>5. Ready(A, type)
  BY <1>1, <1>3, <1>4 DEF Ready
<1> QED BY <1>5 DEF A

LEMMA ReadyNone ==
    /\ \A t : Ready(<<>>, t)
    /\ \A E, t, u : ~HasData(E) => Ready(E, u)
  BY DEF Ready, HasData

LEMMA ReadyHasData ==
    ASSUME NEW S, NEW E \in Seq(S), NEW type, Ready(E, type), HasData(E), type # "data"
    PROVE  "op_receive" \in Kinds(E)
<1>1. PICK i \in 1 .. Len(E) : E[i].bytes # <<>>
  BY DEF HasData
<1>2. PICK j \in 1 .. (i - 1) : E[j].kind = "op_receive"
  BY <1>1 DEF Ready
<1>3. j \in 1 .. Len(E)
  BY <1>1
<1> QED BY <1>2, <1>3 DEF Kinds

LEMMA ChainNone ==
    ASSUME NEW n \in Nat PROVE Chain(<<>>, n, n)
<1> DEFINE at == [i \in 0 .. 0 |-> n]
<1>1. Chained(<<>>, n, n, at)
  BY DEF Chained
<1> HIDE DEF at
<1> QED BY <1>1 DEF Chain

LEMMA ChainTail ==
    ASSUME NEW E \in Seq(EventType), E # <<>>, NEW n, NEW m, Chain(E, n, m)
    PROVE  /\ Follows(Head(E).bytes, n) /\ Chain(Tail(E), n + Len(Head(E).bytes), m)
<1>1. PICK at : Chained(E, n, m, at)
  BY DEF Chain
<1> DEFINE T == Tail(E)
           L == Len(E)
           on == [i \in 0 .. (L - 1) |-> at[i + 1]]
<1>2. /\ Head(E) = E[1] /\ 1 \in 1 .. L /\ L \in Nat /\ L > 0 /\ Len(T) = L - 1
      /\ \A i \in 1 .. Len(T) : i + 1 \in 1 .. L /\ T[i] = E[i + 1]
  BY TailIs
<1>3. /\ at \in [0 .. L -> Nat] /\ at[0] = n /\ at[L] = m
      /\ \A i \in 1 .. L : at[i] = at[i - 1] + Len(E[i].bytes) /\ Follows(E[i].bytes, at[i - 1])
  BY <1>1 DEF Chained
<1>4. at[1] = n + Len(Head(E).bytes) /\ Follows(Head(E).bytes, n)
  <2>1. 1 - 1 = 0
    OBVIOUS
  <2> QED BY <1>2, <1>3, <2>1
<1> HIDE DEF L, T
<1>5. on \in [0 .. Len(T) -> Nat] /\ on[0] = at[1] /\ on[Len(T)] = m
  <2>1. \A i \in 0 .. (L - 1) : i + 1 \in 0 .. L
    BY <1>2
  <2>2. on \in [0 .. (L - 1) -> Nat]
    BY <1>3, <2>1
  <2>3. 0 \in 0 .. (L - 1) /\ L - 1 \in 0 .. (L - 1) /\ (L - 1) + 1 = L /\ 0 + 1 = 1
    BY <1>2
  <2> QED BY <1>2, <1>3, <2>2, <2>3
<1>6. ASSUME NEW i \in 1 .. Len(T)
      PROVE  on[i] = on[i - 1] + Len(T[i].bytes) /\ Follows(T[i].bytes, on[i - 1])
  <2> DEFINE k == i + 1
  <2>1. k \in 1 .. L /\ T[i] = E[k] /\ k - 1 = i /\ (i - 1) + 1 = i /\ i \in 0 .. (L - 1) /\ i - 1 \in 0 .. (L - 1)
    BY <1>2
  <2>2. on[i] = at[k] /\ on[i - 1] = at[i]
    BY <2>1
  <2> HIDE DEF k, on
  <2> QED BY <1>3, <2>1, <2>2
<1> HIDE DEF on
<1>7. Chained(T, at[1], m, on)
  BY <1>5, <1>6 DEF Chained
<1>8. Chain(T, at[1], m)
  BY <1>7 DEF Chain
<1> QED BY <1>4, <1>8 DEF T

LEMMA ChainAppend ==
    ASSUME NEW E \in Seq(EventType), NEW e \in EventType, NEW n, NEW m \in Nat, Chain(E, n, m),
           Follows(e.bytes, m)
    PROVE  Chain(Append(E, e), n, m + Len(e.bytes))
<1>1. PICK at : Chained(E, n, m, at)
  BY DEF Chain
<1> DEFINE A == Append(E, e)
           L == Len(E)
           x == m + Len(e.bytes)
           on == [i \in 0 .. (L + 1) |-> IF i = L + 1 THEN x ELSE at[i]]
<1>2. /\ \A i \in 1 .. L : i \in 1 .. Len(A) /\ A[i] = E[i] /\ i # L + 1
      /\ Len(A) = L + 1 /\ A[L + 1] = e /\ L \in Nat
      /\ \A i \in 1 .. Len(A) : i \in 1 .. L \/ i = L + 1
  BY AppendIs
<1>3. /\ at \in [0 .. L -> Nat] /\ at[0] = n /\ at[L] = m
      /\ \A i \in 1 .. L : at[i] = at[i - 1] + Len(E[i].bytes) /\ Follows(E[i].bytes, at[i - 1])
  BY <1>1 DEF Chained
<1>4. x \in Nat
  <2>1. Len(e.bytes) \in Nat
    BY DEF EventType
  <2> QED BY <2>1
<1> HIDE DEF L, A, x
<1>5. on \in [0 .. Len(A) -> Nat] /\ on[0] = n /\ on[Len(A)] = x
  <2>1. \A i \in 0 .. (L + 1) : i = L + 1 \/ i \in 0 .. L
    BY <1>2
  <2>2. on \in [0 .. (L + 1) -> Nat]
    BY <1>3, <1>4, <2>1
  <2>3. 0 \in 0 .. (L + 1) /\ L + 1 \in 0 .. (L + 1) /\ 0 # L + 1
    BY <1>2
  <2> QED BY <1>2, <1>3, <2>2, <2>3
<1>6. ASSUME NEW i \in 1 .. Len(A)
      PROVE  on[i] = on[i - 1] + Len(A[i].bytes) /\ Follows(A[i].bytes, on[i - 1])
  <2>1. CASE i \in 1 .. L
    <3>1. i \in 0 .. (L + 1) /\ i - 1 \in 0 .. (L + 1) /\ i # L + 1 /\ i - 1 # L + 1
      BY <1>2, <2>1
    <3>2. on[i] = at[i] /\ on[i - 1] = at[i - 1] /\ A[i] = E[i]
      BY <1>2, <2>1, <3>1
    <3> HIDE DEF on
    <3> QED BY <1>3, <2>1, <3>2
  <2>2. CASE i = L + 1
    <3>1. i \in 0 .. (L + 1) /\ i - 1 = L /\ L \in 0 .. (L + 1) /\ L # L + 1
      BY <1>2, <2>2
    <3>2. on[i] = x /\ on[i - 1] = m /\ A[i] = e
      BY <1>2, <1>3, <2>2, <3>1
    <3> HIDE DEF on
    <3> QED BY <3>2 DEF x
  <2> QED BY <1>2, <2>1, <2>2
<1> HIDE DEF on
<1>7. Chained(A, n, x, on)
  BY <1>5, <1>6 DEF Chained
<1> QED BY <1>7 DEF Chain, A, x

-----------------------------------------------------------------------------
(* The session, when an event is handled and when a notification is sent. *)

LEMMA SessionTail ==
    ASSUME NEW S, NEW E \in Seq(S), E # <<>>, NEW N, NEW p
    PROVE  /\ (Exclusive(p, E, N) => Exclusive(p, Tail(E), N))
           /\ \A state, count, out :
                 Staged(p, E, N, state, count, out) => Staged(p, Tail(E), N, state, count, out)
           /\ \A b : Asks(p, E, N, b) => Asks(p, Tail(E), N, b)
           /\ (NoToken(p, E, N) => NoToken(p, Tail(E), N))
           /\ \A t : Sends(p, E, t) /\ Head(E).kind = "packet" => Sends(p, Tail(E), t)
           /\ \A t : Sends(p, E, t) /\ Head(E).kind = "op_receive" => Sends(p, Tail(E), "data")
           /\ \A t, u : Sends(p, E, t) /\ Head(E).kind \notin {"packet", "op_receive"}
                 => Sends(p, Tail(E), u)
<1> DEFINE T == Tail(E)
           k == Head(E).kind
<1>1. /\ Kinds(T) \subseteq Kinds(E) /\ k \in Kinds(E)
      /\ Kinds(E) \subseteq Kinds(T) \cup {k}
      /\ (HasData(T) => HasData(E)) /\ (OneCtrl(E) => OneCtrl(T))
  BY KindsTail
<1> HIDE DEF T, k
<1>2. Exclusive(p, E, N) => Exclusive(p, T, N)
  BY <1>1 DEF Exclusive
<1>3. \A state, count, out :
         Staged(p, E, N, state, count, out) => Staged(p, T, N, state, count, out)
  BY <1>1 DEF Staged
<1>4. NoToken(p, E, N) => NoToken(p, T, N)
  BY <1>1 DEF NoToken
<1>5. \A b : Asks(p, E, N, b) => Asks(p, T, N, b)
  BY <1>1, <1>4 DEF Asks
<1>6. \A t : Sends(p, E, t) /\ k = "packet" => Sends(p, T, t)
  BY <1>1 DEF Sends
<1>7. \A t : Sends(p, E, t) /\ k = "op_receive" => Sends(p, T, "data")
  BY <1>1 DEF Sends
<1>8. \A t, u : Sends(p, E, t) /\ k \notin {"packet", "op_receive"} => Sends(p, T, u)
  BY <1>1 DEF Sends
<1> QED BY <1>2, <1>3, <1>4, <1>5, <1>6, <1>7, <1>8 DEF T, k

\* A notification that is not a token.
LEMMA SessionNote ==
    ASSUME NEW S, NEW N \in Seq(S), NEW n \in S, ~Token(n), NEW E, NEW p
    PROVE  /\ (Exclusive(p, E, N) => Exclusive(p, E, Append(N, n)))
           /\ \A state, count, out :
                 Staged(p, E, N, state, count, out) => Staged(p, E, Append(N, n), state, count, out)
           /\ (NoToken(p, E, N) => NoToken(p, E, Append(N, n)))
<1> DEFINE A == Append(N, n)
<1>1. /\ (HasToken(A) => HasToken(N)) /\ (OneToken(N) => OneToken(A))
      /\ \A i \in 1 .. Len(A) : A[i] = n \/ \E j \in 1 .. Len(N) : A[i] = N[j]
  BY NotesAppend
<1> HIDE DEF A
<1>2. Exclusive(p, E, N) => Exclusive(p, E, A)
  BY <1>1 DEF Exclusive
<1>3. \A state, count, out :
         Staged(p, E, N, state, count, out) => Staged(p, E, A, state, count, out)
  <2>1. \A state, count : NoteFits(n, state, count)
    BY DEF NoteFits, Token
  <2> QED BY <1>1, <2>1 DEF Staged
<1>4. NoToken(p, E, N) => NoToken(p, E, A)
  BY <1>1 DEF NoToken
<1> QED BY <1>2, <1>3, <1>4 DEF A

\* A token that is passed to a notification.
LEMMA SessionToken ==
    ASSUME NEW S, NEW N \in Seq(S), NEW n \in S, NEW E, NEW p, NEW state, NEW count, NEW out,
           NoToken(p, E, N), Exclusive(p, E, N), Staged(p, E, N, state, count, out),
           NoteFits(n, state, count), ~HasData(E)
    PROVE  Exclusive(p, E, Append(N, n)) /\ Staged(p, E, Append(N, n), state, count, out)
<1> DEFINE A == Append(N, n)
<1>1. /\ (OneToken(N) => OneToken(A))
      /\ \A i \in 1 .. Len(A) : A[i] = n \/ \E j \in 1 .. Len(N) : A[i] = N[j]
  BY NotesAppend DEF NoToken
<1> HIDE DEF A
<1>2. Exclusive(p, E, A)
  BY <1>1 DEF Exclusive, NoToken
<1>3. Staged(p, E, A, state, count, out)
  BY <1>1 DEF Staged
<1> QED BY <1>2, <1>3 DEF A

-----------------------------------------------------------------------------
(* The other invariants, when an event is handled. *)

LEMMA LinkHandled ==
    ASSUME Typed, LinkInv, Running, events # <<>>, events' = Tail(events), radio' = radio,
           m_tear_down_in_progress' = m_tear_down_in_progress, notes' = notes \/ radio = "linked"
    PROVE  LinkInv'
<1>1. radio # "advertising"
  BY DEF LinkInv
<1>2. radio # "linked" /\ ~m_tear_down_in_progress => notes' = <<>>
  BY DEF LinkInv
<1>3. ASSUME NEW i \in 1 .. Len(events'), events'[i].kind = "disconnected"
      PROVE  i = Len(events') /\ radio # "linked"
  <2>1. /\ Len(events) \in Nat /\ Len(events') = Len(events) - 1
        /\ i + 1 \in 1 .. Len(events) /\ events'[i] = events[i + 1]
    BY TailIs DEF Typed
  <2>2. i + 1 = Len(events) /\ radio # "linked"
    BY <1>3, <2>1 DEF LinkInv
  <2> DEFINE l == Len(events)
             k == Len(events')
  <2>3. l \in Nat /\ k = l - 1 /\ i + 1 = l /\ i \in 1 .. k
    BY <2>1, <2>2
  <2> HIDE DEF l, k
  <2>4. i = k
    BY <2>3
  <2> QED BY <2>2, <2>4 DEF k
<1> QED BY <1>1, <1>2, <1>3 DEF LinkInv

LEMMA EarlyHandled ==
    ASSUME Typed, EarlyInv, Running, events # <<>>, events' = Tail(events), m_dfu_state \in Early,
           m_dfu_state' = m_dfu_state, began' = began, erred' = erred,
           rx'.m_accum_buf = rx.m_accum_buf, m_pkt_type' # "data"
    PROVE  EarlyInv'
<1>1. Kinds(events') \subseteq Kinds(events)
  BY KindsTail DEF Typed
<1> QED BY <1>1 DEF EarlyInv

LEMMA ReceivedIs == DataInv => Received(rx) \in Nat /\ Received(rx) <= Size
<1> SUFFICES ASSUME DataInv PROVE Received(rx) \in Nat /\ Received(rx) <= Size
  OBVIOUS
<1> QED BY KeepsIsKeptBy, ReceivedNat DEF DataInv, Data

LEMMA ChainHandled ==
    ASSUME Typed, DataInv, ChainInv, Running, ~erred, events # <<>>, events' = Tail(events),
           Head(events).bytes = <<>>, Received(rx') = Received(rx), pc' = pc, sent' = sent,
           radio' = radio, Ready(Tail(events), m_pkt_type')
    PROVE  ChainInv'
<1>1. PICK m \in Nat : Chain(events, Received(rx), m) /\ (radio = "linked" /\ pc = "data" => m = sent)
  BY DEF ChainInv
<1>2. Len(Head(events).bytes) = 0 /\ Received(rx) + 0 = Received(rx)
  BY ReceivedIs
<1>3. Chain(Tail(events), Received(rx) + Len(Head(events).bytes), m)
  BY <1>1, ChainTail DEF Typed
<1>4. Chain(events', Received(rx'), m)
  BY <1>2, <1>3
<1> QED BY <1>1, <1>4 DEF ChainInv

-----------------------------------------------------------------------------
(* One lemma for each action. *)

Rest == LinkInv /\ EarlyInv /\ SessionInv /\ ChainInv /\ PrefixInv
Inv == Typed /\ DataInv /\ Rest

SameStage(a, b) == a = b \/ (a \in Initing /\ b \in Initing) \/ (a \in Late /\ b \in Late)

LEMMA StageSame ==
    ASSUME NEW a, NEW b, SameStage(a, b)
    PROVE  /\ (a = "idle" <=> b = "idle") /\ (a \in Early <=> b \in Early)
           /\ \A p, E, N, count, out :
                 Staged(p, E, N, a, count, out) => Staged(p, E, N, b, count, out)
<1>1. /\ (a = "idle" <=> b = "idle") /\ (a \in Early <=> b \in Early)
      /\ (a \in Starting <=> b \in Starting) /\ (a \in Initing <=> b \in Initing)
      /\ (a \in Late <=> b \in Late)
  BY DEF SameStage, Starting, Initing, Late, Early
<1>2. \A n, count : NoteFits(n, a, count) => NoteFits(n, b, count)
  BY <1>1 DEF NoteFits
<1>3. \A p, E, N, count, out :
         Staged(p, E, N, a, count, out) => Staged(p, E, N, b, count, out)
  BY <1>1, <1>2 DEF Staged
<1> QED BY <1>1, <1>3

\* An event is handled that is no data and passes on no token.
Quiet ==
    /\ Running /\ events # <<>> /\ events' = Tail(events)
    /\ UNCHANGED <<pc, began, sent, radio, m_tear_down_in_progress, erred>>
    /\ SameStage(m_dfu_state, m_dfu_state')
    /\ rx'.m_accum_buf = rx.m_accum_buf /\ Received(rx') = Received(rx)
    /\ (Prefix(rx) => Prefix(rx'))
    /\ \/ Head(events).kind = "packet" /\ m_pkt_type' = m_pkt_type /\ m_pkt_type # "data"
       \/ Head(events).kind = "op_receive" /\ m_pkt_type' = "data"
       \/ /\ Head(events).kind \in {"op_start", "op_init", "op_complete"}
          /\ m_pkt_type' \in {"start", "init"}
       \/ /\ Head(events).kind \notin {"packet", "op_receive", "op_start", "op_init", "op_complete"}
          /\ m_pkt_type' = m_pkt_type
    /\ \/ notes' = notes
       \/ /\ radio = "linked" /\ Head(events).kind \notin {"connected", "op_count"}
          /\ \E n \in NoteType : ~Token(n) /\ notes' = Append(notes, n)

LEMMA QuietRest ==
    ASSUME Inv, Quiet PROVE Rest'
<1> DEFINE k == Head(events).kind
           T == Tail(events)
<1>1. Typed /\ DataInv /\ LinkInv /\ EarlyInv /\ SessionInv /\ ChainInv /\ PrefixInv
  BY DEF Inv, Rest
<1>2. /\ Running /\ events # <<>> /\ events' = T
      /\ UNCHANGED <<pc, began, sent, radio, m_tear_down_in_progress, erred>>
      /\ rx'.m_accum_buf = rx.m_accum_buf /\ Received(rx') = Received(rx)
      /\ (Prefix(rx) => Prefix(rx'))
      /\ notes' = notes \/ radio = "linked"
  BY DEF Quiet
<1>3. events \in Seq(EventType) /\ notes \in Seq(NoteType)
  BY <1>1 DEF Typed
<1>4. k \in Kinds(events) /\ Kinds(T) \subseteq Kinds(events)
  BY <1>2, <1>3, KindsTail
<1>5. LinkInv'
  BY <1>1, <1>2, LinkHandled
<1>6. /\ (m_dfu_state = "idle" <=> m_dfu_state' = "idle")
      /\ (m_dfu_state \in Early <=> m_dfu_state' \in Early)
      /\ \A p, E, N, count, out :
            Staged(p, E, N, m_dfu_state, count, out) => Staged(p, E, N, m_dfu_state', count, out)
  BY StageSame DEF Quiet
<1>7. EarlyInv'
  <2> SUFFICES ASSUME m_dfu_state' \in Early
               PROVE  /\ ~erred' /\ m_pkt_type' # "data" /\ rx'.m_accum_buf = <<>>
                      /\ "op_receive" \notin Kinds(events')
                      /\ (m_dfu_state' # "idle" \/ "packet" \in Kinds(events') => ~began')
    BY DEF EarlyInv
  <2>1. /\ ~erred /\ m_pkt_type # "data" /\ rx.m_accum_buf = <<>>
        /\ "op_receive" \notin Kinds(events)
        /\ (m_dfu_state # "idle" \/ "packet" \in Kinds(events) => ~began)
    BY <1>1, <1>2, <1>6 DEF EarlyInv
  <2>2. m_pkt_type' # "data"
    <3>1. k # "op_receive"
      BY <1>4, <2>1
    <3> QED BY <2>1, <3>1 DEF Quiet
  <2> QED BY <1>2, <1>4, <1>6, <2>1, <2>2
<1>8. ASSUME ~erred' PROVE Ready(T, m_pkt_type') /\ Head(events).bytes = <<>>
  <2>1. Ready(events, m_pkt_type)
    BY <1>1, <1>2, <1>8 DEF ChainInv
  <2>2. /\ (k \notin {"op_start", "op_init", "op_complete", "op_receive"} => Ready(T, m_pkt_type))
        /\ (k = "op_receive" => Ready(T, "data"))
        /\ (k \in {"op_start", "op_init", "op_complete"} => \A t : Ready(T, t))
        /\ (Head(events).bytes # <<>> => m_pkt_type = "data" /\ k = "packet")
    BY <1>2, <1>3, <2>1, ReadyTail
  <2> HIDE DEF T, k
  <2> QED BY <2>2 DEF Quiet, k
<1>9. ChainInv'
  <2> SUFFICES ASSUME ~erred' PROVE ChainInv'
    BY DEF ChainInv
  <2> QED BY <1>1, <1>2, <1>8, ChainHandled
<1>10. PrefixInv'
  BY <1>1, <1>2 DEF PrefixInv
<1>11. SessionInv'
  <2> SUFFICES ASSUME ~erred', radio' = "linked"
               PROVE  /\ Exclusive(pc, T, notes')
                      /\ Staged(pc, T, notes', m_dfu_state', Received(rx), sent)
                      /\ (m_dfu_state' = "idle" => Asks(pc, T, notes', began))
                      /\ Sends(pc, T, m_pkt_type')
    BY <1>2 DEF SessionInv
  <2>1. /\ Exclusive(pc, events, notes)
        /\ Staged(pc, events, notes, m_dfu_state, Received(rx), sent)
        /\ (m_dfu_state = "idle" => Asks(pc, events, notes, began))
        /\ Sends(pc, events, m_pkt_type)
    BY <1>1, <1>2 DEF SessionInv
  <2>2. /\ Exclusive(pc, T, notes)
        /\ Staged(pc, T, notes, m_dfu_state', Received(rx), sent)
        /\ (m_dfu_state' = "idle" => Asks(pc, T, notes, began))
    BY <1>2, <1>3, <1>6, <2>1, SessionTail
  <2>3. Sends(pc, T, m_pkt_type')
    <3>1. /\ (k = "packet" => Sends(pc, T, m_pkt_type))
          /\ (k = "op_receive" => Sends(pc, T, "data"))
          /\ (k \notin {"packet", "op_receive"} => Sends(pc, T, m_pkt_type'))
      BY <1>2, <1>3, <2>1, SessionTail
    <3> HIDE DEF T, k
    <3> QED BY <3>1 DEF Quiet, k
  <2>4. CASE notes' = notes
    BY <2>2, <2>3, <2>4
  <2>5. CASE notes' # notes
    <3>1. PICK n \in NoteType : ~Token(n) /\ notes' = Append(notes, n)
      BY <2>5 DEF Quiet
    <3>2. k \notin {"connected", "op_count"}
      BY <2>5 DEF Quiet
    <3>3. /\ Exclusive(pc, T, notes')
          /\ Staged(pc, T, notes', m_dfu_state', Received(rx), sent)
      BY <1>3, <2>2, <3>1, SessionNote
    <3>4. ASSUME m_dfu_state' = "idle" PROVE Asks(pc, T, notes', began)
      <4>1. NoToken(pc, events, notes) /\ ~began
        BY <1>4, <1>6, <2>1, <3>2, <3>4 DEF Asks
      <4>2. NoToken(pc, T, notes)
        BY <1>2, <1>3, <4>1, SessionTail
      <4>3. NoToken(pc, T, notes')
        BY <1>3, <3>1, <4>2, SessionNote
      <4> QED BY <4>1, <4>3 DEF Asks
    <3> QED BY <2>3, <3>3, <3>4
  <2> QED BY <2>4, <2>5
<1> QED BY <1>5, <1>7, <1>9, <1>10, <1>11 DEF Rest

LEMMA FaultRest ==
    ASSUME Inv, mode' = "fault", rx' = rx, erred' = erred PROVE Rest'
<1>1. ~Running'
  BY DEF Running
<1>2. PrefixInv'
  BY DEF Inv, Rest, PrefixInv
<1> QED BY <1>1, <1>2 DEF Rest, LinkInv, EarlyInv, SessionInv, ChainInv

LEMMA NotifyQuiet ==
    ASSUME NEW note \in NoteType, ~Token(note), Notify(note)
    PROVE  \/ notes' = notes
           \/ radio = "linked" /\ \E n \in NoteType : ~Token(n) /\ notes' = Append(notes, n)
  BY DEF Notify

LEMMA QuietResponse ==
    /\ \A proc \in {"start", "init"} : ~Token(Response(proc, "INVALID_STATE"))
    /\ \A result \in {"SUCCESS", "FAILED"} : ~Token(Response("validate", result))
    /\ ~Token(Response("receive", "SUCCESS")) /\ ~Token(NoNote)
  BY DEF Token, Response, Note, NoNote

LEMMA SameStageSelf == ASSUME NEW a PROVE SameStage(a, a)
  BY DEF SameStage

LEMMA ConnectedRest ==
    ASSUME Inv, OnConnected PROVE Rest'
<1>1. Running /\ events # <<>> /\ Head(events).kind = "connected"
  BY DEF OnConnected, Handling, Running
<1>2. Quiet
  BY <1>1, SameStageSelf DEF OnConnected, Quiet, peerState, coreVars, history
<1> QED BY <1>2, QuietRest

LEMMA PacketTypeRest ==
    ASSUME Inv, NEW op, NEW type, OpPacketType(op, type),
           \/ op = "op_start" /\ type = "start"
           \/ op = "op_init" /\ type = "init"
           \/ op = "op_receive" /\ type = "data"
    PROVE  Rest'
<1>1. Running /\ events # <<>> /\ Head(events).kind = op
  BY DEF OpPacketType, OnCtrlPt, Handling, Running
<1>2. Quiet
  BY <1>1, SameStageSelf DEF OpPacketType, Quiet, peerState, linkVars, coreVars, history
<1> QED BY <1>2, QuietRest

LEMMA ReceiptsRest ==
    ASSUME Inv, OpPacketReceipts PROVE Rest'
<1>1. Running /\ events # <<>> /\ Head(events).kind = "op_prn"
  BY DEF OpPacketReceipts, OnCtrlPt, Handling, Running
<1>2. SameData(rx, rx')
  BY ReceiptsTyped DEF Inv
<1>3. rx'.m_accum_buf = rx.m_accum_buf /\ Received(rx') = Received(rx) /\ (Prefix(rx) => Prefix(rx'))
  BY <1>2 DEF SameData, Received, Prefix
<1>4. Quiet
  BY <1>1, <1>3, SameStageSelf DEF OpPacketReceipts, Quiet, peerState, linkVars, coreVars, history
<1> QED BY <1>4, QuietRest

LEMMA InitPacketRest ==
    ASSUME Inv, OnInitPacket PROVE Rest'
<1>1. Running /\ events # <<>> /\ Head(events).kind = "packet" /\ m_pkt_type = "init"
      /\ events' = Tail(events) /\ m_pkt_type' = m_pkt_type /\ rx' = rx
      /\ UNCHANGED <<pc, began, sent, radio, m_tear_down_in_progress, erred>>
  BY DEF OnInitPacket, Handling, Running, peerState, linkVars, history
<1>2. SameStage(m_dfu_state, m_dfu_state')
  BY DEF OnInitPacket, SameStage, Initing
<1>3. \/ notes' = notes
      \/ radio = "linked" /\ \E n \in NoteType : ~Token(n) /\ notes' = Append(notes, n)
  BY ResponseTyped, QuietResponse, NotifyQuiet DEF OnInitPacket
<1>4. Quiet
  BY <1>1, <1>2, <1>3 DEF Quiet
<1> QED BY <1>4, QuietRest

LEMMA ValidateRest ==
    ASSUME Inv, OpValidate PROVE Rest'
<1>1. Running /\ events # <<>> /\ Head(events).kind = "op_validate"
      /\ events' = Tail(events) /\ m_pkt_type' = m_pkt_type /\ rx' = rx
      /\ UNCHANGED <<pc, began, sent, radio, m_tear_down_in_progress, erred>>
  BY DEF OpValidate, OnCtrlPt, Handling, Running, peerState, linkVars, history
<1>2. SameStage(m_dfu_state, m_dfu_state')
  BY ValidateTyped DEF Inv, SameStage, Late
<1>3. \/ notes' = notes
      \/ radio = "linked" /\ \E n \in NoteType : ~Token(n) /\ notes' = Append(notes, n)
  <2>1. PICK result \in {"SUCCESS", "FAILED"} : Notify(Response("validate", result))
    BY DEF OpValidate
  <2> QED BY <2>1, ResponseTyped, QuietResponse, NotifyQuiet
<1>4. Quiet
  BY <1>1, <1>2, <1>3 DEF Quiet
<1> QED BY <1>4, QuietRest

LEMMA UnlinkedRest ==
    ASSUME Inv, OnCtrlPtUnlinked PROVE Rest'
  BY FaultRest DEF OnCtrlPtUnlinked, history

LEMMA UnheardRest ==
    ASSUME Inv, OpActivateUnheard PROVE Rest'
  BY FaultRest DEF OpActivateUnheard

LEMMA FailsRest ==
    ASSUME Inv, FlashFails PROVE Rest'
  BY FaultRest DEF FlashFails, history

LEMMA StagedNoToken ==
    ASSUME NEW p, NEW E, NEW N, NoToken(p, E, N), NEW state, NEW count, NEW out
    PROVE  Staged(p, E, N, state, count, out)
<1>1. \A i \in 1 .. Len(N) : NoteFits(N[i], state, count)
  BY DEF NoToken, HasToken, Token, NoteFits
<1> QED BY <1>1 DEF NoToken, TokenPc, TokenOp, Staged

LEMMA SameDataReceived ==
    ASSUME NEW r, NEW s, SameData(r, s)
    PROVE  s.m_accum_buf = r.m_accum_buf /\ Received(s) = Received(r) /\ (Prefix(r) => Prefix(s))
  BY DEF SameData, Received, Prefix

LEMMA StartPacketRest ==
    ASSUME Inv, OnStartPacket PROVE Rest'
<1>1. /\ Running /\ events # <<>> /\ Head(events).kind = "packet" /\ m_pkt_type = "start"
      /\ events' = Tail(events) /\ m_pkt_type' = m_pkt_type
      /\ UNCHANGED <<pc, began, sent, radio, m_tear_down_in_progress>>
  BY DEF OnStartPacket, Handling, Running, peerState, linkVars
<1>2. CASE ~(m_dfu_state = "idle" /\ ~m_dfu_timed_out)
  <2>1. /\ Notify(Response("start", "INVALID_STATE")) /\ m_dfu_state' = m_dfu_state /\ rx' = rx
        /\ erred' = erred
    BY <1>2 DEF OnStartPacket
  <2>2. \/ notes' = notes
        \/ radio = "linked" /\ \E n \in NoteType : ~Token(n) /\ notes' = Append(notes, n)
    BY <2>1, ResponseTyped, QuietResponse, NotifyQuiet
  <2>3. Quiet
    BY <1>1, <2>1, <2>2, SameStageSelf DEF Quiet
  <2> QED BY <2>3, QuietRest
<1>3. CASE m_dfu_state = "idle" /\ ~m_dfu_timed_out
  <2> DEFINE T == Tail(events)
  <2>1. /\ m_dfu_state' = "preparing" /\ rx' = [rx EXCEPT !.m_reported_image_size = Size]
        /\ erred' = FALSE /\ notes' = notes /\ mode' = mode
    BY <1>3 DEF OnStartPacket
  <2>2. Typed /\ DataInv /\ LinkInv /\ EarlyInv /\ SessionInv /\ ChainInv /\ PrefixInv
    BY DEF Inv, Rest
  <2>3. events \in Seq(EventType) /\ notes \in Seq(NoteType)
    BY <2>2 DEF Typed
  <2>4. "packet" \in Kinds(events) /\ Kinds(T) \subseteq Kinds(events)
    BY <1>1, <2>3, KindsTail
  <2>5. ~erred /\ rx.m_accum_buf = <<>> /\ "op_receive" \notin Kinds(events) /\ ~began
    BY <1>1, <1>3, <2>2, <2>4 DEF EarlyInv, Early
  <2>6. rx'.m_accum_buf = rx.m_accum_buf /\ Received(rx') = Received(rx) /\ (Prefix(rx) => Prefix(rx'))
    <3>1. DOMAIN rx = RxFields
      BY <2>2 DEF DataInv, Data, KeptBy, RxType
    <3> QED BY <2>1, <3>1 DEF RxFields, Received, Prefix
  <2>7. LinkInv'
    BY <1>1, <2>1, <2>2, LinkHandled
  <2>8. EarlyInv'
    BY <1>1, <2>1, <2>4, <2>5, <2>6 DEF EarlyInv, Early
  <2>9. Ready(T, m_pkt_type') /\ Head(events).bytes = <<>>
    <3>1. Ready(events, m_pkt_type)
      BY <1>1, <2>2, <2>5 DEF ChainInv
    <3>2. Head(events).kind \notin {"op_start", "op_init", "op_complete", "op_receive"}
          /\ m_pkt_type # "data"
      BY <1>1
    <3> QED BY <1>1, <2>3, <3>1, <3>2, ReadyTail
  <2>10. ChainInv'
    BY <1>1, <2>2, <2>5, <2>6, <2>9, ChainHandled
  <2>11. PrefixInv'
    BY <2>2, <2>5, <2>6 DEF PrefixInv
  <2>12. SessionInv'
    <3> SUFFICES ASSUME radio = "linked"
                 PROVE  /\ Exclusive(pc, T, notes)
                        /\ Staged(pc, T, notes, "preparing", Received(rx'), sent)
                        /\ Sends(pc, T, m_pkt_type)
      BY <1>1, <2>1 DEF SessionInv
    <3>1. /\ Exclusive(pc, events, notes) /\ Asks(pc, events, notes, began)
          /\ Sends(pc, events, m_pkt_type)
      BY <1>1, <1>3, <2>2, <2>5 DEF SessionInv
    <3>2. NoToken(pc, events, notes)
      BY <2>4, <3>1 DEF Asks
    <3>3. NoToken(pc, T, notes) /\ Exclusive(pc, T, notes) /\ Sends(pc, T, m_pkt_type)
      BY <1>1, <2>3, <3>1, <3>2, SessionTail
    <3> QED BY <3>3, StagedNoToken
  <2> QED BY <2>7, <2>8, <2>10, <2>11, <2>12 DEF Rest
<1> QED BY <1>2, <1>3

LEMMA InitCompleteRest ==
    ASSUME Inv, OpInitComplete PROVE Rest'
<1>1. /\ Running /\ events # <<>> /\ Head(events).kind = "op_complete" /\ radio = "linked"
      /\ events' = Tail(events) /\ m_pkt_type' = "init" /\ rx' = rx
      /\ UNCHANGED <<pc, began, sent, radio, m_tear_down_in_progress, erred>>
  BY DEF OpInitComplete, OnCtrlPt, Handling, Running, peerState, linkVars, history
<1>2. CASE m_dfu_state # "rx_init"
  <2>1. Notify(Response("init", "INVALID_STATE")) /\ m_dfu_state' = m_dfu_state
    BY <1>2 DEF OpInitComplete
  <2>2. \/ notes' = notes
        \/ radio = "linked" /\ \E n \in NoteType : ~Token(n) /\ notes' = Append(notes, n)
    BY <2>1, ResponseTyped, QuietResponse, NotifyQuiet
  <2>3. Quiet
    BY <1>1, <2>1, <2>2, SameStageSelf DEF Quiet
  <2> QED BY <2>3, QuietRest
<1>3. CASE m_dfu_state = "rx_init"
  <2> DEFINE T == Tail(events)
             n == Response("init", "SUCCESS")
  <2>1. Notify(n) /\ m_dfu_state' = "rx_data"
    BY <1>3 DEF OpInitComplete
  <2>2. Typed /\ DataInv /\ LinkInv /\ EarlyInv /\ SessionInv /\ ChainInv /\ PrefixInv
    BY DEF Inv, Rest
  <2>3. events \in Seq(EventType) /\ notes \in Seq(NoteType) /\ n \in NoteType
    BY <2>2, ResponseTyped DEF Typed
  <2>4. ~erred /\ rx.m_accum_buf = <<>>
    BY <1>1, <1>3, <2>2 DEF EarlyInv, Early
  <2>5. Received(rx) = 0
    <3>1. rx.given = <<>> /\ rx.m_num_of_firmware_bytes_rcvd = Len(rx.given)
      BY <1>3, <2>2 DEF DataInv, Data, KeptBy, RxType, Fresh, Early
    <3> QED BY <2>4, <3>1 DEF Received
  <2>6. LinkInv'
    BY <1>1, <2>2, LinkHandled
  <2>7. EarlyInv'
    BY <2>1 DEF EarlyInv, Early
  <2>8. Ready(T, m_pkt_type') /\ Head(events).bytes = <<>>
    <3>1. Ready(events, m_pkt_type)
      BY <1>1, <2>2, <2>4 DEF ChainInv
    <3>2. Head(events).kind \in {"op_start", "op_init", "op_complete"} /\ Head(events).kind # "packet"
      BY <1>1
    <3> QED BY <1>1, <2>3, <3>1, <3>2, ReadyTail
  <2>9. ChainInv'
    BY <1>1, <2>2, <2>4, <2>8, ChainHandled
  <2>10. PrefixInv'
    BY <1>1, <2>2 DEF PrefixInv
  <2>11. SessionInv'
    <3> SUFFICES ASSUME Running'
                 PROVE  /\ Exclusive(pc, T, notes')
                        /\ Staged(pc, T, notes', "rx_data", Received(rx), sent)
                        /\ Sends(pc, T, m_pkt_type')
      BY <1>1, <2>1 DEF SessionInv
    <3>1. Exclusive(pc, events, notes) /\ Sends(pc, events, m_pkt_type)
      BY <1>1, <2>2, <2>4 DEF SessionInv
    <3>2. /\ "op_complete" \in Kinds(events) /\ Kinds(T) \subseteq {"packet"}
          /\ (HasData(T) => HasData(events))
      BY <1>1, <2>3, <3>1, KindsTail DEF Exclusive
    <3>3. NoToken(pc, T, notes) /\ ~HasData(T)
      BY <3>1, <3>2 DEF Exclusive, NoToken, TokenOp
    <3>4. Exclusive(pc, T, notes) /\ Sends(pc, T, m_pkt_type')
      BY <1>1, <2>3, <3>1, SessionTail
    <3>5. Staged(pc, T, notes, "rx_data", Received(rx), sent)
      BY <3>3, StagedNoToken
    <3>6. NoteFits(n, "rx_data", Received(rx))
      BY <2>5 DEF NoteFits, Response, Note, Late
    <3>7. notes' = Append(notes, n)
      <4>1. n # NoNote /\ "fault" \notin {"dfu", "leaving"}
        BY DEF Response, Note, NoNote
      <4> QED BY <2>1, <4>1 DEF Notify, Running
    <3> HIDE DEF T, n
    <3> QED BY <2>3, <3>3, <3>4, <3>5, <3>6, <3>7, SessionToken
  <2> QED BY <2>6, <2>7, <2>9, <2>10, <2>11 DEF Rest
<1> QED BY <1>2, <1>3

LEMMA BytesReceivedRest ==
    ASSUME Inv, OpBytesReceived PROVE Rest'
<1> DEFINE T == Tail(events)
           n == Note("count", "SUCCESS", Received(rx))
<1>1. /\ Running /\ events # <<>> /\ Head(events).kind = "op_count" /\ radio = "linked"
      /\ events' = T /\ m_pkt_type' = m_pkt_type /\ rx' = rx /\ m_dfu_state' = m_dfu_state
      /\ UNCHANGED <<pc, began, sent, radio, m_tear_down_in_progress, erred>> /\ Notify(n)
  BY DEF OpBytesReceived, OnCtrlPt, Handling, Running, peerState, linkVars, history, coreVars
<1>2. Typed /\ DataInv /\ LinkInv /\ EarlyInv /\ SessionInv /\ ChainInv /\ PrefixInv
  BY DEF Inv, Rest
<1>3. events \in Seq(EventType) /\ notes \in Seq(NoteType)
  BY <1>2 DEF Typed
<1>4. n \in NoteType
  <2>1. Received(rx) \in 0 .. Size
    BY <1>2, ReceivedIs, SizeNat
  <2> QED BY <2>1, ResponseTyped
<1>5. LinkInv'
  BY <1>1, <1>2, LinkHandled
<1>6. EarlyInv'
  <2> SUFFICES ASSUME m_dfu_state \in Early PROVE EarlyInv'
    BY <1>1 DEF EarlyInv
  <2>1. m_pkt_type # "data"
    BY <1>1, <1>2 DEF EarlyInv
  <2> QED BY <1>1, <1>2, <2>1, EarlyHandled
<1>7. ASSUME ~erred PROVE Ready(T, m_pkt_type') /\ Head(events).bytes = <<>>
  <2>1. Ready(events, m_pkt_type)
    BY <1>1, <1>2, <1>7 DEF ChainInv
  <2>2. Head(events).kind \notin {"op_start", "op_init", "op_complete", "op_receive", "packet"}
    BY <1>1
  <2> QED BY <1>1, <1>3, <2>1, <2>2, ReadyTail
<1>8. ChainInv'
  <2> SUFFICES ASSUME ~erred PROVE ChainInv'
    BY <1>1 DEF ChainInv
  <2> QED BY <1>1, <1>2, <1>7, ChainHandled
<1>9. PrefixInv'
  BY <1>1, <1>2 DEF PrefixInv
<1>10. SessionInv'
  <2> SUFFICES ASSUME Running', ~erred
               PROVE  /\ Exclusive(pc, T, notes')
                      /\ Staged(pc, T, notes', m_dfu_state, Received(rx), sent)
                      /\ (m_dfu_state = "idle" => Asks(pc, T, notes', began))
                      /\ Sends(pc, T, m_pkt_type')
    BY <1>1 DEF SessionInv
  <2>1. /\ Exclusive(pc, events, notes) /\ Sends(pc, events, m_pkt_type)
        /\ Staged(pc, events, notes, m_dfu_state, Received(rx), sent)
        /\ (m_dfu_state = "idle" => Asks(pc, events, notes, began))
    BY <1>1, <1>2 DEF SessionInv
  <2>2. /\ "op_count" \in Kinds(events) /\ Kinds(T) \subseteq {"packet"}
        /\ (HasData(T) => HasData(events)) /\ Kinds(T) \subseteq Kinds(events)
    BY <1>1, <1>3, <2>1, KindsTail DEF Exclusive
  <2>3. NoToken(pc, T, notes) /\ ~HasData(T)
    BY <2>1, <2>2 DEF Exclusive, NoToken, TokenOp
  <2>4. Exclusive(pc, T, notes) /\ Sends(pc, T, m_pkt_type')
        /\ Staged(pc, T, notes, m_dfu_state, Received(rx), sent)
    BY <1>1, <1>3, <2>1, SessionTail
  <2>5. NoteFits(n, m_dfu_state, Received(rx)) /\ n.proc = "count"
    BY <2>1, <2>2 DEF NoteFits, Note, Staged
  <2>6. notes' = Append(notes, n)
    <3>1. n # NoNote /\ "fault" \notin {"dfu", "leaving"}
      BY DEF Response, Note, NoNote
    <3> QED BY <1>1, <3>1 DEF Notify, Running
  <2> HIDE DEF T, n
  <2>7. Exclusive(pc, T, notes') /\ Staged(pc, T, notes', m_dfu_state, Received(rx), sent)
    BY <1>3, <1>4, <2>3, <2>4, <2>5, <2>6, SessionToken
  <2>8. ASSUME m_dfu_state = "idle" PROVE Asks(pc, T, notes', began)
    <3>1. /\ pc \in {"query", "count_wait"} /\ Kinds(events) \subseteq {"connected", "op_count"}
          /\ \A i \in 1 .. Len(notes) : notes[i].proc = "count"
      BY <2>1, <2>2, <2>8 DEF Asks, NoToken, TokenOp
    <3>2. \A i \in 1 .. Len(notes') : notes'[i] = n \/ \E j \in 1 .. Len(notes) : notes'[i] = notes[j]
      BY <1>3, <1>4, <2>6, NotesAppend
    <3>3. \A i \in 1 .. Len(notes') : notes'[i].proc = "count"
      BY <2>5, <3>1, <3>2
    <3> QED BY <2>2, <3>1, <3>3 DEF Asks
  <2> QED BY <2>4, <2>7, <2>8
<1> QED BY <1>5, <1>6, <1>8, <1>9, <1>10 DEF Rest

LEMMA DisconnectedRest ==
    ASSUME Inv, OnDisconnected PROVE Rest'
<1>1. /\ Running /\ events # <<>> /\ Head(events).kind = "disconnected" /\ events' = Tail(events)
      /\ rx' = [rx EXCEPT !.m_accum_buf = <<>>, !.m_accum_active = FALSE, !.mp_final_packet = NULL]
      /\ UNCHANGED <<pc, began, sent, m_tear_down_in_progress, erred, notes, m_pkt_type, m_dfu_state>>
      /\ (radio' = radio \/ (radio' = "advertising" /\ ~m_tear_down_in_progress))
  BY DEF OnDisconnected, Handling, Running, peerState, linkVars, history, coreVars
<1>2. Typed /\ DataInv /\ LinkInv /\ EarlyInv /\ SessionInv /\ ChainInv /\ PrefixInv
  BY DEF Inv, Rest
<1>3. events \in Seq(EventType) /\ notes \in Seq(NoteType)
  BY <1>2 DEF Typed
<1>4. Len(events) = 1 /\ radio # "linked"
  <2>1. Head(events) = events[1] /\ 1 \in 1 .. Len(events)
    BY <1>1, <1>3, TailIs
  <2> QED BY <1>1, <1>2, <2>1 DEF LinkInv
<1>5. events' = <<>>
  BY <1>1, <1>3, <1>4
<1>6. ~m_tear_down_in_progress => notes = <<>>
  BY <1>1, <1>2, <1>4 DEF LinkInv
<1>7. (Prefix(rx) => Prefix(rx')) /\ rx'.m_accum_buf = <<>> /\ Received(rx') \in Nat
  <2>1. /\ (Prefix(rx) => Prefix(rx')) /\ Received(rx') = Len(rx.given) /\ rx'.m_accum_buf = <<>>
    BY <1>1, <1>2, DataDropped DEF DataInv
  <2>2. rx.given \in Seq(Nat)
    BY <1>2 DEF DataInv, Data, KeptBy, RxType
  <2> QED BY <2>1, <2>2
<1>8. radio' # "linked"
  BY <1>1, <1>4
<1>9. LinkInv'
  <2>1. radio' = "advertising" => notes' = <<>>
    <3>1. radio # "advertising"
      BY <1>1, <1>2 DEF LinkInv
    <3> QED BY <1>1, <1>6, <3>1
  <2>2. \A i \in 1 .. Len(events') : FALSE
    BY <1>5
  <2> QED BY <1>1, <1>5, <1>6, <2>1, <2>2 DEF LinkInv
<1>10. EarlyInv'
  <2>1. Kinds(events') = {}
    BY <1>5 DEF Kinds
  <2> QED BY <1>1, <1>2, <1>7, <2>1 DEF EarlyInv
<1>11. SessionInv'
  BY <1>8 DEF SessionInv
<1>12. ChainInv'
  <2>1. Chain(events', Received(rx'), Received(rx')) /\ Ready(events', m_pkt_type')
    BY <1>5, <1>7, ChainNone, ReadyNone
  <2> QED BY <1>7, <1>8, <2>1 DEF ChainInv
<1>13. PrefixInv'
  BY <1>1, <1>2, <1>7 DEF PrefixInv
<1> QED BY <1>9, <1>10, <1>11, <1>12, <1>13 DEF Rest

\* The link is cut: the events that were left before.
Left(after) == Running =>
    /\ Kinds(after) \subseteq Kinds(events)
    /\ \A i \in 1 .. Len(after) : after[i].kind = "disconnected" => i = Len(after) /\ radio # "linked"
    /\ (~erred => Ready(after, m_pkt_type) /\ \E m \in Nat : Chain(after, Received(rx), m))

LEMMA LeftAll == Inv => Left(events)
  BY DEF Inv, Rest, Left, LinkInv, ChainInv

LEMMA LeftTail ==
    ASSUME Inv, Running, events # <<>>, Head(events).kind \in {"op_activate", "op_reset"}
    PROVE  Left(Tail(events)) /\ Tail(events) \in Seq(EventType)
<1> DEFINE T == Tail(events)
<1>1. Typed /\ DataInv /\ LinkInv /\ ChainInv /\ events \in Seq(EventType)
  BY DEF Inv, Rest, Typed
<1>2. Kinds(T) \subseteq Kinds(events) /\ T \in Seq(EventType)
  BY <1>1, KindsTail
<1>3. ASSUME NEW i \in 1 .. Len(T), T[i].kind = "disconnected"
      PROVE  i = Len(T) /\ radio # "linked"
  <2>1. /\ Len(events) \in Nat /\ Len(T) = Len(events) - 1
        /\ i + 1 \in 1 .. Len(events) /\ T[i] = events[i + 1]
    BY <1>1, TailIs
  <2>2. i + 1 = Len(events) /\ radio # "linked"
    BY <1>1, <1>3, <2>1 DEF LinkInv
  <2> DEFINE l == Len(events)
             k == Len(T)
  <2>3. l \in Nat /\ k = l - 1 /\ i + 1 = l /\ i \in 1 .. k
    BY <2>1, <2>2
  <2> HIDE DEF l, k
  <2>4. i = k
    BY <2>3
  <2> QED BY <2>2, <2>4 DEF k
<1>4. ASSUME ~erred
      PROVE  Ready(T, m_pkt_type) /\ \E m \in Nat : Chain(T, Received(rx), m)
  <2>1. Ready(events, m_pkt_type)
    BY <1>1, <1>4 DEF ChainInv
  <2>2. Head(events).kind \notin {"op_start", "op_init", "op_complete", "op_receive", "packet"}
    OBVIOUS
  <2>3. Ready(T, m_pkt_type) /\ Head(events).bytes = <<>>
    BY <1>1, <2>1, <2>2, ReadyTail
  <2>4. PICK m \in Nat : Chain(events, Received(rx), m)
    BY <1>1, <1>4 DEF ChainInv
  <2>5. Len(Head(events).bytes) = 0 /\ Received(rx) + 0 = Received(rx)
    BY <1>1, <2>3, ReceivedIs
  <2>6. Chain(T, Received(rx) + Len(Head(events).bytes), m)
    BY <1>1, <2>4, ChainTail
  <2> QED BY <2>3, <2>5, <2>6
<1> QED BY <1>2, <1>3, <1>4 DEF Left

LEMMA CutRest ==
    ASSUME Inv, NEW after \in Seq(EventType), Left(after), Running' => Running, radio' = "idle",
           notes' = <<>> \/ m_tear_down_in_progress',
           \/ events' = after
           \/ radio = "linked" /\ events' = Append(after, Event("disconnected", <<>>)),
           UNCHANGED <<began, m_pkt_type, rx, m_dfu_state, erred>>
    PROVE  Rest'
<1> DEFINE e == Event("disconnected", <<>>)
<1>1. Typed /\ DataInv /\ LinkInv /\ EarlyInv /\ SessionInv /\ ChainInv /\ PrefixInv
  BY DEF Inv, Rest
<1>2. e \in EventType /\ e.kind = "disconnected" /\ e.bytes = <<>>
  BY DEF Event, EventType, EventKinds
<1> HIDE DEF e
<1>3. PrefixInv' /\ SessionInv'
  BY <1>1 DEF PrefixInv, SessionInv
<1>4. ASSUME Running PROVE Kinds(events') \subseteq Kinds(events) \cup {"disconnected"}
  <2>1. Kinds(after) \subseteq Kinds(events)
    BY <1>4 DEF Left
  <2>2. Kinds(Append(after, e)) = Kinds(after) \cup {e.kind}
    BY <1>2, KindsAppend
  <2> QED BY <1>2, <2>1, <2>2 DEF e
<1>5. LinkInv'
  <2>1. ASSUME Running, NEW i \in 1 .. Len(events'), events'[i].kind = "disconnected"
        PROVE  i = Len(events')
    <3>1. CASE events' = after
      BY <2>1, <3>1 DEF Left
    <3>2. CASE radio = "linked" /\ events' = Append(after, e)
      <4>1. \A j \in 1 .. Len(after) : after[j].kind # "disconnected"
        BY <2>1, <3>2 DEF Left
      <4>2. /\ Len(events') = Len(after) + 1 /\ (i \in 1 .. Len(after) \/ i = Len(after) + 1)
            /\ \A j \in 1 .. Len(after) : events'[j] = after[j]
        BY <1>2, <3>2, AppendIs
      <4> QED BY <2>1, <4>1, <4>2
    <3> QED BY <3>1, <3>2 DEF e
  <2>2. radio' # "advertising" /\ radio' # "linked" /\ (Running' => Running)
        /\ (notes' = <<>> \/ m_tear_down_in_progress')
    OBVIOUS
  <2> QED BY <2>1, <2>2 DEF LinkInv
<1>6. EarlyInv'
  BY <1>1, <1>4 DEF EarlyInv
<1>7. ChainInv'
  <2> SUFFICES ASSUME Running, ~erred
               PROVE  Ready(events', m_pkt_type) /\ \E m \in Nat : Chain(events', Received(rx), m)
    BY DEF ChainInv
  <2>1. Ready(after, m_pkt_type)
    BY DEF Left
  <2>2. PICK m \in Nat : Chain(after, Received(rx), m)
    BY DEF Left
  <2>3. CASE events' = after
    BY <2>1, <2>2, <2>3
  <2>4. CASE events' = Append(after, e)
    <3>1. Ready(Append(after, e), m_pkt_type)
      BY <1>2, <2>1, ReadyAppend
    <3>2. Follows(e.bytes, m) /\ Len(e.bytes) = 0 /\ m + 0 = m
      BY <1>2 DEF Follows
    <3>3. Chain(Append(after, e), Received(rx), m + Len(e.bytes))
      BY <1>2, <2>2, <3>2, ChainAppend
    <3> QED BY <2>4, <3>1, <3>2, <3>3
  <2> QED BY <2>3, <2>4 DEF e
<1> QED BY <1>3, <1>5, <1>6, <1>7 DEF Rest

LEMMA CloseRest ==
    ASSUME Inv, NEW after \in Seq(EventType), Left(after), Running, NEW ending,
           dfu_transport_ble_close(after, ending),
           UNCHANGED <<began, m_pkt_type, rx, m_dfu_state, erred>>
    PROVE  Rest'
<1>1. CASE mode' = "fault"
  BY <1>1, FaultRest
<1>2. CASE mode' # "fault"
  <2>1. /\ radio' = "idle" /\ m_tear_down_in_progress' = TRUE
        /\ \/ events' = after
           \/ radio = "linked" /\ events' = Append(after, Event("disconnected", <<>>))
    BY <1>2 DEF dfu_transport_ble_close
  <2> QED BY <2>1, CutRest
<1> QED BY <1>1, <1>2

LEMMA ActivateRest ==
    ASSUME Inv, OpActivate PROVE Rest'
<1> DEFINE ending == IF m_dfu_state = "wait_activate" THEN "activated" ELSE "leaving"
<1>1. /\ Running /\ events # <<>> /\ Head(events).kind \in {"op_activate", "op_reset"}
      /\ dfu_transport_ble_close(Tail(events), ending)
      /\ UNCHANGED <<began, m_pkt_type, rx, m_dfu_state, erred>>
  BY DEF OpActivate, OnCtrlPt, Handling, Running, coreVars, history
<1> HIDE DEF ending
<1> QED BY <1>1, LeftTail, CloseRest

LEMMA ResetRest ==
    ASSUME Inv, OpSysReset PROVE Rest'
<1> DEFINE ending == "leaving"
<1>1. /\ Running /\ events # <<>> /\ Head(events).kind \in {"op_activate", "op_reset"}
      /\ dfu_transport_ble_close(Tail(events), ending)
      /\ UNCHANGED <<began, m_pkt_type, rx, m_dfu_state, erred>>
  BY DEF OpSysReset, OnCtrlPt, Handling, Running, coreVars, history
<1> HIDE DEF ending
<1> QED BY <1>1, LeftTail, CloseRest

LEMMA TimeoutRest ==
    ASSUME Inv, DfuTimeout PROVE Rest'
<1> DEFINE ending == "leaving"
<1>1. /\ Running /\ dfu_transport_ble_close(events, ending)
      /\ UNCHANGED <<began, m_pkt_type, rx, m_dfu_state, erred>>
  BY DEF DfuTimeout, Running, history
<1>2. events \in Seq(EventType) /\ Left(events)
  BY LeftAll DEF Inv, Typed
<1> HIDE DEF ending
<1> QED BY <1>1, <1>2, CloseRest

LEMMA LostRest ==
    ASSUME Inv, LinkLost PROVE Rest'
<1>1. /\ radio = "linked" /\ radio' = "idle" /\ events' = Append(events, Event("disconnected", <<>>))
      /\ notes' = <<>> /\ mode' = mode /\ UNCHANGED <<began, m_pkt_type, rx, m_dfu_state, erred>>
  BY DEF LinkLost, deviceVars, coreVars, history
<1>2. events \in Seq(EventType) /\ Left(events) /\ (Running' => Running)
  BY <1>1, LeftAll DEF Inv, Typed, Running
<1> QED BY <1>1, <1>2, CutRest

LEMMA EraseRest ==
    ASSUME Inv, EraseDone PROVE Rest'
<1> DEFINE n == Response("start", "SUCCESS")
<1>1. /\ Running /\ m_dfu_state = "preparing" /\ m_dfu_state' = "rdy" /\ Notify(n)
      /\ UNCHANGED <<pc, began, sent, radio, events, m_tear_down_in_progress, m_pkt_type, rx, erred>>
  BY DEF EraseDone, Running, peerVars, linkVars, history
<1>2. Typed /\ DataInv /\ LinkInv /\ EarlyInv /\ SessionInv /\ ChainInv /\ PrefixInv
  BY DEF Inv, Rest
<1>3. events \in Seq(EventType) /\ notes \in Seq(NoteType) /\ n \in NoteType
  BY <1>2, ResponseTyped DEF Typed
<1>4. ~erred /\ m_pkt_type # "data" /\ rx.m_accum_buf = <<>> /\ "op_receive" \notin Kinds(events) /\ ~began
  BY <1>1, <1>2 DEF EarlyInv, Early
<1>5. Running' => radio = "linked" /\ notes' = Append(notes, n)
  <2>1. n # NoNote /\ "fault" \notin {"dfu", "leaving"}
    BY DEF Response, Note, NoNote
  <2> HIDE DEF n
  <2> QED BY <1>1, <2>1 DEF Notify, Running
<1>6. EarlyInv'
  BY <1>1, <1>4 DEF EarlyInv
<1>7. LinkInv'
  BY <1>1, <1>2, <1>5 DEF LinkInv
<1>8. PrefixInv' /\ ChainInv'
  BY <1>1, <1>2 DEF PrefixInv, ChainInv
<1>9. SessionInv'
  <2> SUFFICES ASSUME Running'
               PROVE  /\ Exclusive(pc, events, notes')
                      /\ Staged(pc, events, notes', "rdy", Received(rx), sent)
                      /\ Sends(pc, events, m_pkt_type)
    BY <1>1 DEF SessionInv
  <2>1. /\ Exclusive(pc, events, notes) /\ Sends(pc, events, m_pkt_type)
        /\ Staged(pc, events, notes, "preparing", Received(rx), sent)
    BY <1>1, <1>2, <1>4, <1>5 DEF SessionInv
  <2>2. NoToken(pc, events, notes)
    <3>1. pc \notin TokenPc /\ Kinds(events) \cap TokenOp = {}
      BY <2>1 DEF Staged, TokenPc, TokenOp, Starting, Initing, Late
    <3>2. \A i \in 1 .. Len(notes) : NoteFits(notes[i], "preparing", Received(rx))
      BY <2>1 DEF Staged
    <3>3. ~HasToken(notes)
      BY <3>2 DEF HasToken, Token, NoteFits, Starting, Initing, Late
    <3> QED BY <3>1, <3>3 DEF NoToken
  <2>3. ~HasData(events)
    <3>1. Ready(events, m_pkt_type)
      BY <1>1, <1>2, <1>4 DEF ChainInv
    <3> QED BY <1>3, <1>4, <3>1, ReadyHasData
  <2>4. NoteFits(n, "rdy", Received(rx))
    BY DEF NoteFits, Response, Note, Initing
  <2>5. Staged(pc, events, notes, "rdy", Received(rx), sent)
    BY <2>2, StagedNoToken
  <2> HIDE DEF n
  <2> QED BY <1>3, <1>5, <2>1, <2>2, <2>3, <2>4, <2>5, SessionToken
<1> QED BY <1>6, <1>7, <1>8, <1>9 DEF Rest

LEMMA StoreRest ==
    ASSUME Inv, StoreDone PROVE Rest'
<1>1. /\ Running /\ rx.stores # <<>> /\ m_dfu_state' = m_dfu_state
      /\ UNCHANGED <<pc, began, sent, radio, events, m_tear_down_in_progress, m_pkt_type, erred>>
  BY DEF StoreDone, Running, peerVars, linkVars, coreVars
<1>2. Typed /\ DataInv /\ LinkInv /\ EarlyInv /\ SessionInv /\ ChainInv /\ PrefixInv
  BY DEF Inv, Rest
<1>3. events \in Seq(EventType) /\ notes \in Seq(NoteType)
  BY <1>2 DEF Typed
<1>4. (Prefix(rx) => Prefix(rx')) /\ Received(rx') = Received(rx)
  BY <1>2, StoreTyped
<1>5. m_dfu_state \notin Early
  BY <1>1, <1>2 DEF DataInv, Data, KeptBy, Fresh
<1>6. \/ notes' = notes
      \/ radio = "linked" /\ \E n \in NoteType : ~Token(n) /\ notes' = Append(notes, n)
  <2>1. \/ notes' = notes \/ Notify(NoNote) \/ Notify(Response("receive", "SUCCESS"))
    BY DEF StoreDone, DataStored
  <2>2. Notify(NoNote) => notes' = notes
    BY DEF Notify
  <2> QED BY <2>1, <2>2, ResponseTyped, QuietResponse, NotifyQuiet
<1>7. EarlyInv'
  BY <1>1, <1>5 DEF EarlyInv
<1>8. LinkInv'
  BY <1>1, <1>2, <1>6 DEF LinkInv
<1>9. PrefixInv' /\ ChainInv'
  BY <1>1, <1>2, <1>4 DEF PrefixInv, ChainInv
<1>10. SessionInv'
  <2> SUFFICES ASSUME ~erred, radio = "linked"
               PROVE  /\ Exclusive(pc, events, notes')
                      /\ Staged(pc, events, notes', m_dfu_state, Received(rx), sent)
                      /\ Sends(pc, events, m_pkt_type)
    BY <1>1, <1>4, <1>5 DEF SessionInv, Early
  <2>1. /\ Exclusive(pc, events, notes) /\ Sends(pc, events, m_pkt_type)
        /\ Staged(pc, events, notes, m_dfu_state, Received(rx), sent)
    BY <1>1, <1>2 DEF SessionInv
  <2> QED BY <1>3, <1>6, <2>1, SessionNote
<1> QED BY <1>7, <1>8, <1>9, <1>10 DEF Rest

LEMMA RestartRest ==
    ASSUME Inv, Restart PROVE Rest'
<1>1. /\ radio' = "advertising" /\ events' = <<>> /\ notes' = <<>> /\ m_pkt_type' = "invalid"
      /\ rx' = NoData /\ m_dfu_state' = "idle" /\ erred' = FALSE
  BY DEF Restart
<1>2. Received(rx') = 0 /\ Prefix(rx') /\ rx'.m_accum_buf = <<>>
  BY <1>1 DEF NoData, Received, Prefix
<1>3. Kinds(events') = {} /\ \A i \in 1 .. Len(events') : FALSE
  BY <1>1 DEF Kinds
<1>4. Chain(events', 0, 0) /\ Ready(events', m_pkt_type')
  BY <1>1, ChainNone, ReadyNone
<1>5. LinkInv' /\ EarlyInv' /\ SessionInv' /\ PrefixInv'
  BY <1>1, <1>2, <1>3 DEF LinkInv, EarlyInv, SessionInv, PrefixInv
<1>6. ChainInv'
  BY <1>1, <1>2, <1>4 DEF ChainInv
<1> QED BY <1>5, <1>6 DEF Rest

LEMMA InitRest == Init => Rest
<1> SUFFICES ASSUME Init PROVE Rest
  OBVIOUS
<1>1. /\ radio = "advertising" /\ events = <<>> /\ notes = <<>> /\ m_pkt_type = "invalid"
      /\ rx = NoData /\ m_dfu_state = "idle" /\ erred = FALSE
  BY DEF Init
<1>2. Received(rx) = 0 /\ Prefix(rx) /\ rx.m_accum_buf = <<>>
  BY <1>1 DEF NoData, Received, Prefix
<1>3. Kinds(events) = {} /\ \A i \in 1 .. Len(events) : FALSE
  BY <1>1 DEF Kinds
<1>4. Chain(events, 0, 0) /\ Ready(events, m_pkt_type)
  BY <1>1, ChainNone, ReadyNone
<1>5. LinkInv /\ EarlyInv /\ SessionInv /\ PrefixInv
  BY <1>1, <1>2, <1>3 DEF LinkInv, EarlyInv, SessionInv, PrefixInv
<1>6. ChainInv
  BY <1>1, <1>2, <1>4 DEF ChainInv
<1> QED BY <1>5, <1>6 DEF Rest

\* More is received while no notification counts it.
LEMMA StagedCount ==
    ASSUME NEW E, NEW p, NEW N, NEW state, NEW count, NEW out, NEW c2,
           Exclusive(p, E, N), HasData(E), Staged(p, E, N, state, count, out)
    PROVE  Staged(p, E, N, state, c2, out)
<1>1. ~HasToken(N) /\ p \notin {"prn", "receive"}
  BY DEF Exclusive, TokenPc
<1>2. \A i \in 1 .. Len(N) : NoteFits(N[i], state, c2)
  BY <1>1 DEF HasToken, Token, NoteFits
<1> QED BY <1>1, <1>2 DEF Staged

LEMMA DataPacketRest ==
    ASSUME Inv, OnDataPacket PROVE Rest'
<1> DEFINE T == Tail(events)
           bytes == Head(events).bytes
<1>1. /\ Running /\ events # <<>> /\ Head(events).kind = "packet" /\ m_pkt_type = "data"
      /\ events' = T /\ m_pkt_type' = m_pkt_type /\ m_dfu_state' = m_dfu_state
      /\ UNCHANGED <<pc, began, sent, radio, m_tear_down_in_progress>>
  BY DEF OnDataPacket, Handling, Running, peerState, linkVars, coreVars
<1>2. Typed /\ DataInv /\ LinkInv /\ EarlyInv /\ SessionInv /\ ChainInv /\ PrefixInv
  BY DEF Inv, Rest
<1>3. events \in Seq(EventType) /\ notes \in Seq(NoteType)
  BY <1>2 DEF Typed
<1>4. m_dfu_state \notin Early
  BY <1>1, <1>2 DEF EarlyInv
<1>5. PICK note : /\ note = NoNote \/ ReceiptNote(note) \/ ErrorNote(note)
                  /\ Notify(note)
                  /\ (ErrorNote(note) => erred') /\ (~ErrorNote(note) => erred' = erred)
                  /\ (~ErrorNote(note) =>
                        /\ Received(rx') = Received(rx) + Len(bytes)
                        /\ (Prefix(rx) /\ Follows(bytes, Received(rx)) => Prefix(rx')))
  BY <1>2, DataPacketDoes
<1> HIDE DEF bytes
<1>6. LinkInv'
  <2>1. notes' = notes \/ radio = "linked"
    BY <1>5 DEF Notify
  <2> QED BY <1>1, <1>2, <2>1, LinkHandled
<1>7. EarlyInv'
  BY <1>1, <1>4 DEF EarlyInv
<1>8. CASE ErrorNote(note)
  <2>1. erred'
    BY <1>5, <1>8
  <2> QED BY <1>6, <1>7, <2>1 DEF Rest, SessionInv, ChainInv, PrefixInv
<1>9. CASE ~ErrorNote(note)
  <2>1. /\ erred' = erred /\ Received(rx') = Received(rx) + Len(bytes)
        /\ (Prefix(rx) /\ Follows(bytes, Received(rx)) => Prefix(rx'))
    BY <1>5, <1>9
  <2>2. CASE erred
    BY <1>6, <1>7, <2>1, <2>2 DEF Rest, SessionInv, ChainInv, PrefixInv
  <2>3. CASE ~erred
    <3>1. PICK m \in Nat : Chain(events, Received(rx), m) /\ (radio = "linked" /\ pc = "data" => m = sent)
      BY <1>1, <1>2, <2>3 DEF ChainInv
    <3>2. Follows(bytes, Received(rx)) /\ Chain(T, Received(rx) + Len(bytes), m)
      BY <1>1, <1>3, <3>1, ChainTail DEF bytes
    <3>3. PrefixInv'
      BY <1>2, <2>1, <2>3, <3>2 DEF PrefixInv
    <3>4. Ready(T, m_pkt_type')
      <4>1. Ready(events, m_pkt_type)
        BY <1>1, <1>2, <2>3 DEF ChainInv
      <4>2. Head(events).kind \notin {"op_start", "op_init", "op_complete", "op_receive"}
        BY <1>1
      <4> QED BY <1>1, <1>3, <4>1, <4>2, ReadyTail
    <3>5. ChainInv'
      BY <1>1, <2>1, <3>1, <3>2, <3>4 DEF ChainInv
    <3>6. SessionInv'
      <4> SUFFICES ASSUME radio = "linked"
                   PROVE  /\ Exclusive(pc, T, notes')
                          /\ Staged(pc, T, notes', m_dfu_state, Received(rx'), sent)
                          /\ Sends(pc, T, m_pkt_type)
        BY <1>1, <1>4 DEF SessionInv, Early
      <4>1. /\ Exclusive(pc, events, notes) /\ Sends(pc, events, m_pkt_type)
            /\ Staged(pc, events, notes, m_dfu_state, Received(rx), sent)
        BY <1>1, <1>2, <2>3 DEF SessionInv
      <4>2. Staged(pc, events, notes, m_dfu_state, Received(rx'), sent)
        <5>1. CASE bytes = <<>>
          <6>1. Received(rx') = Received(rx)
            <7>1. Len(bytes) = 0 /\ Received(rx) \in Nat
              BY <1>2, <5>1, ReceivedIs
            <7> QED BY <2>1, <7>1
          <6> QED BY <4>1, <6>1
        <5>2. CASE bytes # <<>>
          <6>1. HasData(events)
            BY <1>1, <1>3, <5>2, KindsTail DEF bytes
          <6> QED BY <4>1, <6>1, StagedCount
        <5> QED BY <5>1, <5>2
      <4>3. /\ Exclusive(pc, T, notes) /\ Sends(pc, T, m_pkt_type)
            /\ Staged(pc, T, notes, m_dfu_state, Received(rx'), sent)
        BY <1>1, <1>3, <4>1, <4>2, SessionTail
      <4>4. \/ notes' = notes
            \/ \E n \in NoteType : ~Token(n) /\ notes' = Append(notes, n)
        <5>1. CASE note = NoNote
          BY <1>5, <5>1 DEF Notify
        <5>2. CASE ReceiptNote(note)
          <6>1. note \in NoteType /\ ~Token(note)
            BY <5>2 DEF ReceiptNote, Token
          <6> QED BY <1>5, <6>1, NotifyQuiet
        <5> QED BY <1>5, <1>9, <5>1, <5>2
      <4> HIDE DEF T
      <4> QED BY <1>3, <4>3, <4>4, SessionNote
    <3> QED BY <1>6, <1>7, <3>3, <3>5, <3>6 DEF Rest
  <2> QED BY <2>2, <2>3
<1> QED BY <1>8, <1>9

LEMMA NoNotes == ~HasToken(<<>>) /\ OneToken(<<>>)
  BY DEF HasToken, OneToken

\* Nothing but the events at hand: the bytes lead nowhere.
LEMMA ChainIdle ==
    ASSUME NEW E \in Seq(EventType), NEW n \in Nat, ~HasData(E)
    PROVE  Chain(E, n, n)
<1> DEFINE at == [i \in 0 .. Len(E) |-> n]
<1>1. Len(E) \in Nat /\ \A i \in 1 .. Len(E) : E[i].bytes = <<>>
  BY DEF HasData
<1>2. /\ at \in [0 .. Len(E) -> Nat] /\ at[0] = n /\ at[Len(E)] = n
      /\ \A i \in 1 .. Len(E) : at[i] = n /\ at[i - 1] = n
  BY <1>1
<1> HIDE DEF at
<1>3. \A i \in 1 .. Len(E) : Len(E[i].bytes) = 0 /\ Follows(E[i].bytes, n) /\ n + 0 = n
  BY <1>1 DEF Follows
<1>4. Chained(E, n, n, at)
  BY <1>2, <1>3 DEF Chained
<1> QED BY <1>4 DEF Chain

LEMMA ConnectsRest ==
    ASSUME Inv, PeerConnects PROVE Rest'
<1> DEFINE e == Event("connected", <<>>)
<1>1. /\ radio = "advertising" /\ radio' = "linked" /\ events' = Append(events, e)
      /\ pc' = (IF began THEN "query" ELSE "start")
      /\ UNCHANGED <<began, sent, notes, mode, m_pkt_type, rx, m_dfu_state, erred>>
  BY DEF PeerConnects, deviceVars, coreVars, history
<1>2. Typed /\ DataInv /\ LinkInv /\ EarlyInv /\ SessionInv /\ ChainInv /\ PrefixInv
  BY DEF Inv, Rest
<1>3. PrefixInv'
  BY <1>1, <1>2 DEF PrefixInv
<1>4. CASE ~Running
  <2>1. ~Running'
    BY <1>1, <1>4 DEF Running
  <2> QED BY <1>3, <2>1 DEF Rest, LinkInv, EarlyInv, SessionInv, ChainInv
<1>5. CASE Running
  <2>1. events = <<>> /\ notes = <<>>
    BY <1>1, <1>2, <1>5 DEF LinkInv
  <2>2. events \in Seq(EventType) /\ e \in EventType /\ e.kind = "connected" /\ e.bytes = <<>>
    BY <1>2 DEF Typed, Event, EventType, EventKinds
  <2> HIDE DEF e
  <2>3. Kinds(events) = {} /\ ~HasData(events) /\ OneCtrl(events)
    BY <2>1 DEF Kinds, HasData, OneCtrl
  <2>4. Kinds(events') = {"connected"} /\ ~HasData(events') /\ OneCtrl(events')
    BY <1>1, <2>2, <2>3, KindsAppend
  <2>5. events' \in Seq(EventType)
    BY <1>1, <2>2
  <2>6. LinkInv'
    <3>1. \A i \in 1 .. Len(events') : events'[i].kind # "disconnected"
      BY <2>4 DEF Kinds
    <3> QED BY <1>1, <3>1 DEF LinkInv
  <2>7. EarlyInv'
    BY <1>1, <1>2, <1>5, <2>4 DEF EarlyInv
  <2>8. ASSUME m_dfu_state \in Starting PROVE ~began
    BY <1>2, <1>5, <2>8 DEF EarlyInv, Early, Starting
  <2>9. SessionInv'
    <3>1. Exclusive(pc', events', notes')
      BY <1>1, <2>1, <2>4, NoNotes DEF Exclusive, TokenOp
    <3>2. Staged(pc', events', notes', m_dfu_state', Received(rx'), sent')
      <4>1. \A i \in 1 .. Len(notes') : FALSE
        BY <1>1, <2>1
      <4>2. pc' \notin {"init", "init_pkt", "init_done", "prn", "receive", "data"}
            /\ (pc' = "query" => m_dfu_state' \notin Starting)
        BY <1>1, <2>8
      <4> QED BY <2>4, <4>1, <4>2 DEF Staged
    <3>3. Asks(pc', events', notes', began')
      <4>1. CASE began
        <5>1. \A i \in 1 .. Len(notes') : FALSE
          BY <1>1, <2>1
        <5> QED BY <1>1, <2>4, <4>1, <5>1 DEF Asks
      <4>2. CASE ~began
        BY <1>1, <2>1, <2>4, <4>2, NoNotes DEF Asks, NoToken, TokenPc, TokenOp
      <4> QED BY <4>1, <4>2
    <3>4. Sends(pc', events', m_pkt_type')
      BY <1>1 DEF Sends
    <3> QED BY <3>1, <3>2, <3>3, <3>4 DEF SessionInv
  <2>10. ChainInv'
    <3>1. Chain(events', Received(rx'), Received(rx')) /\ Received(rx') \in Nat
      BY <1>1, <1>2, <2>4, <2>5, ReceivedIs, ChainIdle
    <3>2. Ready(events', m_pkt_type') /\ pc' # "data"
      BY <1>1, <2>4, ReadyNone
    <3> QED BY <3>1, <3>2 DEF ChainInv
  <2> QED BY <1>3, <2>6, <2>7, <2>9, <2>10 DEF Rest
<1> QED BY <1>4, <1>5

\* The steps of the controller: which keep the token, and which pass it on.
LEMMA ScriptPasses ==
    ASSUME NEW p \in DOMAIN Script, NEW k, NEW q, k = Script[p].event, q = Script[p].next
    PROVE  /\ p \notin {"data", "count_wait"} /\ k \in EventKinds /\ k # "disconnected"
           /\ (q \in TokenPc => p \in {"init", "init_pkt", "prn", "receive"})
           /\ (q \in TokenPc => k \notin TokenOp)
           /\ (k \in TokenOp => p \in {"query", "init_done"})
           /\ (k = "op_count" <=> p = "query") /\ (k = "op_complete" <=> p = "init_done")
           /\ (k = "op_receive" <=> p = "receive") /\ (q = "data" <=> p = "receive")
           /\ (k = "packet" => p \in {"start_pkt", "init_pkt"})
           /\ q # "query" /\ (q \in {"init", "init_pkt", "init_done"} => p \in {"init", "init_pkt"})
           /\ (q = "receive" <=> p = "prn") /\ q # "prn" /\ (p = "query" => q = "count_wait")
  BY DEF Script, EventKinds, TokenPc, TokenOp

LEMMA WritesSession ==
    ASSUME NEW p \in DOMAIN Script, NEW E \in Seq(EventType), Kinds(E) \subseteq {"packet"},
           NEW N, NEW e \in EventType, NEW q,
           e = Event(Script[p].event, <<>>), q = Script[p].next
    PROVE  /\ (Exclusive(p, E, N) => Exclusive(q, Append(E, e), N))
           /\ \A state, count, out :
                 Staged(p, E, N, state, count, out) => Staged(q, Append(E, e), N, state, count, out)
           /\ \A b : Asks(p, E, N, b) => Asks(q, Append(E, e), N, b)
           /\ \A t : Sends(q, Append(E, e), t)
<1> DEFINE A == Append(E, e)
           k == e.kind
<1>1. e.bytes = <<>> /\ k = Script[p].event
  BY DEF Event
<1>2. /\ Kinds(A) = Kinds(E) \cup {k} /\ (HasData(A) => HasData(E))
      /\ (OneCtrl(E) => OneCtrl(A))
  BY <1>1, KindsAppend
<1> HIDE DEF A, k
<1>3. /\ p \notin {"data", "count_wait"}
      /\ (q \in TokenPc => p \in {"init", "init_pkt", "prn", "receive"})
      /\ (q \in TokenPc => k \notin TokenOp)
      /\ (k \in TokenOp => p \in {"query", "init_done"})
      /\ (k = "op_count" <=> p = "query") /\ (k = "op_complete" <=> p = "init_done")
      /\ (k = "op_receive" <=> p = "receive") /\ (q = "data" <=> p = "receive")
      /\ q # "query" /\ (q \in {"init", "init_pkt", "init_done"} => p \in {"init", "init_pkt"})
      /\ (q = "receive" <=> p = "prn") /\ q # "prn" /\ (p = "query" => q = "count_wait")
  BY <1>1, ScriptPasses
<1>4. {"init", "init_pkt", "prn", "receive", "query", "init_done"} \subseteq TokenPc /\ "packet" \notin TokenOp
  BY DEF TokenPc, TokenOp
<1>5. Exclusive(p, E, N) => Exclusive(q, A, N)
  BY <1>2, <1>3, <1>4 DEF Exclusive
<1>6. \A state, count, out : Staged(p, E, N, state, count, out) => Staged(q, A, N, state, count, out)
  <2> SUFFICES ASSUME NEW state, NEW count, NEW out, Staged(p, E, N, state, count, out)
               PROVE  Staged(q, A, N, state, count, out)
    OBVIOUS
  <2>1. /\ (q \in {"init", "init_pkt", "init_done"} => state \in Initing)
        /\ (q \in {"prn", "receive", "data"} => state \in Late)
        /\ (q \in {"prn", "receive"} => out = count)
    BY <1>3 DEF Staged
  <2>2. /\ ("op_count" \in Kinds(A) => state \notin Starting)
        /\ ("op_complete" \in Kinds(A) => state \in Initing)
    BY <1>2, <1>3 DEF Staged
  <2> QED BY <1>3, <2>1, <2>2 DEF Staged
<1>7. \A b : Asks(p, E, N, b) => Asks(q, A, N, b)
  <2> SUFFICES ASSUME NEW b, Asks(p, E, N, b) PROVE Asks(q, A, N, b)
    OBVIOUS
  <2>1. CASE p = "query" /\ Kinds(E) \subseteq {"connected", "op_count"}
             /\ \A i \in 1 .. Len(N) : N[i].proc = "count"
    BY <1>2, <1>3, <2>1 DEF Asks
  <2>2. CASE NoToken(p, E, N) /\ ~b
    <3>1. NoToken(q, A, N)
      BY <1>2, <1>3, <1>4, <2>2 DEF NoToken
    <3> QED BY <2>2, <3>1 DEF Asks
  <2> QED BY <1>3, <2>1, <2>2 DEF Asks
<1>8. \A t : Sends(q, A, t)
  BY <1>2, <1>3 DEF Sends
<1> QED BY <1>5, <1>6, <1>7, <1>8 DEF A

LEMMA WritesRest ==
    ASSUME Inv, PeerWrites PROVE Rest'
<1> DEFINE e == Event(Script[pc].event, <<>>)
           k == e.kind
<1>1. /\ pc \in DOMAIN Script /\ radio = "linked" /\ Answered /\ events' = Append(events, e)
      /\ pc' = Script[pc].next /\ began' = (began \/ pc = "receive")
      /\ UNCHANGED <<sent, notes, radio, mode, m_tear_down_in_progress, m_pkt_type, rx, m_dfu_state, erred>>
  BY DEF PeerWrites, deviceVars, linkVars, coreVars, history
<1>2. Typed /\ DataInv /\ LinkInv /\ EarlyInv /\ SessionInv /\ ChainInv /\ PrefixInv
  BY DEF Inv, Rest
<1>3. /\ e.bytes = <<>> /\ k = Script[pc].event /\ k # "disconnected" /\ e \in EventType
      /\ (k = "op_receive" <=> pc = "receive") /\ (pc' = "data" <=> pc = "receive")
      /\ (k = "packet" => pc \in {"start_pkt", "init_pkt"}) /\ pc \notin {"data", "count_wait"}
  <2>1. k = Script[pc].event /\ e.bytes = <<>>
    BY DEF Event
  <2>2. /\ k # "disconnected" /\ k \in EventKinds
        /\ (k = "op_receive" <=> pc = "receive") /\ (pc' = "data" <=> pc = "receive")
        /\ (k = "packet" => pc \in {"start_pkt", "init_pkt"}) /\ pc \notin {"data", "count_wait"}
    BY <1>1, <2>1, ScriptPasses
  <2>3. e \in EventType
    BY <2>1, <2>2 DEF Event, EventType
  <2> QED BY <2>1, <2>2, <2>3
<1>4. events \in Seq(EventType) /\ Kinds(events) \subseteq {"packet"}
  BY <1>1, <1>2, KindsAnswered DEF Typed
<1>5. Kinds(events') = Kinds(events) \cup {k} /\ (HasData(events') => HasData(events))
  BY <1>1, <1>3, <1>4, KindsAppend
<1>6. PrefixInv'
  BY <1>1, <1>2 DEF PrefixInv
<1>7. LinkInv'
  <2> HIDE DEF e, k
  <2>1. \A i \in 1 .. Len(events') : events'[i].kind # "disconnected"
    BY <1>3, <1>4, <1>5 DEF Kinds
  <2> QED BY <1>1, <2>1 DEF LinkInv
<1>8. SessionInv'
  <2> SUFFICES ASSUME Running, ~erred
               PROVE  /\ Exclusive(pc', events', notes)
                      /\ Staged(pc', events', notes, m_dfu_state, Received(rx), sent)
                      /\ (m_dfu_state = "idle" => Asks(pc', events', notes, began'))
                      /\ Sends(pc', events', m_pkt_type)
    BY <1>1 DEF SessionInv, Running
  <2>1. /\ Exclusive(pc, events, notes)
        /\ Staged(pc, events, notes, m_dfu_state, Received(rx), sent)
        /\ (m_dfu_state = "idle" => Asks(pc, events, notes, began))
    BY <1>1, <1>2 DEF SessionInv
  <2>2. m_dfu_state = "idle" => began' = began
    <3>1. m_dfu_state = "idle" => pc # "receive"
      BY <2>1 DEF Staged, Late
    <3>2. began \in BOOLEAN
      BY <1>2 DEF Typed
    <3> QED BY <1>1, <3>1, <3>2
  <2>3. /\ (Exclusive(pc, events, notes) => Exclusive(pc', events', notes))
        /\ \A state, count, out :
              Staged(pc, events, notes, state, count, out) => Staged(pc', events', notes, state, count, out)
        /\ \A b : Asks(pc, events, notes, b) => Asks(pc', events', notes, b)
        /\ \A t : Sends(pc', events', t)
    BY <1>1, <1>3, <1>4, WritesSession
  <2> HIDE DEF e, k
  <2> QED BY <2>1, <2>2, <2>3
<1>9. EarlyInv'
  <2> SUFFICES ASSUME Running, m_dfu_state \in Early
               PROVE  /\ ~erred /\ m_pkt_type # "data" /\ rx.m_accum_buf = <<>>
                      /\ "op_receive" \notin Kinds(events')
                      /\ (m_dfu_state # "idle" \/ "packet" \in Kinds(events') => ~began')
    BY <1>1 DEF EarlyInv, Running
  <2>1. /\ ~erred /\ m_pkt_type # "data" /\ rx.m_accum_buf = <<>>
        /\ (m_dfu_state # "idle" \/ "packet" \in Kinds(events) => ~began)
    BY <1>2 DEF EarlyInv
  <2>2. /\ Staged(pc, events, notes, m_dfu_state, Received(rx), sent)
        /\ (m_dfu_state = "idle" => Asks(pc, events, notes, began))
    BY <1>1, <1>2, <2>1 DEF SessionInv
  <2>3. pc # "receive"
    BY <2>2 DEF Staged, Early, Late
  <2>4. k = "packet" /\ m_dfu_state = "idle" => ~began
    BY <1>3, <2>2 DEF Asks
  <2> HIDE DEF e, k
  <2> QED BY <1>1, <1>3, <1>4, <1>5, <2>1, <2>3, <2>4
<1>10. ChainInv'
  <2> SUFFICES ASSUME Running, ~erred
               PROVE  /\ Ready(events', m_pkt_type)
                      /\ \E m \in Nat : Chain(events', Received(rx), m) /\ (pc' = "data" => m = sent)
    BY <1>1 DEF ChainInv, Running
  <2>1. Ready(events, m_pkt_type)
    BY <1>2 DEF ChainInv
  <2>2. Ready(events', m_pkt_type)
    BY <1>1, <1>3, <1>4, <2>1, ReadyAppend
  <2> HIDE DEF e, k
  <2>3. CASE pc = "receive"
    <3>1. /\ Exclusive(pc, events, notes)
          /\ Staged(pc, events, notes, m_dfu_state, Received(rx), sent)
      BY <1>1, <1>2 DEF SessionInv
    <3>2. ~HasData(events) /\ sent = Received(rx)
      BY <2>3, <3>1 DEF Exclusive, Staged, TokenPc
    <3>3. events' \in Seq(EventType) /\ ~HasData(events') /\ Received(rx) \in Nat
      BY <1>1, <1>2, <1>3, <1>4, <1>5, <3>2, ReceivedIs
    <3>4. Chain(events', Received(rx), Received(rx))
      BY <3>3, ChainIdle
    <3> QED BY <2>2, <3>2, <3>3, <3>4
  <2>4. CASE pc # "receive"
    <3>1. PICK m \in Nat : Chain(events, Received(rx), m)
      BY <1>2 DEF ChainInv
    <3>2. Follows(e.bytes, m) /\ Len(e.bytes) = 0 /\ m + 0 = m
      BY <1>3 DEF Follows
    <3>3. Chain(Append(events, e), Received(rx), m + Len(e.bytes))
      BY <1>3, <1>4, <3>1, <3>2, ChainAppend
    <3> QED BY <1>1, <1>3, <2>2, <2>4, <3>2, <3>3
  <2> QED BY <2>3, <2>4
<1> QED BY <1>6, <1>7, <1>8, <1>9, <1>10 DEF Rest

\* What the controller writes is the image, from the byte after the last one on.
LEMMA Fragment ==
    ASSUME NEW s \in 0 .. Size, s < Size, NEW f \in Nat \ {0}, NEW end,
           end = IF s + f < Size THEN s + f ELSE Size
    PROVE  /\ SubSeq(Image, s + 1, end) \in Seq(Nat) /\ Follows(SubSeq(Image, s + 1, end), s)
           /\ end = s + Len(SubSeq(Image, s + 1, end)) /\ end \in Nat /\ SubSeq(Image, s + 1, end) # <<>>
<1> DEFINE b == SubSeq(Image, s + 1, end)
<1>1. Size \in Nat /\ s \in Nat /\ end \in Nat /\ s < end /\ end <= Size
  BY SizeNat
<1>2. Image \in Seq(Nat) /\ Len(Image) = Size /\ \A i \in 1 .. Size : Image[i] = i
  BY <1>1 DEF Image
<1>3. /\ b \in Seq(Nat) /\ Len(b) = end - s
      /\ \A j \in 1 .. (end - s) : b[j] = Image[s + j]
  <2>1. s + 1 \in 1 .. Len(Image) /\ end \in 1 .. Len(Image)
    BY <1>1, <1>2
  <2> HIDE DEF Image
  <2>2. b \in Seq(Nat) /\ Len(b) = end - (s + 1) + 1 /\ \A j \in 1 .. (end - (s + 1) + 1) : b[j] = Image[(s + 1) + j - 1]
    BY <1>1, <1>2, <2>1
  <2>3. end - (s + 1) + 1 = end - s /\ \A j \in 1 .. (end - s) : (s + 1) + j - 1 = s + j
    BY <1>1
  <2> QED BY <2>2, <2>3
<1> HIDE DEF b
<1>4. \A j \in 1 .. (end - s) : s + j \in 1 .. Size
  BY <1>1
<1>5. Follows(b, s)
  BY <1>2, <1>3, <1>4 DEF Follows
<1>6. end = s + Len(b) /\ Len(b) > 0
  BY <1>1, <1>3
<1>7. b # <<>>
  BY <1>6
<1> QED BY <1>1, <1>3, <1>5, <1>6, <1>7 DEF b

LEMMA SendsRest ==
    ASSUME Inv, PeerSendsData PROVE Rest'
<1>1. Typed /\ DataInv /\ LinkInv /\ EarlyInv /\ SessionInv /\ ChainInv /\ PrefixInv
  BY DEF Inv, Rest
<1>2. /\ pc = "data" /\ radio = "linked" /\ sent < Size
      /\ UNCHANGED <<pc, began, notes, radio, mode, m_tear_down_in_progress, m_pkt_type, rx, m_dfu_state, erred>>
  BY DEF PeerSendsData, deviceVars, linkVars, coreVars, history
<1>3. PICK bytes \in Seq(Nat) : /\ events' = Append(events, Event("packet", bytes))
                                /\ Follows(bytes, sent) /\ sent' = sent + Len(bytes) /\ sent' \in Nat
  <2>1. PICK f \in peer.fragments :
           LET end == IF sent + f < Size THEN sent + f ELSE Size IN
           /\ events' = Append(events, Event("packet", SubSeq(Image, sent + 1, end)))
           /\ sent' = end
    BY DEF PeerSendsData
  <2>2. sent \in 0 .. Size /\ f \in Nat \ {0}
    BY <1>1, BleConstants DEF Typed
  <2> DEFINE end == IF sent + f < Size THEN sent + f ELSE Size
             b == SubSeq(Image, sent + 1, end)
  <2>3. events' = Append(events, Event("packet", b)) /\ sent' = end
    BY <2>1
  <2>4. end = IF sent + f < Size THEN sent + f ELSE Size
    OBVIOUS
  <2> HIDE DEF end
  <2>5. b \in Seq(Nat) /\ Follows(b, sent) /\ end = sent + Len(b) /\ end \in Nat
    BY <1>2, <2>2, <2>4, Fragment
  <2> HIDE DEF b
  <2> QED BY <2>3, <2>5
<1> DEFINE e == Event("packet", bytes)
<1>4. events \in Seq(EventType) /\ e \in EventType /\ e.kind = "packet" /\ e.bytes = bytes
  BY <1>1 DEF Typed, Event, EventType, EventKinds
<1>5. events' = Append(events, e)
  BY <1>3
<1> HIDE DEF e
<1>6. /\ Kinds(events') = Kinds(events) \cup {"packet"}
      /\ (OneCtrl(events) => OneCtrl(events'))
  BY <1>4, <1>5, KindsAppend
<1>7. PrefixInv'
  BY <1>1, <1>2 DEF PrefixInv
<1>8. LinkInv'
  <2> SUFFICES ASSUME Running PROVE \A i \in 1 .. Len(events') : events'[i].kind # "disconnected"
    BY <1>2 DEF LinkInv, Running
  <2>1. "disconnected" \notin Kinds(events)
    BY <1>1, <1>2 DEF LinkInv, Kinds
  <2> QED BY <1>6, <2>1 DEF Kinds
<1>9. ASSUME Running, ~erred
      PROVE  /\ Exclusive(pc, events, notes) /\ Sends(pc, events, m_pkt_type)
             /\ Staged(pc, events, notes, m_dfu_state, Received(rx), sent)
             /\ m_dfu_state \notin Early
  BY <1>1, <1>2, <1>9 DEF SessionInv, Staged, Early, Late
<1>10. EarlyInv'
  BY <1>1, <1>2, <1>9 DEF EarlyInv, Running
<1>11. SessionInv'
  <2> SUFFICES ASSUME Running, ~erred
               PROVE  /\ Exclusive(pc, events', notes)
                      /\ Staged(pc, events', notes, m_dfu_state, Received(rx), sent')
                      /\ m_dfu_state # "idle" /\ Sends(pc, events', m_pkt_type)
    BY <1>2 DEF SessionInv, Running
  <2>1. Exclusive(pc, events', notes)
    BY <1>2, <1>6, <1>9 DEF Exclusive, TokenPc, TokenOp
  <2>2. Staged(pc, events', notes, m_dfu_state, Received(rx), sent')
    BY <1>2, <1>6, <1>9 DEF Staged
  <2>3. Sends(pc, events', m_pkt_type)
    BY <1>6, <1>9 DEF Sends
  <2> QED BY <1>9, <2>1, <2>2, <2>3 DEF Early
<1>12. ChainInv'
  <2> SUFFICES ASSUME Running, ~erred
               PROVE  Ready(events', m_pkt_type) /\ Chain(events', Received(rx), sent')
    BY <1>2, <1>3 DEF ChainInv, Running
  <2>1. Ready(events, m_pkt_type) /\ Chain(events, Received(rx), sent)
    BY <1>1, <1>2 DEF ChainInv
  <2>2. Kinds(events) \subseteq {"packet", "op_receive"} /\ (m_pkt_type = "data" \/ "op_receive" \in Kinds(events))
    BY <1>2, <1>9 DEF Sends
  <2>3. Ready(events', m_pkt_type)
    BY <1>4, <1>5, <2>1, <2>2, ReadyAppend
  <2>4. sent \in Nat
    BY <1>1, SizeNat DEF Typed
  <2>5. Chain(events', Received(rx), sent + Len(e.bytes))
    BY <1>3, <1>4, <1>5, <2>1, <2>4, ChainAppend
  <2> QED BY <1>3, <1>4, <2>3, <2>5
<1> QED BY <1>7, <1>8, <1>10, <1>11, <1>12 DEF Rest

\* A notification is read that is not a token.
LEMMA ReadsPlain ==
    ASSUME NEW S, NEW N \in Seq(S), N # <<>>, NEW E, NEW p, NEW q, NEW out, NEW o2,
           q \notin TokenPc \/ (q = p /\ o2 = out)
    PROVE  /\ (Exclusive(p, E, N) => Exclusive(q, E, Tail(N)))
           /\ \A state, count :
                 Staged(p, E, N, state, count, out) => Staged(q, E, Tail(N), state, count, o2)
           /\ (NoToken(p, E, N) => NoToken(q, E, Tail(N)))
<1> DEFINE T == Tail(N)
<1>1. /\ (HasToken(T) => HasToken(N)) /\ (OneToken(N) => OneToken(T))
      /\ \A i \in 1 .. Len(T) : \E j \in 1 .. Len(N) : T[i] = N[j]
  BY NotesTail
<1> HIDE DEF T
<1>2. Exclusive(p, E, N) => Exclusive(q, E, T)
  BY <1>1 DEF Exclusive
<1>3. \A state, count : Staged(p, E, N, state, count, out) => Staged(q, E, T, state, count, o2)
  <2> SUFFICES ASSUME NEW state, NEW count, Staged(p, E, N, state, count, out)
               PROVE  Staged(q, E, T, state, count, o2)
    OBVIOUS
  <2>1. \A i \in 1 .. Len(T) : NoteFits(T[i], state, count)
    BY <1>1 DEF Staged
  <2>2. CASE q = p /\ o2 = out
    BY <2>1, <2>2 DEF Staged
  <2>3. CASE q \notin TokenPc
    BY <2>1, <2>3 DEF Staged, TokenPc
  <2> QED BY <2>2, <2>3
<1>4. NoToken(p, E, N) => NoToken(q, E, T)
  BY <1>1 DEF NoToken
<1> QED BY <1>2, <1>3, <1>4 DEF T

\* A token is read: it is with the controller now.
LEMMA ReadsToken ==
    ASSUME NEW S, NEW N \in Seq(S), N # <<>>, Token(Head(N)), NEW E, NEW p, Exclusive(p, E, N),
           NEW state, NEW count, NEW out, Staged(p, E, N, state, count, out)
    PROVE  /\ \A q : Exclusive(q, E, Tail(N))
           /\ \A q : q \notin TokenPc => NoToken(q, E, Tail(N))
           /\ \A q, o2 : Staged(q, E, Tail(N), state, count, o2) <=>
                 /\ (q = "query" => state \notin Starting)
                 /\ (q \in {"init", "init_pkt", "init_done"} => state \in Initing)
                 /\ (q \in {"prn", "receive", "data"} => state \in Late)
                 /\ (q \in {"prn", "receive"} => o2 = count)
           /\ NoteFits(Head(N), state, count)
<1> DEFINE T == Tail(N)
<1>1. /\ HasToken(N) /\ (OneToken(N) => OneToken(T) /\ ~HasToken(T))
      /\ \A i \in 1 .. Len(T) : \E j \in 1 .. Len(N) : T[i] = N[j]
      /\ \E j \in 1 .. Len(N) : Head(N) = N[j]
  BY NotesTail
<1> HIDE DEF T
<1>2. /\ OneCtrl(E) /\ Kinds(E) \cap TokenOp = {} /\ ~HasData(E) /\ OneToken(T) /\ ~HasToken(T)
  BY <1>1 DEF Exclusive
<1>3. \A q : Exclusive(q, E, T)
  BY <1>2 DEF Exclusive
<1>4. \A q : q \notin TokenPc => NoToken(q, E, T)
  BY <1>2 DEF NoToken
<1>5. \A i \in 1 .. Len(T) : NoteFits(T[i], state, count)
  BY <1>1 DEF Staged
<1>6. NoteFits(Head(N), state, count)
  BY <1>1 DEF Staged
<1>7. "op_count" \notin Kinds(E) /\ "op_complete" \notin Kinds(E)
  BY <1>2 DEF TokenOp
<1>8. \A q, o2 : Staged(q, E, T, state, count, o2) <=>
                 /\ (q = "query" => state \notin Starting)
                 /\ (q \in {"init", "init_pkt", "init_done"} => state \in Initing)
                 /\ (q \in {"prn", "receive", "data"} => state \in Late)
                 /\ (q \in {"prn", "receive"} => o2 = count)
  BY <1>5, <1>7 DEF Staged
<1> QED BY <1>3, <1>4, <1>6, <1>8 DEF T

LEMMA ReadsRest ==
    ASSUME Inv, PeerReads PROVE Rest'
<1> DEFINE note == Head(notes)
           T == Tail(notes)
<1>1. Typed /\ DataInv /\ LinkInv /\ EarlyInv /\ SessionInv /\ ChainInv /\ PrefixInv
  BY DEF Inv, Rest
<1>2. /\ notes # <<>> /\ notes' = T /\ pc' = AfterNote(note)
      /\ sent' = (IF note.proc = "count" THEN note.n ELSE IF note.proc = "init" THEN 0 ELSE sent)
      /\ began' = (began /\ pc' \notin {"give_back", "start"})
      /\ UNCHANGED <<radio, events, mode, m_tear_down_in_progress, m_pkt_type, rx, m_dfu_state, erred>>
  BY DEF PeerReads, deviceVars, linkVars, coreVars, history
<1>3. events \in Seq(EventType) /\ notes \in Seq(NoteType) /\ note \in NoteType
  <2>1. events \in Seq(EventType) /\ notes \in Seq(NoteType)
    BY <1>1 DEF Typed
  <2> QED BY <1>2, <2>1
<1>4. /\ note.proc \in {"start", "init", "receive", "receipt", "count", "validate"}
      /\ (note.proc = "receipt" => note.result = "SUCCESS" /\ pc' = IF note.n = sent THEN pc ELSE "confused")
      /\ (note.proc = "count" => note.result = "SUCCESS" /\ pc' =
            IF note.n = 0 THEN "start" ELSE IF note.n = Size THEN "validate" ELSE "prn")
      /\ (note.result # "SUCCESS" => pc' = IF note.proc = "receive" THEN "aborted" ELSE "give_back")
      /\ (note.result = "SUCCESS" /\ note.proc = "start" => pc' = "init")
      /\ (note.result = "SUCCESS" /\ note.proc = "init" => pc' = "prn")
      /\ (note.result = "SUCCESS" /\ note.proc = "receive" => pc' = "validate")
      /\ (note.result = "SUCCESS" /\ note.proc = "validate" => pc' = "activate")
  BY <1>2, <1>3, AfterNoteIs
<1>5. /\ (~Token(note) => pc' \notin TokenPc \/ (pc' = pc /\ sent' = sent))
      /\ (Token(note) => pc' # "data")
      /\ (pc' = "data" => pc = "data" /\ sent' = sent)
  <2> HIDE DEF note
  <2>1. ~Token(note) => pc' \notin TokenPc \/ (pc' = pc /\ sent' = sent)
    BY <1>2, <1>4 DEF Token, TokenPc
  <2>2. Token(note) => pc' # "data"
    BY <1>4 DEF Token
  <2> QED BY <2>1, <2>2 DEF TokenPc
<1>6. PrefixInv'
  BY <1>1, <1>2 DEF PrefixInv
<1>7. LinkInv'
  BY <1>1, <1>2 DEF LinkInv, Running
<1>8. EarlyInv'
  BY <1>1, <1>2 DEF EarlyInv, Running
<1>9. ChainInv'
  BY <1>1, <1>2, <1>5 DEF ChainInv, Running
<1>10. SessionInv'
  <2> SUFFICES ASSUME Running, ~erred, radio = "linked"
               PROVE  /\ Exclusive(pc', events, T)
                      /\ Staged(pc', events, T, m_dfu_state, Received(rx), sent')
                      /\ (m_dfu_state = "idle" => Asks(pc', events, T, began'))
                      /\ Sends(pc', events, m_pkt_type)
    BY <1>2 DEF SessionInv, Running
  <2>1. /\ Exclusive(pc, events, notes) /\ Sends(pc, events, m_pkt_type)
        /\ Staged(pc, events, notes, m_dfu_state, Received(rx), sent)
        /\ (m_dfu_state = "idle" => Asks(pc, events, notes, began))
    BY <1>1 DEF SessionInv
  <2>2. Sends(pc', events, m_pkt_type)
    BY <1>5, <2>1 DEF Sends
  <2>3. CASE ~Token(note)
    <3>1. pc' \notin TokenPc \/ (pc' = pc /\ sent' = sent)
      BY <1>5, <2>3
    <3>2. /\ Exclusive(pc', events, T)
          /\ Staged(pc', events, T, m_dfu_state, Received(rx), sent')
          /\ (NoToken(pc, events, notes) => NoToken(pc', events, T))
      <4>1. notes \in Seq(NoteType) /\ notes # <<>>
        BY <1>2, <1>3
      <4> QED BY <2>1, <3>1, <4>1, ReadsPlain
    <3>3. ASSUME m_dfu_state = "idle" PROVE Asks(pc', events, T, began')
      <4>1. note.proc # "count"
        BY <2>3 DEF Token
      <4>2. \E j \in 1 .. Len(notes) : note = notes[j]
        BY <1>2, <1>3, NotesTail
      <4> HIDE DEF note, T
      <4>3. NoToken(pc, events, notes) /\ ~began
        BY <2>1, <3>3, <4>1, <4>2 DEF Asks
      <4> QED BY <1>2, <3>2, <4>3 DEF Asks
    <3> QED BY <2>2, <3>2, <3>3
  <2>4. CASE Token(note)
    <3>1. /\ \A q : Exclusive(q, events, T)
          /\ \A q : q \notin TokenPc => NoToken(q, events, T)
          /\ \A q, o2 : Staged(q, events, T, m_dfu_state, Received(rx), o2) <=>
                /\ (q = "query" => m_dfu_state \notin Starting)
                /\ (q \in {"init", "init_pkt", "init_done"} => m_dfu_state \in Initing)
                /\ (q \in {"prn", "receive", "data"} => m_dfu_state \in Late)
                /\ (q \in {"prn", "receive"} => o2 = Received(rx))
          /\ NoteFits(note, m_dfu_state, Received(rx))
      <4>1. notes \in Seq(NoteType) /\ notes # <<>>
        BY <1>2, <1>3
      <4> QED BY <2>1, <2>4, <4>1, ReadsToken
    <3>2. m_dfu_state = "idle" => Received(rx) = 0
      <4> SUFFICES ASSUME m_dfu_state = "idle" PROVE Received(rx) = 0
        OBVIOUS
      <4>1. rx.m_accum_buf = <<>>
        BY <1>1 DEF EarlyInv, Early
      <4>2. rx.given = <<>> /\ rx.m_num_of_firmware_bytes_rcvd = Len(rx.given)
        BY <1>1 DEF DataInv, Data, KeptBy, RxType, Fresh, Early
      <4> QED BY <4>1, <4>2 DEF Received
    <3>3. m_dfu_state \in Early \cup Late
      BY <1>1 DEF Typed
    <3> HIDE DEF note, T
    <3>4. CASE note.proc = "count"
      <4>1. /\ note.n = Received(rx) /\ m_dfu_state \notin Starting /\ sent' = Received(rx)
        BY <1>2, <3>1, <3>4 DEF NoteFits
      <4>2. m_dfu_state = "idle" \/ m_dfu_state \in Late
        BY <3>3, <4>1 DEF Starting, Early
      <4>3. pc' = IF Received(rx) = 0 THEN "start" ELSE IF note.n = Size THEN "validate" ELSE "prn"
        BY <1>4, <3>4, <4>1
      <4>4. Staged(pc', events, T, m_dfu_state, Received(rx), sent')
        BY <3>1, <3>2, <4>1, <4>2, <4>3
      <4>5. ASSUME m_dfu_state = "idle" PROVE Asks(pc', events, T, began')
        <5>1. pc' = "start"
          BY <3>2, <4>3, <4>5
        <5> QED BY <1>2, <3>1, <5>1 DEF Asks, TokenPc
      <4> QED BY <2>2, <3>1, <4>4, <4>5
    <3>5. CASE note.result = "SUCCESS" /\ note.proc = "start"
      <4>1. m_dfu_state \in Initing /\ pc' = "init"
        BY <1>4, <3>1, <3>5 DEF NoteFits
      <4>2. m_dfu_state # "idle"
        BY <4>1 DEF Initing
      <4> QED BY <2>2, <3>1, <4>1, <4>2
    <3>6. CASE note.result = "SUCCESS" /\ note.proc = "init"
      <4>1. m_dfu_state \in Late /\ Received(rx) = 0 /\ pc' = "prn" /\ sent' = 0
        BY <1>2, <1>4, <3>1, <3>6 DEF NoteFits
      <4>2. m_dfu_state # "idle"
        BY <4>1 DEF Late
      <4> QED BY <2>2, <3>1, <4>1, <4>2
    <3> QED BY <2>4, <3>4, <3>5, <3>6 DEF Token
  <2> QED BY <2>3, <2>4
<1> QED BY <1>6, <1>7, <1>8, <1>9, <1>10 DEF Rest

-----------------------------------------------------------------------------

LEMMA StutterRest ==
    ASSUME Inv, UNCHANGED vars PROVE Rest'
<1>1. UNCHANGED <<pc, began, sent, notes, radio, events, mode, m_tear_down_in_progress, m_pkt_type, rx,
                  m_dfu_state, erred>>
  BY DEF vars, peerVars, linkVars, coreVars, history
<1>2. LinkInv /\ EarlyInv /\ SessionInv /\ ChainInv /\ PrefixInv
  BY DEF Inv, Rest
<1> QED BY <1>1, <1>2 DEF Rest, LinkInv, EarlyInv, SessionInv, ChainInv, PrefixInv, Running

LEMMA HandleRest ==
    ASSUME Inv, HandleEvent PROVE Rest'
<1>1. ASSUME NEW op, NEW type, op = "op_start", type = "start", OpPacketType(op, type)
      PROVE  Rest'
  BY <1>1, PacketTypeRest
<1>2. ASSUME NEW op, NEW type, op = "op_init", type = "init", OpPacketType(op, type)
      PROVE  Rest'
  BY <1>2, PacketTypeRest
<1>3. ASSUME NEW op, NEW type, op = "op_receive", type = "data", OpPacketType(op, type)
      PROVE  Rest'
  BY <1>3, PacketTypeRest
<1> QED BY <1>1, <1>2, <1>3, ConnectedRest, DisconnectedRest, StartPacketRest, InitPacketRest,
           DataPacketRest, UnlinkedRest, InitCompleteRest, ReceiptsRest, BytesReceivedRest, ValidateRest,
           ActivateRest, ResetRest DEF HandleEvent

LEMMA Inductive == Inv /\ [Next]_vars => Inv'
<1> SUFFICES ASSUME Inv, [Next]_vars PROVE Inv'
  OBVIOUS
<1>1. Typed' /\ DataInv'
  BY TypedInductive DEF Inv
<1>2. ASSUME Next PROVE Rest'
  BY <1>2, ConnectsRest, WritesRest, SendsRest, ReadsRest, LostRest, HandleRest, UnheardRest,
     EraseRest, StoreRest, FailsRest, TimeoutRest, RestartRest DEF Next, Peer
<1>3. ASSUME UNCHANGED vars PROVE Rest'
  BY <1>3, StutterRest
<1>4. Rest'
  BY <1>2, <1>3
<1> QED BY <1>1, <1>4 DEF Inv

LEMMA InvAlways == Spec => []Inv
<1>1. Init => Inv
  BY InitTyped, InitRest DEF Inv
<1> QED BY <1>1, Inductive, PTL DEF Spec

\* The DFU state machine is given the image from its first byte on, without a gap, a
\* repetition or padding, for every size of the image, of a word, of the accumulator and of
\* the fragments, and every number of lost links, timeouts and restarts.
THEOREM AlwaysPrefix == Spec => []StreamIsPrefix
<1>1. Inv => StreamIsPrefix
  <2> SUFFICES ASSUME Inv, ~erred, NEW i \in 1 .. Len(rx.given) PROVE rx.given[i] = Image[i]
    BY DEF StreamIsPrefix
  <2>1. rx.given[i] = i
    BY DEF Inv, Rest, PrefixInv, Prefix
  <2>2. rx.given \in Seq(Nat) /\ Len(rx.given) <= Size
    BY DEF Inv, DataInv, Data, KeptBy, RxType
  <2> DEFINE l == Len(rx.given)
  <2>3. l \in Nat /\ l <= Size /\ i \in 1 .. l
    BY <2>2
  <2> HIDE DEF l
  <2>4. i \in 1 .. Size
    BY <2>3, SizeNat
  <2> QED BY <2>1, <2>4 DEF Image
<1> QED BY <1>1, InvAlways, PTL

\* The controller is told that the image is received only when flash holds every byte of
\* it, through any order of stores and packets and any reuse of the receive buffers.
THEOREM ReceivedAlwaysStored == Spec => []ReceivedIsStored
<1>1. Inv => ReceivedIsStored
  <2> SUFFICES ASSUME Inv, told, ~erred PROVE flash = Image
    BY DEF ReceivedIsStored
  <2>1. flash = rx.given /\ Len(rx.given) = Size
    BY DEF Inv, DataInv, Data, AllStored
  <2>2. \A i \in 1 .. Len(rx.given) : rx.given[i] = i
    BY DEF Inv, Rest, PrefixInv, Prefix
  <2>3. rx.given \in Seq(Nat)
    BY DEF Inv, DataInv, Data, KeptBy, RxType
  <2>4. Image \in Seq(Nat) /\ Len(Image) = Size /\ \A i \in 1 .. Size : Image[i] = i
    BY SizeNat DEF Image
  <2> HIDE DEF Image
  <2>5. rx.given = Image
    BY <2>1, <2>2, <2>3, <2>4, SeqEqual
  <2> QED BY <2>1, <2>5
<1> QED BY <1>1, InvAlways, PTL

=============================================================================
