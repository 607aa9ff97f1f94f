---------------------------- MODULE PoolProofs ----------------------------
(***************************************************************************)
(* What the proofs about both transports need of the receive pool: the      *)
(* arithmetic of a ring, and what its operations do to each counter.        *)
(***************************************************************************)
EXTENDS MemPool, TLAPS

-----------------------------------------------------------------------------
(* Arithmetic modulo N. *)

\* Multiples of N are at least N apart.
LEMMA Multiples ==
    ASSUME NEW N \in Nat \ {0}, NEW a \in Int, NEW b \in Int
    PROVE  /\ a * N \in Int /\ b * N \in Int
           /\ (a + b) * N = a * N + b * N
           /\ a < b => a * N + N <= b * N
<1>1. a * N \in Int /\ b * N \in Int /\ (a + b) * N = a * N + b * N
  OBVIOUS
<1>2. ASSUME a < b PROVE a * N + N <= b * N
  <2>1. b - a - 1 \in Nat
    BY <1>2
  <2>2. (b - a - 1) * N \in Nat
    BY <2>1
  <2>3. (b - a - 1) * N = b * N - a * N - N
    OBVIOUS
  <2> QED BY <1>1, <2>2, <2>3
<1> QED BY <1>1, <1>2

LEMMA DivMod ==
    ASSUME NEW N \in Nat \ {0}, NEW x \in Int
    PROVE  \E q \in Int : x = q * N + (x % N) /\ x % N \in 0 .. (N - 1)
<1>1. x \div N \in Int /\ x % N \in 0 .. (N - 1) /\ x = (x \div N) * N + (x % N)
  BY SMT
<1> QED BY <1>1

\* Numbers less than N apart with the same remainder are the same.
LEMMA SameRest ==
    ASSUME NEW N \in Nat \ {0}, NEW x \in Int, NEW y \in Int,
           x - y < N, y - x < N, x % N = y % N
    PROVE  x = y
<1>1. PICK q \in Int : x = q * N + (x % N) /\ x % N \in 0 .. (N - 1)
  BY DivMod
<1>2. PICK s \in Int : y = s * N + (y % N) /\ y % N \in 0 .. (N - 1)
  BY DivMod
<1>3. q * N \in Int /\ s * N \in Int
  BY Multiples
<1> DEFINE r == x % N
<1>4. r \in Int /\ x = q * N + r /\ y = s * N + r
  BY <1>1, <1>2
<1> HIDE DEF r
<1>5. CASE q < s
  <2>1. q * N + N <= s * N
    BY <1>5, Multiples
  <2> QED BY <1>3, <1>4, <2>1
<1>6. CASE s < q
  <2>1. s * N + N <= q * N
    BY <1>6, Multiples
  <2> QED BY <1>3, <1>4, <2>1
<1>7. CASE q = s
  BY <1>4, <1>7
<1> QED BY <1>5, <1>6, <1>7

\* A remainder is its own, and a sum can be taken of remainders.
LEMMA RestOfSum ==
    ASSUME NEW N \in Nat \ {0}, NEW x \in Int, NEW c \in Int
    PROVE  ((x % N) + c) % N = (x + c) % N
<1> DEFINE r == x % N
           y == r + c
           u == y % N
           v == (x + c) % N
<1>1. PICK q \in Int : x = q * N + r /\ r \in 0 .. (N - 1)
  BY DivMod
<1>2. y \in Int
  BY <1>1
<1>3. PICK s \in Int : y = s * N + u /\ u \in 0 .. (N - 1)
  BY <1>2, DivMod
<1> DEFINE z == x + c
<1>z. z \in Int
  OBVIOUS
<1> HIDE DEF z
<1>4. PICK m \in Int : z = m * N + (z % N) /\ z % N \in 0 .. (N - 1)
  BY <1>z, DivMod
<1>5. /\ u \in Int /\ v \in Int /\ r \in Int /\ y = r + c
      /\ x + c = m * N + v /\ v \in 0 .. (N - 1)
  BY <1>1, <1>3, <1>4 DEF z
<1>g. SUFFICES u = v
  OBVIOUS
<1> HIDE DEF u, v, y, r, z
<1>6. (q + s) * N = q * N + s * N /\ q * N \in Int /\ s * N \in Int /\ m * N \in Int /\ q + s \in Int
  BY Multiples
<1>7. (q + s) * N + u = m * N + v
  BY <1>1, <1>3, <1>5, <1>6
<1>8. CASE q + s < m
  <2>1. (q + s) * N + N <= m * N
    BY <1>6, <1>8, Multiples
  <2> QED BY <1>3, <1>5, <1>6, <1>7, <2>1
<1>9. CASE m < q + s
  <2>1. m * N + N <= (q + s) * N
    BY <1>6, <1>9, Multiples
  <2> QED BY <1>3, <1>5, <1>6, <1>7, <2>1
<1>10. CASE q + s = m
  BY <1>5, <1>6, <1>7, <1>10
<1> QED BY <1>6, <1>8, <1>9, <1>10

-----------------------------------------------------------------------------
(* The pool. *)

Ring(window, available, read, w, r, free) ==
    [free_window_count |-> window, free_available_count |-> available,
     read_available_count |-> read, write_index |-> w, read_index |-> r, free_index |-> free]

PoolType ==
    [free_window_count : Int, free_available_count : Int, read_available_count : Int,
     write_index : Int, read_index : Int, free_index : SUBSET Int]

LEMMA RingTyped ==
    ASSUME NEW w \in Int, NEW a \in Int, NEW r \in Int, NEW x \in Int, NEW y \in Int,
           NEW F \in SUBSET Int
    PROVE  LET q == Ring(w, a, r, x, y, F) IN
           /\ q \in PoolType
           /\ q.free_window_count = w /\ q.free_available_count = a /\ q.read_available_count = r
           /\ q.write_index = x /\ q.read_index = y /\ q.free_index = F
  BY DEF Ring, PoolType

LEMMA IsRing ==
    ASSUME NEW q \in PoolType
    PROVE  q = Ring(q.free_window_count, q.free_available_count, q.read_available_count,
                    q.write_index, q.read_index, q.free_index)
  BY DEF PoolType, Ring

\* The fields, one at a time.
LEMMA SetField ==
    ASSUME NEW q \in PoolType, NEW v \in Int, NEW F \in SUBSET Int
    PROVE  /\ [q EXCEPT !.free_window_count = v] \in PoolType
           /\ [q EXCEPT !.free_available_count = v] \in PoolType
           /\ [q EXCEPT !.read_available_count = v] \in PoolType
           /\ [q EXCEPT !.write_index = v] \in PoolType
           /\ [q EXCEPT !.read_index = v] \in PoolType
           /\ [q EXCEPT !.free_index = F] \in PoolType
  BY DEF PoolType

LEMMA ProduceRing ==
    ASSUME NEW q \in PoolType
    PROVE  LET r == hci_mem_pool_rx_produce(q) IN
           /\ r \in PoolType
           /\ r.free_window_count = q.free_window_count - 1
           /\ r.free_available_count = q.free_available_count
           /\ r.read_available_count = q.read_available_count + 1
           /\ r.write_index = After(q.write_index) /\ r.read_index = q.read_index
           /\ r.free_index = q.free_index \cup {q.write_index}
<1> DEFINE r == hci_mem_pool_rx_produce(q)
           a == q.free_window_count - 1
           b == q.read_available_count + 1
           c == q.free_index \cup {q.write_index}
           d == After(q.write_index)
           q1 == [q EXCEPT !.free_window_count = a]
           q2 == [q1 EXCEPT !.read_available_count = b]
           q3 == [q2 EXCEPT !.free_index = c]
           q4 == [q3 EXCEPT !.write_index = d]
<1>1. a \in Int /\ b \in Int /\ c \in SUBSET Int /\ d \in Int
  BY PoolAssumption DEF PoolType, After
<1>2. r = q4
  BY DEF hci_mem_pool_rx_produce
<1>3. r \in PoolType
  <2> HIDE DEF a, b, c, d
  <2>1. q1 \in PoolType
    BY <1>1, SetField
  <2> HIDE DEF q1
  <2>2. q2 \in PoolType
    BY <1>1, <2>1, SetField
  <2> HIDE DEF q2
  <2>3. q3 \in PoolType
    BY <1>1, <2>2, SetField
  <2> HIDE DEF q3
  <2>4. q4 \in PoolType
    BY <1>1, <2>3, SetField
  <2> QED BY <1>2, <2>4
<1> QED BY <1>3 DEF hci_mem_pool_rx_produce, PoolType

LEMMA ExtractRing ==
    ASSUME NEW q \in PoolType
    PROVE  LET r == hci_mem_pool_rx_extract(q) IN
           /\ r \in PoolType
           /\ r.free_window_count = q.free_window_count
           /\ r.free_available_count = q.free_available_count + 1
           /\ r.read_available_count = q.read_available_count - 1
           /\ r.write_index = q.write_index /\ r.read_index = After(q.read_index)
           /\ r.free_index = q.free_index
<1> DEFINE r == hci_mem_pool_rx_extract(q)
           a == q.read_available_count - 1
           b == q.free_available_count + 1
           c == After(q.read_index)
           q1 == [q EXCEPT !.read_available_count = a]
           q2 == [q1 EXCEPT !.free_available_count = b]
           q3 == [q2 EXCEPT !.read_index = c]
<1>1. a \in Int /\ b \in Int /\ c \in Int
  BY PoolAssumption DEF PoolType, After
<1>2. r = q3
  BY DEF hci_mem_pool_rx_extract
<1>3. r \in PoolType
  <2> HIDE DEF a, b, c
  <2>1. q1 \in PoolType
    BY <1>1, SetField
  <2> HIDE DEF q1
  <2>2. q2 \in PoolType
    BY <1>1, <2>1, SetField
  <2> HIDE DEF q2
  <2>3. q3 \in PoolType
    BY <1>1, <2>2, SetField
  <2> QED BY <1>2, <2>3
<1> QED BY <1>3 DEF hci_mem_pool_rx_extract, PoolType

\* r is the ring without buffer b, and n the buffers that are released.
LEMMA ConsumeRing ==
    ASSUME NEW q \in PoolType, NEW b, NEW n \in Int, NEW r \in PoolType,
           r.free_available_count = q.free_available_count, r.read_index = q.read_index,
           r.free_window_count = q.free_window_count, r.write_index = q.write_index,
           r.read_available_count = q.read_available_count,
           r.free_index = q.free_index \ {b}, Released(r, b) = n
    PROVE  LET s == hci_mem_pool_rx_consume(q, b) IN
           /\ s \in PoolType
           /\ s.free_window_count = q.free_window_count + n
           /\ s.free_available_count = q.free_available_count - n
           /\ s.read_available_count = q.read_available_count
           /\ s.write_index = q.write_index /\ s.read_index = q.read_index
           /\ s.free_index = q.free_index \ {b}
<1> DEFINE r1 == [q EXCEPT !.free_index = @ \ {b}]
           a == r.free_available_count - n
           c == r.free_window_count + n
           q1 == [r EXCEPT !.free_available_count = a]
           q2 == [q1 EXCEPT !.free_window_count = c]
           s == hci_mem_pool_rx_consume(q, b)
<1>1. r1 = r
  <2>1. r1 \in PoolType
    BY DEF PoolType
  <2>2. /\ r1.free_window_count = q.free_window_count
        /\ r1.free_available_count = q.free_available_count
        /\ r1.read_available_count = q.read_available_count
        /\ r1.write_index = q.write_index /\ r1.read_index = q.read_index
        /\ r1.free_index = q.free_index \ {b}
    BY DEF PoolType
  <2> HIDE DEF r1
  <2> QED BY <2>1, <2>2, IsRing
<1>2. s = [r1 EXCEPT !.free_available_count = @ - Released(r1, b),
                     !.free_window_count = @ + Released(r1, b)]
  BY DEF hci_mem_pool_rx_consume
<1> HIDE DEF r1, s
<1>3. s = [r EXCEPT !.free_available_count = @ - n, !.free_window_count = @ + n]
  BY <1>1, <1>2, Zenon
<1>4. s = q2
  BY <1>3
<1>5. a \in Int /\ c \in Int
  BY DEF PoolType
<1>6. s \in PoolType
  <2> HIDE DEF a, c
  <2>1. q1 \in PoolType
    BY <1>5, SetField
  <2> HIDE DEF q1
  <2>2. q2 \in PoolType
    BY <1>5, <2>1, SetField
  <2> QED BY <1>4, <2>2
<1>7. /\ s.free_window_count = q.free_window_count + n
      /\ s.free_available_count = q.free_available_count - n
      /\ s.read_available_count = q.read_available_count
      /\ s.write_index = q.write_index /\ s.read_index = q.read_index
      /\ s.free_index = q.free_index \ {b}
  BY <1>3 DEF PoolType
<1> QED BY <1>6, <1>7 DEF s

\* A buffer is produced and extracted at once.
LEMMA TakeBuffer ==
    ASSUME NEW q \in PoolType
    PROVE  LET s == hci_mem_pool_rx_extract(hci_mem_pool_rx_produce(q)) IN
           /\ s \in PoolType
           /\ s.free_window_count = q.free_window_count - 1
           /\ s.free_available_count = q.free_available_count + 1
           /\ s.read_available_count = q.read_available_count
           /\ s.write_index = After(q.write_index) /\ s.read_index = After(q.read_index)
           /\ s.free_index = q.free_index \cup {q.write_index}
<1> DEFINE p == hci_mem_pool_rx_produce(q)
           s == hci_mem_pool_rx_extract(p)
<1>1. /\ p \in PoolType
      /\ p.free_window_count = q.free_window_count - 1
      /\ p.free_available_count = q.free_available_count
      /\ p.read_available_count = q.read_available_count + 1
      /\ p.write_index = After(q.write_index) /\ p.read_index = q.read_index
      /\ p.free_index = q.free_index \cup {q.write_index}
  BY ProduceRing
<1> HIDE DEF p
<1>2. /\ s \in PoolType
      /\ s.free_window_count = p.free_window_count
      /\ s.free_available_count = p.free_available_count + 1
      /\ s.read_available_count = p.read_available_count - 1
      /\ s.write_index = p.write_index /\ s.read_index = After(p.read_index)
      /\ s.free_index = p.free_index
  BY <1>1, ExtractRing
<1>3. q.read_available_count \in Int
  BY DEF PoolType
<1>4. p.read_available_count - 1 = q.read_available_count
  BY <1>1, <1>3
<1> HIDE DEF s
<1> QED BY <1>1, <1>2, <1>4 DEF s, p

\* The buffers that the consumption of b releases.
Frees(q, b) ==
    IF (q.read_index - q.free_available_count) % POOL \in q.free_index \ {b} THEN 0
    ELSE IF After(b) \in q.free_index \ {b} THEN 1
    ELSE q.free_available_count

LEMMA ConsumeBuffer ==
    ASSUME NEW q \in PoolType, NEW b
    PROVE  LET s == hci_mem_pool_rx_consume(q, b)
               n == Frees(q, b)
           IN
           /\ s \in PoolType /\ n \in Int
           /\ s.free_window_count = q.free_window_count + n
           /\ s.free_available_count = q.free_available_count - n
           /\ s.read_available_count = q.read_available_count
           /\ s.write_index = q.write_index /\ s.read_index = q.read_index
           /\ s.free_index = q.free_index \ {b}
<1> DEFINE F == q.free_index \ {b}
           r == [q EXCEPT !.free_index = F]
           n == Frees(q, b)
<1>1. F \in SUBSET Int
  BY DEF PoolType
<1>2. n \in Int
  BY DEF PoolType, Frees
<1>3. r \in PoolType
  <2> DEFINE v == q.free_window_count
  <2>1. v \in Int
    BY DEF PoolType
  <2> HIDE DEF F, v
  <2> QED BY <1>1, <2>1, SetField
<1>4. /\ r.free_available_count = q.free_available_count /\ r.read_index = q.read_index
      /\ r.free_window_count = q.free_window_count /\ r.write_index = q.write_index
      /\ r.read_available_count = q.read_available_count
      /\ r.free_index = q.free_index \ {b}
  BY DEF PoolType
<1> HIDE DEF r
<1>5. Released(r, b) = n
  BY <1>4, Zenon DEF Released, Frees
<1> HIDE DEF n, F
<1>6. LET s == hci_mem_pool_rx_consume(q, b) IN
      /\ s \in PoolType
      /\ s.free_window_count = q.free_window_count + n
      /\ s.free_available_count = q.free_available_count - n
      /\ s.read_available_count = q.read_available_count
      /\ s.write_index = q.write_index /\ s.read_index = q.read_index
      /\ s.free_index = q.free_index \ {b}
  BY <1>2, <1>3, <1>4, <1>5, ConsumeRing
<1> QED BY <1>2, <1>6 DEF n

\* The buffer k places behind buffer w.
Behind(w, k) == (w + k) % POOL

LEMMA BehindFacts ==
    ASSUME NEW w \in Int, NEW k \in Int
    PROVE  /\ Behind(w, k) \in Buffer
           /\ After(Behind(w, k)) = Behind(w, k + 1)
           /\ Behind(After(w), k) = Behind(w, k + 1)
           /\ \A l \in Int : k - l < POOL /\ l - k < POOL /\ Behind(w, k) = Behind(w, l) => k = l
<1>1. POOL \in Nat \ {0}
  BY PoolAssumption
<1> DEFINE x == w + k
           one == 1
<1>2. x \in Int /\ one \in Int /\ w + one \in Int
  OBVIOUS
<1>3. Behind(w, k) \in Buffer
  <2>1. x % POOL \in 0 .. (POOL - 1)
    <3> HIDE DEF x
    <3> QED BY <1>1, <1>2, DivMod
  <2> QED BY <2>1 DEF Behind, Buffer
<1>4. After(Behind(w, k)) = Behind(w, k + 1)
  <2>1. ((x % POOL) + one) % POOL = (x + one) % POOL
    <3> HIDE DEF x, one
    <3> QED BY <1>1, <1>2, RestOfSum
  <2>2. x + one = w + (k + 1)
    OBVIOUS
  <2> QED BY <2>1, <2>2 DEF After, Behind
<1>5. Behind(After(w), k) = Behind(w, k + 1)
  <2> DEFINE v == w + one
  <2>1. ((v % POOL) + k) % POOL = (v + k) % POOL
    <3>1. v \in Int
      OBVIOUS
    <3> HIDE DEF v
    <3> QED BY <1>1, <3>1, RestOfSum
  <2>2. v + k = w + (k + 1)
    OBVIOUS
  <2> QED BY <2>1, <2>2 DEF After, Behind
<1>6. ASSUME NEW l \in Int, k - l < POOL, l - k < POOL, Behind(w, k) = Behind(w, l) PROVE k = l
  <2> DEFINE y == w + l
  <2>1. y \in Int /\ x - y < POOL /\ y - x < POOL /\ x % POOL = y % POOL
    BY <1>1, <1>6 DEF Behind
  <2>2. x = y
    <3> HIDE DEF x, y
    <3> QED BY <1>1, <1>2, <2>1, SameRest
  <2> QED BY <2>2
<1> QED BY <1>3, <1>4, <1>5, <1>6

LEMMA BehindZero == ASSUME NEW w \in Buffer PROVE w \in Int /\ Behind(w, 0) = w
<1>1. POOL \in Nat \ {0} /\ w \in 0 .. (POOL - 1)
  BY PoolAssumption DEF Buffer
<1>2. w \in Int
  BY <1>1
<1>3. PICK q \in Int : w = q * POOL + (w % POOL) /\ w % POOL \in 0 .. (POOL - 1)
  BY <1>1, <1>2, DivMod
<1>4. q * POOL \in Int
  BY <1>1, Multiples
<1>5. w % POOL = w
  <2> DEFINE zero == 0
  <2>1. zero \in Int /\ zero * POOL = 0
    BY <1>1
  <2> HIDE DEF zero
  <2>2. CASE q < zero
    <3>1. q * POOL + POOL <= zero * POOL
      BY <1>1, <2>1, <2>2, Multiples
    <3> QED BY <1>1, <1>3, <1>4, <2>1, <3>1
  <2>3. CASE zero < q
    <3>1. zero * POOL + POOL <= q * POOL
      BY <1>1, <2>1, <2>3, Multiples
    <3> QED BY <1>1, <1>3, <1>4, <2>1, <3>1
  <2>4. CASE q = zero
    BY <1>3, <1>4, <2>1, <2>4
  <2> QED BY <2>1, <2>2, <2>3, <2>4
<1>6. w + 0 = w
  BY <1>1
<1> QED BY <1>2, <1>5, <1>6 DEF Behind

LEMMA AfterBuffer == ASSUME NEW w \in Int PROVE After(w) \in Buffer
<1> DEFINE x == w + 1
<1>1. x \in Int /\ POOL \in Nat \ {0}
  BY PoolAssumption
<1>2. x % POOL \in 0 .. (POOL - 1)
  <2> HIDE DEF x
  <2> QED BY <1>1, DivMod
<1> QED BY <1>2 DEF After, Buffer

=============================================================================
