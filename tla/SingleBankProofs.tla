--------------------------- MODULE SingleBankProofs ---------------------------
(***************************************************************************)
(* What TLAPS proves of SingleBank for every number of pages, build, kind   *)
(* of update, initial flash and combination of faults.                      *)
(***************************************************************************)
EXTENDS SingleBank, TLAPS

-----------------------------------------------------------------------------
(* The inductive invariant. *)

Contents == {"old", "blank", "app", "sys", "bad", "part", "torn"}
States == {"idle", "rdy", "rx_init", "preparing", "rx_data", "validate", "wait_activate"}
Chunks == {"app", "sys", "bad"}

\* A page of the image region that is to be erased or written.
EraseReqs == [op : {"erase_app"}, p : Page, data : {"blank"}, cb : {"none", "cleared"}]
DataReqs == [op : {"write_app"}, p : Page, data : Chunks, cb : {"none"}]

\* The requests of a save, for a BLE session (o) or not.
SaveReq(o, j) ==
    IF j = 1 THEN Req("erase_set", 0, "blank", "none")
    ELSE IF j = 2 THEN Req("write_geo", 0, "blank", IF o THEN "stored" ELSE "none")
    ELSE Req("write_mark", 0, "blank", "stored")
SaveReqs == {SaveReq(o, j) : o \in BOOLEAN, j \in 1 .. 3}
Requests == EraseReqs \cup DataReqs \cup SaveReqs

\* A record never takes the CRC of anything but an application for that of one.
OkRec(r) == r.bank_0 = "app" => r.crc \in {"none", "zero", "old", "app"}
RecordShape(c) ==
    /\ c = [geo |-> c.geo, seal |-> c.seal, w0 |-> c.w0, w1 |-> c.w1]
    /\ OkRec(c.w0)

Holds(a, content) == \A p \in Page : a[p] = content

Faults == Devices[device].faults
Patient(f) == "early_validate" \notin f
Benign(f) == f \subseteq {"bad_data"}

Intact(c) == c.seal = Blank \/ (c.seal # Torn /\ \A f \in DOMAIN c : c[f] = c.seal)
InProgress(c) ==
    /\ Intact(c)
    /\ IF c.w0.bank_0 = "sd"
       THEN c.w1.bank_1 = "invalid" /\ c.geo.staged = "sd"
       ELSE c.w1.bank_1 = "boot" /\ c.geo.staged = "bl"
Unmarked(c) == c.w0.bank_0 = "none" \/ (c.seal = Blank /\ c.w0.crc = "zero")
Vector(a) == a[0] \in {"old", "app", "bad", "part"}

\* What the flash may hold when the device starts.
Safe(f, a, c) ==
    /\ Patient(f) /\ InProgress(c) => Holds(a, "sys")
    /\ Benign(f) /\ Unmarked(c) /\ Vector(a) => Holds(a, "old") \/ Holds(a, "app")

\* The record of an erased bank, and of a complete update.
ErasedRec(r) == r.bank_0 = "invalid" /\ r.crc = "zero" /\ r.staged = "none"
CompleteOf(k) ==
    IF k = "app" THEN Rec("app", "app", "invalid", "none")
    ELSE IF k = "sd" THEN Rec("sd", "sys", "invalid", "sd")
    ELSE Rec("invalid", "zero", "boot", "bl")
AnnouncedBy(k) == IF k = "app" THEN "app" ELSE "sys"
Unbootable(c) == c = Same(c.seal) /\ ErasedRec(c.seal)

\* The settings page while a save has k requests to go.
Geo(r) == [geo |-> r, seal |-> r, w0 |-> Blank, w1 |-> Blank]
Recorded(c, r, k) ==
    /\ k = 2 => c = Same(Blank)
    /\ k = 1 => c = Geo(r)
    /\ k = 0 => c = Same(r)

\* The queue after the preparation: what is left of the save, then data.
ErasedQueue(q, o, k) ==
    /\ k <= Len(q)
    /\ \A i \in 1 .. Len(q) : IF i <= k THEN q[i] = SaveReq(o, 3 - k + i) ELSE q[i] \in DataReqs

\* The queue after the activation: data, then what is left of the save.
DoneQueue(q, o) ==
    \A i \in 1 .. Len(q) :
        IF i <= Len(q) - 3 THEN q[i] \in DataReqs ELSE q[i] = SaveReq(o, 3 - Len(q) + i)

Shape ==
    /\ device \in DOMAIN Devices
    /\ app \in [Page -> Contents] /\ RecordShape(rec) /\ OkRec(settings)
    /\ run \in {"boot", "dfu", "swap", "exit", "app"} /\ ota \in BOOLEAN
    /\ todo \in Seq(Requests)
    /\ m_dfu_state \in States
    /\ m_data_received \in 0 .. (N + 1)
    /\ held \in Chunks \cup {"blank"} /\ (m_data_received = 0 \/ ota \/ held # "blank")
    /\ kind \in {"app", "sd", "bl"}
    /\ dfu_page_erased \in [Page -> BOOLEAN]
    /\ m_settings_store_pending \in 0 .. 2

\* Not in DFU.
RestInv ==
    /\ run \in {"boot", "app"} =>
          /\ ~ota /\ todo = <<>> /\ m_dfu_state = "idle" /\ m_data_received = 0
          /\ m_update_status = "updating"
    /\ run = "exit" => todo = <<>> /\ (m_update_status = "complete" => rec = Same(settings))
    /\ run = "swap" =>
          /\ ~ota /\ m_dfu_state = "idle" /\ Len(todo) <= 3 /\ DoneQueue(todo, ota)
          /\ Recorded(rec, settings, Len(todo))
          /\ Patient(Faults) => Holds(app, "sys")
          /\ m_update_status = "saving" => m_settings_store_pending = 1 /\ todo # <<>>
          /\ m_update_status = "complete" => todo = <<>>

Before == m_dfu_state = "idle" \/ (Devices[device].signed /\ m_dfu_state \in {"rdy", "rx_init"})
BeforeInv == ~InProgress(rec) /\ todo = <<>> /\ m_update_status \notin {"saving", "complete"}

PreparingInv ==
    /\ ~InProgress(rec) /\ m_update_status \notin {"saving", "complete"}
    /\ todo # <<>> /\ \A i \in 1 .. Len(todo) : todo[i] \in EraseReqs /\ (todo[i].cb = "cleared" <=> i = Len(todo))
    /\ todo[1].p = 0 \/ app[0] = "blank"

\* The bank is being marked, and then filled.
FillingInv ==
    /\ ErasedRec(settings) /\ m_update_status \notin {"saving", "complete"}
    /\ \E k \in 0 .. 3 :
          /\ ErasedQueue(todo, ota, k) /\ Recorded(rec, settings, k)
          /\ k = 3 => ~InProgress(rec)
          /\ k > 0 => app[0] = "blank" /\ m_dfu_state # "wait_activate"

\* The update is activated.
FinishingInv ==
    /\ m_dfu_state = "wait_activate" /\ settings = CompleteOf(kind) /\ (ota => m_tear_down_in_progress)
    /\ DoneQueue(todo, ota)
    /\ IF Len(todo) >= 3 THEN Unbootable(rec) ELSE Recorded(rec, settings, Len(todo))
    /\ m_update_status = "saving" =>
          todo # <<>> /\ m_settings_store_pending = (IF ota /\ Len(todo) >= 2 THEN 2 ELSE 1)
    /\ m_update_status = "complete" => todo = <<>>

\* A peer that waits has its image validated when it is in flash.
ValidatedInv ==
    m_dfu_state = "wait_activate" /\ Patient(Faults) =>
        Holds(app, AnnouncedBy(kind)) /\ \A i \in 1 .. Len(todo) : todo[i] \notin DataReqs

SessionInv ==
    IF Before THEN BeforeInv
    ELSE IF m_dfu_state = "preparing" THEN PreparingInv
    ELSE dfu_page_erased[0] /\ ValidatedInv /\ (FillingInv \/ FinishingInv)

IInv ==
    /\ Shape /\ Safe(Faults, app, rec) /\ RestInv
    /\ run = "dfu" => SessionInv
    /\ BootsOnlyCompleteImage

-----------------------------------------------------------------------------
(* What the flash may be left as. *)

LEMMA PageZero == 0 \in Page /\ N \in Nat /\ N > 0
  BY SingleBankConstants DEF Page

\* The seal covers the other three parts.
LEMMA IntactParts ==
  ASSUME NEW c, RecordShape(c)
  PROVE  Intact(c) <=> \/ c.seal = Blank
                       \/ c.seal # Torn /\ c.geo = c.seal /\ c.w0 = c.seal /\ c.w1 = c.seal
<1>1. DOMAIN c = {"geo", "seal", "w0", "w1"}
  BY DEF RecordShape
<1> QED
  BY <1>1 DEF Intact

\* A record that marks the bank as erased is never taken for anything else.
LEMMA UnbootableSafe ==
  ASSUME NEW f, NEW a, NEW c, Unbootable(c)
  PROVE  Safe(f, a, c)
<1> DEFINE s == c.seal
<1>1. c = [geo |-> s, seal |-> s, w0 |-> s, w1 |-> s] /\ ErasedRec(s)
  BY DEF Unbootable, Same
<1>2. c.w0.bank_0 = "invalid" /\ c.geo.staged = "none" /\ c.seal.bank_0 = "invalid"
  BY <1>1 DEF ErasedRec
<1>3. c.seal # Blank
  BY <1>2 DEF Blank, Rec
<1> QED
  BY <1>2, <1>3 DEF Safe, InProgress, Unmarked

\* Nor is a bank whose first page is erased, or half erased.
LEMMA NoVectorSafe ==
  ASSUME NEW f, NEW a, NEW c, a[0] \in {"blank", "torn"}, ~InProgress(c)
  PROVE  Safe(f, a, c)
  BY DEF Safe, Vector

\* A validated image may be met with any record that is not one of another kind.
LEMMA ValidatedSafe ==
  ASSUME NEW f, NEW a, NEW c, NEW k,
         Patient(f) => Holds(a, AnnouncedBy(k)), k = "app" => ~InProgress(c)
  PROVE  Safe(f, a, c)
<1>1. Benign(f) => Patient(f)
  BY DEF Benign, Patient
<1>2. CASE k = "app"
  BY <1>1, <1>2 DEF Safe, AnnouncedBy
<1>3. CASE k # "app"
  <2>1. Patient(f) => Holds(a, "sys")
    BY <1>3 DEF AnnouncedBy
  <2>2. Patient(f) => ~Vector(a)
    BY <2>1, PageZero DEF Vector, Holds
  <2> QED
    BY <1>1, <2>1, <2>2 DEF Safe
<1> QED
  BY <1>2, <1>3

\* What one request makes of the two regions: done, and cut.
DoneRec(c, op, s) ==
    IF op = "erase_set" THEN Same(Blank)
    ELSE IF op = "write_geo" THEN [c EXCEPT !.geo = s, !.seal = s]
    ELSE [c EXCEPT !.w0 = s, !.w1 = s]
CutRecs(c, op, s) ==
    IF op = "erase_set" THEN [DOMAIN c -> {Blank, Torn}]
    ELSE IF op = "write_geo"
    THEN {[c EXCEPT !.geo = Torn], [c EXCEPT !.geo = s], [c EXCEPT !.geo = s, !.seal = Torn]}
    ELSE {[c EXCEPT !.w0 = Torn], [c EXCEPT !.w0 = s], [c EXCEPT !.w0 = s, !.w1 = Torn]}

\* While a save has k requests to go, its first is performed.
SaveOp(k) == IF k = 3 THEN "erase_set" ELSE IF k = 2 THEN "write_geo" ELSE "write_mark"

LEMMA SaveStep ==
  ASSUME NEW c, NEW s, NEW k \in {1, 2, 3}, Recorded(c, s, k), OkRec(s), RecordShape(c)
  PROVE  LET d == DoneRec(c, SaveOp(k), s) IN RecordShape(d) /\ Recorded(d, s, k - 1)
<1>1. CASE k = 3
  BY <1>1 DEF DoneRec, SaveOp, Recorded, RecordShape, Same, OkRec, Blank, Rec
<1>2. CASE k = 2
  <2>1. c = Same(Blank) /\ DoneRec(c, SaveOp(k), s) = [c EXCEPT !.geo = s, !.seal = s]
    BY <1>2 DEF DoneRec, SaveOp, Recorded
  <2>2. DoneRec(c, SaveOp(k), s) = Geo(s)
    BY <2>1 DEF Same, Geo
  <2>3. RecordShape(Geo(s))
    BY DEF RecordShape, Geo, OkRec, Blank, Rec
  <2> QED
    BY <1>2, <2>2, <2>3 DEF Recorded
<1>3. CASE k = 1
  <2>1. c = Geo(s) /\ DoneRec(c, SaveOp(k), s) = [c EXCEPT !.w0 = s, !.w1 = s]
    BY <1>3 DEF DoneRec, SaveOp, Recorded
  <2>2. DoneRec(c, SaveOp(k), s) = Same(s)
    BY <2>1 DEF Same, Geo
  <2>3. RecordShape(Same(s))
    BY DEF RecordShape, Same
  <2> QED
    BY <1>3, <2>2, <2>3 DEF Recorded
<1> QED
  BY <1>1, <1>2, <1>3

\* No state of a save of this record starts a copy, whether it is cut or done.
Quiet(s) == s.bank_0 # "sd" /\ s.staged # "bl"

LEMMA QuietDone ==
  ASSUME NEW c, NEW s, NEW k \in {0, 1, 2}, Recorded(c, s, k), Quiet(s)
  PROVE  ~InProgress(c)
<1>1. CASE k = 2
  BY <1>1 DEF Recorded, InProgress, Same, Blank, Rec
<1>2. CASE k = 1
  BY <1>2 DEF Recorded, InProgress, Geo, Blank, Rec, Quiet
<1>3. CASE k = 0
  BY <1>3 DEF Recorded, InProgress, Same, Quiet
<1> QED
  BY <1>1, <1>2, <1>3

LEMMA QuietCut ==
  ASSUME NEW c, NEW s, NEW k \in {1, 2, 3}, Recorded(c, s, k), Quiet(s), RecordShape(c),
         NEW d \in CutRecs(c, SaveOp(k), s)
  PROVE  ~InProgress(d)
<1>1. CASE k = 3
  <2>1. d \in [{"geo", "seal", "w0", "w1"} -> {Blank, Torn}]
    BY <1>1 DEF CutRecs, SaveOp, RecordShape
  <2>2. d["w0"] \in {Blank, Torn} /\ d["geo"] \in {Blank, Torn}
    BY <2>1
  <2>3. d.w0.bank_0 # "sd" /\ d.geo.staged # "bl"
    BY <2>2 DEF Blank, Torn, Rec
  <2> QED
    BY <2>3 DEF InProgress
<1>2. CASE k = 2
  <2>1. c = Same(Blank) /\ d \in {[c EXCEPT !.geo = Torn], [c EXCEPT !.geo = s], [c EXCEPT !.geo = s, !.seal = Torn]}
    BY <1>2 DEF CutRecs, SaveOp, Recorded
  <2>2. d.w0 = Blank /\ d.geo \in {Torn, s}
    BY <2>1 DEF Same
  <2>3. d.w0.bank_0 # "sd" /\ d.geo.staged # "bl"
    BY <2>2 DEF Blank, Torn, Rec, Quiet
  <2> QED
    BY <2>3 DEF InProgress
<1>3. CASE k = 1
  <2>1. c = Geo(s) /\ d \in {[c EXCEPT !.w0 = Torn], [c EXCEPT !.w0 = s], [c EXCEPT !.w0 = s, !.w1 = Torn]}
    BY <1>3 DEF CutRecs, SaveOp, Recorded
  <2>2. d.w0 \in {Torn, s} /\ d.geo = s
    BY <2>1 DEF Geo
  <2>3. d.w0.bank_0 # "sd" /\ d.geo.staged # "bl"
    BY <2>2 DEF Torn, Rec, Quiet
  <2> QED
    BY <2>3 DEF InProgress
<1> QED
  BY <1>1, <1>2, <1>3

LEMMA CutShape ==
  ASSUME NEW c, NEW s, NEW op, OkRec(s), RecordShape(c), NEW d \in CutRecs(c, op, s)
  PROVE  RecordShape(d)
<1>0. OkRec(Blank) /\ OkRec(Torn) /\ OkRec(c.w0)
  BY DEF OkRec, Blank, Torn, Rec, RecordShape
<1>1. CASE op = "erase_set"
  <2>1. d \in [{"geo", "seal", "w0", "w1"} -> {Blank, Torn}]
    BY <1>1 DEF CutRecs, RecordShape
  <2>2. d = [geo |-> d["geo"], seal |-> d["seal"], w0 |-> d["w0"], w1 |-> d["w1"]]
    BY <2>1
  <2>3. d["w0"] \in {Blank, Torn}
    BY <2>1
  <2> QED
    BY <1>0, <2>2, <2>3 DEF RecordShape
<1>2. CASE op = "write_geo"
  <2>1. d \in {[c EXCEPT !.geo = Torn], [c EXCEPT !.geo = s], [c EXCEPT !.geo = s, !.seal = Torn]}
    BY <1>2 DEF CutRecs
  <2> QED
    BY <1>0, <2>1 DEF RecordShape
<1>3. CASE op \notin {"erase_set", "write_geo"}
  <2>1. d \in {[c EXCEPT !.w0 = Torn], [c EXCEPT !.w0 = s], [c EXCEPT !.w0 = s, !.w1 = Torn]}
    BY <1>3 DEF CutRecs
  <2> QED
    BY <1>0, <2>1 DEF RecordShape
<1> QED
  BY <1>1, <1>2, <1>3

-----------------------------------------------------------------------------
(* The queue of requests. *)

LEMMA HeadTail ==
  ASSUME NEW S, NEW q \in Seq(S), q # <<>>
  PROVE  /\ Head(q) = q[1] /\ Head(q) \in S /\ Tail(q) \in Seq(S)
         /\ Len(q) \in Nat /\ Len(q) > 0 /\ Len(Tail(q)) = Len(q) - 1
         /\ \A i \in 1 .. Len(Tail(q)) : Tail(q)[i] = q[i + 1] /\ i + 1 \in 1 .. Len(q)
  OBVIOUS

\* The three requests of a save are all different from those on the image.
LEMMA SaveReqFacts ==
  ASSUME NEW o, NEW j \in 1 .. 3
  PROVE  /\ SaveReq(o, j).op = SaveOp(4 - j) /\ SaveReq(o, j).p = 0
         /\ SaveReq(o, j).cb = (IF j = 3 \/ (j = 2 /\ o) THEN "stored" ELSE "none")
         /\ SaveReq(o, j).op \in {"erase_set", "write_geo", "write_mark"}
         /\ SaveReq(o, j) \notin DataReqs /\ SaveReq(o, j) \notin EraseReqs
<1>1. CASE j = 1
  BY <1>1 DEF SaveReq, Req, SaveOp, DataReqs, EraseReqs
<1>2. CASE j = 2
  BY <1>2 DEF SaveReq, Req, SaveOp, DataReqs, EraseReqs
<1>3. CASE j = 3
  BY <1>3 DEF SaveReq, Req, SaveOp, DataReqs, EraseReqs
<1> QED
  BY <1>1, <1>2, <1>3

LEMMA ErasedTail ==
  ASSUME NEW q \in Seq(Requests), q # <<>>, NEW o, NEW k \in 0 .. 3, ErasedQueue(q, o, k)
  PROVE  /\ k > 0 => Head(q) = SaveReq(o, 4 - k) /\ ErasedQueue(Tail(q), o, k - 1)
         /\ k = 0 => Head(q) \in DataReqs /\ ErasedQueue(Tail(q), o, 0)
<1> DEFINE t == Tail(q)
<1>1. /\ Head(q) = q[1] /\ Len(q) \in Nat /\ Len(q) > 0 /\ Len(t) = Len(q) - 1
      /\ \A i \in 1 .. Len(t) : t[i] = q[i + 1] /\ i + 1 \in 1 .. Len(q)
  BY HeadTail
<1>2. /\ k <= Len(q)
      /\ \A i \in 1 .. Len(q) : IF i <= k THEN q[i] = SaveReq(o, 3 - k + i) ELSE q[i] \in DataReqs
  BY DEF ErasedQueue
<1> HIDE DEF t
<1>3. CASE k > 0
  <2>1. q[1] = SaveReq(o, 4 - k)
    <3>1. 1 \in 1 .. Len(q) /\ 1 <= k /\ 3 - k + 1 = 4 - k
      BY <1>1, <1>3
    <3> QED
      BY <1>2, <3>1
  <2>2. ASSUME NEW i \in 1 .. Len(t)
        PROVE  IF i <= k - 1 THEN t[i] = SaveReq(o, 3 - (k - 1) + i) ELSE t[i] \in DataReqs
    <3>1. t[i] = q[i + 1] /\ i + 1 \in 1 .. Len(q)
      BY <1>1
    <3>2. (i <= k - 1 <=> i + 1 <= k) /\ 3 - (k - 1) + i = 3 - k + (i + 1)
      BY <1>1
    <3> QED
      BY <1>2, <3>1, <3>2
  <2>3. k - 1 <= Len(t)
    BY <1>1, <1>2
  <2> QED
    BY <1>1, <1>3, <2>1, <2>2, <2>3 DEF ErasedQueue, t
<1>4. CASE k = 0
  <2>1. q[1] \in DataReqs
    BY <1>1, <1>2, <1>4
  <2>2. ASSUME NEW i \in 1 .. Len(t) PROVE t[i] \in DataReqs /\ ~(i <= 0)
    <3>1. t[i] = q[i + 1] /\ i + 1 \in 1 .. Len(q) /\ ~(i + 1 <= k)
      BY <1>1, <1>4
    <3> QED
      BY <1>1, <1>2, <3>1
  <2>3. 0 <= Len(t)
    BY <1>1
  <2> QED
    BY <1>1, <1>4, <2>1, <2>2, <2>3 DEF ErasedQueue, t
<1> QED
  BY <1>3, <1>4

LEMMA DoneTail ==
  ASSUME NEW q \in Seq(Requests), q # <<>>, NEW o, DoneQueue(q, o)
  PROVE  /\ DoneQueue(Tail(q), o)
         /\ Len(q) > 3 => Head(q) \in DataReqs
         /\ Len(q) <= 3 => Len(q) \in {1, 2, 3} /\ Head(q) = SaveReq(o, 4 - Len(q))
<1> DEFINE t == Tail(q)
<1>1. /\ Head(q) = q[1] /\ Len(q) \in Nat /\ Len(q) > 0 /\ Len(t) = Len(q) - 1
      /\ \A i \in 1 .. Len(t) : t[i] = q[i + 1] /\ i + 1 \in 1 .. Len(q)
  BY HeadTail
<1>2. \A i \in 1 .. Len(q) :
        IF i <= Len(q) - 3 THEN q[i] \in DataReqs ELSE q[i] = SaveReq(o, 3 - Len(q) + i)
  BY DEF DoneQueue
<1> HIDE DEF t
<1>3. ASSUME NEW i \in 1 .. Len(t)
      PROVE  IF i <= Len(t) - 3 THEN t[i] \in DataReqs ELSE t[i] = SaveReq(o, 3 - Len(t) + i)
  <2>1. t[i] = q[i + 1] /\ i + 1 \in 1 .. Len(q)
    BY <1>1
  <2>2. (i <= Len(t) - 3 <=> i + 1 <= Len(q) - 3) /\ 3 - Len(t) + i = 3 - Len(q) + (i + 1)
    BY <1>1
  <2> QED
    BY <1>2, <2>1, <2>2
<1>4. 1 \in 1 .. Len(q) /\ (1 <= Len(q) - 3 <=> Len(q) > 3) /\ 3 - Len(q) + 1 = 4 - Len(q)
  BY <1>1
<1>5. IF 1 <= Len(q) - 3 THEN q[1] \in DataReqs ELSE q[1] = SaveReq(o, 3 - Len(q) + 1)
  BY <1>2, <1>4
<1>6. Len(q) <= 3 => Len(q) \in {1, 2, 3}
  BY <1>1
<1> QED
  BY <1>1, <1>3, <1>4, <1>5, <1>6 DEF DoneQueue, t

\* Data are queued behind what is left of the save.
LEMMA ErasedAppend ==
  ASSUME NEW q \in Seq(Requests), NEW o, NEW k \in 0 .. 3, ErasedQueue(q, o, k),
         NEW d \in Seq(DataReqs)
  PROVE  ErasedQueue(q \o d, o, k)
<1> DEFINE t == q \o d
<1>1. /\ Len(q) \in Nat /\ Len(d) \in Nat /\ Len(t) = Len(q) + Len(d)
      /\ \A i \in 1 .. Len(t) :
            /\ i <= Len(q) => t[i] = q[i] /\ i \in 1 .. Len(q)
            /\ i > Len(q) => t[i] \in DataReqs
  OBVIOUS
<1>2. /\ k <= Len(q)
      /\ \A i \in 1 .. Len(q) : IF i <= k THEN q[i] = SaveReq(o, 3 - k + i) ELSE q[i] \in DataReqs
  BY DEF ErasedQueue
<1> HIDE DEF t
<1>3. ASSUME NEW i \in 1 .. Len(t)
      PROVE  IF i <= k THEN t[i] = SaveReq(o, 3 - k + i) ELSE t[i] \in DataReqs
  <2>1. CASE i <= Len(q)
    BY <1>1, <1>2, <2>1
  <2>2. CASE i > Len(q)
    BY <1>1, <1>2, <2>2
  <2> QED
    BY <1>1, <2>1, <2>2
<1> QED
  BY <1>1, <1>2, <1>3 DEF ErasedQueue, t

SaveQueue(o) == <<SaveReq(o, 1), SaveReq(o, 2), SaveReq(o, 3)>>

LEMMA SaveQueueFacts ==
  ASSUME NEW o \in BOOLEAN
  PROVE  /\ SaveQueue(o) \in Seq(Requests) /\ Len(SaveQueue(o)) = 3
         /\ \A i \in 1 .. 3 : SaveQueue(o)[i] = SaveReq(o, i)
         /\ ErasedQueue(SaveQueue(o), o, 3)
<1>1. \A j \in 1 .. 3 : SaveReq(o, j) \in Requests
  BY DEF Requests, SaveReqs
<1> DEFINE a == SaveReq(o, 1)  b == SaveReq(o, 2)  c == SaveReq(o, 3)
<1>2. a \in Requests /\ b \in Requests /\ c \in Requests
  BY <1>1
<1>3. SaveQueue(o) = <<a, b, c>>
  BY DEF SaveQueue
<1> HIDE DEF a, b, c
<1>4. <<a, b, c>> \in Seq(Requests) /\ Len(<<a, b, c>>) = 3
  BY <1>2
<1>5. <<a, b, c>>[1] = a /\ <<a, b, c>>[2] = b /\ <<a, b, c>>[3] = c
  OBVIOUS
<1>6. \A i \in 1 .. 3 : SaveQueue(o)[i] = SaveReq(o, i)
  <2> TAKE i \in 1 .. 3
  <2>1. i = 1 \/ i = 2 \/ i = 3
    OBVIOUS
  <2> QED
    BY <1>3, <1>5, <2>1 DEF a, b, c
<1>7. \A i \in 1 .. 3 : i <= 3 /\ 3 - 3 + i = i
  OBVIOUS
<1>8. ErasedQueue(SaveQueue(o), o, 3)
  BY <1>3, <1>4, <1>6, <1>7 DEF ErasedQueue
<1> QED
  BY <1>3, <1>4, <1>6, <1>8

LEMMA SaveRequestsAre ==
  ASSUME ota \in BOOLEAN
  PROVE  SaveRequests = SaveQueue(ota)
  BY DEF SaveRequests, SaveQueue, SaveReq

\* The requests of a save are queued behind data.
LEMMA DoneAppend ==
  ASSUME NEW q \in Seq(Requests), \A i \in 1 .. Len(q) : q[i] \in DataReqs, NEW o \in BOOLEAN
  PROVE  /\ DoneQueue(q \o SaveQueue(o), o) /\ q \o SaveQueue(o) \in Seq(Requests)
         /\ Len(q \o SaveQueue(o)) = Len(q) + 3
         /\ \A i \in 1 .. Len(q) : (q \o SaveQueue(o))[i] = q[i]
<1> DEFINE d == SaveQueue(o)  t == q \o d
<1>0. d \in Seq(Requests) /\ Len(d) = 3 /\ \A i \in 1 .. 3 : d[i] = SaveReq(o, i)
  BY SaveQueueFacts
<1> HIDE DEF d
<1>a. d \in Seq(Requests) /\ Len(d) \in Nat /\ Len(q) \in Nat
  BY <1>0
<1>b. t \in Seq(Requests) /\ Len(t) = Len(q) + Len(d)
  BY <1>a
<1>c. \A i \in 1 .. Len(q) : t[i] = q[i]
  BY <1>a
<1>d. \A i \in 1 .. Len(t) : i > Len(q) => t[i] = d[i - Len(q)]
  BY <1>a
<1>1. /\ Len(q) \in Nat /\ Len(t) = Len(q) + 3 /\ t \in Seq(Requests)
      /\ \A i \in 1 .. Len(q) : t[i] = q[i]
      /\ \A i \in 1 .. Len(t) : i > Len(q) => t[i] = d[i - Len(q)]
  BY <1>0, <1>a, <1>b, <1>c, <1>d
<1> HIDE DEF t
<1>2. ASSUME NEW i \in 1 .. Len(t)
      PROVE  IF i <= Len(t) - 3 THEN t[i] \in DataReqs ELSE t[i] = SaveReq(o, 3 - Len(t) + i)
  <2>1. CASE i <= Len(q)
    BY <1>1, <2>1
  <2>2. CASE i > Len(q)
    <3>1. i - Len(q) \in 1 .. 3 /\ i - Len(q) = 3 - Len(t) + i /\ ~(i <= Len(t) - 3)
      BY <1>1, <2>2
    <3>2. t[i] = SaveReq(o, i - Len(q))
      BY <1>0, <1>1, <2>2, <3>1
    <3> QED
      BY <3>1, <3>2
  <2> QED
    BY <1>1, <2>1, <2>2
<1>3. DoneQueue(t, o)
  BY <1>2 DEF DoneQueue
<1> QED
  BY <1>1, <1>3 DEF t, d

-----------------------------------------------------------------------------
(* The request at the head of the queue tells what the session is doing. *)

Active == run = "dfu" /\ ~Before /\ m_dfu_state # "preparing"

Swapping ==
    /\ run = "swap" /\ Len(todo) \in {1, 2, 3} /\ Head(todo) = SaveReq(ota, 4 - Len(todo))
    /\ Patient(Faults) => Holds(app, "sys")
Erasing ==
    /\ run = "dfu" /\ m_dfu_state = "preparing" /\ Head(todo) \in EraseReqs /\ PreparingInv
    /\ Head(todo).p = 0 \/ app[0] = "blank"
Marking(k) ==
    /\ Active /\ ErasedRec(settings) /\ m_update_status \notin {"saving", "complete"}
    /\ Head(todo) = SaveReq(ota, 4 - k) /\ ErasedQueue(Tail(todo), ota, k - 1)
    /\ Recorded(rec, settings, k) /\ (k = 3 => ~InProgress(rec))
    /\ app[0] = "blank" /\ m_dfu_state # "wait_activate"
Filling ==
    /\ Active /\ ErasedRec(settings) /\ m_update_status \notin {"saving", "complete"}
    /\ Head(todo) \in DataReqs /\ ErasedQueue(Tail(todo), ota, 0) /\ rec = Same(settings)
Draining == Active /\ FinishingInv /\ Len(todo) > 3 /\ Head(todo) \in DataReqs
Sealing ==
    /\ Active /\ FinishingInv /\ Len(todo) \in {1, 2, 3} /\ Head(todo) = SaveReq(ota, 4 - Len(todo))
    /\ Patient(Faults) => Holds(app, AnnouncedBy(kind))

LEMMA FourMinus ==
  \A n \in {1, 2, 3} :
      /\ 4 - n \in 1 .. 3 /\ 4 - (4 - n) = n /\ (n # 3 => ~(n >= 3))
      /\ (n = 1 => 4 - n = 3) /\ (n = 3 => 4 - n = 1)
  OBVIOUS

LEMMA HeadCases ==
  ASSUME IInv, todo # <<>>
  PROVE  \/ Swapping \/ Erasing \/ (\E k \in {1, 2, 3} : Marking(k))
         \/ Filling \/ Draining \/ Sealing
<1>0. todo \in Seq(Requests) /\ run \in {"boot", "dfu", "swap", "exit", "app"}
  BY DEF IInv, Shape
<1>1. run \in {"dfu", "swap"}
  BY <1>0 DEF IInv, RestInv
<1>2. CASE run = "swap"
  <2>1. DoneQueue(todo, ota) /\ Len(todo) <= 3 /\ (Patient(Faults) => Holds(app, "sys"))
    BY <1>2 DEF IInv, RestInv
  <2> QED
    BY <1>0, <1>2, <2>1, DoneTail DEF Swapping
<1>3. CASE run = "dfu" /\ m_dfu_state = "preparing"
  <2>1. PreparingInv
    BY <1>3 DEF IInv, SessionInv, Before
  <2>2. Head(todo) = todo[1] /\ 1 \in 1 .. Len(todo)
    BY <1>0, HeadTail
  <2>3. Head(todo) \in EraseReqs /\ (Head(todo).p = 0 \/ app[0] = "blank")
    BY <2>1, <2>2 DEF PreparingInv
  <2> QED
    BY <1>3, <2>1, <2>3 DEF Erasing
<1>4. CASE run = "dfu" /\ m_dfu_state # "preparing"
  <2>1. Active /\ ValidatedInv /\ (FillingInv \/ FinishingInv)
    BY <1>4 DEF IInv, SessionInv, Active, BeforeInv
  <2>2. CASE FillingInv
    <3>1. PICK k \in 0 .. 3 :
            /\ ErasedQueue(todo, ota, k) /\ Recorded(rec, settings, k)
            /\ k = 3 => ~InProgress(rec)
            /\ k > 0 => app[0] = "blank" /\ m_dfu_state # "wait_activate"
      BY <2>2 DEF FillingInv
    <3>2. ErasedRec(settings) /\ m_update_status \notin {"saving", "complete"}
      BY <2>2 DEF FillingInv
    <3>3. CASE k > 0
      <4>1. k \in {1, 2, 3} /\ Head(todo) = SaveReq(ota, 4 - k) /\ ErasedQueue(Tail(todo), ota, k - 1)
        BY <1>0, <3>1, <3>3, ErasedTail
      <4>2. Marking(k)
        BY <2>1, <3>1, <3>2, <3>3, <4>1 DEF Marking
      <4> QED
        BY <4>1, <4>2
    <3>4. CASE k = 0
      <4>1. Head(todo) \in DataReqs /\ ErasedQueue(Tail(todo), ota, 0)
        BY <1>0, <3>1, <3>4, ErasedTail
      <4>2. rec = Same(settings)
        BY <3>1, <3>4 DEF Recorded
      <4> QED
        BY <2>1, <3>2, <4>1, <4>2 DEF Filling
    <3> QED
      BY <3>3, <3>4
  <2>3. CASE FinishingInv
    <3>1. DoneQueue(todo, ota) /\ m_dfu_state = "wait_activate"
      BY <2>3 DEF FinishingInv
    <3>2. Patient(Faults) => Holds(app, AnnouncedBy(kind))
      BY <2>1, <3>1 DEF ValidatedInv
    <3>3. CASE Len(todo) > 3
      BY <1>0, <2>1, <2>3, <3>1, <3>3, DoneTail DEF Draining
    <3>4. CASE ~(Len(todo) > 3)
      <4>1. Len(todo) <= 3
        BY <1>0, <3>4
      <4> QED
        BY <1>0, <2>1, <2>3, <3>1, <3>2, <4>1, DoneTail DEF Sealing
    <3> QED
      BY <3>3, <3>4
  <2> QED
    BY <2>1, <2>2, <2>3
<1> QED
  BY <1>1, <1>2, <1>3, <1>4

\* An erased record is quiet, and so is that of a complete application.
LEMMA QuietRecords ==
  /\ \A s : ErasedRec(s) => Quiet(s)
  /\ Quiet(CompleteOf("app"))
  BY DEF Quiet, ErasedRec, CompleteOf, Rec

LEMMA FilledUnbootable ==
  ASSUME NEW s, ErasedRec(s), rec = Same(s)
  PROVE  Unbootable(rec)
  BY DEF Unbootable, Same

LEMMA DrainingUnbootable ==
  ASSUME Draining, todo \in Seq(Requests)
  PROVE  Unbootable(rec)
<1>1. Len(todo) >= 3
  BY DEF Draining
<1> QED
  BY <1>1 DEF Draining, FinishingInv

\* What a request on the image leaves, done or cut, is no danger.
LEMMA ImageStepSafe ==
  ASSUME IInv, todo # <<>>, Head(todo).op \in {"erase_app", "write_app"},
         NEW x, Head(todo).op = "erase_app" => x \in {"blank", "torn"}
  PROVE  Safe(Faults, [app EXCEPT ![Head(todo).p] = x], rec)
<1> DEFINE r == Head(todo)
<1>0. app \in [Page -> Contents] /\ todo \in Seq(Requests)
  BY DEF IInv, Shape
<1>1. CASE Swapping
  <2>1. r = SaveReq(ota, 4 - Len(todo)) /\ 4 - Len(todo) \in 1 .. 3
    BY <1>1, FourMinus, Zenon DEF Swapping
  <2>2. r.op \in {"erase_set", "write_geo", "write_mark"}
    BY <2>1, SaveReqFacts
  <2> QED
    BY <2>2
<1>2. CASE Erasing
  <2>1. r \in EraseReqs /\ r.p \in Page /\ r.op = "erase_app"
    BY <1>2 DEF Erasing, EraseReqs
  <2> DEFINE a == [app EXCEPT ![r.p] = x]
  <2>2. a[0] \in {"blank", "torn"}
    BY <1>0, <1>2, <2>1, PageZero DEF Erasing
  <2>3. ~InProgress(rec)
    BY <1>2 DEF Erasing, PreparingInv
  <2> HIDE DEF a
  <2>4. Safe(Faults, a, rec)
    BY <2>2, <2>3, NoVectorSafe
  <2> QED
    BY <2>4 DEF a
<1>3. ASSUME NEW k \in {1, 2, 3}, Marking(k) PROVE FALSE
  <2>1. r = SaveReq(ota, 4 - k) /\ 4 - k \in 1 .. 3
    BY <1>3 DEF Marking
  <2> QED
    BY <2>1, SaveReqFacts
<1>4. CASE Filling
  BY <1>4, FilledUnbootable, UnbootableSafe DEF Filling
<1>5. CASE Draining
  BY <1>0, <1>5, DrainingUnbootable, UnbootableSafe
<1>6. CASE Sealing
  <2>1. r = SaveReq(ota, 4 - Len(todo)) /\ 4 - Len(todo) \in 1 .. 3
    BY <1>6, FourMinus, Zenon DEF Sealing
  <2> QED
    BY <2>1, SaveReqFacts
<1> QED
  BY <1>1, <1>2, <1>3, <1>4, <1>5, <1>6, HeadCases

\* Nor is what a request of a save leaves.
LEMMA RecordStepSafe ==
  ASSUME IInv, todo # <<>>, Head(todo).op \in {"erase_set", "write_geo", "write_mark"},
         NEW c, c = DoneRec(rec, Head(todo).op, settings) \/ c \in CutRecs(rec, Head(todo).op, settings)
  PROVE  Safe(Faults, app, c) /\ RecordShape(c)
<1> DEFINE r == Head(todo)
<1>0. RecordShape(rec) /\ OkRec(settings) /\ todo \in Seq(Requests)
  BY DEF IInv, Shape
<1>0a. RecordShape(DoneRec(rec, r.op, settings))
  <2> DEFINE op == r.op
  <2> HIDE DEF op
  <2>0. OkRec(Blank)
    BY DEF OkRec, Blank, Rec
  <2>1. RecordShape(DoneRec(rec, op, settings))
    BY <1>0, <2>0 DEF DoneRec, RecordShape, Same
  <2> QED
    BY <2>1 DEF op
<1>1. RecordShape(c)
  BY <1>0, <1>0a, CutShape
<1>2. ASSUME NEW k \in {1, 2, 3}, r.op = SaveOp(k), Recorded(rec, settings, k), Quiet(settings)
      PROVE  ~InProgress(c)
  <2>1. CASE c = DoneRec(rec, r.op, settings)
    <3>1. Recorded(c, settings, k - 1) /\ k - 1 \in {0, 1, 2}
      BY <1>0, <1>2, <2>1, SaveStep
    <3> QED
      BY <1>2, <3>1, QuietDone
  <2>2. CASE c \in CutRecs(rec, r.op, settings)
    BY <1>0, <1>2, <2>2, QuietCut
  <2> QED
    BY <2>1, <2>2
<1>3. CASE Swapping
  <2>1. AnnouncedBy("sd") = "sys"
    BY DEF AnnouncedBy
  <2>2. Patient(Faults) => Holds(app, AnnouncedBy("sd"))
    BY <1>3, <2>1 DEF Swapping
  <2>3. "sd" = "app" => ~InProgress(c)
    OBVIOUS
  <2> QED
    BY <1>1, <2>2, <2>3, ValidatedSafe
<1>4. ASSUME Erasing PROVE FALSE
  BY <1>4 DEF Erasing, EraseReqs
<1>5. ASSUME NEW k \in {1, 2, 3}, Marking(k) PROVE Safe(Faults, app, c)
  <2>1. r = SaveReq(ota, 4 - k) /\ 4 - k \in 1 .. 3 /\ 4 - (4 - k) = k
    BY <1>5 DEF Marking
  <2>2. r.op = SaveOp(k)
    BY <2>1, SaveReqFacts
  <2>3. ~InProgress(c)
    BY <1>2, <1>5, <2>2, QuietRecords DEF Marking
  <2> QED
    BY <1>5, <2>3, NoVectorSafe DEF Marking
<1>6. ASSUME Filling \/ Draining PROVE FALSE
  BY <1>6 DEF Filling, Draining, DataReqs
<1>7. CASE Sealing
  <2> DEFINE k == Len(todo)
  <2>1. k \in {1, 2, 3} /\ r = SaveReq(ota, 4 - k) /\ 4 - k \in 1 .. 3 /\ 4 - (4 - k) = k
    BY <1>7, FourMinus, Zenon DEF Sealing
  <2>2. r.op = SaveOp(k)
    BY <2>1, SaveReqFacts
  <2>3. settings = CompleteOf(kind) /\ Recorded(rec, settings, k)
    BY <1>7, <2>1 DEF Sealing, FinishingInv, Recorded
  <2>4. kind = "app" => ~InProgress(c)
    BY <1>2, <2>1, <2>2, <2>3, QuietRecords
  <2> QED
    BY <1>1, <1>7, <2>4, ValidatedSafe DEF Sealing
<1> QED
  BY <1>1, <1>3, <1>4, <1>5, <1>6, <1>7, HeadCases

-----------------------------------------------------------------------------
(* Flash operations end, or are cut. *)

LEMMA RequestFacts ==
  ASSUME NEW r \in Requests
  PROVE  /\ r.p \in Page /\ (r.op = "write_app" => r.data \in Chunks)
         /\ r.op \in {"erase_app", "write_app", "erase_set", "write_geo", "write_mark"}
         /\ r.op = "erase_app" <=> r \in EraseReqs
         /\ r.op = "write_app" <=> r \in DataReqs
<1>1. CASE r \in EraseReqs
  BY <1>1 DEF EraseReqs, DataReqs
<1>2. CASE r \in DataReqs
  BY <1>2 DEF EraseReqs, DataReqs
<1>3. CASE r \in SaveReqs
  <2>1. PICK o \in BOOLEAN, j \in 1 .. 3 : r = SaveReq(o, j)
    BY <1>3 DEF SaveReqs
  <2> QED
    BY <2>1, SaveReqFacts, PageZero
<1> QED
  BY <1>1, <1>2, <1>3 DEF Requests

LEMMA CutSafe ==
  ASSUME IInv, Cut
  PROVE  /\ Safe(Faults, app', rec') /\ app' \in [Page -> Contents] /\ RecordShape(rec')
         /\ todo = <<>> => app' = app /\ rec' = rec
<1> DEFINE r == Head(todo)
<1>0. /\ app \in [Page -> Contents] /\ RecordShape(rec) /\ todo \in Seq(Requests)
      /\ Safe(Faults, app, rec)
  BY DEF IInv, Shape
<1>1. CASE UNCHANGED flashVars
  BY <1>0, <1>1 DEF flashVars
<1>2. CASE /\ todo # <<>> /\ r.op \in {"erase_app", "write_app"}
           /\ app' = [app EXCEPT ![r.p] = CutPage(r)]
           /\ rec' = rec
  <2>1. CutPage(r) \in {"part", "blank", "torn"} /\ (r.op = "erase_app" => CutPage(r) \in {"blank", "torn"})
    BY <1>2 DEF CutPage
  <2>2. r \in Requests
    BY <1>0, <1>2, HeadTail
  <2>3. r.p \in Page
    BY <2>2, RequestFacts
  <2>4. app' \in [Page -> Contents]
    BY <1>0, <1>2, <2>1, <2>3 DEF Contents
  <2>5. Safe(Faults, [app EXCEPT ![r.p] = CutPage(r)], rec)
    BY <1>2, <2>1, ImageStepSafe
  <2> QED
    BY <1>0, <1>2, <2>4, <2>5
<1>3. CASE /\ todo # <<>> /\ r.op \in {"erase_set", "write_geo", "write_mark"}
           /\ rec' \in CutRecord(r)
           /\ app' = app
  <2>1. rec' \in CutRecs(rec, r.op, settings)
    BY <1>3 DEF CutRecord, CutRecs
  <2> QED
    BY <1>0, <1>3, <2>1, RecordStepSafe
<1> QED
  BY <1>1, <1>2, <1>3 DEF Cut

\* What a request leaves when it is done.
LEMMA DoneSafe ==
  ASSUME IInv, todo # <<>>, FlashVarsAfter(Head(todo))
  PROVE  /\ Safe(Faults, app', rec') /\ app' \in [Page -> Contents] /\ RecordShape(rec')
         /\ Head(todo).op \in {"erase_set", "write_geo", "write_mark"} =>
               app' = app /\ rec' = DoneRec(rec, Head(todo).op, settings)
         /\ Head(todo).op \in {"erase_app", "write_app"} => rec' = rec
         /\ Head(todo).op = "erase_app" => app' = [app EXCEPT ![Head(todo).p] = "blank"]
<1> DEFINE r == Head(todo)
<1>0. /\ app \in [Page -> Contents] /\ RecordShape(rec) /\ todo \in Seq(Requests)
  BY DEF IInv, Shape
<1>1. r \in Requests
  BY <1>0, HeadTail
<1>2. /\ r.p \in Page /\ (r.op = "write_app" => r.data \in Chunks)
      /\ r.op \in {"erase_app", "write_app", "erase_set", "write_geo", "write_mark"}
  BY <1>1, RequestFacts
<1>3. CASE r.op \in {"erase_app", "write_app"}
  <2>1. PICK x \in Contents : /\ app' = [app EXCEPT ![r.p] = x] /\ rec' = rec
                              /\ r.op = "erase_app" => x = "blank"
    <3>1. r.op = "write_app" => Programmed(r.p, r.data) \in Contents
      BY <1>2 DEF Programmed, Contents, Chunks
    <3>2. "blank" \in Contents
      BY DEF Contents
    <3> QED
      BY <1>3, <3>1, <3>2 DEF FlashVarsAfter
  <2>2. app' \in [Page -> Contents]
    BY <1>0, <1>2, <2>1
  <2>3. Safe(Faults, [app EXCEPT ![r.p] = x], rec)
    BY <1>3, <2>1, ImageStepSafe
  <2> QED
    BY <1>0, <1>3, <2>1, <2>2, <2>3
<1>4. CASE r.op \in {"erase_set", "write_geo", "write_mark"}
  <2>1. app' = app /\ rec' = DoneRec(rec, r.op, settings)
    BY <1>4 DEF FlashVarsAfter, DoneRec
  <2> QED
    BY <1>0, <1>4, <2>1, RecordStepSafe
<1> QED
  BY <1>2, <1>3, <1>4

\* What every end of an operation leaves as it is.
LEMMA DoneCommon ==
  ASSUME IInv, FlashDone, UNCHANGED device
  PROVE  /\ todo # <<>> /\ todo \in Seq(Requests) /\ Head(todo) \in Requests /\ FlashVarsAfter(Head(todo))
         /\ Tail(todo) \in Seq(Requests) /\ Len(todo) \in Nat /\ Len(Tail(todo)) = Len(todo) - 1
         /\ run' = run /\ ota' = ota /\ m_data_received' = m_data_received /\ held' = held
         /\ kind' = kind /\ m_tear_down_in_progress' = m_tear_down_in_progress
         /\ device' = device /\ Faults' = Faults /\ run \in {"dfu", "swap"}
         /\ Safe(Faults', app', rec') /\ app' \in [Page -> Contents] /\ RecordShape(rec')
         /\ BootsOnlyCompleteImage'
<1>1. /\ todo # <<>> /\ FlashVarsAfter(Head(todo)) /\ run' = run /\ ota' = ota /\ device' = device
      /\ m_data_received' = m_data_received /\ held' = held
      /\ kind' = kind /\ m_tear_down_in_progress' = m_tear_down_in_progress
  BY DEF FlashDone
<1>2. todo \in Seq(Requests) /\ run \in {"boot", "dfu", "swap", "exit", "app"}
  BY DEF IInv, Shape
<1>3. run \in {"dfu", "swap"}
  BY <1>1, <1>2 DEF IInv, RestInv
<1>4. Faults' = Faults
  BY <1>1 DEF Faults
<1>5. Head(todo) \in Requests /\ Tail(todo) \in Seq(Requests) /\ Len(todo) \in Nat /\ Len(Tail(todo)) = Len(todo) - 1
  BY <1>1, <1>2, HeadTail
<1>6. Safe(Faults', app', rec') /\ app' \in [Page -> Contents] /\ RecordShape(rec')
  BY <1>1, <1>4, DoneSafe
<1>7. BootsOnlyCompleteImage'
  BY <1>1, <1>3 DEF BootsOnlyCompleteImage
<1> QED
  BY <1>1, <1>2, <1>3, <1>4, <1>5, <1>6, <1>7

\* The end of any other operation than the last of the preparation.
Popped ==
    /\ todo' = Tail(todo) /\ UNCHANGED <<m_dfu_state, dfu_page_erased, settings>>
    /\ IF Head(todo).cb = "stored" THEN Stored
       ELSE UNCHANGED <<m_settings_store_pending, m_update_status>>

LEMMA DonePopped ==
  ASSUME FlashDone, Head(todo).cb # "cleared" \/ m_dfu_state # "preparing"
  PROVE  Popped
  BY DEF FlashDone, Popped

LEMMA StoredKeeps ==
  ASSUME IInv, Popped
  PROVE  /\ m_settings_store_pending' \in 0 .. 2
         /\ m_update_status # "saving" => m_update_status' = m_update_status
<1>1. m_settings_store_pending \in 0 .. 2
  BY DEF IInv, Shape
<1>2. CASE Head(todo).cb = "stored"
  BY <1>1, <1>2 DEF Popped, Stored
<1>3. CASE Head(todo).cb # "stored"
  BY <1>1, <1>3 DEF Popped
<1> QED
  BY <1>2, <1>3

\* The shape of a state reached by taking a request off the queue.
LEMMA PoppedShape ==
  ASSUME IInv, FlashDone, UNCHANGED device, Popped
  PROVE  Shape'
<1>1. /\ todo' = Tail(todo) /\ m_dfu_state' = m_dfu_state /\ dfu_page_erased' = dfu_page_erased
      /\ settings' = settings
  BY DEF Popped
<1>2. m_settings_store_pending' \in 0 .. 2
  BY StoredKeeps
<1>3. Shape
  BY DEF IInv
<1> QED
  BY <1>1, <1>2, <1>3, DoneCommon DEF Shape

LEMMA DoneSwapping ==
  ASSUME IInv, FlashDone, UNCHANGED device, Swapping
  PROVE  Shape' /\ RestInv' /\ (run' = "dfu" => SessionInv')
<1> DEFINE n == Len(todo)
<1>0. run = "swap" /\ n \in {1, 2, 3} /\ Head(todo) = SaveReq(ota, 4 - n)
  BY DEF Swapping
<1>1. /\ ~ota /\ m_dfu_state = "idle" /\ DoneQueue(todo, ota) /\ Recorded(rec, settings, n)
      /\ Patient(Faults) => Holds(app, "sys")
      /\ m_update_status = "saving" => m_settings_store_pending = 1
      /\ m_update_status # "complete"
  BY <1>0, DoneCommon DEF IInv, RestInv
<1>2. 4 - n \in 1 .. 3 /\ 4 - (4 - n) = n
  BY <1>0, FourMinus
<1>3. Popped
  BY <1>1, DonePopped
<1>4. Shape'
  BY <1>3, PoppedShape
<1>5. /\ Head(todo).op = SaveOp(n) /\ Head(todo).op \in {"erase_set", "write_geo", "write_mark"}
      /\ Head(todo).cb = IF n = 1 THEN "stored" ELSE "none"
  BY <1>0, <1>1, <1>2, SaveReqFacts
<1>6. app' = app /\ rec' = DoneRec(rec, SaveOp(n), settings)
  BY <1>5, DoneCommon, DoneSafe
<1>7. Recorded(rec', settings', n - 1)
  <2>1. OkRec(settings) /\ RecordShape(rec) /\ settings' = settings
    BY <1>3 DEF IInv, Shape, Popped
  <2> QED
    BY <1>0, <1>1, <1>6, <2>1, SaveStep
<1>8. Len(todo') = n - 1 /\ DoneQueue(todo', ota')
  BY <1>1, <1>3, DoneCommon, DoneTail DEF Popped
<1>9. /\ m_update_status' = "saving" => m_settings_store_pending' = 1 /\ todo' # <<>>
      /\ m_update_status' = "complete" => todo' = <<>>
  <2>1. CASE n = 1
    <3>1. todo' = <<>>
      BY <1>8, <2>1, DoneCommon DEF Popped
    <3>2. m_update_status' # "saving"
      BY <1>1, <1>3, <1>5, <2>1 DEF Popped, Stored
    <3> QED
      BY <3>1, <3>2
  <2>2. CASE n # 1
    <3>1. m_update_status' = m_update_status /\ m_settings_store_pending' = m_settings_store_pending
      BY <1>3, <1>5, <2>2 DEF Popped
    <3>2. todo' # <<>>
      BY <1>0, <1>8, <2>2
    <3> QED
      BY <1>1, <3>1, <3>2
  <2> QED
    BY <2>1, <2>2
<1>10. Len(todo') <= 3
  BY <1>0, <1>8
<1>11. /\ run' = "swap" /\ ota' = FALSE /\ m_dfu_state' = "idle" /\ Recorded(rec', settings', Len(todo'))
       /\ Patient(Faults') => Holds(app', "sys")
  BY <1>0, <1>1, <1>3, <1>6, <1>7, <1>8, DoneCommon DEF Popped
<1>12. RestInv'
  BY <1>8, <1>9, <1>10, <1>11 DEF RestInv
<1> QED
  BY <1>4, <1>11, <1>12

LEMMA DoneErasing ==
  ASSUME IInv, FlashDone, UNCHANGED device, Erasing
  PROVE  Shape' /\ RestInv' /\ (run' = "dfu" => SessionInv')
<1> DEFINE r == Head(todo)
<1>0. /\ run = "dfu" /\ m_dfu_state = "preparing" /\ r \in EraseReqs
      /\ r.p = 0 \/ app[0] = "blank"
      /\ ~InProgress(rec) /\ m_update_status \notin {"saving", "complete"}
      /\ todo # <<>> /\ \A i \in 1 .. Len(todo) : todo[i] \in EraseReqs /\ (todo[i].cb = "cleared" <=> i = Len(todo))
  BY DEF Erasing, PreparingInv
<1>1. r.op = "erase_app" /\ r.p \in Page /\ r.cb \in {"none", "cleared"}
  BY <1>0 DEF EraseReqs
<1>2. rec' = rec /\ app' = [app EXCEPT ![r.p] = "blank"]
  BY <1>1, DoneCommon, DoneSafe
<1>3. app'[0] = "blank"
  <2>1. app \in [Page -> Contents]
    BY DEF IInv, Shape
  <2> QED
    BY <1>0, <1>1, <1>2, <2>1, PageZero
<1>4. /\ Head(todo) = todo[1] /\ Len(todo) > 0 /\ Len(todo) \in Nat
      /\ \A i \in 1 .. Len(Tail(todo)) : Tail(todo)[i] = todo[i + 1] /\ i + 1 \in 1 .. Len(todo)
  BY <1>0, DoneCommon, HeadTail
<1>5. RestInv'
  <2>1. run' = "dfu"
    BY <1>0, DoneCommon
  <2> QED
    BY <2>1 DEF RestInv
<1>6. CASE r.cb # "cleared"
  <2>1. Popped
    BY <1>6, DonePopped
  <2>2. m_update_status' \notin {"saving", "complete"} /\ m_dfu_state' = "preparing" /\ todo' = Tail(todo)
    BY <1>0, <1>1, <1>6, <2>1 DEF Popped
  <2>3. Len(todo) # 1
    BY <1>0, <1>4, <1>6
  <2>4. todo' # <<>>
    <3>1. Len(Tail(todo)) = Len(todo) - 1
      BY DoneCommon
    <3>2. Len(todo') # 0
      BY <1>4, <2>2, <2>3, <3>1
    <3> QED
      BY <3>2
  <2>5. \A i \in 1 .. Len(todo') : todo'[i] \in EraseReqs /\ (todo'[i].cb = "cleared" <=> i = Len(todo'))
    <3> SUFFICES ASSUME NEW i \in 1 .. Len(Tail(todo))
                 PROVE  /\ Tail(todo)[i] \in EraseReqs
                        /\ Tail(todo)[i].cb = "cleared" <=> i = Len(Tail(todo))
      BY <2>2
    <3>1. Tail(todo)[i] = todo[i + 1] /\ i + 1 \in 1 .. Len(todo)
      BY <1>4
    <3>2. i = Len(Tail(todo)) <=> i + 1 = Len(todo)
      BY <1>4, DoneCommon
    <3>3. todo[i + 1] \in EraseReqs /\ (todo[i + 1].cb = "cleared" <=> i + 1 = Len(todo))
      BY <1>0, <3>1
    <3> QED
      BY <3>1, <3>2, <3>3
  <2>6. PreparingInv'
    BY <1>0, <1>2, <1>3, <2>2, <2>4, <2>5 DEF PreparingInv
  <2>7. SessionInv'
    BY <2>2, <2>6 DEF SessionInv, Before
  <2> QED
    BY <1>5, <2>1, <2>7, PoppedShape
<1>7. CASE r.cb = "cleared"
  <2>1. /\ m_dfu_state' = IF Devices[device].signed THEN "rx_data" ELSE "rdy"
        /\ dfu_page_erased' = [dfu_page_erased EXCEPT ![0] = TRUE]
        /\ settings' = Rec("invalid", "zero", Bank1, "none")
        /\ todo' = Tail(todo) \o SaveRequests
        /\ m_settings_store_pending' = Fragments /\ m_update_status' = m_update_status
    BY <1>0, <1>7 DEF FlashDone, Cleared, SaveErased, Save
  <2>2. Tail(todo) = <<>>
    <3>1. 1 \in 1 .. Len(todo) /\ todo[1].cb = "cleared"
      BY <1>4, <1>7
    <3>2. 1 = Len(todo)
      BY <1>0, <3>1
    <3>3. Tail(todo) \in Seq(Requests) /\ Len(Tail(todo)) = Len(todo) - 1
      BY DoneCommon
    <3>4. \A q \in Seq(Requests) : Len(q) = 0 => q = <<>>
      OBVIOUS
    <3> QED
      BY <3>2, <3>3, <3>4
  <2>3. ota \in BOOLEAN /\ ota' = ota /\ device' = device
    BY DoneCommon DEF IInv, Shape
  <2>4. todo' = SaveQueue(ota)
    <3>1. SaveRequests = SaveQueue(ota) /\ SaveQueue(ota) \in Seq(Requests)
      BY <2>3, SaveRequestsAre, SaveQueueFacts
    <3>2. \A q \in Seq(Requests) : <<>> \o q = q
      OBVIOUS
    <3> QED
      BY <2>1, <2>2, <3>1, <3>2
  <2>5. todo' \in Seq(Requests) /\ ErasedQueue(todo', ota', 3)
    BY <2>3, <2>4, SaveQueueFacts
  <2>6. m_dfu_state' \in {"rx_data", "rdy"} /\ (m_dfu_state' = "rdy" => ~Devices[device'].signed)
    BY <2>1, <2>3
  <2>7. ErasedRec(settings') /\ OkRec(settings')
    BY <2>1 DEF ErasedRec, OkRec, Rec
  <2>8. dfu_page_erased' \in [Page -> BOOLEAN] /\ dfu_page_erased'[0] = TRUE
    <3>1. dfu_page_erased \in [Page -> BOOLEAN]
      BY DEF IInv, Shape
    <3> QED
      BY <2>1, <3>1, PageZero
  <2>9. m_settings_store_pending' \in 0 .. 2
    BY <2>1 DEF Fragments
  <2>10. Shape'
    <3>1. Shape /\ m_dfu_state' \in States
      BY <2>6 DEF IInv, States
    <3> QED
      BY <2>5, <2>7, <2>8, <2>9, <3>1, DoneCommon DEF Shape
  <2>11. FillingInv'
    <3>1. Recorded(rec', settings', 3)
      BY DEF Recorded
    <3>2. ErasedQueue(todo', ota', 3) /\ ~InProgress(rec') /\ app'[0] = "blank" /\ m_dfu_state' # "wait_activate"
      BY <1>0, <1>2, <1>3, <2>5, <2>6
    <3>3. 3 \in 0 .. 3
      OBVIOUS
    <3>4. ErasedRec(settings') /\ m_update_status' \notin {"saving", "complete"}
      BY <1>0, <2>1, <2>7
    <3> QED
      BY <3>1, <3>2, <3>3, <3>4 DEF FillingInv
  <2>12. SessionInv'
    <3>1. ~Before' /\ m_dfu_state' # "preparing" /\ ValidatedInv'
      BY <2>6 DEF Before, ValidatedInv
    <3> QED
      BY <2>8, <2>11, <3>1 DEF SessionInv
  <2> QED
    BY <1>5, <2>10, <2>12
<1> QED
  BY <1>6, <1>7

\* Requests that are taken off a queue stay what they were.
LEMMA TailSubset ==
  ASSUME NEW q \in Seq(Requests), q # <<>>, \A i \in 1 .. Len(q) : q[i] \notin DataReqs
  PROVE  \A i \in 1 .. Len(Tail(q)) : Tail(q)[i] \notin DataReqs
<1>1. \A i \in 1 .. Len(Tail(q)) : Tail(q)[i] = q[i + 1] /\ i + 1 \in 1 .. Len(q)
  BY HeadTail
<1> QED
  BY <1>1

\* The session remains one that is prepared.
LEMMA ActiveStays ==
  ASSUME IInv, Active, UNCHANGED device, run' = run, m_dfu_state' = m_dfu_state,
         dfu_page_erased'[0], ValidatedInv', FillingInv' \/ FinishingInv'
  PROVE  RestInv' /\ (run' = "dfu" => SessionInv')
<1>1. run' = "dfu" /\ ~Before' /\ m_dfu_state' # "preparing"
  BY DEF Active, Before
<1>2. RestInv'
  BY <1>1 DEF RestInv
<1> QED
  BY <1>1, <1>2 DEF SessionInv

\* What is known of a prepared session.
LEMMA ActiveFacts ==
  ASSUME IInv, Active
  PROVE  run = "dfu" /\ dfu_page_erased[0] /\ ValidatedInv /\ (FillingInv \/ FinishingInv)
  BY DEF IInv, SessionInv, Active

LEMMA DoneMarking ==
  ASSUME IInv, FlashDone, UNCHANGED device, NEW k \in {1, 2, 3}, Marking(k)
  PROVE  Shape' /\ RestInv' /\ (run' = "dfu" => SessionInv')
<1>0. /\ Active /\ ErasedRec(settings) /\ m_update_status \notin {"saving", "complete"}
      /\ Head(todo) = SaveReq(ota, 4 - k) /\ ErasedQueue(Tail(todo), ota, k - 1)
      /\ Recorded(rec, settings, k) /\ app[0] = "blank" /\ m_dfu_state # "wait_activate"
  BY DEF Marking
<1>1. 4 - k \in 1 .. 3 /\ 4 - (4 - k) = k
  BY FourMinus
<1>2. Popped
  BY <1>0, DonePopped DEF Active
<1>3. Head(todo).op = SaveOp(k) /\ Head(todo).op \in {"erase_set", "write_geo", "write_mark"}
  BY <1>0, <1>1, SaveReqFacts
<1>4. app' = app /\ rec' = DoneRec(rec, SaveOp(k), settings)
  BY <1>3, DoneCommon, DoneSafe
<1>5. settings' = settings /\ m_update_status' = m_update_status
  BY <1>0, <1>2, StoredKeeps DEF Popped
<1>6. Recorded(rec', settings', k - 1)
  <2>1. OkRec(settings) /\ RecordShape(rec)
    BY DEF IInv, Shape
  <2> QED
    BY <1>0, <1>4, <1>5, <2>1, SaveStep
<1>7. FillingInv'
  <2>1. k - 1 \in 0 .. 3 /\ k - 1 # 3
    OBVIOUS
  <2>2. /\ ErasedQueue(todo', ota', k - 1) /\ app'[0] = "blank" /\ m_dfu_state' # "wait_activate"
        /\ ErasedRec(settings') /\ m_update_status' \notin {"saving", "complete"}
    BY <1>0, <1>2, <1>4, <1>5, DoneCommon DEF Popped
  <2> QED
    BY <1>6, <2>1, <2>2 DEF FillingInv
<1>8. run' = run /\ m_dfu_state' = m_dfu_state /\ dfu_page_erased'[0] /\ ValidatedInv'
  BY <1>0, <1>2, DoneCommon, ActiveFacts DEF Popped, ValidatedInv
<1> QED
  BY <1>0, <1>2, <1>7, <1>8, ActiveStays, PoppedShape

\* Data are written only while no patient peer's image is validated.
LEMMA DataUnvalidated ==
  ASSUME IInv, Active, todo # <<>>, Head(todo) \in DataReqs
  PROVE  ~(m_dfu_state = "wait_activate" /\ Patient(Faults))
<1>1. todo \in Seq(Requests)
  BY DEF IInv, Shape
<1>2. Head(todo) = todo[1] /\ 1 \in 1 .. Len(todo)
  BY <1>1, HeadTail
<1> QED
  BY <1>2, ActiveFacts DEF ValidatedInv

LEMMA DoneFilling ==
  ASSUME IInv, FlashDone, UNCHANGED device, Filling
  PROVE  Shape' /\ RestInv' /\ (run' = "dfu" => SessionInv')
<1>0. /\ Active /\ ErasedRec(settings) /\ m_update_status \notin {"saving", "complete"}
      /\ Head(todo) \in DataReqs /\ ErasedQueue(Tail(todo), ota, 0) /\ rec = Same(settings)
  BY DEF Filling
<1>1. Popped
  BY <1>0, DonePopped DEF Active
<1>2. Head(todo).op = "write_app"
  BY <1>0 DEF DataReqs
<1>3. rec' = rec
  BY <1>2, DoneCommon, DoneSafe
<1>4. settings' = settings /\ m_update_status' = m_update_status
  BY <1>0, <1>1, StoredKeeps DEF Popped
<1>5. FillingInv'
  <2>1. Recorded(rec', settings', 0)
    BY <1>0, <1>3, <1>4 DEF Recorded
  <2>2. /\ ErasedQueue(todo', ota', 0) /\ 0 \in 0 .. 3
        /\ ErasedRec(settings') /\ m_update_status' \notin {"saving", "complete"}
    BY <1>0, <1>1, <1>4, DoneCommon DEF Popped
  <2> QED
    BY <2>1, <2>2 DEF FillingInv
<1>6. run' = run /\ m_dfu_state' = m_dfu_state /\ dfu_page_erased'[0]
  BY <1>0, <1>1, DoneCommon, ActiveFacts DEF Popped
<1>7. ValidatedInv'
  BY <1>0, <1>6, DataUnvalidated, DoneCommon DEF ValidatedInv
<1> QED
  BY <1>0, <1>1, <1>5, <1>6, <1>7, ActiveStays, PoppedShape

LEMMA DoneDraining ==
  ASSUME IInv, FlashDone, UNCHANGED device, Draining
  PROVE  Shape' /\ RestInv' /\ (run' = "dfu" => SessionInv')
<1>0. Active /\ FinishingInv /\ Len(todo) > 3 /\ Head(todo) \in DataReqs
  BY DEF Draining
<1>1. Popped
  BY <1>0, DonePopped DEF Active
<1>2. Head(todo).op = "write_app" /\ Head(todo).cb = "none"
  BY <1>0 DEF DataReqs
<1>3. rec' = rec /\ Unbootable(rec)
  BY <1>2, DoneCommon, DoneSafe, DrainingUnbootable
<1>4. /\ settings' = settings /\ m_update_status' = m_update_status
      /\ m_settings_store_pending' = m_settings_store_pending /\ todo' = Tail(todo)
  BY <1>1, <1>2 DEF Popped
<1>5. Len(todo') >= 3 /\ Len(todo) >= 2 /\ Len(todo') >= 2 /\ todo' # <<>>
  <2>1. Len(todo) \in Nat /\ Len(todo') = Len(todo) - 1
    BY <1>4, DoneCommon
  <2>2. Len(todo') >= 3 /\ Len(todo) >= 2 /\ Len(todo') >= 2 /\ Len(todo') # 0
    BY <1>0, <2>1
  <2> QED
    BY <2>2
<1>6. run' = run /\ m_dfu_state' = m_dfu_state /\ dfu_page_erased'[0]
  BY <1>0, <1>1, DoneCommon, ActiveFacts DEF Popped
<1>7. FinishingInv'
  <2>1. /\ m_dfu_state = "wait_activate" /\ settings = CompleteOf(kind) /\ (ota => m_tear_down_in_progress)
        /\ DoneQueue(todo, ota)
        /\ m_update_status = "saving" => m_settings_store_pending = (IF ota /\ Len(todo) >= 2 THEN 2 ELSE 1)
        /\ m_update_status # "complete"
    BY <1>0, DoneCommon DEF FinishingInv
  <2>2. DoneQueue(todo', ota')
    BY <1>4, <2>1, DoneCommon, DoneTail
  <2>3. m_update_status' = "saving" => m_settings_store_pending' = (IF ota' /\ Len(todo') >= 2 THEN 2 ELSE 1)
    BY <1>4, <1>5, <2>1, DoneCommon
  <2>4. m_dfu_state' = "wait_activate" /\ settings' = CompleteOf(kind') /\ (ota' => m_tear_down_in_progress')
    BY <1>4, <1>6, <2>1, DoneCommon
  <2> QED
    BY <1>3, <1>4, <1>5, <2>1, <2>2, <2>3, <2>4 DEF FinishingInv
<1>8. ValidatedInv'
  BY <1>0, <1>6, DataUnvalidated, DoneCommon DEF ValidatedInv
<1> QED
  BY <1>0, <1>1, <1>6, <1>7, <1>8, ActiveStays, PoppedShape

\* The save of the complete update: each completion is one of its own.
LEMMA DoneSealing ==
  ASSUME IInv, FlashDone, UNCHANGED device, Sealing
  PROVE  Shape' /\ RestInv' /\ (run' = "dfu" => SessionInv')
<1> DEFINE n == Len(todo)
<1>0. /\ Active /\ FinishingInv /\ n \in {1, 2, 3} /\ Head(todo) = SaveReq(ota, 4 - n)
      /\ Patient(Faults) => Holds(app, AnnouncedBy(kind))
  BY DEF Sealing
<1>1. Popped
  BY <1>0, DonePopped DEF Active
<1>2. 4 - n \in 1 .. 3 /\ 4 - (4 - n) = n
  BY <1>0, FourMinus
<1>3. /\ Head(todo).op = SaveOp(n) /\ Head(todo).op \in {"erase_set", "write_geo", "write_mark"}
      /\ Head(todo).cb = (IF 4 - n = 3 \/ (4 - n = 2 /\ ota) THEN "stored" ELSE "none")
  BY <1>0, <1>2, SaveReqFacts
<1>3a. (n = 1 => Head(todo).cb = "stored") /\ (n = 3 => Head(todo).cb = "none")
  <2>1. (n = 1 => 4 - n = 3) /\ (n = 3 => 4 - n = 1)
    BY <1>0, FourMinus, Zenon
  <2> QED
    BY <1>3, <2>1
<1>3b. n = 2 => (Head(todo).cb = "stored" <=> ota)
  <2>1. n = 2 => 4 - n = 2 /\ 4 - n # 3
    OBVIOUS
  <2>2. CASE ota
    BY <1>3, <2>1, <2>2
  <2>3. CASE ~ota
    BY <1>3, <2>1, <2>3
  <2> QED
    BY <2>2, <2>3
<1>4. app' = app /\ rec' = DoneRec(rec, SaveOp(n), settings)
  BY <1>3, DoneCommon, DoneSafe
<1>5. settings' = settings /\ todo' = Tail(todo)
  BY <1>1 DEF Popped
<1>6. /\ m_dfu_state = "wait_activate" /\ settings = CompleteOf(kind) /\ (ota => m_tear_down_in_progress)
      /\ DoneQueue(todo, ota) /\ Recorded(rec, settings, n)
      /\ m_update_status = "saving" => m_settings_store_pending = (IF ota /\ n >= 2 THEN 2 ELSE 1)
      /\ m_update_status # "complete"
  <2>1. CASE n = 3
    BY <1>0, <2>1, DoneCommon DEF FinishingInv, Recorded
  <2>2. CASE n # 3
    <3>0. ~(n >= 3)
      BY <1>0, <2>2, FourMinus, Zenon
    <3>1. ~(n >= 3) /\ todo # <<>>
      BY <3>0, DoneCommon
    <3>2. Recorded(rec, settings, n)
      BY <1>0, <3>1 DEF FinishingInv
    <3> QED
      BY <1>0, <3>1, <3>2 DEF FinishingInv
  <2> QED
    BY <2>1, <2>2
<1>7. Recorded(rec', settings', n - 1)
  <2>1. OkRec(settings) /\ RecordShape(rec)
    BY DEF IInv, Shape
  <2> QED
    BY <1>0, <1>4, <1>5, <1>6, <2>1, SaveStep
<1>8. Len(todo') = n - 1 /\ DoneQueue(todo', ota') /\ n - 1 \in {0, 1, 2}
  BY <1>0, <1>5, <1>6, DoneCommon, DoneTail
<1>9. ota \in BOOLEAN /\ ota' = ota
  BY DoneCommon DEF IInv, Shape
<1>10. /\ m_update_status' = "saving" =>
             todo' # <<>> /\ m_settings_store_pending' = (IF ota' /\ Len(todo') >= 2 THEN 2 ELSE 1)
       /\ m_update_status' = "complete" => todo' = <<>>
  <2>1. CASE n = 1
    <3>1. todo' = <<>>
      BY <1>5, <1>8, <2>1, DoneCommon
    <3>2. Head(todo).cb = "stored"
      BY <1>3a, <2>1
    <3>3. m_update_status = "saving" => m_settings_store_pending = 1
      BY <1>6, <2>1
    <3>4. m_update_status' # "saving"
      BY <1>1, <3>2, <3>3 DEF Popped, Stored
    <3> QED
      BY <3>1, <3>4
  <2>2. CASE n # 1 /\ Head(todo).cb # "stored"
    <3>1. m_update_status' = m_update_status /\ m_settings_store_pending' = m_settings_store_pending
      BY <1>1, <2>2 DEF Popped
    <3>2. todo' # <<>>
      BY <1>8, <2>2
    <3>3. ota => n = 3
      BY <1>0, <1>3b, <2>2
    <3>4. (ota /\ n >= 2) <=> (ota' /\ Len(todo') >= 2)
      BY <1>8, <1>9, <3>3
    <3> QED
      BY <1>6, <3>1, <3>2, <3>4
  <2>3. CASE n # 1 /\ Head(todo).cb = "stored"
    <3>1. n = 2 /\ ota
      BY <1>0, <1>3a, <1>3b, <2>3
    <3>2. m_update_status = "saving" => m_settings_store_pending = 2
      BY <1>6, <3>1
    <3>3. m_update_status' # "complete" /\ (m_update_status' = "saving" => m_settings_store_pending' = 1)
      <4>1. Stored
        BY <1>1, <2>3 DEF Popped
      <4>2. CASE m_update_status = "saving"
        BY <3>2, <4>1, <4>2 DEF Stored
      <4>3. CASE m_update_status # "saving"
        BY <1>6, <4>1, <4>3 DEF Stored
      <4> QED
        BY <4>2, <4>3
    <3>4. Len(todo') = 1 /\ todo' # <<>>
      BY <1>8, <3>1
    <3> QED
      BY <3>3, <3>4
  <2> QED
    BY <2>1, <2>2, <2>3
<1>11. FinishingInv'
  <2>1. ~(Len(todo') >= 3) /\ Recorded(rec', settings', Len(todo'))
    BY <1>7, <1>8
  <2>2. m_dfu_state' = "wait_activate" /\ settings' = CompleteOf(kind') /\ (ota' => m_tear_down_in_progress')
    BY <1>1, <1>5, <1>6, DoneCommon DEF Popped
  <2> QED
    BY <1>8, <1>10, <2>1, <2>2 DEF FinishingInv
<1>12. run' = run /\ m_dfu_state' = m_dfu_state /\ dfu_page_erased'[0]
  BY <1>0, <1>1, DoneCommon, ActiveFacts DEF Popped
<1>13. ValidatedInv'
  <2>1. Patient(Faults') => Holds(app', AnnouncedBy(kind'))
    BY <1>0, <1>4, DoneCommon
  <2>2. Patient(Faults) => \A i \in 1 .. Len(todo) : todo[i] \notin DataReqs
    BY <1>0, <1>6, ActiveFacts DEF ValidatedInv
  <2>3. Patient(Faults') => \A i \in 1 .. Len(todo') : todo'[i] \notin DataReqs
    BY <1>5, <2>2, DoneCommon, TailSubset
  <2> QED
    BY <2>1, <2>3 DEF ValidatedInv
<1> QED
  BY <1>0, <1>1, <1>11, <1>12, <1>13, ActiveStays, PoppedShape

LEMMA FlashDoneKeeps ==
  ASSUME IInv, FlashDone, UNCHANGED device
  PROVE  IInv'
<1>1. Shape' /\ RestInv' /\ (run' = "dfu" => SessionInv')
  BY HeadCases, DoneCommon, DoneSwapping, DoneErasing, DoneMarking, DoneFilling, DoneDraining, DoneSealing
<1> QED
  BY <1>1, DoneCommon DEF IInv

\* pstorage never erases the first page of the image again: the preparation did.
LEMMA LazyEraseKeeps ==
  ASSUME IInv, LazyErase, UNCHANGED device
  PROVE  IInv'
<1> DEFINE r == Head(todo)
<1>1. /\ todo # <<>> /\ r.op = "write_app" /\ ~dfu_page_erased[r.p]
      /\ app' = [app EXCEPT ![r.p] = "blank"] /\ dfu_page_erased' = [dfu_page_erased EXCEPT ![r.p] = TRUE]
      /\ UNCHANGED <<rec, run, ota, todo, settings, m_update_status, m_settings_store_pending>>
      /\ UNCHANGED <<m_dfu_state, m_data_received, held, kind, m_tear_down_in_progress, device>>
  BY DEF LazyErase, NeedsErase, bootVars
<1>2. app \in [Page -> Contents] /\ dfu_page_erased \in [Page -> BOOLEAN] /\ todo \in Seq(Requests)
  BY DEF IInv, Shape
<1>3. r \in Requests
  BY <1>1, <1>2, HeadTail
<1>4. r.p \in Page /\ r \in DataReqs
  BY <1>1, <1>3, RequestFacts
<1>5. Active
  <2>1. ASSUME Swapping PROVE FALSE
    <3>1. r = SaveReq(ota, 4 - Len(todo)) /\ 4 - Len(todo) \in 1 .. 3
      BY <2>1, FourMinus, Zenon DEF Swapping
    <3> QED
      BY <1>4, <3>1, SaveReqFacts
  <2>2. ASSUME Erasing PROVE FALSE
    BY <1>1, <2>2 DEF Erasing, EraseReqs
  <2> QED
    BY <1>1, <2>1, <2>2, HeadCases DEF Marking, Filling, Draining, Sealing
<1>6. /\ run = "dfu" /\ dfu_page_erased[0] /\ ValidatedInv /\ (FillingInv \/ FinishingInv)
      /\ ~(m_dfu_state = "wait_activate" /\ Patient(Faults))
  BY <1>1, <1>4, <1>5, ActiveFacts, DataUnvalidated
<1>7. r.p # 0
  BY <1>1, <1>6
<1>8. Faults' = Faults /\ app'[0] = app[0] /\ dfu_page_erased'[0] /\ "blank" \in Contents
  BY <1>1, <1>2, <1>4, <1>6, <1>7, PageZero DEF Faults, Contents
<1>9. Shape'
  <2>1. app' \in [Page -> Contents] /\ dfu_page_erased' \in [Page -> BOOLEAN]
    BY <1>1, <1>2, <1>4, <1>8
  <2> QED
    BY <1>1, <2>1 DEF IInv, Shape
<1>10. Safe(Faults', app', rec')
  <2>1. Safe(Faults, [app EXCEPT ![r.p] = "blank"], rec)
    BY <1>1, ImageStepSafe
  <2> QED
    BY <1>1, <1>8, <2>1
<1>11. FillingInv' \/ FinishingInv'
  <2>1. CASE FillingInv
    BY <1>1, <1>8, <2>1 DEF FillingInv
  <2>2. CASE FinishingInv
    BY <1>1, <2>2 DEF FinishingInv
  <2> QED
    BY <1>6, <2>1, <2>2
<1>12. ValidatedInv'
  BY <1>1, <1>6, <1>8 DEF ValidatedInv
<1>13. BootsOnlyCompleteImage'
  BY <1>1, <1>6 DEF BootsOnlyCompleteImage
<1> QED
  BY <1>1, <1>5, <1>8, <1>9, <1>10, <1>11, <1>12, <1>13, ActiveStays DEF IInv

-----------------------------------------------------------------------------
(* The handlers. *)

\* A handler that touches neither flash, nor the queue, nor the state of the update: it
\* may end DFU, or refuse what comes.
Aside ==
    /\ run = "dfu" /\ UNCHANGED <<app, rec, run, ota, todo, settings, m_settings_store_pending>>
    /\ UNCHANGED <<m_dfu_state, held, kind, dfu_page_erased, device>>
    /\ m_update_status' = m_update_status \/ m_update_status' \notin {"saving", "complete"}
    /\ m_tear_down_in_progress => m_tear_down_in_progress'
    /\ m_data_received' = m_data_received \/ (m_data_received > 0 /\ m_data_received' = N + 1)

LEMMA AsideKeeps ==
  ASSUME IInv, Aside
  PROVE  IInv'
<1>1. /\ run = "dfu" /\ UNCHANGED <<app, rec, run, ota, todo, settings, m_settings_store_pending>>
      /\ UNCHANGED <<m_dfu_state, held, kind, dfu_page_erased, device>>
      /\ m_update_status' = m_update_status \/ m_update_status' \notin {"saving", "complete"}
      /\ m_tear_down_in_progress => m_tear_down_in_progress'
  BY DEF Aside
<1>2. Shape'
  <2>1. Shape /\ m_data_received' \in 0 .. (N + 1) /\ (m_data_received = 0 => m_data_received' = 0)
    BY PageZero DEF IInv, Shape, Aside
  <2> QED
    BY <1>1, <2>1 DEF Shape
<1>3. Faults' = Faults /\ Safe(Faults', app', rec')
  BY <1>1 DEF IInv, Faults
<1>4. RestInv' /\ BootsOnlyCompleteImage'
  BY <1>1 DEF RestInv, BootsOnlyCompleteImage
<1>5. SessionInv'
  <2>0. (Before' <=> Before) /\ SessionInv
    BY <1>1 DEF Before, IInv
  <2>1. CASE Before
    BY <1>1, <2>0, <2>1 DEF SessionInv, BeforeInv
  <2>2. CASE ~Before /\ m_dfu_state = "preparing"
    BY <1>1, <2>0, <2>2 DEF SessionInv, PreparingInv
  <2>3. CASE ~Before /\ m_dfu_state # "preparing"
    <3>1. dfu_page_erased[0] /\ ValidatedInv /\ (FillingInv \/ FinishingInv)
      BY <2>0, <2>3 DEF SessionInv
    <3>2. ValidatedInv'
      BY <1>1, <1>3, <3>1 DEF ValidatedInv
    <3>3. FillingInv => FillingInv'
      BY <1>1 DEF FillingInv
    <3>4. FinishingInv => FinishingInv'
      BY <1>1 DEF FinishingInv
    <3> QED
      BY <1>1, <2>0, <2>3, <3>1, <3>2, <3>3, <3>4 DEF SessionInv
  <2> QED
    BY <2>1, <2>2, <2>3
<1> QED
  BY <1>2, <1>3, <1>4, <1>5 DEF IInv

LEMMA AsideHandlers ==
  ASSUME IInv, UNCHANGED device,
         DataOverflow \/ dfu_reset \/ TimerFires \/ dfu_timeout_handler \/ OtherTimeout
  PROVE  IInv'
<1>1. CASE DataOverflow
  <2>1. m_data_received \in Nat /\ ~(m_data_received < N)
    BY <1>1, PageZero DEF DataOverflow, DataFits, IInv, Shape
  <2>2. m_data_received > 0
    BY <2>1, PageZero
  <2>3. Aside
    BY <1>1, <2>2 DEF DataOverflow, Aside, Handling, flashVars, bootVars
  <2> QED
    BY <2>3, AsideKeeps
<1>2. CASE dfu_reset
  <2>1. Aside
    BY <1>2 DEF dfu_reset, Aside, Handling, flashVars, dfu_transport_ble_close
  <2> QED
    BY <2>1, AsideKeeps
<1>3. CASE TimerFires
  <2>1. Aside
    BY <1>3 DEF TimerFires, Aside, flashVars, bootVars
  <2> QED
    BY <2>1, AsideKeeps
<1>4. CASE dfu_timeout_handler
  <2>1. Aside
    BY <1>4 DEF dfu_timeout_handler, Aside, Handling, flashVars
  <2> QED
    BY <2>1, AsideKeeps
<1>5. CASE OtherTimeout
  <2>1. Aside
    BY <1>5 DEF OtherTimeout, Aside, Handling, flashVars
  <2> QED
    BY <2>1, AsideKeeps
<1> QED
  BY <1>1, <1>2, <1>3, <1>4, <1>5

\* The preparation begins: the requests erase page 0 first, and only the last one is the
\* client's.
LEMMA PrepareQueue ==
  ASSUME ota \in BOOLEAN
  PROVE  /\ PrepareRequests \in Seq(Requests) /\ PrepareRequests # <<>>
         /\ \A i \in 1 .. Len(PrepareRequests) :
               /\ PrepareRequests[i] \in EraseReqs
               /\ PrepareRequests[i].cb = "cleared" <=> i = Len(PrepareRequests)
         /\ PrepareRequests[1].p = 0
<1>0. \A p \in Page, cb \in {"none", "cleared"} : EraseApp(p, cb) \in EraseReqs
  BY DEF EraseApp, Req, EraseReqs
<1>1. CASE ota
  <2> DEFINE r == EraseApp(0, "cleared")
  <2>1. r \in EraseReqs /\ r.cb = "cleared" /\ r.p = 0 /\ r \in Requests
    BY <1>0, PageZero DEF EraseApp, Req, Requests
  <2>2. PrepareRequests = <<r>>
    BY <1>1 DEF PrepareRequests
  <2> HIDE DEF r
  <2>3. /\ <<r>> \in Seq(Requests) /\ <<r>> # <<>> /\ Len(<<r>>) = 1 /\ <<r>>[1] = r
    BY <2>1
  <2>4. \A i \in 1 .. 1 : i = 1
    OBVIOUS
  <2> QED
    BY <2>1, <2>2, <2>3, <2>4
<1>2. CASE ~ota
  <2> DEFINE f(i) == EraseApp(i - 1, IF i = N THEN "cleared" ELSE "none")
             q == [i \in 1 .. N |-> f(i)]
  <2>1. PrepareRequests = q
    BY <1>2 DEF PrepareRequests
  <2>2. \A i \in 1 .. N : f(i) \in EraseReqs /\ (f(i).cb = "cleared" <=> i = N)
    <3> TAKE i \in 1 .. N
    <3>1. i - 1 \in Page
      BY PageZero DEF Page
    <3>2. f(i) \in EraseReqs
      BY <1>0, <3>1
    <3>3. f(i).cb = IF i = N THEN "cleared" ELSE "none"
      BY DEF EraseApp, Req
    <3> QED
      BY <3>2, <3>3
  <2>3. f(1).p = 0
    BY DEF EraseApp, Req
  <2>4. \A i \in 1 .. N : q[i] = f(i)
    OBVIOUS
  <2>5. 1 \in 1 .. N
    BY PageZero
  <2> HIDE DEF f
  <2>6. q \in Seq(Requests) /\ Len(q) = N
    BY <2>2, PageZero DEF Requests
  <2> HIDE DEF q
  <2>7. q # <<>>
    BY <2>6, PageZero
  <2> QED
    BY <2>1, <2>2, <2>3, <2>4, <2>5, <2>6, <2>7
<1> QED
  BY <1>1, <1>2

\* What a handler of DFU leaves as it is.
Frame ==
    /\ run = "dfu" /\ run' = run /\ app' = app /\ rec' = rec /\ ota' = ota /\ device' = device

LEMMA FrameKeeps ==
  ASSUME IInv, Frame, Shape', SessionInv'
  PROVE  IInv'
<1>1. Faults' = Faults /\ Safe(Faults', app', rec')
  BY DEF Frame, Faults, IInv
<1>2. RestInv' /\ BootsOnlyCompleteImage'
  BY DEF Frame, RestInv, BootsOnlyCompleteImage
<1> QED
  BY <1>1, <1>2 DEF IInv

LEMMA PrepareKeeps ==
  ASSUME IInv, Frame, Before, Prepare, kind' \in {"app", "sd", "bl"},
         UNCHANGED <<bootVars, m_data_received, held>>
  PROVE  IInv'
<1>1. /\ run = "dfu" /\ ota \in BOOLEAN /\ ota' = ota /\ rec' = rec /\ app' = app
      /\ m_update_status' = m_update_status /\ settings' = settings
      /\ m_settings_store_pending' = m_settings_store_pending
  BY DEF Frame, IInv, Shape, bootVars
<1>2. ~InProgress(rec) /\ todo = <<>> /\ m_update_status \notin {"saving", "complete"}
  BY <1>1 DEF IInv, SessionInv, BeforeInv
<1>3. todo' = PrepareRequests
  <2>1. todo' = <<>> \o PrepareRequests
    BY <1>2 DEF Prepare
  <2>2. PrepareRequests \in Seq(Requests)
    BY <1>1, PrepareQueue
  <2>3. \A q \in Seq(Requests) : <<>> \o q = q
    OBVIOUS
  <2> QED
    BY <2>1, <2>2, <2>3
<1>4. m_dfu_state' = "preparing" /\ dfu_page_erased' \in [Page -> BOOLEAN]
  BY DEF Prepare
<1>5. PreparingInv'
  BY <1>1, <1>2, <1>3, PrepareQueue DEF PreparingInv
<1>6. SessionInv'
  BY <1>4, <1>5 DEF SessionInv, Before
<1>7. Shape'
  <2>1. Shape /\ m_dfu_state' \in States /\ todo' \in Seq(Requests)
    BY <1>1, <1>3, <1>4, PrepareQueue DEF IInv, States
  <2> QED
    BY <1>1, <1>4, <2>1 DEF Shape, Frame
<1> QED
  BY <1>6, <1>7, FrameKeeps

LEMMA StartKeeps ==
  ASSUME IInv, UNCHANGED device, NEW k \in Devices[device].kinds, dfu_start_pkt_handle(k)
  PROVE  IInv'
<1>1. /\ m_dfu_state = "idle" /\ Before /\ Frame /\ kind' = k
      /\ UNCHANGED <<bootVars, m_data_received, held>>
      /\ IF Devices[device].signed THEN m_dfu_state' = "rdy" /\ UNCHANGED <<dfu_page_erased, todo>>
         ELSE Prepare
  BY DEF dfu_start_pkt_handle, Handling, Frame, flashVars, Before
<1>2. kind' \in {"app", "sd", "bl"}
  BY <1>1, SingleBankConstants DEF IInv, Shape
<1>3. CASE Devices[device].signed
  <2>1. /\ m_dfu_state' = "rdy" /\ UNCHANGED <<dfu_page_erased, todo, settings, m_update_status>>
        /\ UNCHANGED <<m_settings_store_pending, m_data_received, held>>
    BY <1>1, <1>3 DEF bootVars
  <2>2. BeforeInv /\ Shape /\ m_dfu_state' \in States
    BY <1>1, <2>1 DEF IInv, SessionInv, Frame, States
  <2>3. SessionInv'
    BY <1>1, <1>3, <2>1, <2>2 DEF SessionInv, Before, BeforeInv, Frame
  <2>4. Shape'
    BY <1>1, <1>2, <2>1, <2>2 DEF Shape, Frame
  <2> QED
    BY <1>1, <2>3, <2>4, FrameKeeps
<1>4. CASE ~Devices[device].signed
  BY <1>1, <1>2, <1>4, PrepareKeeps
<1> QED
  BY <1>3, <1>4

\* Before the activation, a prepared session is one that is being filled.
LEMMA NotActivated ==
  ASSUME IInv, Active, m_dfu_state # "wait_activate"
  PROVE  FillingInv
  BY ActiveFacts DEF FinishingInv

\* A handler that moves the state of the update on, short of accepting the image.
LEMMA MovesOn ==
  ASSUME IInv, Frame, Active, FillingInv, m_dfu_state' \in {"rx_init", "rx_data", "validate"},
         m_dfu_state' = "rx_init" => ~Devices[device].signed,
         UNCHANGED <<todo, bootVars, m_data_received, held, kind, dfu_page_erased>>
  PROVE  IInv'
<1>1. /\ UNCHANGED <<todo, settings, m_update_status, m_settings_store_pending>>
      /\ UNCHANGED <<m_data_received, held, kind, dfu_page_erased, app, rec, run, ota, device>>
  BY DEF bootVars, Frame
<1>2. FillingInv'
  BY <1>1 DEF FillingInv
<1>3. ~Before' /\ m_dfu_state' # "preparing" /\ ValidatedInv' /\ dfu_page_erased'[0]
  BY <1>1, ActiveFacts DEF Before, ValidatedInv
<1>4. SessionInv'
  BY <1>2, <1>3 DEF SessionInv
<1>5. Shape'
  <2>1. Shape /\ m_dfu_state' \in States
    BY DEF IInv, States
  <2> QED
    BY <1>1, <2>1 DEF Shape
<1> QED
  BY <1>4, <1>5, FrameKeeps

LEMMA InitKeeps ==
  ASSUME IInv, UNCHANGED device, dfu_init_pkt_handle
  PROVE  IInv'
<1>1. /\ m_dfu_state \in {"rdy", "rx_init"} /\ m_dfu_state' = "rx_init" /\ Frame
      /\ UNCHANGED <<todo, bootVars, m_data_received, held, kind, dfu_page_erased>>
  BY DEF dfu_init_pkt_handle, Handling, Frame, flashVars
<1>2. CASE Devices[device].signed
  <2>1. UNCHANGED <<todo, settings, m_update_status, m_settings_store_pending>>
    BY <1>1 DEF bootVars
  <2>2. BeforeInv /\ Shape /\ m_dfu_state' \in States
    BY <1>1, <1>2 DEF IInv, SessionInv, Before, Frame, States
  <2>3. SessionInv'
    BY <1>1, <1>2, <2>1, <2>2 DEF SessionInv, Before, BeforeInv, Frame
  <2>4. Shape'
    BY <1>1, <2>1, <2>2 DEF Shape, Frame
  <2> QED
    BY <1>1, <2>3, <2>4, FrameKeeps
<1>3. CASE ~Devices[device].signed
  <2>1. Active
    BY <1>1, <1>3 DEF Active, Before, Frame
  <2>2. FillingInv
    BY <1>1, <2>1, NotActivated
  <2> QED
    BY <1>1, <1>3, <2>1, <2>2, MovesOn
<1> QED
  BY <1>2, <1>3

LEMMA InitCompleteKeeps ==
  ASSUME IInv, UNCHANGED device, dfu_init_pkt_complete
  PROVE  IInv'
<1>1. /\ m_dfu_state = "rx_init" /\ Frame
      /\ UNCHANGED <<bootVars, m_data_received, held, kind>>
      /\ IF Devices[device].signed THEN Prepare
         ELSE m_dfu_state' = "rx_data" /\ UNCHANGED <<dfu_page_erased, todo>>
  BY DEF dfu_init_pkt_complete, Handling, Frame, flashVars
<1>2. CASE Devices[device].signed
  <2>1. Before /\ Prepare /\ kind' \in {"app", "sd", "bl"}
    BY <1>1, <1>2 DEF Before, IInv, Shape
  <2> QED
    BY <1>1, <2>1, PrepareKeeps
<1>3. CASE ~Devices[device].signed
  <2>1. Active
    BY <1>1, <1>3 DEF Active, Before, Frame
  <2>2. FillingInv
    BY <1>1, <2>1, NotActivated
  <2>3. m_dfu_state' = "rx_data" /\ UNCHANGED <<todo, bootVars, m_data_received, held, kind, dfu_page_erased>>
    BY <1>1, <1>3
  <2> QED
    BY <1>1, <2>1, <2>2, <2>3, MovesOn
<1> QED
  BY <1>2, <1>3

\* No store of data reaches beyond the announced image.
LEMMA DataQueue ==
  ASSUME NEW d \in Chunks, ota \in BOOLEAN, m_data_received \in 0 .. (N - 1),
         held \in Chunks \cup {"blank"}, m_data_received = 0 \/ ota \/ held # "blank"
  PROVE  DataRequests(d) \in Seq(DataReqs)
<1>0. \A p \in Page, c \in Chunks : WriteApp(p, c) \in DataReqs
  BY DEF WriteApp, Req, DataReqs
<1>1. m_data_received \in Page
  BY DEF Page
<1>2. \A r \in DataReqs : <<r>> \in Seq(DataReqs)
  OBVIOUS
<1>3. <<>> \in Seq(DataReqs) /\ \A q1, q2 \in Seq(DataReqs) : q1 \o q2 \in Seq(DataReqs)
  OBVIOUS
<1>4. CASE ota
  <2>1. DataRequests(d) = <<WriteApp(m_data_received, d)>>
    BY <1>4 DEF DataRequests
  <2> QED
    BY <1>0, <1>1, <1>2, <2>1
<1>5. CASE ~ota
  <2> DEFINE q1 == IF m_data_received > 0 THEN <<WriteApp(m_data_received - 1, held)>> ELSE <<>>
             q2 == IF m_data_received + 1 = N THEN <<WriteApp(m_data_received, d)>> ELSE <<>>
  <2>1. DataRequests(d) = q1 \o q2
    BY <1>5 DEF DataRequests
  <2>2. q1 \in Seq(DataReqs)
    <3>1. CASE m_data_received > 0
      <4>1. m_data_received - 1 \in Page /\ held \in Chunks
        BY <1>5, <3>1, PageZero DEF Page
      <4>2. q1 = <<WriteApp(m_data_received - 1, held)>>
        BY <3>1
      <4> QED
        BY <1>0, <1>2, <4>1, <4>2
    <3>2. CASE ~(m_data_received > 0)
      BY <1>3, <3>2
    <3> QED
      BY <3>1, <3>2
  <2>3. q2 \in Seq(DataReqs)
    BY <1>0, <1>1, <1>2, <1>3
  <2> HIDE DEF q1, q2
  <2> QED
    BY <1>3, <2>1, <2>2, <2>3
<1> QED
  BY <1>4, <1>5

LEMMA DataKeeps ==
  ASSUME IInv, UNCHANGED device, NEW d \in Data, dfu_data_pkt_handle(d)
  PROVE  IInv'
<1>1. /\ m_dfu_state = "rx_data" /\ m_data_received < N /\ Frame
      /\ todo' = todo \o DataRequests(d) /\ held' = (IF ota THEN held ELSE d)
      /\ m_data_received' = m_data_received + 1
      /\ UNCHANGED <<settings, m_update_status, m_settings_store_pending, m_dfu_state, kind, dfu_page_erased>>
  BY DEF dfu_data_pkt_handle, DataFits, Handling, Frame, flashVars, bootVars
<1>2. d \in Chunks
  BY DEF Data, Announced, Chunks
<1>3. /\ m_data_received \in 0 .. (N + 1) /\ ota \in BOOLEAN /\ todo \in Seq(Requests)
      /\ held \in Chunks \cup {"blank"} /\ (m_data_received = 0 \/ ota \/ held # "blank")
  BY DEF IInv, Shape
<1>4. m_data_received \in 0 .. (N - 1)
  BY <1>1, <1>3, PageZero
<1>5. DataRequests(d) \in Seq(DataReqs)
  BY <1>2, <1>3, <1>4, DataQueue
<1>6. Active
  BY <1>1 DEF Active, Before, Frame
<1>7. FillingInv
  BY <1>1, <1>6, NotActivated
<1>8. FillingInv'
  <2>1. PICK k \in 0 .. 3 :
          /\ ErasedQueue(todo, ota, k) /\ Recorded(rec, settings, k)
          /\ k = 3 => ~InProgress(rec)
          /\ k > 0 => app[0] = "blank" /\ m_dfu_state # "wait_activate"
    BY <1>7 DEF FillingInv
  <2>2. ErasedQueue(todo', ota', k)
    BY <1>1, <1>3, <1>5, <2>1, ErasedAppend DEF Frame
  <2> QED
    BY <1>1, <1>7, <2>1, <2>2 DEF FillingInv, Frame
<1>9. SessionInv'
  <2>1. ~Before' /\ m_dfu_state' # "preparing" /\ ValidatedInv' /\ dfu_page_erased'[0]
    BY <1>1, <1>6, ActiveFacts DEF Before, ValidatedInv
  <2> QED
    BY <1>8, <2>1 DEF SessionInv
<1>10. Shape'
  <2>1. todo' \in Seq(Requests)
    <3>1. DataReqs \subseteq Requests
      BY DEF Requests
    <3>2. DataRequests(d) \in Seq(Requests)
      BY <1>5, <3>1
    <3> QED
      BY <1>1, <1>3, <3>2
  <2>2. m_data_received' \in 0 .. (N + 1)
    BY <1>1, <1>4, PageZero
  <2>3. held' \in Chunks \cup {"blank"} /\ (ota' \/ held' # "blank")
    BY <1>1, <1>2, <1>3 DEF Chunks, Frame
  <2>4. Shape
    BY DEF IInv
  <2> QED
    BY <1>1, <2>1, <2>2, <2>3, <2>4 DEF Shape, Frame
<1> QED
  BY <1>1, <1>9, <1>10, FrameKeeps

\* An image is accepted only when the record of the erased bank is all in flash: until
\* then its first page is erased.
LEMMA AcceptedAfterMark ==
  ASSUME IInv, FillingInv, m_dfu_state = "wait_activate" \/ ImageIs(Announced)
  PROVE  ErasedQueue(todo, ota, 0) /\ rec = Same(settings)
<1>1. PICK k \in 0 .. 3 :
        /\ ErasedQueue(todo, ota, k) /\ Recorded(rec, settings, k)
        /\ k > 0 => app[0] = "blank" /\ m_dfu_state # "wait_activate"
  BY DEF FillingInv
<1>2. ImageIs(Announced) => app[0] # "blank"
  BY PageZero DEF ImageIs, Announced
<1>3. k = 0
  BY <1>1, <1>2
<1> QED
  BY <1>1, <1>3 DEF Recorded

LEMMA AllData ==
  ASSUME NEW q, NEW o, ErasedQueue(q, o, 0)
  PROVE  \A i \in 1 .. Len(q) : q[i] \in DataReqs
<1>1. \A i \in 1 .. Len(q) : ~(i <= 0)
  OBVIOUS
<1> QED
  BY <1>1 DEF ErasedQueue

\* The activation.
LEMMA ActivateKeeps ==
  ASSUME IInv, Frame, SaveComplete, ErasedRec(settings), rec = Same(settings),
         ErasedQueue(todo, ota, 0), dfu_page_erased[0],
         m_dfu_state' = "wait_activate", ota => m_tear_down_in_progress',
         UNCHANGED <<m_data_received, held, kind, dfu_page_erased>>,
         Patient(Faults) => /\ Holds(app, AnnouncedBy(kind))
                            /\ \A i \in 1 .. Len(todo) : todo[i] \notin DataReqs
  PROVE  IInv'
<1>0. /\ run = "dfu" /\ UNCHANGED <<app, rec, run, ota, device, m_data_received, held, kind, dfu_page_erased>>
      /\ ota \in BOOLEAN /\ todo \in Seq(Requests) /\ kind \in {"app", "sd", "bl"}
  BY DEF Frame, IInv, Shape
<1>1. Unbootable(rec)
  BY FilledUnbootable
<1>2. settings' = CompleteOf(kind)
  <2>1. settings' = CompleteRecord
    BY DEF SaveComplete, Save
  <2>2. integrity_valid
    <3>1. rec.seal = settings /\ rec = [geo |-> settings, seal |-> settings, w0 |-> settings, w1 |-> settings]
      BY DEF Same
    <3>2. settings # Torn
      BY DEF ErasedRec, Torn, Rec
    <3>3. \A f \in DOMAIN rec : rec[f] = settings
      BY <3>1
    <3> QED
      BY <3>1, <3>2, <3>3 DEF integrity_valid
  <2>3. Bank0 = "invalid" /\ Crc0 = "zero"
    BY <2>2 DEF Bank0, Crc0, Same, ErasedRec
  <2> QED
    BY <2>1, <2>3 DEF CompleteRecord, CompleteOf
<1>3. todo' = todo \o SaveQueue(ota)
  BY <1>0, SaveRequestsAre DEF SaveComplete, Save
<1>4. \A i \in 1 .. Len(todo) : todo[i] \in DataReqs
  BY AllData
<1>5. /\ DoneQueue(todo', ota) /\ todo' \in Seq(Requests) /\ Len(todo') = Len(todo) + 3
      /\ \A i \in 1 .. Len(todo) : todo'[i] = todo[i]
  BY <1>0, <1>3, <1>4, DoneAppend
<1>6. Len(todo') >= 3 /\ todo' # <<>> /\ Len(todo') >= 2 /\ Len(todo) \in Nat
  <2>1. Len(todo) \in Nat
    BY <1>0
  <2>2. Len(todo') >= 3 /\ Len(todo') >= 2 /\ Len(todo') # 0
    BY <1>5, <2>1
  <2> QED
    BY <2>1, <2>2
<1>7. m_update_status' = "saving" /\ m_settings_store_pending' = (IF ota THEN 2 ELSE 1)
  BY DEF SaveComplete, Save, Fragments
<1>8. FinishingInv'
  <2>1. m_settings_store_pending' = (IF ota' /\ Len(todo') >= 2 THEN 2 ELSE 1)
    BY <1>0, <1>6, <1>7
  <2>2. /\ m_dfu_state' = "wait_activate" /\ settings' = CompleteOf(kind') /\ (ota' => m_tear_down_in_progress')
        /\ DoneQueue(todo', ota') /\ Unbootable(rec')
    BY <1>0, <1>1, <1>2, <1>5
  <2> QED
    BY <1>6, <1>7, <2>1, <2>2 DEF FinishingInv
<1>9. ValidatedInv'
  <2>1. Faults' = Faults
    BY <1>0 DEF Faults
  <2>2. Patient(Faults) => \A i \in 1 .. Len(todo') : todo'[i] \notin DataReqs
    <3> SUFFICES ASSUME Patient(Faults), NEW i \in 1 .. Len(todo') PROVE todo'[i] \notin DataReqs
      OBVIOUS
    <3>1. CASE i <= Len(todo)
      <4>1. i \in 1 .. Len(todo)
        BY <1>6, <3>1
      <4> QED
        BY <1>5, <4>1
    <3>2. CASE ~(i <= Len(todo))
      <4>1. ~(i <= Len(todo') - 3) /\ 3 - Len(todo') + i \in 1 .. 3
        BY <1>5, <1>6, <3>2
      <4>2. todo'[i] = SaveReq(ota, 3 - Len(todo') + i)
        BY <1>5, <4>1 DEF DoneQueue
      <4> QED
        BY <4>1, <4>2, SaveReqFacts
    <3> QED
      BY <3>1, <3>2
  <2> QED
    BY <1>0, <2>1, <2>2 DEF ValidatedInv
<1>10. SessionInv'
  <2>1. ~Before' /\ m_dfu_state' # "preparing" /\ dfu_page_erased'[0]
    BY <1>0 DEF Before
  <2> QED
    BY <1>8, <1>9, <2>1 DEF SessionInv
<1>11. Shape'
  <2>1. OkRec(settings') /\ m_dfu_state' \in States /\ m_settings_store_pending' \in 0 .. 2
    BY <1>2, <1>7 DEF OkRec, CompleteOf, Rec, States
  <2>2. Shape
    BY DEF IInv
  <2> QED
    BY <1>0, <1>5, <2>1, <2>2 DEF Shape
<1> QED
  BY <1>10, <1>11, FrameKeeps

LEMMA ValidateKeeps ==
  ASSUME IInv, UNCHANGED device, dfu_image_validate
  PROVE  IInv'
<1>1. /\ m_dfu_state = "rx_data" /\ Frame /\ m_dfu_state' = ValidatedState
      /\ "early_validate" \in Faults \/ ~DataQueued
      /\ UNCHANGED <<todo, bootVars, m_data_received, held, kind, dfu_page_erased>>
  BY DEF dfu_image_validate, Handling, Frame, flashVars, Faults
<1>2. Active
  BY <1>1 DEF Active, Before, Frame
<1>3. FillingInv
  BY <1>1, <1>2, NotActivated
<1>4. CASE ValidatedState = "validate"
  BY <1>1, <1>2, <1>3, <1>4, MovesOn
<1>5. CASE ValidatedState # "validate"
  <2>1. m_dfu_state' = "wait_activate" /\ ImageIs(Announced)
    BY <1>1, <1>5 DEF ValidatedState
  <2>2. ErasedQueue(todo, ota, 0) /\ rec = Same(settings)
    BY <1>3, <2>1, AcceptedAfterMark
  <2>3. /\ UNCHANGED <<todo, settings, m_update_status, m_settings_store_pending>>
        /\ UNCHANGED <<m_data_received, held, kind, dfu_page_erased, app, rec, run, ota, device>>
    BY <1>1 DEF bootVars, Frame
  <2>4. FillingInv'
    <3>1. Recorded(rec, settings, 0)
      BY <2>2 DEF Recorded
    <3>2. ErasedQueue(todo', ota', 0) /\ Recorded(rec', settings', 0) /\ 0 \in 0 .. 3
      BY <2>2, <2>3, <3>1
    <3>3. ErasedRec(settings') /\ m_update_status' \notin {"saving", "complete"}
      BY <1>3, <2>3 DEF FillingInv
    <3> QED
      BY <3>2, <3>3 DEF FillingInv
  <2>5. ValidatedInv'
    <3>1. Holds(app', AnnouncedBy(kind')) /\ Faults' = Faults
      BY <2>1, <2>3 DEF ImageIs, Holds, Announced, AnnouncedBy, Faults
    <3>2. Patient(Faults) => \A i \in 1 .. Len(todo) : todo[i] \notin DataReqs
      BY <1>1 DEF Patient, DataQueued, DataReqs
    <3> QED
      BY <2>3, <3>1, <3>2 DEF ValidatedInv
  <2>6. SessionInv'
    <3>1. ~Before' /\ m_dfu_state' # "preparing" /\ dfu_page_erased'[0]
      BY <1>2, <2>1, <2>3, ActiveFacts DEF Before
    <3> QED
      BY <2>4, <2>5, <3>1 DEF SessionInv
  <2>7. Shape'
    <3>1. Shape /\ m_dfu_state' \in States
      BY <2>1 DEF IInv, States
    <3> QED
      BY <2>3, <3>1 DEF Shape
  <2> QED
    BY <1>1, <2>6, <2>7, FrameKeeps
<1> QED
  BY <1>4, <1>5

\* The link is closed once: an update is activated once.
LEMMA ActivateHandlerKeeps ==
  ASSUME IInv, UNCHANGED device, dfu_image_activate
  PROVE  IInv'
<1>1. /\ m_dfu_state = "wait_activate" /\ m_dfu_state' = "wait_activate" /\ Frame /\ SaveComplete /\ ota
      /\ ~m_tear_down_in_progress /\ m_tear_down_in_progress'
      /\ UNCHANGED <<m_data_received, held, kind, dfu_page_erased>>
  BY DEF dfu_image_activate, dfu_transport_ble_close, Handling, Frame, flashVars
<1>2. Active
  BY <1>1 DEF Active, Before, Frame
<1>3. FillingInv /\ ValidatedInv /\ dfu_page_erased[0]
  BY <1>1, <1>2, ActiveFacts DEF FinishingInv
<1>4. ErasedQueue(todo, ota, 0) /\ rec = Same(settings) /\ ErasedRec(settings)
  BY <1>1, <1>3, AcceptedAfterMark DEF FillingInv
<1>5. Patient(Faults) => /\ Holds(app, AnnouncedBy(kind))
                         /\ \A i \in 1 .. Len(todo) : todo[i] \notin DataReqs
  BY <1>1, <1>3 DEF ValidatedInv
<1> QED
  BY <1>1, <1>3, <1>4, <1>5, ActivateKeeps

LEMMA StopDataKeeps ==
  ASSUME IInv, UNCHANGED device, StopData
  PROVE  IInv'
<1>1. /\ m_dfu_state = "rx_data" /\ Frame /\ ~ota /\ todo = <<>> /\ m_dfu_state' = ValidatedState
      /\ UNCHANGED <<m_data_received, held, kind, dfu_page_erased>>
      /\ ValidatedState = "wait_activate" => SaveComplete
      /\ ValidatedState # "wait_activate" => UNCHANGED <<todo, bootVars>>
  BY DEF StopData, Handling, Frame, flashVars
<1>2. Active
  BY <1>1 DEF Active, Before, Frame
<1>3. FillingInv /\ dfu_page_erased[0]
  BY <1>1, <1>2, NotActivated, ActiveFacts
<1>4. CASE ValidatedState = "validate"
  BY <1>1, <1>2, <1>3, <1>4, MovesOn
<1>5. CASE ValidatedState # "validate"
  <2>1. m_dfu_state' = "wait_activate" /\ ImageIs(Announced) /\ SaveComplete
    BY <1>1, <1>5 DEF ValidatedState
  <2>2. ErasedQueue(todo, ota, 0) /\ rec = Same(settings) /\ ErasedRec(settings)
    BY <1>3, <2>1, AcceptedAfterMark DEF FillingInv
  <2>3. Holds(app, AnnouncedBy(kind)) /\ \A i \in 1 .. Len(todo) : todo[i] \notin DataReqs
    BY <1>1, <2>1 DEF ImageIs, Holds, Announced, AnnouncedBy
  <2> QED
    BY <1>1, <1>3, <2>1, <2>2, <2>3, ActivateKeeps
<1> QED
  BY <1>4, <1>5

-----------------------------------------------------------------------------
(* Boot, resets and the end of DFU. *)

\* RAM after a reset.
LEMMA ResetKeeps ==
  ASSUME IInv, ResetRam, UNCHANGED device, run' \in {"boot", "app"},
         app' \in [Page -> Contents], RecordShape(rec'), Safe(Faults, app', rec'),
         BootsOnlyCompleteImage'
  PROVE  IInv'
<1>1. /\ ota' = FALSE /\ settings' = Blank /\ todo' = <<>> /\ m_dfu_state' = "idle"
      /\ m_data_received' = 0 /\ held' = "blank" /\ kind' = "app"
      /\ dfu_page_erased' = [p \in Page |-> FALSE] /\ m_update_status' = "updating"
      /\ m_settings_store_pending' = 0
  BY DEF ResetRam
<1>2. Shape'
  <2>1. OkRec(settings')
    BY <1>1 DEF OkRec, Blank, Rec
  <2>2. todo' \in Seq(Requests) /\ m_data_received' \in 0 .. (N + 1) /\ m_settings_store_pending' \in 0 .. 2
    BY <1>1, PageZero
  <2>3. m_dfu_state' \in States /\ kind' \in {"app", "sd", "bl"} /\ dfu_page_erased' \in [Page -> BOOLEAN]
    BY <1>1 DEF States
  <2>4. device' \in DOMAIN Devices
    BY DEF IInv, Shape
  <2> QED
    BY <1>1, <2>1, <2>2, <2>3, <2>4 DEF Shape
<1>3. RestInv'
  BY <1>1 DEF RestInv
<1>4. Faults' = Faults
  BY DEF Faults
<1> QED
  BY <1>2, <1>3, <1>4 DEF IInv

\* bootloader_app_is_valid: where the flash may be left as it is, what it accepts is whole.
LEMMA ValidIsWhole ==
  ASSUME IInv, bootloader_app_is_valid, Checked \/ Benign(Faults)
  PROVE  Complete
<1>1. Safe(Faults, app, rec) /\ OkRec(rec.w0) /\ app \in [Page -> Contents]
  BY DEF IInv, Shape, RecordShape
<1>2. ASSUME Benign(Faults), Unmarked(rec) PROVE Complete
  <2>1. Vector(app)
    BY <1>2 DEF bootloader_app_is_valid, VectorValid, Vector, Benign, Faults
  <2>2. Holds(app, "old") \/ Holds(app, "app")
    BY <1>1, <1>2, <2>1 DEF Safe
  <2> QED
    BY <2>2 DEF Holds, Complete, ImageIs
<1>3. CASE Unmarked(rec)
  <2>1. ~Checked
    BY <1>3 DEF Unmarked, Checked, IsLegacy
  <2> QED
    BY <1>2, <1>3, <2>1
<1>4. CASE ~Unmarked(rec)
  <2>1. rec.w0.bank_0 = "app" /\ ImageIs(rec.w0.crc)
    BY <1>4 DEF bootloader_app_is_valid, Unmarked, IsLegacy
  <2>2. rec.w0.crc \in {"none", "zero", "old", "app"}
    BY <1>1, <2>1 DEF OkRec
  <2>3. rec.w0.crc \in Contents
    BY <1>1, <2>1, PageZero DEF ImageIs
  <2>4. rec.w0.crc \in {"old", "app"}
    BY <2>2, <2>3 DEF Contents
  <2> QED
    BY <2>1, <2>4 DEF Complete
<1> QED
  BY <1>3, <1>4

\* The same of the state it is found in.
LEMMA StartsWhole ==
  ASSUME IInv, bootloader_app_is_valid, UNCHANGED <<app, rec, device>>
  PROVE  BootsOnlyCompleteImage'
<1>1. (Checked' <=> Checked) /\ (Complete' <=> Complete) /\ Faults' = Faults
  BY DEF Checked, IsLegacy, Complete, ImageIs, Faults
<1>2. BootsOnlyCompleteImage' <=> (run' = "app" /\ (Checked' \/ Benign(Faults')) => Complete')
  BY DEF BootsOnlyCompleteImage, Benign, Faults
<1> QED
  BY <1>1, <1>2, ValidIsWhole

LEMMA BootAppKeeps ==
  ASSUME IInv, UNCHANGED device, BootApp
  PROVE  IInv'
<1>1. /\ run = "boot" /\ run' = "app" /\ bootloader_app_is_valid
      /\ UNCHANGED <<app, rec, ota, todo, m_dfu_state, m_data_received, held, kind, dfu_page_erased>>
      /\ UNCHANGED <<settings, m_update_status, m_settings_store_pending, device>>
  BY DEF BootApp, flashVars, dfuVars, bootVars
<1>2. Shape' /\ RestInv'
  BY <1>1 DEF IInv, Shape, RestInv
<1>3. Faults' = Faults /\ Safe(Faults', app', rec')
  BY <1>1 DEF IInv, Faults
<1>4. BootsOnlyCompleteImage'
  BY <1>1, StartsWhole
<1> QED
  BY <1>1, <1>2, <1>3, <1>4 DEF IInv

LEMMA BootDfuKeeps ==
  ASSUME IInv, UNCHANGED device, BootDfu
  PROVE  IInv'
<1>1. /\ run = "boot" /\ run' = "dfu" /\ ~sd_in_progress /\ ota' \in BOOLEAN
      /\ UNCHANGED <<app, rec, todo, m_dfu_state, m_data_received, held, kind, dfu_page_erased>>
      /\ UNCHANGED <<settings, m_update_status, m_settings_store_pending, device>>
  BY DEF BootDfu, flashVars, bootVars
<1>2. todo = <<>> /\ m_dfu_state = "idle" /\ m_data_received = 0 /\ m_update_status = "updating"
  BY <1>1 DEF IInv, RestInv
<1>3. Shape' /\ RestInv'
  BY <1>1, <1>2 DEF IInv, Shape, RestInv
<1>4. Faults' = Faults /\ Safe(Faults', app', rec') /\ BootsOnlyCompleteImage'
  BY <1>1 DEF IInv, Faults, BootsOnlyCompleteImage
<1>5. ~InProgress(rec)
  BY <1>1 DEF sd_in_progress, integrity_valid, IsLegacy, InProgress, Intact
<1>6. SessionInv'
  BY <1>1, <1>2, <1>5 DEF SessionInv, Before, BeforeInv
<1> QED
  BY <1>3, <1>4, <1>6 DEF IInv

LEMMA BootSwapKeeps ==
  ASSUME IInv, UNCHANGED device, BootSwap
  PROVE  IInv'
<1>1. /\ run = "boot" /\ run' = "swap" /\ sd_in_progress /\ settings' = SwappedRecord
      /\ todo' = <<>> \o SaveRequests /\ m_settings_store_pending' = Fragments /\ m_update_status' = "saving"
      /\ UNCHANGED <<app, rec, ota, m_dfu_state, m_data_received, held, kind, dfu_page_erased, device>>
  BY DEF BootSwap, Save, flashVars, dfuVars
<1>2. ota \in BOOLEAN /\ ~ota /\ m_dfu_state = "idle"
  BY <1>1 DEF IInv, RestInv, Shape
<1>3. InProgress(rec)
  BY <1>1 DEF sd_in_progress, integrity_valid, IsLegacy, InProgress, Intact
<1>4. Patient(Faults) => Holds(app, "sys")
  BY <1>3 DEF IInv, Safe
<1>5. todo' = SaveQueue(ota) /\ todo' = <<>> \o SaveQueue(ota)
  <2>1. SaveRequests = SaveQueue(ota) /\ SaveQueue(ota) \in Seq(Requests)
    BY <1>2, SaveRequestsAre, SaveQueueFacts
  <2>2. \A q \in Seq(Requests) : <<>> \o q = q
    OBVIOUS
  <2> QED
    BY <1>1, <2>1, <2>2
<1>6. todo' \in Seq(Requests) /\ Len(todo') = 3
  BY <1>2, <1>5, SaveQueueFacts
<1>7. DoneQueue(todo', ota)
  <2>1. <<>> \in Seq(Requests) /\ \A i \in 1 .. Len(<<>>) : <<>>[i] \in DataReqs
    OBVIOUS
  <2> QED
    BY <1>2, <1>5, <2>1, DoneAppend
<1>8. m_settings_store_pending' = 1
  BY <1>1, <1>2 DEF Fragments
<1>9. Faults' = Faults /\ Safe(Faults', app', rec') /\ BootsOnlyCompleteImage'
  BY <1>1 DEF IInv, Faults, BootsOnlyCompleteImage
<1>10. RestInv'
  <2>1. Len(todo') <= 3 /\ todo' # <<>> /\ Recorded(rec', settings', Len(todo'))
    BY <1>6 DEF Recorded
  <2> QED
    BY <1>1, <1>2, <1>4, <1>7, <1>8, <1>9, <2>1 DEF RestInv
<1>11. OkRec(settings')
  <2>1. OkRec(rec.w0)
    BY DEF IInv, Shape, RecordShape
  <2> QED
    BY <1>1, <2>1 DEF SwappedRecord, Bank0, Crc0, Rec, OkRec
<1>12. Shape'
  <2>1. Shape
    BY DEF IInv
  <2>2. m_settings_store_pending' \in 0 .. 2
    BY <1>8
  <2> QED
    BY <1>1, <1>6, <1>11, <2>1, <2>2 DEF Shape
<1> QED
  BY <1>1, <1>9, <1>10, <1>12 DEF IInv

LEMMA ResetsKeep ==
  ASSUME IInv, UNCHANGED device, SwapDone \/ PowerLoss \/ MainAfterDfu
  PROVE  IInv'
<1>0. app \in [Page -> Contents] /\ RecordShape(rec) /\ Safe(Faults, app, rec)
  BY DEF IInv, Shape
<1>1. CASE SwapDone
  <2>1. run' = "boot" /\ ResetRam /\ app' = app /\ rec' = rec
    BY <1>1 DEF SwapDone, flashVars
  <2>2. BootsOnlyCompleteImage'
    BY <2>1 DEF BootsOnlyCompleteImage
  <2> QED
    BY <1>0, <2>1, <2>2, ResetKeeps
<1>2. CASE PowerLoss
  <2>1. run' = "boot" /\ ResetRam /\ Cut
    BY <1>2 DEF PowerLoss
  <2>2. BootsOnlyCompleteImage'
    BY <2>1 DEF BootsOnlyCompleteImage
  <2> QED
    BY <2>1, <2>2, CutSafe, ResetKeeps
<1>3. CASE MainAfterDfu
  <2>1. /\ run' \in {"boot", "app"} /\ ResetRam /\ app' = app /\ rec' = rec
        /\ run' = "app" => bootloader_app_is_valid
    BY <1>3 DEF MainAfterDfu, flashVars, ExitStartsApp
  <2>2. BootsOnlyCompleteImage'
    <3>1. CASE run' = "app"
      BY <2>1, <3>1, StartsWhole
    <3>2. CASE run' # "app"
      BY <3>2 DEF BootsOnlyCompleteImage
    <3> QED
      BY <3>1, <3>2
  <2> QED
    BY <1>0, <2>1, <2>2, ResetKeeps
<1> QED
  BY <1>1, <1>2, <1>3

LEMMA LeaveDfuKeeps ==
  ASSUME IInv, UNCHANGED device, LeaveDfu
  PROVE  IInv'
<1>1. /\ run = "dfu" /\ run' = "exit" /\ Cut /\ todo' = <<>>
      /\ UNCHANGED <<ota, m_dfu_state, m_data_received, held, kind, dfu_page_erased>>
      /\ UNCHANGED <<settings, m_update_status, m_settings_store_pending, device>>
  BY DEF LeaveDfu, Handling, dfuVars, bootVars
<1>2. /\ Safe(Faults, app', rec') /\ app' \in [Page -> Contents] /\ RecordShape(rec')
      /\ todo = <<>> => app' = app /\ rec' = rec
  BY <1>1, CutSafe
<1>3. m_update_status = "complete" => todo = <<>> /\ rec = Same(settings)
  <2> HAVE m_update_status = "complete"
  <2>1. SessionInv
    BY <1>1 DEF IInv
  <2>2. FinishingInv
    BY <2>1 DEF SessionInv, BeforeInv, PreparingInv, FillingInv
  <2>3. todo = <<>> /\ Len(todo) = 0
    BY <2>2 DEF FinishingInv
  <2>4. Recorded(rec, settings, 0)
    BY <2>2, <2>3 DEF FinishingInv
  <2> QED
    BY <2>3, <2>4 DEF Recorded
<1>4. RestInv'
  BY <1>1, <1>2, <1>3 DEF RestInv
<1>5. Shape'
  <2>1. Shape /\ todo' \in Seq(Requests)
    BY <1>1 DEF IInv
  <2> QED
    BY <1>1, <1>2, <2>1 DEF Shape
<1>6. Faults' = Faults /\ BootsOnlyCompleteImage'
  BY <1>1 DEF Faults, BootsOnlyCompleteImage
<1> QED
  BY <1>1, <1>2, <1>4, <1>5, <1>6 DEF IInv

-----------------------------------------------------------------------------
(* The theorems. *)

LEMMA InitInv == Init => IInv
<1> SUFFICES ASSUME Init PROVE IInv
  OBVIOUS
<1>1. PICK d \in Devices[device].InitFlash : app = d.app /\ rec = d.rec
  BY DEF Init
<1>2. device \in DOMAIN Devices
  BY DEF Init
<1>3. PICK content \in {"old", "app", "blank"} : app = [p \in Page |-> content]
  BY <1>1, <1>2, SingleBankConstants
<1>4. rec \in [geo : Records, seal : Records, w0 : Records, w1 : Records]
  BY <1>1, <1>2, SingleBankConstants
<1>5. app \in [Page -> Contents] /\ \A p \in Page : app[p] = content
  BY <1>3 DEF Contents
<1>6. RecordShape(rec)
  <2>1. rec = [geo |-> rec.geo, seal |-> rec.seal, w0 |-> rec.w0, w1 |-> rec.w1] /\ rec.w0 \in Records
    BY <1>4
  <2>2. rec.w0.crc \in {"none", "zero", "old", "app"}
    BY <2>1 DEF Records
  <2> QED
    BY <2>1, <2>2 DEF RecordShape, OkRec
<1>7. ~InProgress(rec)
  <2>1. rec.w0 \in Records /\ rec.geo \in Records
    BY <1>4
  <2>2. rec.w0.bank_0 # "sd" /\ rec.geo.staged # "bl"
    BY <2>1 DEF Records
  <2> QED
    BY <2>2 DEF InProgress
<1>8. Safe(Faults, app, rec)
  <2>1. Vector(app) => content \in {"old", "app"}
    BY <1>5, PageZero DEF Vector
  <2>2. Vector(app) => Holds(app, "old") \/ Holds(app, "app")
    BY <1>5, <2>1 DEF Holds
  <2> QED
    BY <1>7, <2>2 DEF Safe
<1>9. /\ run = "boot" /\ ota = FALSE /\ settings = Blank /\ todo = <<>> /\ m_dfu_state = "idle"
      /\ m_data_received = 0 /\ held = "blank" /\ kind = "app"
      /\ dfu_page_erased = [p \in Page |-> FALSE] /\ m_update_status = "updating"
      /\ m_settings_store_pending = 0
  BY DEF Init
<1>10. Shape
  <2>1. OkRec(settings)
    BY <1>9 DEF OkRec, Blank, Rec
  <2>2. todo \in Seq(Requests) /\ m_data_received \in 0 .. (N + 1) /\ m_settings_store_pending \in 0 .. 2
    BY <1>9, PageZero
  <2>3. m_dfu_state \in States /\ kind \in {"app", "sd", "bl"} /\ dfu_page_erased \in [Page -> BOOLEAN]
    BY <1>9 DEF States
  <2> QED
    BY <1>2, <1>5, <1>6, <1>9, <2>1, <2>2, <2>3 DEF Shape
<1>11. RestInv /\ BootsOnlyCompleteImage
  BY <1>9 DEF RestInv, BootsOnlyCompleteImage
<1> QED
  BY <1>8, <1>9, <1>10, <1>11 DEF IInv

LEMMA NextKeeps ==
  ASSUME IInv, [Next]_vars
  PROVE  IInv'
<1>1. CASE UNCHANGED vars
  <2>1. /\ UNCHANGED <<device, app, rec, run, ota, todo, m_dfu_state, m_data_received, held, kind>>
        /\ UNCHANGED <<dfu_page_erased, m_tear_down_in_progress, settings, m_update_status>>
        /\ UNCHANGED m_settings_store_pending
    BY <1>1 DEF vars, flashVars, dfuVars, bootVars
  <2>2. Shape' /\ Faults' = Faults /\ Safe(Faults', app', rec') /\ RestInv'
    BY <2>1 DEF IInv, Shape, Faults, RestInv
  <2>3. BootsOnlyCompleteImage'
    BY <2>1 DEF IInv, BootsOnlyCompleteImage, Checked, IsLegacy, Complete, ImageIs
  <2>4. run' = "dfu" => SessionInv'
    BY <2>1, <2>2 DEF IInv, SessionInv, Before, BeforeInv, PreparingInv, ValidatedInv, FillingInv, FinishingInv
  <2> QED
    BY <2>2, <2>3, <2>4 DEF IInv
<1>2. CASE Next
  <2>1. device' = device /\ Step
    BY <1>2 DEF Next
  <2>2. CASE \E k \in Devices[device].kinds : dfu_start_pkt_handle(k)
    BY <2>1, <2>2, StartKeeps
  <2>3. CASE \E d \in Data : dfu_data_pkt_handle(d)
    BY <2>1, <2>3, DataKeeps
  <2>4. CASE BootSwap \/ BootDfu \/ BootApp \/ LeaveDfu
    BY <2>1, <2>4, BootSwapKeeps, BootDfuKeeps, BootAppKeeps, LeaveDfuKeeps
  <2>5. CASE SwapDone \/ PowerLoss \/ MainAfterDfu
    BY <2>1, <2>5, ResetsKeep
  <2>6. CASE DataOverflow \/ dfu_reset \/ TimerFires \/ dfu_timeout_handler \/ OtherTimeout
    BY <2>1, <2>6, AsideHandlers
  <2>7. CASE dfu_init_pkt_handle \/ dfu_init_pkt_complete
    BY <2>1, <2>7, InitKeeps, InitCompleteKeeps
  <2>8. CASE dfu_image_validate \/ dfu_image_activate \/ StopData
    BY <2>1, <2>8, ValidateKeeps, ActivateHandlerKeeps, StopDataKeeps
  <2>9. CASE Flash
    BY <2>1, <2>9, LazyEraseKeeps, FlashDoneKeeps DEF Flash
  <2> QED
    BY <2>1, <2>2, <2>3, <2>4, <2>5, <2>6, <2>7, <2>8, <2>9 DEF Step
<1> QED
  BY <1>1, <1>2

\* The inductive invariant: in every reachable state the flash is one that a reset may
\* leave, and the session, the queue and the record agree on how far the update is.
THEOREM Invariance == Spec => []IInv
<1>1. Init => IInv
  BY InitInv
<1>2. IInv /\ [Next]_vars => IInv'
  BY NextKeeps
<1> QED
  BY <1>1, <1>2, PTL DEF Spec

\* Types: no request of a session reaches beyond the image its start packet announced
\* (the bound of dfu_data_pkt_handle), in whatever order packets come.
THEOREM TypeCorrect == Spec => []TypeOK
<1>1. IInv => TypeOK
  <2> SUFFICES ASSUME IInv PROVE TypeOK
    OBVIOUS
  <2>1. Shape
    BY DEF IInv
  <2>2. \A i \in 1 .. Len(todo) : todo[i].p \in Page
    <3> TAKE i \in 1 .. Len(todo)
    <3>1. todo[i] \in Requests
      BY <2>1 DEF Shape
    <3> QED
      BY <3>1, RequestFacts
  <2>3. m_settings_store_pending \in 0 .. 3
    BY <2>1 DEF Shape
  <2> QED
    BY <2>1, <2>2, <2>3 DEF TypeOK, Shape, Contents, States
<1> QED
  BY <1>1, Invariance, PTL

\* The bootloader starts only a complete application, wherever an update was interrupted
\* by a power loss, a timeout or a reset of the peer, for every size of image, build,
\* initial flash and kind of update (bootloader_app_is_valid, main).
THEOREM AlwaysBootsComplete == Spec => []BootsOnlyCompleteImage
<1>1. IInv => BootsOnlyCompleteImage
  BY DEF IInv
<1> QED
  BY <1>1, Invariance, PTL

\* A SoftDevice or bootloader is copied only from a complete image
\* (bootloader_update_settings_valid, bootloader_settings_save).
THEOREM SwapAlwaysHasImage == Spec => []SwapHasImage
<1>1. IInv => SwapHasImage
  BY DEF IInv, RestInv, SwapHasImage, Patient, Faults, Holds, ImageIs
<1> QED
  BY <1>1, Invariance, PTL

\* BOOTLOADER_COMPLETE means that the record of the update is in flash: the completions
\* of the save of the erased bank are never counted for it
\* (pstorage_callback_handler of bootloader.c).
THEOREM CompleteIsSaved == Spec => []CompleteMeansSaved
<1>1. IInv => CompleteMeansSaved
  <2> SUFFICES ASSUME IInv, m_update_status = "complete" PROVE rec = Same(settings) /\ todo = <<>>
    BY DEF CompleteMeansSaved
  <2>1. run \in {"boot", "dfu", "swap", "exit", "app"} /\ RestInv
    BY DEF IInv, Shape
  <2>2. CASE run = "dfu"
    <3>1. FinishingInv
      BY <2>2 DEF IInv, SessionInv, BeforeInv, PreparingInv, FillingInv
    <3>2. todo = <<>> /\ Len(todo) = 0
      BY <3>1 DEF FinishingInv
    <3>3. Recorded(rec, settings, 0)
      BY <3>1, <3>2 DEF FinishingInv
    <3> QED
      BY <3>2, <3>3 DEF Recorded
  <2>3. CASE run = "swap"
    <3>1. todo = <<>> /\ Len(todo) = 0 /\ Recorded(rec, settings, Len(todo))
      BY <2>1, <2>3 DEF RestInv
    <3> QED
      BY <3>1 DEF Recorded
  <2>4. CASE run = "exit"
    BY <2>1, <2>4 DEF RestInv
  <2>5. CASE run \in {"boot", "app"}
    BY <2>1, <2>5 DEF RestInv
  <2> QED
    BY <2>1, <2>2, <2>3, <2>4, <2>5
<1> QED
  BY <1>1, Invariance, PTL

=============================================================================
